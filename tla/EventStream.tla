------------------------------- MODULE EventStream -------------------------------
(***************************************************************************)
(* The event stream of a node (src/rpc.rs: publish_new_events, events,     *)
(* websocket_loop, aomori_get_events) and the bundled web client that      *)
(* follows it (web/src/main.ts: connectEvents, recoverEvents,              *)
(* refreshEvents, renderEvent).                                            *)
(*                                                                         *)
(* Events are their ids: the node's log is 1 .. latest (LogFollowsHead of  *)
(* Runtime.tla).  The client keeps the cursor lastEvent in localStorage;   *)
(* `shown` is what it has rendered since the cursor was last at zero.  A   *)
(* JavaScript task runs to its end together with the promise callbacks it  *)
(* settles, so a handler and what it starts are one action.                *)
(***************************************************************************)
EXTENDS Naturals, Sequences, FiniteSets, FiniteSetsExt

CONSTANTS
  Capacity,        \* of the broadcast channel (256 in src/main.rs)
  PageSize,        \* limit of aomori_get_events (500)
  MaxPending,      \* MAX_VISIBLE_EVENTS, the recovery buffer (200)
  MaxWire,         \* bound: messages a socket holds before send waits
  MaxEvents,       \* bound: length of the log
  MaxDrops,        \* bound: connections lost
  MaxFails,        \* bound: failed aomori_get_events calls while connected
  MaxReplacements  \* bound: restarts of the node with another world

ASSUME StreamAssumption ==
  /\ {Capacity, PageSize, MaxPending, MaxWire} \subseteq Nat \ {0}
  /\ {MaxEvents, MaxDrops, MaxFails, MaxReplacements} \subseteq Nat

VARIABLES
  latest,     \* id of the last event of the node's log
  rx,         \* id the socket's broadcast receiver delivers next
  wire,       \* messages on their way to the client's socket
  socket,     \* state.socket: none, connecting, accepted, open or closing
  lastEvent,  \* state.lastEvent, the persisted cursor
  shown,      \* the ids rendered
  recovery,   \* state.recoveringEvents and the refreshEvents loop behind it
  waiting,    \* recoverOnOpen of the current socket awaits that recovery
  pending,    \* state.pendingEvents
  overflow,   \* state.pendingEventsOverflow
  drops, fails, replacements,
  exposed     \* history: one of the situations NoGapOtherwise excepts occurred

node   == <<latest, rx, wire>>
client == <<lastEvent, shown, recovery, waiting, pending, overflow>>
count  == <<drops, fails, replacements, exposed>>
vars   == <<node, socket, client, count>>

Lag == 0    \* the control message event_stream_lagged; event ids are positive
SocketState == {"none", "connecting", "accepted", "open", "closing"}

NoRecovery == [stage |-> "none", since |-> 0, reset |-> FALSE, upto |-> 0, latest |-> 0]
Asked(since, reset) ==
  [stage |-> "asked", since |-> since, reset |-> reset, upto |-> 0, latest |-> 0]
Recovering == recovery.stage # "none"

Id == 0 .. MaxEvents

TypeOK ==
  /\ latest \in Id /\ rx \in 1 .. MaxEvents + 1
  /\ wire \in Seq(Id) /\ Len(wire) <= MaxWire
  /\ socket \in SocketState
  /\ lastEvent \in Id /\ shown \subseteq 1 .. MaxEvents
  /\ recovery \in [stage : {"none", "asked", "replied"}, since : Id, reset : BOOLEAN,
                   upto : Id, latest : Id]
  /\ waiting \in BOOLEAN /\ overflow \in BOOLEAN
  /\ pending \in Seq(1 .. MaxEvents) /\ Len(pending) <= MaxPending
  /\ drops \in 0 .. MaxDrops /\ fails \in 0 .. MaxFails
  /\ replacements \in 0 .. MaxReplacements /\ exposed \in BOOLEAN

Init ==
  /\ latest = 0 /\ rx = 1 /\ wire = <<>> /\ socket = "none"
  /\ lastEvent = 0 /\ shown = {} /\ recovery = NoRecovery /\ waiting = FALSE
  /\ pending = <<>> /\ overflow = FALSE
  /\ drops = 0 /\ fails = 0 /\ replacements = 0 /\ exposed = FALSE

----------------------------------------------------------------------------
(* The node. *)

(* A commit appends events and sends them under the lock. *)
Publish(n) ==
  /\ latest + n <= MaxEvents
  /\ latest' = latest + n
  /\ UNCHANGED <<rx, wire, socket, client, count>>

Subscribe ==
  /\ socket = "connecting"
  /\ socket' = "accepted"
  /\ rx' = latest + 1
  /\ UNCHANGED <<latest, wire, client, count>>

(* External: the broadcast channel has dropped what the receiver had still *)
(* to read; it goes on with the oldest event the channel holds.            *)
Lagged == latest + 1 - rx > Capacity
Oldest == latest + 1 - Capacity

(* websocket_loop sends the next event, or the control message.            *)
Send ==
  /\ socket \in {"accepted", "open"}
  /\ rx <= latest /\ Len(wire) < MaxWire
  /\ IF Lagged THEN rx' = Oldest /\ wire' = Append(wire, Lag)
               ELSE rx' = rx + 1 /\ wire' = Append(wire, rx)
  /\ UNCHANGED <<latest, socket, client, count>>

(* aomori_get_events: a page of the log after the cursor asked for.        *)
Reply ==
  /\ recovery.stage = "asked"
  /\ LET page == {id \in 1 .. latest : id > recovery.since /\ id <= recovery.since + PageSize}
     IN recovery' = [recovery EXCEPT !.stage = "replied", !.latest = latest,
                                     !.upto = Max({recovery.since} \cup page)]
  /\ UNCHANGED <<node, socket, lastEvent, shown, waiting, pending, overflow, count>>

----------------------------------------------------------------------------
(* The client: recovery. *)

(* renderEvent on each of a queue: an id not above the cursor is skipped.  *)
Rendered(cursor, queue) ==
  {queue[i] : i \in {k \in DOMAIN queue : /\ queue[k] > cursor
                                          /\ \A j \in 1 .. k - 1 : queue[j] < queue[k]}}

(* Mutant: what a full buffer could not hold is forgotten. *)
FlushesAnyway(ok) == ~ok /\ pending # <<>>

(* The socket is given up for a new connection, which recovers afresh. *)
GivesUp(ok) == overflow \/ (~ok /\ pending # <<>>)

(* Mutant: an overflow is remembered into the next recovery. *)
EmptyBufferOnly == pending' = <<>> /\ UNCHANGED overflow

ReleaseBuffer == pending' = <<>> /\ overflow' = FALSE

(***************************************************************************)
(* The finally clause of recoverEvents, with the cursor and the rendered   *)
(* ids refreshEvents leaves, and then the recovery that recoverOnOpen of   *)
(* the current socket was waiting to start.                                *)
(***************************************************************************)
EndRecovery(ok, cursor, seen) ==
  LET flushed == IF GivesUp(ok) THEN {} ELSE Rendered(cursor, pending)
  IN /\ lastEvent' = Max({cursor} \cup flushed)
     /\ shown' = seen \cup flushed
     /\ ReleaseBuffer
     /\ IF GivesUp(ok) /\ socket # "none"
        THEN socket' = "closing" /\ wire' = <<>>
        ELSE UNCHANGED <<socket, wire>>
     /\ recovery' = IF waiting THEN Asked(lastEvent', FALSE) ELSE NoRecovery
     /\ waiting' = FALSE

(* Mutant: a cursor at the end of the log is taken to be ahead of it. *)
AheadOrAtEnd == ~recovery.reset /\ recovery.since >= recovery.latest

(* The cursor is ahead of the log, which must be that of another world. *)
StaleCursor == ~recovery.reset /\ recovery.since > recovery.latest

(* The other world is replayed from zero. *)
ResetCursor ==
  /\ recovery.stage = "replied" /\ StaleCursor
  /\ lastEvent' = 0 /\ shown' = {}
  /\ recovery' = Asked(0, TRUE)
  /\ UNCHANGED <<node, socket, waiting, pending, overflow, count>>

NewIds == {id \in recovery.since + 1 .. recovery.upto : id > lastEvent}
FullPage == recovery.upto - recovery.since = PageSize

RenderPage ==
  /\ recovery.stage = "replied" /\ ~StaleCursor
  /\ LET cursor == Max({lastEvent} \cup NewIds)
         seen   == shown \cup NewIds
     IN IF FullPage
        THEN /\ lastEvent' = cursor /\ shown' = seen
             /\ recovery' = Asked(recovery.upto, recovery.reset)
             /\ UNCHANGED <<socket, wire, waiting, pending, overflow>>
        ELSE EndRecovery(TRUE, cursor, seen)
  /\ UNCHANGED <<latest, rx, count>>

(* The call fails, as it does when the node cannot be reached. *)
CallFails ==
  /\ recovery.stage = "asked"
  /\ IF socket = "none" THEN UNCHANGED fails
     ELSE fails < MaxFails /\ fails' = fails + 1
  /\ exposed' = (exposed \/ (socket = "open" /\ ~waiting /\ ~GivesUp(FALSE)))
  /\ EndRecovery(FALSE, lastEvent, shown)
  /\ UNCHANGED <<latest, rx, drops, replacements>>

(* recoverEvents: one recovery at a time. *)
RecoverEvents ==
  IF Recovering THEN UNCHANGED recovery ELSE recovery' = Asked(lastEvent, FALSE)

----------------------------------------------------------------------------
(* The client: the socket. *)

Connect ==
  /\ socket = "none"
  /\ socket' = "connecting" /\ wire' = <<>>
  /\ UNCHANGED <<latest, rx, client, count>>

(* Mutant: a new connection does not look for what it missed. *)
OpenedOnly == UNCHANGED <<recovery, waiting>>

(* recoverOnOpen *)
Opened ==
  IF Recovering THEN waiting' = TRUE /\ UNCHANGED recovery
                ELSE RecoverEvents /\ UNCHANGED waiting

OnOpen ==
  /\ socket = "accepted"
  /\ socket' = "open"
  /\ Opened
  /\ UNCHANGED <<node, lastEvent, shown, pending, overflow, count>>

OnLag ==
  /\ socket = "open" /\ wire # <<>> /\ Head(wire) = Lag
  /\ wire' = Tail(wire)
  /\ RecoverEvents
  /\ exposed' = (exposed \/ recovery.stage = "replied")
  /\ UNCHANGED <<latest, rx, socket, lastEvent, shown, waiting, pending, overflow,
                 drops, fails, replacements>>

(* Mutant: the buffer takes one event more than the page shows. *)
HasRoomAtLimit == Len(pending) <= MaxPending

HasRoom == Len(pending) < MaxPending

OnEvent ==
  /\ socket = "open" /\ wire # <<>> /\ Head(wire) # Lag
  /\ wire' = Tail(wire)
  /\ IF Recovering
     THEN /\ IF HasRoom
             THEN pending' = Append(pending, Head(wire)) /\ UNCHANGED overflow
             ELSE overflow' = TRUE /\ UNCHANGED pending
          /\ UNCHANGED <<lastEvent, shown>>
     ELSE /\ lastEvent' = Max({lastEvent, Head(wire)})
          /\ shown' = shown \cup Rendered(lastEvent, <<Head(wire)>>)
          /\ UNCHANGED <<pending, overflow>>
  /\ UNCHANGED <<latest, rx, socket, recovery, waiting, count>>

(* onclose: what the recovery and its buffer hold stays. *)
OnClose ==
  /\ socket' = "none" /\ wire' = <<>> /\ waiting' = FALSE
  /\ UNCHANGED <<lastEvent, shown, recovery, pending, overflow>>

Closed ==
  /\ socket = "closing"
  /\ OnClose
  /\ UNCHANGED <<latest, rx, count>>

Drop ==
  /\ socket \in {"connecting", "accepted", "open"}
  /\ drops < MaxDrops /\ drops' = drops + 1
  /\ exposed' = (exposed \/ Recovering)
  /\ OnClose
  /\ UNCHANGED <<latest, rx, fails, replacements>>

(* The node restarts with another world, of any length: a restored backup  *)
(* or a new data directory.                                                *)
Replace(n) ==
  /\ replacements < MaxReplacements /\ replacements' = replacements + 1
  /\ latest' = n /\ rx' = n + 1
  /\ exposed' = TRUE
  /\ OnClose
  /\ UNCHANGED <<drops, fails>>

----------------------------------------------------------------------------
Client == Connect \/ OnOpen \/ OnLag \/ OnEvent \/ Closed \/ ResetCursor \/ RenderPage

Next ==
  \/ \E n \in 1 .. 2 : Publish(n)
  \/ Subscribe \/ Send \/ Reply
  \/ Client
  \/ CallFails \/ Drop \/ \E n \in Id : Replace(n)

Spec == Init /\ [][Next]_vars

(* The event loop, the reconnect timer, the server's task and the network  *)
(* make progress; nothing need be published, lost or replaced.             *)
Fairness ==
  /\ WF_vars(Subscribe) /\ WF_vars(Send) /\ WF_vars(Reply)
  /\ WF_vars(Connect) /\ WF_vars(OnOpen) /\ WF_vars(OnLag) /\ WF_vars(OnEvent)
  /\ WF_vars(Closed) /\ WF_vars(ResetCursor) /\ WF_vars(RenderPage)

FairSpec == Spec /\ Fairness

----------------------------------------------------------------------------
(* Properties. *)

(* README.md: live delivery with reconnect and lag compensation.  The      *)
(* client never moves its cursor past an event it has not rendered.        *)
NoGap == shown = 1 .. lastEvent

(* It does so only where a lag message finds the answer of a recovery      *)
(* already there, a connection is lost during a recovery, a recovery fails *)
(* with nothing held back, or the node comes back with another world; the  *)
(* other lags, losses, failures and overflows of the buffer are made up.   *)
NoGapOtherwise == exposed \/ NoGap

(* Nothing is left behind in the recovery buffer: live events are held     *)
(* back, counted as overflown or waited for only while a recovery that     *)
(* will release them runs, whatever calls fail and connections drop.       *)
BufferIsTransient == pending # <<>> \/ overflow \/ waiting => Recovering

(* The page is emptied and replayed only when the node has really come     *)
(* back with another world, never for a cursor of its own world.           *)
ResetsOnlyForAnotherWorld == [][lastEvent' < lastEvent => replacements > 0]_vars

(* When events stop and connections stay up, the client's cursor reaches   *)
(* the end of the log and stays there, also if connections were lost and   *)
(* the node came back with a shorter log of another world.  A recovery     *)
(* that fails on a connection that stays up is not repeated, so such a     *)
(* failure is excepted.                                                    *)
CatchesUp == <>[](lastEvent = latest \/ fails > 0)
==================================================================================
