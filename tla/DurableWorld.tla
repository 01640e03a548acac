------------------------------- MODULE DurableWorld ------------------------------
(***************************************************************************)
(* What the node promises about durability, without files: doc/api.md,     *)
(* "Snapshot Durability", and mutate_and_save of src/rpc.rs.  A world is   *)
(* the sequence of commands it results from.  An acknowledged world is     *)
(* what every later restart comes back with or builds on.  A proposal that *)
(* is neither acknowledged nor yet answered, and one that was refused, may *)
(* or may not be among the worlds a restart can come back with.            *)
(***************************************************************************)
EXTENDS Naturals, Sequences

CONSTANT Command

VARIABLES
  up,        \* the node answers requests
  served,    \* the world it answers from
  proposal,  \* {} or {w}: the world it is trying to save
  acked,     \* the last world whose command was answered with success
  maybe      \* the worlds a restart may come back with

vars == <<up, served, proposal, acked, maybe>>

World == Seq(Command)

IsPrefixOf(s, t) == Len(s) <= Len(t) /\ \A i \in 1 .. Len(s) : s[i] = t[i]

Init ==
  /\ up = TRUE /\ served = <<>> /\ proposal = {} /\ acked = <<>> /\ maybe = {<<>>}

Propose(c) ==
  /\ up /\ proposal = {}
  /\ proposal' = {Append(served, c)}
  /\ UNCHANGED <<up, served, acked, maybe>>

(* The storage settles on some of what it may come back with, or starts to *)
(* hold the proposal.                                                      *)
Persist ==
  /\ maybe' \in (SUBSET (maybe \cup proposal)) \ {{}}
  /\ UNCHANGED <<up, served, proposal, acked>>

(* Success is answered only when nothing but the proposal can come back.   *)
Acknowledge ==
  /\ up /\ proposal # {} /\ proposal = maybe
  /\ acked' \in proposal /\ served' = acked'
  /\ proposal' = {}
  /\ UNCHANGED <<up, maybe>>

(* An error is answered and the world served is the one before. *)
Refuse ==
  /\ up /\ proposal # {}
  /\ proposal' = {}
  /\ UNCHANGED <<up, served, acked, maybe>>

Crash ==
  /\ up' = FALSE /\ proposal' = {}
  /\ maybe' \in (SUBSET maybe) \ {{}}
  /\ UNCHANGED <<served, acked>>

Restart ==
  /\ ~up
  /\ up' = TRUE /\ served' \in maybe
  /\ maybe' \in (SUBSET maybe) \ {{}}
  /\ UNCHANGED <<proposal, acked>>

Next ==
  \/ \E c \in Command : Propose(c)
  \/ Persist \/ Acknowledge \/ Refuse \/ Crash \/ Restart

Spec == Init /\ [][Next]_vars

----------------------------------------------------------------------------
(* Whatever fails and whenever the node stops, the commands it answered    *)
(* with success are in the world it serves and in every world it can come  *)
(* back with, in their order and at their place.                           *)
AckedSurvives ==
  /\ IsPrefixOf(acked, served)
  /\ \A w \in maybe \cup proposal : IsPrefixOf(acked, w)
==================================================================================
