------------------------------- MODULE EventProofs -------------------------------
(***************************************************************************)
(* Proofs about the event stream, for channels, pages, buffers and sockets *)
(* of any size and any number of events, failures, lost connections and    *)
(* replaced worlds: the types, the release of the recovery buffer, resets  *)
(* only for another world, and no gap but in the excepted situations.      *)
(***************************************************************************)
EXTENDS EventStream, WellFoundedInduction, TLAPS

----------------------------------------------------------------------------
(* Sets and queues of ids. *)

(* A set of numbers with a bound has a largest element, which Max returns. *)
LEMMA MaxOf ==
  ASSUME NEW n \in Nat, NEW S, S \subseteq 0 .. n, S # {}
  PROVE  Max(S) \in S /\ \A y \in S : Max(S) >= y
  <1> DEFINE T == {n - x : x \in S}
             R == OpToRel(<, Nat)
  <1>1. \A x \in S : x \in Nat /\ n - x \in Nat OBVIOUS
  <1>2. T \subseteq Nat /\ T # {}
    <2>1. T \subseteq Nat BY <1>1
    <2>2. PICK s \in S : TRUE OBVIOUS
    <2>3. n - s \in T BY <2>2
    <2> QED BY <2>1, <2>3
  <1>3. IsWellFoundedOn(R, Nat) BY NatLessThanWellFounded
  <1>4. \E x \in T : \A y \in T : ~ (<<y, x>> \in R)
    <2> HIDE DEF R, T
    <2> QED BY <1>2, <1>3, WFMin
  <1>5. \A x, y \in Nat : y < x => <<y, x>> \in R BY DEF OpToRel
  <1>6. PICK x \in T : \A y \in T : ~ (y < x)
    <2> HIDE DEF R, T
    <2> QED BY <1>2, <1>4, <1>5
  <1>7. PICK z \in S : x = n - z OBVIOUS
  <1>8. \A y \in S : z >= y
    <2> TAKE y \in S
    <2>1. n - y \in T OBVIOUS
    <2>2. ~ (n - y < n - z) BY <2>1, <1>6, <1>7
    <2>3. y \in Nat /\ z \in Nat BY <1>1
    <2> HIDE DEF T, R
    <2> QED BY <2>2, <2>3
  <1> QED BY <1>8 DEF Max

(* A largest element is unique. *)
LEMMA MaxIs ==
  ASSUME NEW S, NEW m \in S, S \subseteq Nat, \A y \in S : m >= y
  PROVE  Max(S) = m
  <1>1. Max(S) \in S /\ \A y \in S : Max(S) >= y BY DEF Max
  <1>2. m >= Max(S) /\ Max(S) >= m /\ m \in Nat /\ Max(S) \in Nat BY <1>1
  <1> QED BY <1>2

(* The elements of a queue. *)
LEMMA ElementIn == \A S, q : q \in Seq(S) => \A i \in DOMAIN q : q[i] \in S
  OBVIOUS

LEMMA QueueOf == \A S, T, q : S \subseteq T /\ q \in Seq(S) => q \in Seq(T)
  OBVIOUS

LEMMA TailOf ==
  ASSUME NEW S, NEW q \in Seq(S), q # <<>>
  PROVE  /\ Len(q) \in Nat /\ Len(q) >= 1 /\ Head(q) = q[1]
         /\ Len(Tail(q)) = Len(q) - 1
         /\ \A i \in 1 .. Len(q) - 1 : Tail(q)[i] = q[i + 1]
         /\ Tail(q) = <<>> <=> Len(q) = 1
  <1>1. Len(q) \in Nat /\ Len(q) >= 1 /\ Head(q) = q[1] /\ Len(Tail(q)) = Len(q) - 1 OBVIOUS
  <1>2. \A i \in 1 .. Len(q) - 1 : Tail(q)[i] = q[i + 1] OBVIOUS
  <1>3. Tail(q) \in Seq(S) OBVIOUS
  <1>4. \A s \in Seq(S) : s = <<>> <=> Len(s) = 0 OBVIOUS
  <1> QED BY <1>1, <1>2, <1>3, <1>4

LEMMA AppendOf ==
  ASSUME NEW S, NEW q \in Seq(S), NEW m \in S
  PROVE  /\ Len(Append(q, m)) = Len(q) + 1 /\ Append(q, m)[Len(q) + 1] = m
         /\ Append(q, m) # <<>>
         /\ \A i \in 1 .. Len(q) : Append(q, m)[i] = q[i]
  <1>1. Len(Append(q, m)) = Len(q) + 1 /\ Append(q, m)[Len(q) + 1] = m OBVIOUS
  <1>2. \A i \in 1 .. Len(q) : Append(q, m)[i] = q[i] OBVIOUS
  <1>3. Len(Append(q, m)) # 0 BY <1>1
  <1> QED BY <1>1, <1>2, <1>3

(* What is rendered of a queue is in it and above the cursor. *)
LEMMA RenderedIn ==
  ASSUME NEW c \in Nat, NEW q \in Seq(Nat)
  PROVE  /\ \A x \in Rendered(c, q) : \E i \in DOMAIN q : x = q[i] /\ x > c
         /\ (\A i \in DOMAIN q : q[i] <= c) => Rendered(c, q) = {}
  BY DEF Rendered

LEMMA RenderedOne ==
  ASSUME NEW c \in Nat, NEW h \in Nat
  PROVE  Rendered(c, <<h>>) = IF h > c THEN {h} ELSE {}
  BY DEF Rendered

(* A queue that has no gap above the cursor stays so with the next id, or  *)
(* with one it has had.                                                    *)
LEMMA RenderedAppend ==
  ASSUME NEW c \in Nat, NEW q \in Seq(Nat), NEW e \in Nat, c <= e, NEW h \in Nat, h <= e + 1,
         Rendered(c, q) = c + 1 .. e, \A i \in DOMAIN q : q[i] <= e
  PROVE  \E f \in Nat :
           /\ f >= e /\ f >= h /\ f <= e + 1
           /\ Rendered(c, Append(q, h)) = c + 1 .. f
           /\ \A i \in DOMAIN Append(q, h) : Append(q, h)[i] <= f
  <1> DEFINE a == Append(q, h)
             n == Len(q)
             New(s, k) == s[k] > c /\ \A j \in 1 .. k - 1 : s[j] < s[k]
  <1>1. /\ n \in Nat /\ DOMAIN q = 1 .. n /\ DOMAIN a = 1 .. n + 1
        /\ \A i \in 1 .. n : a[i] = q[i] /\ q[i] \in Nat
        /\ a[n + 1] = h
    OBVIOUS
  <1>2. /\ Rendered(c, q) = {q[i] : i \in {k \in 1 .. n : New(q, k)}}
        /\ Rendered(c, a) = {a[i] : i \in {k \in 1 .. n + 1 : New(a, k)}}
    BY <1>1 DEF Rendered
  <1>3. \A k \in 1 .. n : New(a, k) <=> New(q, k) BY <1>1
  <1>4. Rendered(c, a) = Rendered(c, q) \cup IF New(a, n + 1) THEN {h} ELSE {}
    <2> HIDE DEF New, a, n
    <2>1. {k \in 1 .. n + 1 : New(a, k)} = {k \in 1 .. n : New(q, k)} \cup
             IF New(a, n + 1) THEN {n + 1} ELSE {}
      BY <1>1, <1>3
    <2> QED BY <1>1, <1>2, <2>1
  <1>5. CASE h = e + 1
    <2>1. New(a, n + 1) BY <1>1, <1>5
    <2>2. Rendered(c, a) = c + 1 .. e + 1 BY <1>4, <1>5, <2>1
    <2> QED BY <1>1, <1>5, <2>2
  <1>6. CASE h <= e
    <2>1. h \in Rendered(c, q) \/ h <= c BY <1>6
    <2>2. Rendered(c, a) = c + 1 .. e
      <3>1. CASE h <= c
        <4>1. ~ New(a, n + 1) BY <1>1, <3>1
        <4> QED BY <1>4, <4>1
      <3>2. CASE h \in Rendered(c, q) BY <1>4, <3>2
      <3> QED BY <2>1, <3>1, <3>2
    <2> QED BY <1>1, <1>6, <2>2
  <1> QED BY <1>5, <1>6

----------------------------------------------------------------------------
(* The types. *)

Recovery == [stage : {"none", "asked", "replied"}, since : Id, reset : BOOLEAN,
             upto : Id, latest : Id]

LEMMA Numbers ==
  /\ Capacity \in Nat /\ Capacity >= 1 /\ PageSize \in Nat /\ PageSize >= 1
  /\ MaxPending \in Nat /\ MaxPending >= 1 /\ MaxWire \in Nat /\ MaxWire >= 1
  /\ MaxEvents \in Nat /\ MaxDrops \in Nat /\ MaxFails \in Nat /\ MaxReplacements \in Nat
  BY StreamAssumption

LEMMA RecoveryType ==
  /\ NoRecovery \in Recovery
  /\ \A n \in Id, b \in BOOLEAN : Asked(n, b) \in Recovery
  BY Numbers DEF NoRecovery, Asked, Recovery, Id

(* What the end of a recovery leaves behind, whether it succeeded or not.  *)
LEMMA EndRecoveryFacts ==
  ASSUME TypeOK, NEW ok \in BOOLEAN, NEW c \in Id, NEW seen \in SUBSET (1 .. MaxEvents),
         EndRecovery(ok, c, seen)
  PROVE  /\ lastEvent' \in Id /\ lastEvent' >= c
         /\ lastEvent' = c \/ \E i \in DOMAIN pending : lastEvent' = pending[i]
         /\ shown' \in SUBSET (1 .. MaxEvents)
         /\ pending' = <<>> /\ overflow' = FALSE /\ waiting' = FALSE
         /\ socket' \in {socket, "closing"} /\ (socket' # socket => wire' = <<>>)
         /\ wire' \in {wire, <<>>}
         /\ recovery' = IF waiting THEN Asked(lastEvent', FALSE) ELSE NoRecovery
  <1> DEFINE flushed == IF GivesUp(ok) THEN {} ELSE Rendered(c, pending)
  <1>1. pending \in Seq(1 .. MaxEvents) /\ pending \in Seq(Nat) /\ c \in Nat
    BY Numbers DEF TypeOK, Id
  <1>2. \A x \in flushed : \E i \in DOMAIN pending : x = pending[i] /\ x > c
    BY <1>1, RenderedIn
  <1>3. flushed \subseteq 1 .. MaxEvents
    <2> HIDE DEF flushed
    <2>1. \A i \in DOMAIN pending : pending[i] \in 1 .. MaxEvents
      <3>1. pending \in Seq(1 .. MaxEvents) BY <1>1
      <3> QED BY <3>1, ElementIn
    <2> QED BY <1>2, <2>1
  <1>4. lastEvent' = Max({c} \cup flushed) /\ shown' = seen \cup flushed BY DEF EndRecovery
  <1> HIDE DEF flushed
  <1>5. {c} \cup flushed \subseteq 0 .. MaxEvents BY <1>3 DEF Id
  <1>6. lastEvent' \in {c} \cup flushed /\ lastEvent' >= c BY <1>4, <1>5, MaxOf, Numbers
  <1>7. socket' \in {socket, "closing"} /\ (socket' # socket => wire' = <<>>) /\ wire' \in {wire, <<>>}
    BY DEF EndRecovery
  <1>8. recovery' = IF waiting THEN Asked(lastEvent', FALSE) ELSE NoRecovery BY DEF EndRecovery
  <1>9. pending' = <<>> /\ overflow' = FALSE /\ waiting' = FALSE BY DEF EndRecovery, ReleaseBuffer
  <1> QED BY <1>2, <1>3, <1>4, <1>5, <1>6, <1>7, <1>8, <1>9 DEF Id

(* The ids a page brings that are not below the cursor. *)
LEMMA PageFacts ==
  ASSUME TypeOK
  PROVE  /\ NewIds \subseteq 1 .. MaxEvents
         /\ Max({lastEvent} \cup NewIds) \in Id /\ Max({lastEvent} \cup NewIds) >= lastEvent
         /\ Max({lastEvent} \cup NewIds) = lastEvent \/ Max({lastEvent} \cup NewIds) <= recovery.upto
  <1>1. /\ lastEvent \in 0 .. MaxEvents /\ recovery.since \in 0 .. MaxEvents
        /\ recovery.upto \in 0 .. MaxEvents /\ MaxEvents \in Nat
    BY Numbers DEF TypeOK, Id
  <1>2. NewIds \subseteq 1 .. MaxEvents /\ \A x \in NewIds : x <= recovery.upto BY <1>1 DEF NewIds
  <1>3. {lastEvent} \cup NewIds \subseteq 0 .. MaxEvents BY <1>1, <1>2
  <1>4. /\ Max({lastEvent} \cup NewIds) \in {lastEvent} \cup NewIds
        /\ Max({lastEvent} \cup NewIds) >= lastEvent
    BY <1>1, <1>3, MaxOf
  <1> QED BY <1>1, <1>2, <1>3, <1>4 DEF Id

(* How far a reply reaches: to the end of the log or of the page.          *)
Reaches(since, end) == IF end <= since + PageSize THEN end ELSE since + PageSize

LEMMA ReplyFacts ==
  ASSUME TypeOK, Reply
  PROVE  /\ recovery' \in Recovery
         /\ recovery'.stage = "replied" /\ recovery'.since = recovery.since
         /\ recovery'.reset = recovery.reset /\ recovery'.latest = latest
         /\ recovery.since <= latest => recovery'.upto = Reaches(recovery.since, latest)
  <1> DEFINE since == recovery.since
             page == {id \in 1 .. latest : id > since /\ id <= since + PageSize}
  <1>1. /\ since \in 0 .. MaxEvents /\ latest \in 0 .. MaxEvents /\ MaxEvents \in Nat
        /\ PageSize \in Nat /\ PageSize >= 1 /\ recovery \in Recovery
    BY Numbers DEF TypeOK, Id, Recovery
  <1>2. recovery' = [recovery EXCEPT !.stage = "replied", !.latest = latest,
                                     !.upto = Max({since} \cup page)]
    BY DEF Reply
  <1>3. {since} \cup page \subseteq 0 .. MaxEvents BY <1>1
  <1>4. Max({since} \cup page) \in 0 .. MaxEvents BY <1>1, <1>3, MaxOf
  <1>5. ASSUME since <= latest PROVE Max({since} \cup page) = Reaches(since, latest)
    <2>1. Reaches(since, latest) \in {since} \cup page BY <1>1, <1>5 DEF Reaches
    <2>2. \A y \in {since} \cup page : Reaches(since, latest) >= y BY <1>1, <1>5 DEF Reaches
    <2> HIDE DEF page
    <2>3. {since} \cup page \subseteq Nat BY <1>1, <1>3
    <2> QED BY <2>1, <2>2, <2>3, MaxIs
  <1> HIDE DEF page
  <1> QED BY <1>1, <1>2, <1>4, <1>5 DEF Recovery, Id

LEMMA TypeStep == TypeOK /\ [Next]_vars => TypeOK'
  <1> SUFFICES ASSUME TypeOK, [Next]_vars PROVE TypeOK' OBVIOUS
  <1> USE Numbers DEF node, client, count
  <1>a. /\ latest \in Id /\ rx \in 1 .. MaxEvents + 1 /\ wire \in Seq(Id) /\ Len(wire) <= MaxWire
        /\ socket \in SocketState /\ lastEvent \in Id /\ shown \in SUBSET (1 .. MaxEvents)
        /\ recovery \in Recovery /\ recovery.since \in Id /\ recovery.upto \in Id
        /\ recovery.reset \in BOOLEAN
    BY DEF TypeOK, Recovery
  <1>b. /\ <<>> \in Seq(Id) /\ Len(<<>>) <= MaxWire
        /\ <<>> \in Seq(1 .. MaxEvents) /\ Len(<<>>) <= MaxPending
    OBVIOUS
  <1>c. RecoverEvents => recovery' \in Recovery BY <1>a, RecoveryType DEF RecoverEvents
  <1>1. ASSUME NEW n \in 1 .. 2, Publish(n) PROVE TypeOK'
    BY <1>1 DEF Publish, TypeOK, Id
  <1>2. CASE Subscribe BY <1>2 DEF Subscribe, TypeOK, Id, SocketState
  <1>3. CASE Send
    <2>1. CASE Lagged
      <3>1. rx' \in 1 .. MaxEvents + 1 BY <1>3, <1>a, <2>1 DEF Send, Lagged, Oldest, Id
      <3>2. wire' \in Seq(Id) /\ Len(wire') <= MaxWire BY <1>3, <1>a, <2>1 DEF Send, Lag, Id
      <3> QED BY <1>3, <3>1, <3>2 DEF Send, TypeOK
    <2>2. CASE ~Lagged
      <3>1. rx' \in 1 .. MaxEvents + 1 /\ rx \in Id BY <1>3, <1>a, <2>2 DEF Send, Id
      <3>2. wire' \in Seq(Id) /\ Len(wire') <= MaxWire BY <1>3, <1>a, <2>2, <3>1 DEF Send
      <3> QED BY <1>3, <3>1, <3>2 DEF Send, TypeOK
    <2> QED BY <2>1, <2>2
  <1>4. CASE Reply BY <1>4, ReplyFacts DEF Reply, TypeOK, Recovery
  <1>5. CASE Connect BY <1>5, <1>b DEF Connect, TypeOK, SocketState
  <1>6. CASE OnOpen
    <2>1. recovery' \in Recovery /\ waiting' \in BOOLEAN BY <1>6, <1>a, <1>c DEF OnOpen, Opened, TypeOK
    <2> QED BY <1>6, <2>1 DEF OnOpen, TypeOK, SocketState, Recovery
  <1>7. CASE OnLag
    <2>1. wire' \in Seq(Id) /\ Len(wire') <= MaxWire BY <1>7, <1>a DEF OnLag
    <2>2. recovery' \in Recovery BY <1>7, <1>c DEF OnLag
    <2>3. exposed' \in BOOLEAN BY <1>7 DEF OnLag, TypeOK
    <2> QED BY <1>7, <2>1, <2>2, <2>3 DEF OnLag, TypeOK, Recovery
  <1>8. CASE OnEvent
    <2>1. wire' \in Seq(Id) /\ Len(wire') <= MaxWire BY <1>8, <1>a DEF OnEvent
    <2>2. Head(wire) \in 1 .. MaxEvents BY <1>8, <1>a DEF OnEvent, Lag, Id
    <2>3. CASE Recovering
      <3>1. pending' \in Seq(1 .. MaxEvents) /\ Len(pending') <= MaxPending /\ overflow' \in BOOLEAN
        <4>1. pending \in Seq(1 .. MaxEvents) /\ Len(pending) <= MaxPending /\ overflow \in BOOLEAN
          BY DEF TypeOK
        <4>2. CASE HasRoom
          <5>1. pending' = Append(pending, Head(wire)) /\ overflow' = overflow
            BY <1>8, <2>3, <4>2 DEF OnEvent
          <5> QED BY <2>2, <4>1, <4>2, <5>1 DEF HasRoom
        <4>3. CASE ~HasRoom
          <5>1. pending' = pending /\ overflow' = TRUE BY <1>8, <2>3, <4>3 DEF OnEvent
          <5> QED BY <4>1, <5>1
        <4> QED BY <4>2, <4>3
      <3> QED BY <1>8, <2>1, <2>3, <3>1 DEF OnEvent, TypeOK
    <2>4. CASE ~Recovering
      <3>1. lastEvent' \in Id
        <4>1. {lastEvent, Head(wire)} \subseteq 0 .. MaxEvents BY <1>a, <2>2 DEF Id
        <4>2. Max({lastEvent, Head(wire)}) \in 0 .. MaxEvents BY <4>1, MaxOf
        <4> QED BY <1>8, <2>4, <4>2 DEF OnEvent, Id
      <3>2. shown' \in SUBSET (1 .. MaxEvents)
        <4>1. Rendered(lastEvent, <<Head(wire)>>) \subseteq {Head(wire)}
          <5>1. lastEvent \in Nat /\ Head(wire) \in Nat BY <1>a, <2>2 DEF Id
          <5> QED BY <5>1, RenderedOne
        <4>2. shown' = shown \cup Rendered(lastEvent, <<Head(wire)>>) BY <1>8, <2>4 DEF OnEvent
        <4>3. Rendered(lastEvent, <<Head(wire)>>) \subseteq 1 .. MaxEvents BY <2>2, <4>1
        <4> QED BY <1>a, <4>2, <4>3
      <3> QED BY <1>8, <2>1, <2>4, <3>1, <3>2 DEF OnEvent, TypeOK
    <2> QED BY <2>3, <2>4
  <1>9. CASE Closed BY <1>9, <1>b DEF Closed, OnClose, TypeOK, SocketState
  <1>10. CASE ResetCursor
    <2>0. 0 \in Id BY DEF Id
    <2>1. recovery' \in Recovery /\ lastEvent' \in Id /\ shown' = {}
      BY <1>10, <2>0, RecoveryType DEF ResetCursor
    <2> QED BY <1>10, <2>1 DEF ResetCursor, TypeOK, Recovery
  <1>11. CASE RenderPage
    <2> DEFINE c == Max({lastEvent} \cup NewIds)
    <2>1. c \in Id /\ NewIds \subseteq 1 .. MaxEvents BY PageFacts
    <2>2. shown \cup NewIds \in SUBSET (1 .. MaxEvents) BY <1>a, <2>1
    <2> HIDE DEF c
    <2>3. CASE FullPage
      <3>1. recovery' \in Recovery /\ lastEvent' \in Id /\ shown' \in SUBSET (1 .. MaxEvents)
        BY <1>11, <1>a, <2>1, <2>2, <2>3, RecoveryType DEF RenderPage, c
      <3> QED BY <1>11, <2>3, <3>1 DEF RenderPage, TypeOK, Recovery
    <2>4. CASE ~FullPage
      <3>1. EndRecovery(TRUE, c, shown \cup NewIds) BY <1>11, <2>4 DEF RenderPage, c
      <3>2. recovery' \in Recovery /\ wire' \in Seq(Id) /\ Len(wire') <= MaxWire /\ socket' \in SocketState
        BY <1>a, <1>b, <2>1, <2>2, <3>1, EndRecoveryFacts, RecoveryType DEF SocketState
      <3>3. /\ lastEvent' \in Id /\ shown' \in SUBSET (1 .. MaxEvents)
            /\ pending' = <<>> /\ overflow' = FALSE /\ waiting' = FALSE
        BY <2>1, <2>2, <3>1, EndRecoveryFacts
      <3> QED BY <1>11, <1>b, <3>2, <3>3 DEF RenderPage, TypeOK, Recovery
    <2> QED BY <2>3, <2>4
  <1>12. CASE CallFails
    <2>1. EndRecovery(FALSE, lastEvent, shown) BY <1>12 DEF CallFails
    <2>2. recovery' \in Recovery /\ wire' \in Seq(Id) /\ Len(wire') <= MaxWire /\ socket' \in SocketState
      BY <1>a, <1>b, <2>1, EndRecoveryFacts, RecoveryType DEF SocketState
    <2>3. /\ lastEvent' \in Id /\ shown' \in SUBSET (1 .. MaxEvents)
          /\ pending' = <<>> /\ overflow' = FALSE /\ waiting' = FALSE
      BY <1>a, <2>1, EndRecoveryFacts
    <2>4. fails' \in 0 .. MaxFails BY <1>12 DEF CallFails, TypeOK
    <2>5. exposed' \in BOOLEAN BY <1>12 DEF CallFails, TypeOK
    <2> QED BY <1>12, <1>b, <2>2, <2>3, <2>4, <2>5 DEF CallFails, TypeOK, Recovery
  <1>13. CASE Drop
    <2>1. exposed' \in BOOLEAN BY <1>13 DEF Drop, TypeOK
    <2>2. drops' \in 0 .. MaxDrops BY <1>13 DEF Drop, TypeOK
    <2>3. socket' = "none" /\ wire' = <<>> /\ waiting' = FALSE BY <1>13 DEF Drop, OnClose
    <2>4. UNCHANGED <<latest, rx, fails, replacements, lastEvent, shown, recovery, pending, overflow>>
      BY <1>13 DEF Drop, OnClose
    <2> QED BY <1>b, <2>1, <2>2, <2>3, <2>4 DEF TypeOK, SocketState
  <1>14. ASSUME NEW n \in Id, Replace(n) PROVE TypeOK'
    <2>1. latest' \in Id /\ rx' \in 1 .. MaxEvents + 1 BY <1>14 DEF Replace, Id
    <2>2. replacements' \in 0 .. MaxReplacements BY <1>14 DEF Replace, TypeOK
    <2>3. socket' = "none" /\ wire' = <<>> /\ waiting' = FALSE /\ exposed' = TRUE
      BY <1>14 DEF Replace, OnClose
    <2>4. UNCHANGED <<drops, fails, lastEvent, shown, recovery, pending, overflow>>
      BY <1>14 DEF Replace, OnClose
    <2> QED BY <1>b, <2>1, <2>2, <2>3, <2>4 DEF TypeOK, SocketState
  <1>15. CASE UNCHANGED vars BY <1>15 DEF vars, TypeOK
  <1> QED BY <1>1, <1>2, <1>3, <1>4, <1>5, <1>6, <1>7, <1>8, <1>9, <1>10, <1>11, <1>12, <1>13,
             <1>14, <1>15 DEF Next, Client

LEMMA TypeInit == Init => TypeOK
  <1> SUFFICES ASSUME Init PROVE TypeOK OBVIOUS
  <1> USE Numbers
  <1>1. latest \in Id /\ rx \in 1 .. MaxEvents + 1 /\ lastEvent \in Id /\ shown \subseteq 1 .. MaxEvents
    BY DEF Init, Id
  <1>2. wire \in Seq(Id) /\ Len(wire) <= MaxWire BY DEF Init
  <1>3. pending \in Seq(1 .. MaxEvents) /\ Len(pending) <= MaxPending BY DEF Init
  <1>4. socket \in SocketState /\ waiting \in BOOLEAN /\ overflow \in BOOLEAN /\ exposed \in BOOLEAN
    BY DEF Init, SocketState
  <1>5. recovery \in Recovery BY RecoveryType DEF Init
  <1>6. drops \in 0 .. MaxDrops /\ fails \in 0 .. MaxFails /\ replacements \in 0 .. MaxReplacements
    BY DEF Init
  <1> QED BY <1>1, <1>2, <1>3, <1>4, <1>5, <1>6 DEF TypeOK, Recovery

(* Cursor, buffer, socket and recovery keep to their types and bounds.     *)
THEOREM TypeCorrect == Spec => []TypeOK
  BY TypeInit, TypeStep, PTL DEF Spec

----------------------------------------------------------------------------
(* The recovery buffer is used only while a recovery runs, and its end     *)
(* releases it, whatever calls fail and connections drop.                  *)
THEOREM BufferReleased == Spec => []BufferIsTransient
  <1> USE DEF BufferIsTransient, Recovering
  <1>1. Init => BufferIsTransient BY DEF Init
  <1>2. TypeOK /\ TypeOK' /\ BufferIsTransient /\ [Next]_vars => BufferIsTransient'
    <2> SUFFICES ASSUME TypeOK, BufferIsTransient, [Next]_vars PROVE BufferIsTransient' OBVIOUS
    <2> USE DEF node, client, count
    <2>1. ASSUME NEW ok, NEW c, NEW seen, EndRecovery(ok, c, seen) PROVE BufferIsTransient'
      BY <2>1 DEF EndRecovery, ReleaseBuffer
    <2>2. CASE RenderPage
      <3>1. CASE FullPage BY <2>2, <3>1 DEF RenderPage, Asked
      <3>2. CASE ~FullPage BY <2>1, <2>2, <3>2 DEF RenderPage
      <3> QED BY <3>1, <3>2
    <2>3. CASE CallFails BY <2>1, <2>3 DEF CallFails
    <2>4. CASE OnOpen BY <2>4 DEF OnOpen, Opened, RecoverEvents, Asked
    <2>5. CASE OnLag BY <2>5 DEF OnLag, RecoverEvents, Asked
    <2>6. CASE OnEvent BY <2>6 DEF OnEvent
    <2>7. CASE Reply BY <2>7, ReplyFacts DEF Reply
    <2>8. CASE ResetCursor BY <2>8 DEF ResetCursor, Asked
    <2>9. CASE Closed \/ Drop \/ \E n \in Id : Replace(n)
      BY <2>9 DEF Closed, Drop, Replace, OnClose
    <2>10. CASE (\E n \in 1 .. 2 : Publish(n)) \/ Subscribe \/ Send \/ Connect \/ UNCHANGED vars
      BY <2>10 DEF Publish, Subscribe, Send, Connect, vars
    <2> QED BY <2>2, <2>3, <2>4, <2>5, <2>6, <2>7, <2>8, <2>9, <2>10 DEF Next, Client
  <1> QED BY <1>1, <1>2, TypeCorrect, PTL DEF Spec

----------------------------------------------------------------------------
(* Nothing the client has heard of lies beyond the log of its own world.   *)
Within ==
  /\ lastEvent <= latest /\ rx <= latest + 1
  /\ \A i \in DOMAIN wire : wire[i] <= latest
  /\ \A i \in DOMAIN pending : pending[i] <= latest
  /\ Recovering => recovery.since <= latest
  /\ recovery.stage = "replied" =>
       /\ recovery.since <= recovery.latest /\ recovery.latest <= latest
       /\ recovery.upto = Reaches(recovery.since, recovery.latest)

WithinInv == replacements = 0 => Within

(* The messages on a socket are consecutive between lag messages. *)
WireInv ==
  /\ socket \notin {"accepted", "open", "closing"} => wire = <<>>
  /\ \A i \in 1 .. Len(wire) - 1 :
       wire[i] # Lag /\ wire[i + 1] # Lag => wire[i + 1] = wire[i] + 1
  /\ wire # <<>> /\ wire[Len(wire)] # Lag => rx = wire[Len(wire)] + 1

(* What the socket brings next, messages on their way and then what its    *)
(* receiver delivers, continues an account that ends at n, unless it is a  *)
(* lag message.                                                            *)
Continues(messages, next, n) ==
  /\ messages = <<>> => next <= n + 1
  /\ messages # <<>> /\ messages[1] # Lag => messages[1] <= n + 1

(* The recovery's answer and the buffer behind it, when the buffer holds   *)
(* everything since.                                                       *)
Accounted(e) ==
  /\ e >= recovery.latest
  /\ Rendered(recovery.latest, pending) = recovery.latest + 1 .. e
  /\ \A i \in DOMAIN pending : pending[i] <= e
  /\ Continues(wire, rx, e)

(* Without one of the excepted situations. *)
SteadyInv ==
  /\ replacements = 0
  /\ ~waiting /\ (Recovering => socket = "open")
  /\ NoGap
  /\ Recovering => recovery.since = lastEvent
  /\ socket = "open" /\ ~Recovering => Continues(wire, rx, lastEvent)
  /\ recovery.stage = "replied" /\ ~overflow =>
       \E e \in Id : Accounted(e)

GapInv == ~exposed => SteadyInv

(* Queues of typed messages. *)
LEMMA QueueFacts ==
  ASSUME TypeOK
  PROVE  /\ wire \in Seq(Nat) /\ pending \in Seq(Nat)
         /\ \A i \in 1 .. Len(wire) : wire[i] \in Nat
         /\ \A i \in 1 .. Len(pending) : pending[i] \in Nat
         /\ Len(wire) \in Nat /\ Len(pending) \in Nat
         /\ DOMAIN wire = 1 .. Len(wire) /\ DOMAIN pending = 1 .. Len(pending)
         /\ lastEvent \in Nat /\ latest \in Nat /\ rx \in Nat
         /\ recovery.since \in Nat /\ recovery.upto \in Nat /\ recovery.latest \in Nat
  <1>1. /\ wire \in Seq(Id) /\ pending \in Seq(1 .. MaxEvents) /\ Id \subseteq Nat
        /\ 1 .. MaxEvents \subseteq Nat
    BY Numbers DEF TypeOK, Id
  <1>2. wire \in Seq(Nat) /\ pending \in Seq(Nat) BY <1>1, QueueOf
  <1>3. \A i \in DOMAIN wire : wire[i] \in Nat BY <1>2, ElementIn
  <1>4. \A i \in DOMAIN pending : pending[i] \in Nat BY <1>2, ElementIn
  <1>5. lastEvent \in Nat /\ latest \in Nat /\ rx \in Nat BY <1>1 DEF TypeOK
  <1>6. recovery.since \in Nat /\ recovery.upto \in Nat /\ recovery.latest \in Nat
    BY <1>1 DEF TypeOK
  <1>7. /\ Len(wire) \in Nat /\ Len(pending) \in Nat
        /\ DOMAIN wire = 1 .. Len(wire) /\ DOMAIN pending = 1 .. Len(pending)
    BY <1>2
  <1> QED BY <1>2, <1>3, <1>4, <1>5, <1>6, <1>7

LEMMA WithinStep == TypeOK /\ WithinInv /\ [Next]_vars => WithinInv'
  <1> SUFFICES ASSUME TypeOK, WithinInv, [Next]_vars, replacements' = 0 PROVE Within'
    BY DEF WithinInv
  <1> USE Numbers, QueueFacts DEF node, client, count
  <1>a. replacements = 0 => Within BY DEF WithinInv
  <1>b. \A k : (k = <<>> => \A i \in DOMAIN k : FALSE) OBVIOUS
  <1>c. ASSUME Within, RecoverEvents, UNCHANGED <<lastEvent, latest>>
        PROVE  /\ recovery'.stage # "none" => recovery'.since <= latest'
               /\ recovery'.stage = "replied" => recovery' = recovery
    BY <1>c DEF RecoverEvents, Asked, Within, Recovering
  <1>1. ASSUME NEW n \in 1 .. 2, Publish(n) PROVE Within'
    BY <1>1, <1>a, SMTT(30) DEF Publish, Within, Recovering
  <1>2. CASE Subscribe BY <1>2, <1>a DEF Subscribe, Within, Recovering
  <1>3. CASE Send
    <2>1. Within /\ latest' = latest /\ UNCHANGED <<lastEvent, pending, recovery>>
      BY <1>3, <1>a DEF Send
    <2>2. rx' <= latest + 1 BY <1>3, <2>1 DEF Send, Within, Lagged, Oldest
    <2>3. \A i \in DOMAIN wire' : wire'[i] <= latest
      <3>1. PICK m \in {Lag, rx} : wire' = Append(wire, m) BY <1>3 DEF Send
      <3>2. m <= latest BY <1>3, <3>1 DEF Send, Lag
      <3> QED BY <2>1, <3>1, <3>2 DEF Within
    <2> QED BY <2>1, <2>2, <2>3 DEF Within, Recovering
  <1>4. CASE Reply
    <2>1. Within /\ recovery.since <= latest /\ UNCHANGED <<lastEvent, latest, rx, wire, pending>>
      BY <1>4, <1>a DEF Reply, Within, Recovering
    <2> QED BY <1>4, <2>1, ReplyFacts DEF Within, Recovering
  <1>5. CASE Connect BY <1>5, <1>a, <1>b DEF Connect, Within, Recovering
  <1>6. CASE OnOpen
    <2>1. Within /\ UNCHANGED <<lastEvent, latest, rx, wire, pending>> BY <1>6, <1>a DEF OnOpen
    <2>2. recovery' = recovery \/ RecoverEvents BY <1>6 DEF OnOpen, Opened
    <2> QED BY <2>1, <2>2, <1>c DEF Within, Recovering
  <1>7. CASE OnLag
    <2>1. Within /\ UNCHANGED <<lastEvent, latest, rx, pending>> /\ RecoverEvents /\ wire' = Tail(wire) /\ wire # <<>>
      BY <1>7, <1>a DEF OnLag
    <2>2. \A i \in DOMAIN wire' : wire'[i] <= latest BY <2>1 DEF Within
    <2> QED BY <2>1, <2>2, <1>c DEF Within, Recovering
  <1>8. CASE OnEvent
    <2>1. Within /\ UNCHANGED <<latest, rx, recovery>> /\ wire' = Tail(wire) /\ wire # <<>>
      BY <1>8, <1>a DEF OnEvent
    <2>0. /\ DOMAIN wire' = 1 .. Len(wire) - 1
          /\ \A i \in 1 .. Len(wire) - 1 : wire'[i] = wire[i + 1]
          /\ 1 \in DOMAIN wire /\ Head(wire) = wire[1]
      BY <2>1, TailOf
    <2>2. \A i \in DOMAIN wire' : wire'[i] <= latest
      <3>1. \A i \in 1 .. Len(wire) - 1 : i + 1 \in DOMAIN wire BY <2>1
      <3> QED BY <2>0, <2>1, <3>1 DEF Within
    <2>3. Head(wire) \in Nat /\ Head(wire) <= latest
      <3>1. 1 \in DOMAIN wire /\ Head(wire) = wire[1] BY <2>0
      <3> QED BY <2>1, <3>1 DEF Within
    <2>4. \A i \in DOMAIN pending' : pending'[i] <= latest
      <3>1. pending' = pending \/ pending' = Append(pending, Head(wire)) BY <1>8 DEF OnEvent
      <3>2. \A i \in DOMAIN pending : pending[i] <= latest BY <2>1 DEF Within
      <3>3. pending \in Seq(Nat) BY QueueFacts
      <3>4. CASE pending' = Append(pending, Head(wire))
        <4> HIDE QueueFacts, Numbers
        <4> QED BY <2>3, <3>2, <3>3, <3>4
      <3> QED BY <3>1, <3>2, <3>4
    <2>5. lastEvent' <= latest
      <3>1. {lastEvent, Head(wire)} \subseteq 0 .. latest BY <2>1, <2>3 DEF Within
      <3>2. Max({lastEvent, Head(wire)}) \in {lastEvent, Head(wire)} BY <3>1, MaxOf
      <3>3. lastEvent' = lastEvent \/ lastEvent' = Max({lastEvent, Head(wire)}) BY <1>8 DEF OnEvent
      <3> QED BY <2>1, <2>3, <3>2, <3>3 DEF Within
    <2> QED BY <2>1, <2>2, <2>4, <2>5 DEF Within, Recovering
  <1>9. CASE Closed BY <1>9, <1>a, <1>b DEF Closed, OnClose, Within, Recovering
  <1>10. CASE ResetCursor BY <1>10, <1>a DEF ResetCursor, Asked, Within, Recovering
  <1>d. ASSUME NEW ok \in BOOLEAN, NEW c \in Id, c <= latest, NEW seen \in SUBSET (1 .. MaxEvents),
               EndRecovery(ok, c, seen), Within, UNCHANGED <<latest, rx>>
        PROVE  Within'
    <2>1. lastEvent' <= latest /\ lastEvent' \in Nat
      <3>1. lastEvent' \in Id /\ (lastEvent' = c \/ \E i \in DOMAIN pending : lastEvent' = pending[i])
        BY <1>d, EndRecoveryFacts
      <3>2. \A i \in DOMAIN pending : pending[i] <= latest BY <1>d DEF Within
      <3> QED BY <1>d, <3>1, <3>2 DEF Id
    <2>2. recovery' = Asked(lastEvent', FALSE) \/ recovery' = NoRecovery BY <1>d, EndRecoveryFacts
    <2>3. pending' = <<>> /\ (wire' = wire \/ wire' = <<>>) BY <1>d, EndRecoveryFacts
    <2>4. /\ \A i \in DOMAIN wire' : wire'[i] <= latest'
          /\ \A i \in DOMAIN pending' : pending'[i] <= latest'
      BY <1>b, <1>d, <2>3 DEF Within
    <2>5. recovery'.stage # "replied" /\ (recovery'.stage # "none" => recovery'.since <= latest')
      BY <1>d, <2>1, <2>2 DEF Asked, NoRecovery
    <2>6. lastEvent' <= latest' /\ rx' <= latest' + 1 BY <1>d, <2>1 DEF Within
    <2> QED BY <2>4, <2>5, <2>6 DEF Within, Recovering
  <1>11. CASE RenderPage
    <2> DEFINE c == Max({lastEvent} \cup NewIds)
    <2>1. c \in Id /\ shown \cup NewIds \in SUBSET (1 .. MaxEvents) BY PageFacts DEF TypeOK
    <2>2. Within /\ recovery.stage = "replied" BY <1>11, <1>a DEF RenderPage
    <2>3. recovery.upto <= latest BY <2>2 DEF Within, Reaches
    <2>4. c <= latest
      <3>1. c = lastEvent \/ c <= recovery.upto BY PageFacts
      <3>2. lastEvent <= latest BY <2>2 DEF Within
      <3> HIDE DEF c
      <3> QED BY <2>1, <2>3, <3>1, <3>2 DEF Id
    <2> HIDE DEF c
    <2>5. CASE FullPage
      <3>1. lastEvent' = c /\ recovery' = Asked(recovery.upto, recovery.reset)
        BY <1>11, <2>5 DEF RenderPage, c
      <3>2. UNCHANGED <<latest, rx, wire, pending>> BY <1>11, <2>5 DEF RenderPage
      <3> QED BY <2>2, <2>3, <2>4, <3>1, <3>2 DEF Within, Recovering, Asked
    <2>6. CASE ~FullPage
      <3>1. EndRecovery(TRUE, c, shown \cup NewIds) /\ UNCHANGED <<latest, rx>>
        BY <1>11, <2>6 DEF RenderPage, c
      <3> QED BY <2>1, <2>2, <2>4, <3>1, <1>d
    <2> QED BY <2>5, <2>6
  <1>12. CASE CallFails
    <2>1. Within /\ EndRecovery(FALSE, lastEvent, shown) /\ UNCHANGED <<latest, rx>>
      BY <1>12, <1>a DEF CallFails
    <2>2. lastEvent \in Id /\ lastEvent <= latest /\ shown \in SUBSET (1 .. MaxEvents)
      BY <2>1 DEF Within, TypeOK
    <2> QED BY <2>1, <2>2, <1>d
  <1>13. CASE Drop BY <1>13, <1>a, <1>b DEF Drop, OnClose, Within, Recovering
  <1>14. ASSUME NEW n \in Id, Replace(n) PROVE FALSE BY <1>14 DEF Replace, TypeOK
  <1>15. CASE UNCHANGED vars BY <1>15, <1>a DEF vars, Within, Recovering
  <1> QED BY <1>1, <1>2, <1>3, <1>4, <1>5, <1>6, <1>7, <1>8, <1>9, <1>10, <1>11, <1>12, <1>13,
             <1>14, <1>15 DEF Next, Client

LEMMA WithinInit == Init => WithinInv
  BY DEF Init, WithinInv, Within, Recovering, NoRecovery

(* The page is emptied and replayed only after the node came back with     *)
(* another world: a cursor of its own world is never ahead of the log.     *)
THEOREM ResetsAreJustified == Spec => ResetsOnlyForAnotherWorld
  <1>1. TypeOK /\ TypeOK' /\ WithinInv /\ [Next]_vars =>
          [lastEvent' < lastEvent => replacements > 0]_vars
    <2> SUFFICES ASSUME TypeOK, TypeOK', WithinInv, [Next]_vars
                 PROVE  lastEvent' < lastEvent => replacements > 0
      OBVIOUS
    <2>0. /\ replacements \in Nat /\ lastEvent \in Nat
          /\ TypeOK' => lastEvent' \in Nat
      BY Numbers, QueueFacts DEF TypeOK, Id
    <2> SUFFICES ASSUME replacements = 0 PROVE lastEvent' >= lastEvent
      BY <2>0
    <2> USE QueueFacts DEF node, client, count
    <2>1. CASE OnEvent
      <3>1. wire # <<>> /\ Head(wire) \in Nat BY <2>1 DEF OnEvent
      <3>2. {lastEvent, Head(wire)} \subseteq 0 .. lastEvent + Head(wire) /\ lastEvent + Head(wire) \in Nat
        BY <3>1
      <3>3. Max({lastEvent, Head(wire)}) >= lastEvent BY <3>2, MaxOf
      <3> QED BY <2>1, <3>3 DEF OnEvent
    <2>2. CASE RenderPage
      <3> DEFINE c == Max({lastEvent} \cup NewIds)
      <3>1. c \in Id /\ c >= lastEvent /\ shown \cup NewIds \in SUBSET (1 .. MaxEvents)
        BY PageFacts DEF TypeOK
      <3> HIDE DEF c
      <3>2. CASE FullPage BY <2>2, <3>1, <3>2 DEF RenderPage, c
      <3>3. CASE ~FullPage
        <4>1. EndRecovery(TRUE, c, shown \cup NewIds) BY <2>2, <3>3 DEF RenderPage, c
        <4>2. lastEvent' >= c /\ lastEvent' \in Id BY <3>1, <4>1, EndRecoveryFacts
        <4> QED BY <3>1, <4>2, Numbers DEF Id
      <3> QED BY <3>2, <3>3
    <2>3. CASE CallFails
      <3>1. EndRecovery(FALSE, lastEvent, shown) BY <2>3 DEF CallFails
      <3> QED BY <3>1, EndRecoveryFacts DEF TypeOK
    <2>4. CASE ResetCursor BY <2>4 DEF ResetCursor, StaleCursor, WithinInv, Within
    <2>5. lastEvent' = lastEvent \/ OnEvent \/ RenderPage \/ CallFails \/ ResetCursor
      BY DEF Next, Client, Publish, Subscribe, Send, Reply, Connect, OnOpen, OnLag, Closed,
             Drop, Replace, OnClose, vars
    <2> QED BY <2>1, <2>2, <2>3, <2>4, <2>5
  <1>2. Spec => []WithinInv
    <2>1. TypeOK /\ WithinInv /\ [Next]_vars => WithinInv' BY WithinStep
    <2> QED BY <2>1, WithinInit, TypeCorrect, PTL DEF Spec
  <1> QED BY <1>1, <1>2, TypeCorrect, PTL DEF Spec, ResetsOnlyForAnotherWorld

----------------------------------------------------------------------------
(* The messages on the socket. *)

LEMMA WireStep == TypeOK /\ WireInv /\ [Next]_vars => WireInv'
  <1> SUFFICES ASSUME TypeOK, WireInv, [Next]_vars PROVE WireInv' OBVIOUS
  <1> USE QueueFacts DEF node, client, count
  <1>a. ASSUME wire' = <<>> PROVE WireInv' BY <1>a DEF WireInv
  <1>b. ASSUME UNCHANGED <<wire, rx>>, socket' = socket \/ socket' \in {"accepted", "open", "closing"}
        PROVE  WireInv'
    BY <1>b DEF WireInv
  <1>c. ASSUME wire # <<>>, wire' = Tail(wire), UNCHANGED <<rx, socket>> PROVE WireInv'
    <2>1. /\ Len(wire') = Len(wire) - 1
          /\ \A i \in 1 .. Len(wire') : wire'[i] = wire[i + 1]
      BY <1>c
    <2>2. \A i \in 1 .. Len(wire') - 1 :
            wire'[i] # Lag /\ wire'[i + 1] # Lag => wire'[i + 1] = wire'[i] + 1
      <3> TAKE i \in 1 .. Len(wire') - 1
      <3>1. i + 1 \in 1 .. Len(wire) - 1 /\ i \in Int BY <2>1
      <3>2. wire'[i] = wire[i + 1] /\ wire'[i + 1] = wire[(i + 1) + 1] BY <2>1, <3>1
      <3> QED BY <3>1, <3>2 DEF WireInv
    <2>3. wire' # <<>> /\ wire'[Len(wire')] # Lag => rx' = wire'[Len(wire')] + 1
      <3>1. wire' # <<>> => Len(wire') >= 1 /\ wire'[Len(wire')] = wire[Len(wire)] BY <1>c, <2>1
      <3> QED BY <1>c, <3>1 DEF WireInv
    <2>4. socket' \notin {"accepted", "open", "closing"} => wire' = <<>> BY <1>c DEF WireInv
    <2> QED BY <2>2, <2>3, <2>4 DEF WireInv
  <1>1. CASE Send
    <2>1. PICK m \in {Lag, rx} : /\ wire' = Append(wire, m)
                                 /\ m # Lag => m = rx /\ rx' = rx + 1
      BY <1>1, SMTT(30) DEF Send
    <2>2. /\ Len(wire') = Len(wire) + 1 /\ wire'[Len(wire')] = m /\ wire' # <<>>
          /\ \A i \in 1 .. Len(wire) : wire'[i] = wire[i]
      <3>1. m \in Nat BY <2>1 DEF Lag
      <3> HIDE QueueFacts
      <3>2. wire \in Seq(Nat) BY QueueFacts
      <3> QED BY <2>1, <3>1, <3>2, AppendOf
    <2>3. \A i \in 1 .. Len(wire') - 1 :
            wire'[i] # Lag /\ wire'[i + 1] # Lag => wire'[i + 1] = wire'[i] + 1
      <3> TAKE i \in 1 .. Len(wire') - 1
      <3>0. /\ i \in 1 .. Len(wire) /\ Len(wire) \in Nat
            /\ i < Len(wire) \/ i = Len(wire)
        <4>1. Len(wire) \in Nat /\ Len(wire') - 1 = Len(wire)
          <5>1. Len(wire) \in Nat BY QueueFacts
          <5> QED BY <2>2, <5>1
        <4>2. i \in 1 .. Len(wire) BY <4>1
        <4>3. \A k \in Nat : \A j \in 1 .. k : j < k \/ j = k OBVIOUS
        <4> QED BY <4>1, <4>2, <4>3, Zenon
      <3>1. CASE i < Len(wire)
        <4>0. \A k \in Nat : \A j \in 1 .. k : j < k => j \in 1 .. k - 1 /\ j + 1 \in 1 .. k OBVIOUS
        <4>1. i \in 1 .. Len(wire) - 1 /\ i + 1 \in 1 .. Len(wire) BY <3>0, <3>1, <4>0, Zenon
        <4>2. wire'[i] = wire[i] /\ wire'[i + 1] = wire[i + 1] BY <2>2, <4>1
        <4> QED BY <4>1, <4>2 DEF WireInv
      <3>2. CASE i = Len(wire)
        <4>1. wire # <<>> /\ wire'[i] = wire[Len(wire)] /\ wire'[i + 1] = m BY <2>2, <3>2
        <4> QED BY <2>1, <4>1 DEF WireInv
      <3> QED BY <3>0, <3>1, <3>2
    <2>4. wire'[Len(wire')] # Lag => rx' = wire'[Len(wire')] + 1 BY <2>1, <2>2
    <2>5. socket' \in {"accepted", "open"} BY <1>1 DEF Send
    <2> QED BY <2>3, <2>4, <2>5 DEF WireInv
  <1>2. CASE OnLag BY <1>2, <1>c DEF OnLag
  <1>3. CASE OnEvent BY <1>3, <1>c DEF OnEvent
  <1>4. CASE Subscribe BY <1>4, <1>a DEF Subscribe, WireInv
  <1>5. CASE Connect \/ Closed \/ Drop \/ \E n \in Id : Replace(n)
    BY <1>5, <1>a DEF Connect, Closed, Drop, Replace, OnClose
  <1>6. CASE OnOpen BY <1>6, <1>b DEF OnOpen
  <1>7. CASE (\E n \in 1 .. 2 : Publish(n)) \/ Reply \/ ResetCursor \/ UNCHANGED vars
    BY <1>7, <1>b DEF Publish, Reply, ResetCursor, vars
  <1>d. ASSUME NEW ok, NEW c, NEW seen, EndRecovery(ok, c, seen), rx' = rx PROVE WireInv'
    <2>1. wire' = <<>> \/ UNCHANGED <<socket, wire>> BY <1>d DEF EndRecovery
    <2> QED BY <2>1, <1>a, <1>b, <1>d
  <1>8. CASE RenderPage
    <2>1. CASE FullPage BY <1>8, <2>1, <1>b DEF RenderPage
    <2>2. CASE ~FullPage BY <1>8, <2>2, <1>d DEF RenderPage
    <2> QED BY <2>1, <2>2
  <1>9. CASE CallFails BY <1>9, <1>d DEF CallFails
  <1> QED BY <1>1, <1>2, <1>3, <1>4, <1>5, <1>6, <1>7, <1>8, <1>9 DEF Next, Client

(* A socket that continues an account goes on to, whether the receiver     *)
(* delivers one more message or the client takes one.                      *)
LEMMA SendContinues ==
  ASSUME TypeOK, NEW n \in Nat, Continues(wire, rx, n), Send
  PROVE  Continues(wire', rx', n)
  <1> USE QueueFacts
  <1>1. PICK m \in {Lag, rx} : wire' = Append(wire, m) /\ wire' # <<>> BY DEF Send, Lag
  <1>2. wire'[1] = IF wire = <<>> THEN m ELSE wire[1] BY <1>1 DEF Lag
  <1> QED BY <1>1, <1>2 DEF Continues

LEMMA TailContinues ==
  ASSUME TypeOK, WireInv, NEW n \in Nat, wire # <<>>, wire[1] # Lag, wire[1] <= n
  PROVE  Continues(Tail(wire), rx, n)
  <1>0. wire \in Seq(Nat) /\ Len(wire) \in Nat /\ \A i \in 1 .. Len(wire) : wire[i] \in Nat
    BY QueueFacts
  <1>1. CASE Len(wire) = 1
    <2>1. Tail(wire) = <<>> BY <1>0, <1>1, TailOf
    <2>2. rx = wire[1] + 1 /\ wire[1] \in Nat BY <1>0, <1>1 DEF WireInv
    <2>3. rx <= n + 1 BY <2>2
    <2> QED BY <2>1, <2>3 DEF Continues
  <1>2. CASE Len(wire) > 1
    <2>1. Tail(wire) # <<>> /\ Tail(wire)[1] = wire[1 + 1]
      <3>1. 1 \in 1 .. Len(wire) - 1 BY <1>0, <1>2
      <3> QED BY <1>0, <1>2, <3>1, TailOf
    <2>2. wire[1 + 1] # Lag => wire[1 + 1] = wire[1] + 1 BY <1>0, <1>2 DEF WireInv
    <2>3. wire[1] \in Nat BY <1>0, <1>2
    <2> QED BY <2>1, <2>2, <2>3 DEF Continues
  <1>3. Len(wire) = 1 \/ Len(wire) > 1
    <2>1. Len(wire) >= 1 /\ Len(wire) \in Nat BY <1>0, TailOf
    <2>2. \A k \in Nat : k >= 1 => k = 1 \/ k > 1 OBVIOUS
    <2> QED BY <2>1, <2>2, Zenon
  <1> QED BY <1>1, <1>2, <1>3, Zenon

----------------------------------------------------------------------------
(* Steps outside the excepted situations. *)

(* A live event while the answer is being rendered. *)
LEMMA BufferedEvent ==
  ASSUME TypeOK, WireInv, NEW e \in Id, Accounted(e), OnEvent,
         recovery.stage = "replied", overflow' = FALSE
  PROVE  \E f \in Nat :
           /\ f >= recovery.latest
           /\ Rendered(recovery.latest, pending') = recovery.latest + 1 .. f
           /\ \A i \in DOMAIN pending' : pending'[i] <= f
           /\ Continues(wire', rx', f)
  <1>1. wire # <<>> /\ wire' = Tail(wire) /\ rx' = rx /\ Head(wire) # Lag BY DEF OnEvent
  <1>2. wire \in Seq(Nat) /\ pending \in Seq(Nat) /\ recovery.latest \in Nat /\ e \in Nat
    BY QueueFacts, Numbers DEF Id
  <1>3. Head(wire) = wire[1] /\ wire[1] \in Nat
    <2>1. 1 \in DOMAIN wire /\ Head(wire) = wire[1] BY <1>1, <1>2, TailOf
    <2> QED BY <1>2, <2>1, ElementIn
  <1>4. pending' = Append(pending, wire[1]) BY <1>3 DEF OnEvent, Recovering
  <1>5. wire[1] <= e + 1 BY <1>1, <1>3 DEF Accounted, Continues
  <1>6. PICK f \in Nat :
          /\ f >= e /\ f >= wire[1] /\ f <= e + 1
          /\ Rendered(recovery.latest, Append(pending, wire[1])) = recovery.latest + 1 .. f
          /\ \A i \in DOMAIN Append(pending, wire[1]) : Append(pending, wire[1])[i] <= f
    BY <1>2, <1>3, <1>5, RenderedAppend DEF Accounted
  <1>7. wire[1] <= f /\ f >= recovery.latest BY <1>2, <1>3, <1>6 DEF Accounted
  <1>8. Continues(Tail(wire), rx, f) BY <1>1, <1>3, <1>7, TailContinues
  <1> QED BY <1>1, <1>4, <1>6, <1>7, <1>8

(* The end of a recovery that was answered to the end of the log. *)
LEMMA AccountedEnd ==
  ASSUME TypeOK, NEW e \in Id, Accounted(e), ~overflow,
         EndRecovery(TRUE, recovery.latest, 1 .. recovery.latest)
  PROVE  lastEvent' = e /\ shown' = 1 .. e /\ UNCHANGED <<wire, socket>>
  <1> DEFINE c == recovery.latest
             flushed == Rendered(c, pending)
  <1>1. ~GivesUp(TRUE) BY DEF GivesUp, TypeOK
  <1>2. /\ lastEvent' = Max({c} \cup flushed) /\ shown' = (1 .. c) \cup flushed
        /\ UNCHANGED <<wire, socket>>
    BY <1>1 DEF EndRecovery
  <1>3. flushed = c + 1 .. e /\ e >= c /\ c \in Nat /\ e \in Nat
    BY QueueFacts, Numbers DEF Accounted, Id
  <1> HIDE DEF c, flushed
  <1>4. Max({c} \cup flushed) = e
    <2>1. e \in {c} \cup flushed /\ {c} \cup flushed \subseteq Nat BY <1>3
    <2>2. \A y \in {c} \cup flushed : e >= y BY <1>3
    <2> QED BY <2>1, <2>2, MaxIs
  <1>5. (1 .. c) \cup flushed = 1 .. e BY <1>3
  <1> QED BY <1>2, <1>4, <1>5

(* What a page adds to a cursor that stands where it was asked from. *)
LEMMA PageExtends ==
  ASSUME TypeOK, recovery.since = lastEvent, recovery.upto >= lastEvent, NoGap
  PROVE  /\ Max({lastEvent} \cup NewIds) = recovery.upto
         /\ shown \cup NewIds = 1 .. recovery.upto
  <1>1. lastEvent \in Nat /\ recovery.upto \in Nat BY QueueFacts
  <1>2. NewIds = lastEvent + 1 .. recovery.upto BY <1>1 DEF NewIds
  <1>3. Max({lastEvent} \cup NewIds) = recovery.upto
    <2>1. /\ recovery.upto \in {lastEvent} \cup NewIds
          /\ {lastEvent} \cup NewIds \subseteq Nat
          /\ \A y \in {lastEvent} \cup NewIds : recovery.upto >= y
      BY <1>1, <1>2
    <2> QED BY <2>1, MaxIs
  <1> QED BY <1>1, <1>2, <1>3 DEF NoGap

LEMMA SteadyStep ==
  ASSUME TypeOK, TypeOK', WithinInv, WithinInv', WireInv, GapInv, [Next]_vars, ~exposed'
  PROVE  SteadyInv'
  <1> USE DEF node, client, count
  <1>1. ~exposed /\ replacements' = replacements
    BY DEF TypeOK, Next, Client, Publish, Subscribe, Send, Reply, Connect, OnOpen, OnLag, OnEvent,
           Closed, ResetCursor, RenderPage, CallFails, Drop, Replace, OnClose, vars
  <1>2. SteadyInv /\ Within BY <1>1 DEF GapInv, SteadyInv, WithinInv
  <1> USE <1>1, <1>2 DEF Recovering, NoGap
  <1>3. ASSUME UNCHANGED <<wire, rx, socket, lastEvent, shown, recovery, waiting, pending, overflow>>
        PROVE  SteadyInv'
    BY <1>3 DEF SteadyInv, Accounted
  <1>4. CASE (\E n \in 1 .. 2 : Publish(n)) \/ UNCHANGED vars BY <1>3, <1>4 DEF Publish, vars
  <1>5. CASE Subscribe BY <1>5 DEF Subscribe, SteadyInv
  <1>6. CASE Send
    <2>1. UNCHANGED <<socket, lastEvent, shown, recovery, waiting, pending, overflow>>
      BY <1>6 DEF Send
    <2>2. \A n \in Nat : Continues(wire, rx, n) => Continues(wire', rx', n)
      BY <1>6, SendContinues
    <2>3. lastEvent \in Nat /\ Id \subseteq Nat BY QueueFacts, Numbers DEF Id
    <2> QED BY <2>1, <2>2, <2>3 DEF SteadyInv, Accounted
  <1>7. CASE Reply
    <2>1. UNCHANGED <<latest, rx, wire, socket, lastEvent, shown, waiting, pending, overflow>>
      BY <1>7 DEF Reply
    <2>2. /\ recovery.stage = "asked" /\ recovery'.stage = "replied"
          /\ recovery'.since = recovery.since /\ recovery'.latest = latest
      BY <1>7, ReplyFacts DEF Reply
    <2>3. latest \in Id /\ latest \in Nat /\ pending \in Seq(Nat) BY QueueFacts DEF TypeOK
    <2>4. Rendered(latest, pending) = latest + 1 .. latest
      <3>1. Rendered(latest, pending) = {} BY <2>3, RenderedIn DEF Within
      <3> QED BY <2>3, <3>1
    <2>5. Continues(wire, rx, latest)
      <3>1. wire # <<>> => 1 \in DOMAIN wire /\ wire[1] \in Nat
        <4>1. wire \in Seq(Nat) BY QueueFacts
        <4>2. wire # <<>> => 1 \in DOMAIN wire BY <4>1
        <4> QED BY <4>1, <4>2, ElementIn
      <3> QED BY <2>3, <3>1 DEF Continues, Within
    <2>6. latest >= latest BY <2>3
    <2> QED BY <2>1, <2>2, <2>3, <2>4, <2>5, <2>6 DEF SteadyInv, Accounted, Within
  <1>8. CASE Connect BY <1>8 DEF Connect, SteadyInv
  <1>9. CASE OnOpen BY <1>9 DEF OnOpen, Opened, RecoverEvents, Asked, SteadyInv
  <1>10. CASE OnLag
    <2>1. /\ socket = "open" /\ recovery.stage # "replied"
          /\ UNCHANGED <<socket, lastEvent, shown, waiting, pending, overflow>>
      BY <1>10 DEF OnLag
    <2>2. \/ recovery' = recovery /\ Recovering
          \/ recovery' = Asked(lastEvent, FALSE)
      BY <1>10 DEF OnLag, RecoverEvents
    <2>3. recovery'.stage # "none" /\ recovery'.stage # "replied" /\ recovery'.since = lastEvent
      BY <2>1, <2>2 DEF Asked, SteadyInv
    <2> QED BY <2>1, <2>3 DEF SteadyInv
  <1>11. CASE OnEvent
    <2>1. /\ UNCHANGED <<socket, recovery, waiting, rx>> /\ wire' = Tail(wire) /\ wire # <<>>
          /\ socket = "open" /\ Head(wire) # Lag
      BY <1>11 DEF OnEvent
    <2>2. CASE recovery.stage = "replied"
      <3>1. UNCHANGED <<lastEvent, shown>> BY <1>11, <2>2 DEF OnEvent
      <3>2. overflow' = FALSE => overflow = FALSE BY <1>11, <2>2 DEF OnEvent
      <3>3. ASSUME overflow' = FALSE
            PROVE  \E f \in Id :
                     /\ f >= recovery.latest
                     /\ Rendered(recovery.latest, pending') = recovery.latest + 1 .. f
                     /\ \A i \in DOMAIN pending' : pending'[i] <= f
                     /\ Continues(wire', rx', f)
        <4>1. PICK e \in Id : Accounted(e) BY <2>2, <3>2, <3>3 DEF SteadyInv
        <4>2. PICK f \in Nat :
                /\ f >= recovery.latest
                /\ Rendered(recovery.latest, pending') = recovery.latest + 1 .. f
                /\ \A i \in DOMAIN pending' : pending'[i] <= f
                /\ Continues(wire', rx', f)
          BY <1>11, <2>2, <3>3, <4>1, BufferedEvent
        <4>3. f \in Id
          <5>1. /\ recovery.latest \in 0 .. MaxEvents /\ MaxEvents \in Nat
                /\ pending' \in Seq(1 .. MaxEvents) /\ 1 .. MaxEvents \subseteq Nat
            BY Numbers DEF TypeOK, Id
          <5>2. CASE f = recovery.latest BY <5>1, <5>2 DEF Id
          <5>3. CASE f > recovery.latest
            <6>1. f \in Rendered(recovery.latest, pending') BY <4>2, <5>1, <5>3
            <6>2. pending' \in Seq(Nat) /\ recovery.latest \in Nat BY <5>1, QueueOf
            <6>3. \E i \in DOMAIN pending' : f = pending'[i] BY <6>1, <6>2, RenderedIn
            <6>4. f \in 1 .. MaxEvents BY <5>1, <6>3, ElementIn
            <6> QED BY <5>1, <6>4 DEF Id
          <5> QED BY <4>2, <5>1, <5>2, <5>3
        <4> QED BY <4>2, <4>3
      <3>4. overflow' \in BOOLEAN BY DEF TypeOK
      <3> QED BY <2>1, <2>2, <3>1, <3>3, <3>4 DEF SteadyInv, Accounted
    <2>3. CASE recovery.stage = "asked"
      <3>1. UNCHANGED <<lastEvent, shown>> BY <1>11, <2>3 DEF OnEvent
      <3> QED BY <2>1, <2>3, <3>1 DEF SteadyInv
    <2>4. CASE recovery.stage = "none"
      <3> DEFINE h == wire[1]
      <3>1. h \in Nat /\ Head(wire) = h /\ lastEvent \in Nat /\ h # Lag
        <4>1. wire \in Seq(Nat) /\ lastEvent \in Nat BY QueueFacts
        <4>2. 1 \in DOMAIN wire /\ Head(wire) = wire[1] BY <2>1, <4>1, TailOf
        <4> QED BY <2>1, <4>1, <4>2, ElementIn
      <3>2. h <= lastEvent + 1 BY <2>1, <2>4, <3>1 DEF SteadyInv, Continues
      <3>3. /\ lastEvent' = Max({lastEvent, h})
            /\ shown' = shown \cup Rendered(lastEvent, <<h>>)
        BY <1>11, <2>4, <3>1 DEF OnEvent
      <3>4. /\ lastEvent' \in {lastEvent, h} /\ lastEvent' >= lastEvent /\ lastEvent' >= h
        <4>1. {lastEvent, h} \subseteq 0 .. lastEvent + h /\ lastEvent + h \in Nat BY <3>1
        <4> HIDE DEF h
        <4> QED BY <3>3, <4>1, MaxOf
      <3>5. shown' = 1 .. lastEvent'
        <4>1. Rendered(lastEvent, <<h>>) = IF h > lastEvent THEN {h} ELSE {} BY <3>1, RenderedOne
        <4>2. shown = 1 .. lastEvent BY DEF SteadyInv
        <4> HIDE DEF h
        <4>3. CASE h > lastEvent
          <5>1. h = lastEvent + 1 /\ lastEvent' = h BY <3>1, <3>2, <3>4, <4>3
          <5>2. shown' = (1 .. lastEvent) \cup {lastEvent + 1} BY <3>3, <4>1, <4>2, <4>3, <5>1
          <5> QED BY <3>1, <5>1, <5>2
        <4>4. CASE ~(h > lastEvent)
          <5>1. lastEvent' = lastEvent /\ shown' = shown BY <3>1, <3>3, <3>4, <4>1, <4>4
          <5> QED BY <4>2, <5>1
        <4> QED BY <4>3, <4>4
      <3>6. Continues(wire', rx', lastEvent')
        <4>1. lastEvent' \in Nat BY <3>1, <3>4
        <4>2. Continues(Tail(wire), rx, lastEvent') BY <2>1, <3>1, <3>4, <4>1, TailContinues
        <4> QED BY <2>1, <4>2
      <3> QED BY <2>1, <2>4, <3>5, <3>6 DEF SteadyInv
    <2> QED BY <2>2, <2>3, <2>4 DEF TypeOK
  <1>12. CASE Closed BY <1>12 DEF Closed, OnClose, SteadyInv
  <1>13. CASE ResetCursor
    <2>1. recovery.since \in Nat /\ recovery.latest \in Nat BY QueueFacts
    <2> QED BY <1>13, <2>1 DEF ResetCursor, StaleCursor, Within
  <1>14. CASE RenderPage
    <2>1. /\ recovery.stage = "replied" /\ recovery.since = lastEvent /\ socket = "open" /\ ~waiting
      BY <1>14 DEF RenderPage, SteadyInv
    <2>2. /\ lastEvent <= recovery.latest /\ recovery.upto = Reaches(lastEvent, recovery.latest)
          /\ lastEvent \in Nat /\ recovery.latest \in Nat /\ recovery.upto \in Nat
          /\ recovery.since \in Nat /\ PageSize \in Nat
      BY <2>1, QueueFacts, Numbers DEF Within
    <2>3. recovery.upto >= lastEvent BY <2>2 DEF Reaches
    <2>4. /\ Max({lastEvent} \cup NewIds) = recovery.upto
          /\ shown \cup NewIds = 1 .. recovery.upto
      BY <2>1, <2>3, PageExtends DEF SteadyInv
    <2>5. UNCHANGED <<rx>> BY <1>14 DEF RenderPage
    <2>6. CASE FullPage
      <3>1. /\ lastEvent' = recovery.upto /\ shown' = 1 .. recovery.upto
            /\ recovery' = Asked(recovery.upto, recovery.reset)
            /\ UNCHANGED <<socket, wire, waiting, pending, overflow>>
        BY <1>14, <2>4, <2>6 DEF RenderPage
      <3> QED BY <2>1, <3>1 DEF SteadyInv, Asked
    <2>7. CASE ~FullPage
      <3>1. recovery.upto = recovery.latest BY <2>1, <2>2, <2>7 DEF FullPage, Reaches
      <3>2. EndRecovery(TRUE, recovery.latest, 1 .. recovery.latest)
        BY <1>14, <2>4, <2>7, <3>1 DEF RenderPage
      <3>3. recovery' = NoRecovery /\ waiting' = FALSE /\ overflow' = FALSE
        BY <2>1, <3>2 DEF EndRecovery, ReleaseBuffer
      <3>4. CASE ~overflow
        <4>1. PICK e \in Id : Accounted(e) BY <2>1, <3>4 DEF SteadyInv
        <4>2. lastEvent' = e /\ shown' = 1 .. e /\ UNCHANGED <<wire, socket>>
          BY <3>2, <3>4, <4>1, AccountedEnd
        <4> QED BY <2>1, <2>5, <3>3, <4>1, <4>2 DEF SteadyInv, NoRecovery, Accounted
      <3>5. CASE overflow
        <4>1. GivesUp(TRUE) BY <3>5 DEF GivesUp
        <4>2. /\ lastEvent' = Max({recovery.latest} \cup {})
              /\ shown' = 1 .. recovery.latest /\ socket' = "closing"
          BY <2>1, <3>2, <4>1 DEF EndRecovery
        <4>3. lastEvent' = recovery.latest
          <5>1. {recovery.latest} \cup {} = {recovery.latest} OBVIOUS
          <5>2. Max({recovery.latest}) = recovery.latest BY <2>2, MaxIs
          <5> QED BY <4>2, <5>1, <5>2
        <4> QED BY <3>3, <4>2, <4>3 DEF SteadyInv, NoRecovery
      <3> QED BY <3>4, <3>5
    <2> QED BY <2>6, <2>7
  <1>15. CASE CallFails
    <2>1. recovery.stage = "asked" /\ socket = "open" /\ ~waiting BY <1>15 DEF CallFails, SteadyInv
    <2>2. GivesUp(FALSE) BY <1>15, <2>1 DEF CallFails
    <2>3. EndRecovery(FALSE, lastEvent, shown) BY <1>15 DEF CallFails
    <2>4. /\ lastEvent' = Max({lastEvent} \cup {}) /\ shown' = shown \cup {}
          /\ socket' = "closing" /\ recovery' = NoRecovery /\ waiting' = FALSE
      BY <2>1, <2>2, <2>3 DEF EndRecovery
    <2>5. lastEvent' = lastEvent
      <3>1. {lastEvent} \cup {} = {lastEvent} OBVIOUS
      <3>2. lastEvent \in Nat BY QueueFacts
      <3>3. Max({lastEvent}) = lastEvent BY <3>2, MaxIs
      <3> QED BY <2>4, <3>1, <3>3
    <2> QED BY <2>4, <2>5 DEF SteadyInv, NoRecovery
  <1>16. CASE Drop BY <1>16 DEF Drop, OnClose, SteadyInv
  <1>17. CASE \E n \in Id : Replace(n) BY <1>17 DEF Replace
  <1> QED BY <1>4, <1>5, <1>6, <1>7, <1>8, <1>9, <1>10, <1>11, <1>12, <1>13, <1>14, <1>15,
             <1>16, <1>17 DEF Next, Client

(* For channels, pages and buffers of any size: but for a lag message that *)
(* finds a recovery answered, a connection lost during a recovery, a       *)
(* recovery that fails with nothing held back and another world, the page  *)
(* has rendered every event up to its cursor and no other.                 *)
THEOREM NoOtherGap == Spec => []NoGapOtherwise
  <1> DEFINE Inv == TypeOK /\ WithinInv /\ WireInv /\ GapInv
  <1>1. Init => Inv
    <2>1. Init => WireInv BY DEF Init, WireInv
    <2>2. Init => GapInv
      BY DEF Init, GapInv, SteadyInv, NoRecovery, Recovering, NoGap, Continues
    <2> QED BY <2>1, <2>2, TypeInit, WithinInit
  <1>2. Inv /\ [Next]_vars => Inv'
    <2>1. Inv /\ [Next]_vars => TypeOK' /\ WithinInv' /\ WireInv'
      BY TypeStep, WithinStep, WireStep
    <2>2. Inv /\ [Next]_vars => GapInv' BY <2>1, SteadyStep DEF GapInv
    <2> QED BY <2>1, <2>2
  <1>3. Inv => NoGapOtherwise BY DEF GapInv, SteadyInv, NoGapOtherwise
  <1> QED BY <1>1, <1>2, <1>3, PTL DEF Spec
==================================================================================
