------------------------------ MODULE IdealLimiter ------------------------------
(***************************************************************************)
(* What the rate limiter promises (doc/api.md, "HTTP Policy"): a bucket    *)
(* for every client, always there and always refilling, and one that       *)
(* clients without room for their own share.  A request takes a token or   *)
(* is refused with the exact delay until the bucket has one.               *)
(***************************************************************************)
EXTENDS Integers

CONSTANTS Client, Overflow, Rate, Second
VARIABLES level, reply

Key == Client \cup {Overflow}
Capacity == Rate * Second

Init == level = [k \in Key |-> Capacity] /\ reply = <<>>

Accept(c, k) ==
  /\ level[k] >= Second
  /\ level' = [level EXCEPT ![k] = @ - Second]
  /\ reply' = <<c, k, 0>>

Refuse(c, k, delay) ==
  /\ level[k] < Second
  /\ level[k] + delay * Rate >= Second
  /\ level[k] + (delay - 1) * Rate < Second
  /\ reply' = <<c, k, delay>>
  /\ UNCHANGED level

Elapse ==
  /\ level' = [k \in Key |-> IF level[k] + Rate <= Capacity THEN level[k] + Rate ELSE Capacity]
  /\ UNCHANGED reply

Next ==
  \/ \E c \in Key : \E k \in {c, Overflow} :
       Accept(c, k) \/ \E delay \in 1 .. Second : Refuse(c, k, delay)
  \/ Elapse

Spec == Init /\ [][Next]_<<level, reply>>
=================================================================================
