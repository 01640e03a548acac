---------------------------------- MODULE MCLedger ----------------------------------
(***************************************************************************)
(* Two instances and two accounts.  Alice's hero moves the world on, Bob's *)
(* pet breaks in one world and is computed differently by the second       *)
(* instance in another.  Alice signs her first transaction twice and one   *)
(* for another chain.                                                      *)
(***************************************************************************)
EXTENDS MemoryLedger

CONSTANTS r1, r2, alice, bob

MCReplica == {r1, r2}
MCAccount == {alice, bob}
MCEntityId == 1 .. 3
MCAction == {"go", "feed"}
MCData == 0 .. 2

MCOwner == [d \in MCData |-> [e \in MCEntityId |->
              CASE e = 1 -> alice [] e = 2 -> bob [] OTHER -> NoAccount]]

(* "go" creates an entity (head moves twice, one change is logged) except  *)
(* in world 2, where nothing is left to do; "feed" fails in world 0.       *)
MCOutcome == [r \in MCReplica |-> [d \in MCData |-> [e \in MCEntityId |-> [a \in MCAction |->
  IF a = "go" THEN IF d = 2 THEN [data |-> 2, heads |-> 0, events |-> 0]
                            ELSE [data |-> d + 1, heads |-> 1, events |-> 1]
  ELSE IF d = 0 THEN Failure
       ELSE [data |-> IF r = r2 /\ d = 2 THEN 0 ELSE 1, heads |-> 0, events |-> 0]]]]]

Tx(a, n, e, act, sig) == [chain_id |-> ThisChain, from |-> a, nonce |-> n,
                          entity_id |-> e, action |-> act, signature |-> sig]

MCSigned ==
  {Tx(alice, n, 1, "go", "first") : n \in 0 .. 1} \cup
  {Tx(bob, n, 2, "feed", "first") : n \in 0 .. 1} \cup
  {Tx(alice, 0, 1, "go", "second"), Tx(alice, 1, 2, "go", "first"), Tx(bob, 0, 3, "go", "first"),
   [Tx(alice, 0, 1, "go", "first") EXCEPT !.chain_id = "other"]}

(* One that nobody signed. *)
MCSubmitted == MCSigned \cup {Tx(alice, 1, 1, "go", "second")}
====================================================================================
