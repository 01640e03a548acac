------------------------------ MODULE MCSignedClient ------------------------------
(***************************************************************************)
(* The page signs for guest; another client uses guest's key and admin     *)
(* sends transactions without one, all beside unsigned commands.           *)
(***************************************************************************)
EXTENDS SignedClient

CONSTANTS admin, guest, echo, plain, go, stay

ActorOf(owner) ==
  [kind |-> "actor", owner |-> owner, location |-> NoEntity, contract |-> echo, name |-> plain]

TxWorld ==
  [accounts |-> [a \in {admin, guest} |->
                   [has_key |-> a = guest, nonce |-> 0, balance |-> 0]],
   contracts |-> {echo},
   entities |-> <<ActorOf(admin), ActorOf(guest)>>,
   inventories |-> <<>>, quest_progress |-> <<>>, events |-> <<>>,
   next_event_id |-> 1, next_entity_id |-> 3, head |-> 0, receipts |-> <<>>]

NoQuests == [q \in {} |-> {}]

EchoScript == [c \in {echo} |-> {"emit_event"}]
===================================================================================
