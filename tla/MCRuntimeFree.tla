------------------------------ MODULE MCRuntimeFree ------------------------------
(***************************************************************************)
(* A contract that may call every host function, in a world where a quest  *)
(* that consumes its item is ready to be completed, with an operator who   *)
(* deploys contracts and creates accounts and entities meanwhile.          *)
(***************************************************************************)
EXTENDS Runtime

CONSTANTS admin, guest, free, bare, errand, coin, place, go

FreeAccount == {admin, guest}
FreeContract == {free, bare}
FreeQuestDef ==
  [q \in {errand} |-> [giver_entity_id |-> 2, prerequisite_quest_ids |-> {},
                       required_item |-> coin, completion_zone |-> place,
                       reward_balance |-> 1, consume_required_item |-> TRUE]]

Thing(kind, location, contract, name) ==
  [kind |-> kind, owner |-> admin, location |-> location, contract |-> contract, name |-> name]

FreeWorld ==
  [accounts |-> [a \in {admin} |-> [has_key |-> FALSE, nonce |-> 0, balance |-> 0]],
   contracts |-> {free},
   entities |-> << Thing("zone", 0, NoContract, place),
                   Thing("actor", 1, free, place),
                   Thing("item", 2, NoContract, coin) >>,
   inventories |-> [a \in {2} |-> <<3>>],
   quest_progress |-> [k \in {<<2, errand>>} |-> "accepted"],
   events |-> <<>>, next_event_id |-> 1, next_entity_id |-> 4, head |-> 0, receipts |-> <<>>]

FreeScript == [c \in FreeContract |-> IF c = free THEN HostFunction ELSE {}]
==================================================================================
