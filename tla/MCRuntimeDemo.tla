------------------------------ MODULE MCRuntimeDemo ------------------------------
(***************************************************************************)
(* The demo world of src/demo.rs on a small scale: two zones, a player, a  *)
(* quest giver who can also act, a key that a quest consumes, a tablet     *)
(* that it does not, and a second quest that requires the first.           *)
(***************************************************************************)
EXTENDS Runtime, TLC

CONSTANTS admin, guest, demo, lost_key, open_shrine, brass_key, stone_tablet, village, ruins, other, go

DemoAccount == {admin, guest}
DemoContract == {demo}
DemoQuest == {lost_key, open_shrine}
DemoName == {brass_key, stone_tablet, village, ruins, other}
DemoIntent == {go}

DemoQuestDef ==
  lost_key :> [giver_entity_id |-> 4, prerequisite_quest_ids |-> {},
               required_item |-> brass_key, completion_zone |-> village,
               reward_balance |-> 2, consume_required_item |-> TRUE]
  @@ open_shrine :> [giver_entity_id |-> 4, prerequisite_quest_ids |-> {lost_key},
               required_item |-> stone_tablet, completion_zone |-> ruins,
               reward_balance |-> 1, consume_required_item |-> FALSE]

Thing(kind, owner, location, contract, name) ==
  [kind |-> kind, owner |-> owner, location |-> location, contract |-> contract, name |-> name]

DemoWorld ==
  [accounts |-> [a \in {admin, guest} |-> [has_key |-> FALSE, nonce |-> 0, balance |-> IF a = admin THEN 2 ELSE 0]],
   contracts |-> {demo},
   entities |-> << Thing("zone", admin, 0, NoContract, village),
                   Thing("zone", admin, 0, NoContract, ruins),
                   Thing("actor", guest, 1, demo, other),
                   Thing("actor", admin, 1, demo, other),
                   Thing("item", admin, 1, NoContract, brass_key),
                   Thing("item", admin, 2, NoContract, stone_tablet) >>,
   inventories |-> <<>>, quest_progress |-> <<>>, events |-> <<>>,
   next_event_id |-> 1, next_entity_id |-> 7, head |-> 0, receipts |-> <<>>]

DemoScript == [c \in {demo} |-> SafeCalls \ {"credit_balance", "emit_event"}]
==================================================================================
