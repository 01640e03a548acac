-------------------------------- MODULE MCStartup --------------------------------
(***************************************************************************)
(* The snapshots the first start may find: worlds of older demos, worlds   *)
(* with sound and unsound legacy inventories, and worlds of three quests   *)
(* with every set of prerequisites.                                        *)
(***************************************************************************)
EXTENDS Startup, TLC

Old(key, version) == key :> [name |-> Demo, version |-> version, source |-> "old"]

(* The first demo: no Rowan, no tablet, one quest without a giver, progress *)
(* and possessions inside the actor.                                        *)
FirstDemo ==
  [Genesis EXCEPT
     !.contracts = Old(Demo, 1),
     !.entities = << NewEntity("zone", "Village", 0, NoContract),
                     NewEntity("zone", "Ruins", 0, NoContract),
                     [NewEntity("actor", NoName, 1, Demo) EXCEPT !.quest = "accepted"],
                     NewEntity("item", "brass key", 1, NoContract),
                     NewEntity("actor", "Mira", 1, NoContract) >>,
     !.next_entity_id = 6,
     !.quests = "lost_key" :> [giver_entity_id |-> 0, prerequisite_quest_ids |-> <<>>,
                               terms |-> "old"],
     !.head = 9]

Claiming(w, claims) ==
  [w EXCEPT !.entities = [i \in DOMAIN @ |->
     IF i \in DOMAIN claims THEN [@[i] EXCEPT !.inventory = {claims[i]}] ELSE @[i]]]

(* The key is already in the formal inventory of its claimant. *)
HalfMoved == [Claiming(FirstDemo, 3 :> <<4>>) EXCEPT
                !.entities[4].location = 3, !.inventories = 3 :> <<4>>]

(* A contract called demo@2 stands where the next demo version would go. *)
KeyTaken == [FirstDemo EXCEPT
               !.contracts = @ @@ Append(Demo, 2) :>
                 [name |-> Append(Demo, 2), version |-> 1, source |-> "old"]]

DemoWorlds ==
  { FirstDemo, HalfMoved, KeyTaken,
    Claiming(FirstDemo, 3 :> <<4>>),
    Claiming(FirstDemo, 3 :> <<>>),
    Claiming(FirstDemo, 3 :> <<NoEntity>>),
    Claiming(FirstDemo, 3 :> <<4, 4>>),
    Claiming(FirstDemo, 3 :> <<9>>),
    Claiming(FirstDemo, 3 :> <<5>>),
    Claiming(FirstDemo, 3 :> <<4>> @@ 5 :> <<4>>),
    [Claiming(FirstDemo, 3 :> <<4>>) EXCEPT !.head = MaxHead],
    [FirstDemo EXCEPT !.head = MaxHead],
    [FirstDemo EXCEPT !.entities[2].name = NoName],
    [FirstDemo EXCEPT !.entities[3].quest = "completed",
                      !.quest_progress = <<3, "lost_key">> :> "accepted"],
    [FirstDemo EXCEPT !.entities[4].quest = "accepted", !.entities[4].contract = Demo],
    [FirstDemo EXCEPT !.contracts = @ @@ Old(Append(Demo, 2), 2)],
    [FirstDemo EXCEPT !.contracts = @ @@ Old(Append(Demo, MaxVersion), MaxVersion)],
    [Genesis EXCEPT !.contracts = <<"other">> :> [name |-> <<"other">>, version |-> 1,
                                                  source |-> "old"]] }

(* A world of another game with three quests. *)
Prerequisites == {<<>>, <<"q1">>, <<"q2">>, <<"q3">>, <<"q1", "q2">>, <<"q2", "q3">>,
                  <<"q3", "q1">>, <<"q2", "q2">>, <<"lost_key">>}

QuestWorld(requires) ==
  [Genesis EXCEPT
     !.entities = <<NewEntity("actor", NoName, 0, NoContract), NewEntity("item", NoName, 0, NoContract)>>,
     !.next_entity_id = 3,
     !.quests = [q \in {"q1", "q2", "q3"} |->
                   [giver_entity_id |-> 1, prerequisite_quest_ids |-> requires[q],
                    terms |-> "old"]],
     !.head = 4]

QuestGraphs == [{"q1", "q2", "q3"} -> Prerequisites]

MCPrimaries ==
  {NoFile, Torn, [format |-> "future", world |-> FirstDemo]}
    \cup [format : {"bare", "1"}, world : DemoWorlds]
    \cup {[format |-> "2", world |-> QuestWorld(g)] : g \in QuestGraphs}
    \cup {[format |-> "1", world |-> Claiming(QuestWorld(g), 1 :> <<2>>)] : g \in QuestGraphs}

MCBackups == {NoFile, Torn, [format |-> "bare", world |-> Claiming(FirstDemo, 3 :> <<4>>)]}
==================================================================================
