------------------------------ MODULE StartupProofs ------------------------------
(***************************************************************************)
(* Theorems about Startup.tla, for every two snapshots the first start may *)
(* find, any number of starts, kills, commands and damages, and worlds of  *)
(* any size.                                                               *)
(***************************************************************************)
EXTENDS Startup, FiniteSetTheorems, TLAPS

----------------------------------------------------------------------------
(* A refused start leaves the files.                                       *)

(* What a start has done to the files before its first save.               *)
FilesKept ==
  pc \in {"migrate", "upgrade", "refused"} =>
    /\ backup = found.backup
    /\ Decodes(found.primary) => primary = found.primary

(* A start that fails in its migration or validation leaves the backup and *)
(* every primary it could read as they were: the only file it may have     *)
(* written is the primary it has restored from the backup.                 *)
THEOREM RefusalWritesNothing == Spec => []RefusalKeepsFiles
<1>1. Init => FilesKept  BY DEF Init, FilesKept
<1>2. FilesKept /\ [Next]_vars => FilesKept'
  <2> SUFFICES ASSUME FilesKept, [Next]_vars  PROVE FilesKept'
    OBVIOUS
  <2>1. ASSUME NEW d \in BOOLEAN, StartFromPrimary(d)  PROVE FilesKept'
    BY <2>1 DEF StartFromPrimary, Begin, FilesKept
  <2>2. ASSUME NEW d \in BOOLEAN, StartFromBackup(d)  PROVE FilesKept'
    BY <2>2 DEF StartFromBackup, Begin, FilesKept
  <2>3. ASSUME NEW d \in BOOLEAN, StartUnreadable(d)  PROVE FilesKept'
    BY <2>3 DEF StartUnreadable, FilesKept, files
  <2>4. CASE Migrate \/ MigrationFails \/ PreparationFails
    BY <2>4 DEF Migrate, MigrationFails, PreparationFails, Refuse, FilesKept, files
  <2>5. CASE Prepare  BY <2>5 DEF Prepare, FilesKept
  <2>6. CASE SaveBackup \/ SavePrimary \/ Serve \/ Command \/ Stop \/ Damage
    BY <2>6 DEF SaveBackup, SavePrimary, Serve, Command, Stop, Damage, FilesKept
  <2>7. CASE UNCHANGED vars  BY <2>7 DEF vars, files, FilesKept
  <2>8. QED  BY <2>1, <2>2, <2>3, <2>4, <2>5, <2>6, <2>7 DEF Next
<1>3. FilesKept => RefusalKeepsFiles  BY DEF FilesKept, RefusalKeepsFiles
<1>4. QED  BY <1>1, <1>2, <1>3, PTL DEF Spec

----------------------------------------------------------------------------
(* Counting.                                                               *)

(* What holds of 0 and passes from each number below n to the next holds   *)
(* of n.                                                                   *)
LEMMA UpTo ==
  ASSUME NEW n \in Nat, NEW S, 0 \in S, \A m \in Nat : m \in S /\ m < n => m + 1 \in S
  PROVE  n \in S
<1> DEFINE T == {m \in Nat : m \notin S /\ m <= n}
           R == OpToRel(<, Nat)
<1>1. SUFFICES ASSUME n \notin S  PROVE FALSE
  OBVIOUS
<1>2. T \subseteq Nat /\ T # {}  BY <1>1
<1>3. \E x \in T : \A y \in T : ~ (<<y, x>> \in R)
  <2>1. IsWellFoundedOn(R, Nat)  BY NatLessThanWellFounded
  <2> HIDE DEF R, T
  <2>2. QED  BY <1>2, <2>1, WFMin
<1>4. \A x, y \in Nat : y < x => <<y, x>> \in R  BY DEF OpToRel
<1>5. PICK x \in T : \A y \in T : ~ (y < x)
  <2> HIDE DEF R, T
  <2>1. QED  BY <1>2, <1>3, <1>4
<1>6. x # 0 /\ x - 1 \in Nat /\ x - 1 < n /\ x - 1 < x  OBVIOUS
<1>7. x - 1 \in S  BY <1>5, <1>6
<1>8. (x - 1) + 1 \in S  BY <1>6, <1>7
<1>9. QED  BY <1>8

----------------------------------------------------------------------------
(* The steps of a migration and of a demo upgrade.                         *)

(* A world whose next id is free.                                          *)
Sound(w) ==
  /\ WorldTyped(w) /\ w.next_entity_id # 0
  /\ \A i \in DOMAIN w.entities : i < w.next_entity_id

(* What a demo upgrade may do to a world: it adds entities without legacy  *)
(* data and leaves those it finds where they are.                          *)
Grown(w, v) ==
  /\ v.accounts = w.accounts /\ v.inventories = w.inventories
  /\ \A i \in DOMAIN w.entities : /\ i \in DOMAIN v.entities
                                  /\ v.entities[i].kind = w.entities[i].kind
                                  /\ v.entities[i].name = w.entities[i].name
                                  /\ v.entities[i].location = w.entities[i].location
                                  /\ v.entities[i].inventory = w.entities[i].inventory
                                  /\ v.entities[i].quest = w.entities[i].quest
  /\ \A i \in DOMAIN v.entities : i \in DOMAIN w.entities \/ v.entities[i].inventory = NoClaim

LEMMA GrownTransitive ==
  ASSUME NEW u, NEW v, NEW w, Grown(u, v), Grown(v, w)
  PROVE  Grown(u, w)
BY DEF Grown

LEMMA GrownSelf == \A w : Grown(w, w)
BY DEF Grown

(* No upgrade makes a claim.                                               *)
LEMMA GrownClaimless ==
  ASSUME NEW w, NEW v, Grown(w, v), Claimants(w) = {}
  PROVE  Claimants(v) = {}
BY DEF Grown, Claimants

LEMMA IncrementedType == \A n \in Nat, max \in Nat : Incremented(n, max) \in 0 .. max
BY DEF Incremented

(* deploy_version adds a contract.                                         *)
LEMMA DeployKeeps ==
  ASSUME NEW w, Sound(w), NEW name, NEW version \in 0 .. MaxVersion, NEW source,
         NEW v \in DeployVersion(w, name, version, source)
  PROVE  /\ Sound(v) /\ Grown(w, v)
         /\ version # 0 /\ Key(name, version) \notin DOMAIN w.contracts
         /\ DOMAIN v.contracts = DOMAIN w.contracts \cup {Key(name, version)}
         /\ \A k \in DOMAIN w.contracts : v.contracts[k] = w.contracts[k]
         /\ v.contracts[Key(name, version)] = [name |-> name, version |-> version, source |-> source]
         /\ v.entities = w.entities /\ v.next_entity_id = w.next_entity_id
         /\ v.quests = w.quests /\ v.quest_progress = w.quest_progress
<1> DEFINE key == Key(name, version)
           contracts == [k \in DOMAIN w.contracts \cup {key} |->
                           IF k \in DOMAIN w.contracts THEN w.contracts[k]
                           ELSE [name |-> name, version |-> version, source |-> source]]
<1>1. /\ version # 0 /\ key \notin DOMAIN w.contracts
      /\ v = [w EXCEPT !.contracts = contracts, !.head = Incremented(@, MaxHead)]
  BY DEF DeployVersion
<1>2. WorldTyped(w)  BY DEF Sound
<1> HIDE DEF contracts, key
<1>3. /\ v.accounts = w.accounts /\ v.contracts = contracts /\ v.entities = w.entities
      /\ v.next_entity_id = w.next_entity_id /\ v.inventories = w.inventories
      /\ v.quests = w.quests /\ v.quest_progress = w.quest_progress
      /\ v.head = Incremented(w.head, MaxHead)
      /\ v = [accounts |-> v.accounts, contracts |-> v.contracts, entities |-> v.entities,
              next_entity_id |-> v.next_entity_id, inventories |-> v.inventories,
              quests |-> v.quests, quest_progress |-> v.quest_progress, head |-> v.head]
  BY <1>1, <1>2 DEF WorldTyped
<1>4. /\ DOMAIN contracts = DOMAIN w.contracts \cup {key}
      /\ \A k \in DOMAIN w.contracts : contracts[k] = w.contracts[k]
      /\ contracts[key] = [name |-> name, version |-> version, source |-> source]
      /\ IsFunction(contracts)
  BY <1>1 DEF contracts, IsFunction
<1>5. v.head \in 0 .. MaxHead
  <2>1. w.head \in Nat  BY <1>2 DEF WorldTyped
  <2>2. QED  BY <1>3, <2>1, IncrementedType, FileAssumption
<1>6. IsFiniteSet(DOMAIN contracts)  BY <1>2, <1>4, FS_AddElement DEF WorldTyped
<1>7. \A k \in DOMAIN contracts : ContractTyped(contracts[k])
  BY <1>2, <1>4 DEF WorldTyped, ContractTyped
<1>8. WorldTyped(v)  BY <1>2, <1>3, <1>4, <1>5, <1>6, <1>7 DEF WorldTyped
<1>9. QED  BY <1>1, <1>3, <1>4, <1>8 DEF Sound, Grown, key

(* create_entity adds an entity with the next id.                          *)
LEMMA CreateKeeps ==
  ASSUME NEW w, Sound(w), NEW e, EntityTyped(e), e.inventory = NoClaim,
         NEW v \in CreateEntity(w, e)
  PROVE  /\ Sound(v) /\ Grown(w, v)
         /\ w.next_entity_id \notin DOMAIN w.entities
         /\ DOMAIN v.entities = DOMAIN w.entities \cup {w.next_entity_id}
         /\ \A i \in DOMAIN w.entities : v.entities[i] = w.entities[i]
         /\ v.entities[w.next_entity_id] = e
         /\ v.next_entity_id = w.next_entity_id + 1
         /\ v.contracts = w.contracts
         /\ v.quests = w.quests /\ v.quest_progress = w.quest_progress
<1> DEFINE id == w.next_entity_id
           entities == [i \in DOMAIN w.entities \cup {id} |-> IF i = id THEN e ELSE w.entities[i]]
<1>1. v = [w EXCEPT !.entities = entities, !.next_entity_id = @ + 1, !.head = Incremented(@, MaxHead)]
  BY DEF CreateEntity
<1>2. /\ WorldTyped(w) /\ id \in Nat \ {0}
      /\ \A i \in DOMAIN w.entities : i \in Nat \ {0} /\ i < id
  BY DEF Sound, WorldTyped, NoEntity
<1>3. id \notin DOMAIN w.entities  BY <1>2
<1> HIDE DEF entities
<1>4. /\ v.accounts = w.accounts /\ v.contracts = w.contracts /\ v.entities = entities
      /\ v.next_entity_id = id + 1 /\ v.inventories = w.inventories
      /\ v.quests = w.quests /\ v.quest_progress = w.quest_progress
      /\ v.head = Incremented(w.head, MaxHead)
      /\ v = [accounts |-> v.accounts, contracts |-> v.contracts, entities |-> v.entities,
              next_entity_id |-> v.next_entity_id, inventories |-> v.inventories,
              quests |-> v.quests, quest_progress |-> v.quest_progress, head |-> v.head]
  BY <1>1, <1>2 DEF WorldTyped
<1>5. /\ DOMAIN entities = DOMAIN w.entities \cup {id}
      /\ \A i \in DOMAIN w.entities : entities[i] = w.entities[i]
      /\ entities[id] = e /\ IsFunction(entities)
  BY <1>3 DEF entities, IsFunction
<1>6. v.head \in 0 .. MaxHead
  <2>1. w.head \in Nat  BY <1>2 DEF WorldTyped
  <2>2. QED  BY <1>4, <2>1, IncrementedType, FileAssumption
<1>7. /\ id + 1 \in Nat \ {0}
      /\ \A i \in DOMAIN entities : i \in Nat \ {0} /\ i < id + 1
  BY <1>2, <1>5
<1>8. \A i \in DOMAIN entities : EntityTyped(entities[i])  BY <1>2, <1>5 DEF WorldTyped
<1> HIDE DEF id
<1>9. WorldTyped(v)  BY <1>2, <1>4, <1>5, <1>6, <1>7, <1>8 DEF WorldTyped, NoEntity
<1>10. Sound(v)  BY <1>4, <1>7, <1>9 DEF Sound
<1>11. Grown(w, v)  BY <1>4, <1>5 DEF Grown
<1>12. QED  BY <1>3, <1>4, <1>5, <1>10, <1>11 DEF id

(* The entities that the program itself creates have no legacy data.       *)
LEMMA NewEntityTyped ==
  \A kind, name, location, contract :
    /\ EntityTyped(NewEntity(kind, name, location, contract))
    /\ NewEntity(kind, name, location, contract).inventory = NoClaim
BY DEF NewEntity, EntityTyped

(* Binding the demo's actors changes their contract only.                  *)
LEMMA RebindKeeps ==
  ASSUME NEW w, Sound(w), NEW target
  PROVE  LET v == Rebind(w, target)
         IN /\ Sound(v) /\ Grown(w, v)
            /\ DOMAIN v.entities = DOMAIN w.entities /\ IsFunction(v.entities)
            /\ \A i \in DOMAIN w.entities :
                 v.entities[i] = IF i \in DemoActors(w)
                                 THEN [w.entities[i] EXCEPT !.contract = target]
                                 ELSE w.entities[i]
            /\ v.next_entity_id = w.next_entity_id /\ v.contracts = w.contracts
            /\ v.quests = w.quests /\ v.quest_progress = w.quest_progress
            /\ v.head = w.head
<1> DEFINE entities == [i \in DOMAIN w.entities |->
                          IF i \in DemoActors(w) THEN [w.entities[i] EXCEPT !.contract = target]
                          ELSE w.entities[i]]
<1>1. PICK v : v = Rebind(w, target)  OBVIOUS
<1>2. v = [w EXCEPT !.entities = entities]  BY <1>1 DEF Rebind
<1>3. WorldTyped(w)  BY DEF Sound
<1>4. /\ DOMAIN entities = DOMAIN w.entities /\ IsFunction(entities)
      /\ \A i \in DOMAIN w.entities :
           entities[i] = IF i \in DemoActors(w) THEN [w.entities[i] EXCEPT !.contract = target]
                         ELSE w.entities[i]
  BY DEF IsFunction
<1> HIDE DEF entities
<1>5. /\ v.accounts = w.accounts /\ v.contracts = w.contracts /\ v.entities = entities
      /\ v.next_entity_id = w.next_entity_id /\ v.inventories = w.inventories
      /\ v.quests = w.quests /\ v.quest_progress = w.quest_progress /\ v.head = w.head
      /\ v = [accounts |-> v.accounts, contracts |-> v.contracts, entities |-> v.entities,
              next_entity_id |-> v.next_entity_id, inventories |-> v.inventories,
              quests |-> v.quests, quest_progress |-> v.quest_progress, head |-> v.head]
  BY <1>2, <1>3 DEF WorldTyped
<1>6. ASSUME NEW i \in DOMAIN w.entities
      PROVE  /\ EntityTyped(entities[i])
             /\ entities[i].kind = w.entities[i].kind /\ entities[i].name = w.entities[i].name
             /\ entities[i].location = w.entities[i].location
             /\ entities[i].inventory = w.entities[i].inventory
             /\ entities[i].quest = w.entities[i].quest
  <2>1. EntityTyped(w.entities[i])  BY <1>3 DEF WorldTyped
  <2>2. PICK e : e = w.entities[i]  OBVIOUS
  <2>3. PICK f : f = entities[i]  OBVIOUS
  <2>4. f = e \/ f = [e EXCEPT !.contract = target]  BY <1>4, <2>2, <2>3
  <2>5. /\ f.kind = e.kind /\ f.name = e.name /\ f.location = e.location
        /\ f.inventory = e.inventory /\ f.quest = e.quest
        /\ f = [kind |-> f.kind, owner |-> f.owner, location |-> f.location,
                contract |-> f.contract, name |-> f.name, inventory |-> f.inventory,
                quest |-> f.quest]
    BY <2>1, <2>2, <2>4 DEF EntityTyped
  <2>6. QED  BY <2>1, <2>2, <2>3, <2>5 DEF EntityTyped
<1>7. WorldTyped(v)  BY <1>3, <1>4, <1>5, <1>6 DEF WorldTyped
<1>8. Sound(v) /\ Grown(w, v)  BY <1>4, <1>5, <1>6, <1>7 DEF Sound, Grown
<1>9. QED  BY <1>1, <1>4, <1>5, <1>8

(* Importing progress touches progress only.                               *)
LEMMA ImportKeeps ==
  ASSUME NEW w, Sound(w)
  PROVE  LET v == ImportProgress(w)
         IN /\ Sound(v) /\ Grown(w, v) /\ v.entities = w.entities
            /\ v.next_entity_id = w.next_entity_id /\ v.contracts = w.contracts
            /\ v.quests = w.quests /\ v.head = w.head
            /\ \A k \in DOMAIN w.quest_progress : k \in DOMAIN v.quest_progress
            /\ \A i \in DemoActors(w) :
                 w.entities[i].quest # "none" => <<i, "lost_key">> \in DOMAIN v.quest_progress
<1> DEFINE imported == {<<i, "lost_key">> :
                          i \in {j \in DemoActors(w) : w.entities[j].quest # "none"}}
           progress == [k \in DOMAIN w.quest_progress \cup imported |->
                          IF k \in DOMAIN w.quest_progress THEN w.quest_progress[k]
                          ELSE w.entities[k[1]].quest]
<1>1. PICK v : v = ImportProgress(w)  OBVIOUS
<1>2. v = [w EXCEPT !.quest_progress = progress]  BY <1>1 DEF ImportProgress
<1>3. WorldTyped(w)  BY DEF Sound
<1>4. DOMAIN progress = DOMAIN w.quest_progress \cup imported /\ IsFunction(progress)
  BY DEF IsFunction
<1>5. \A i \in DemoActors(w) : w.entities[i].quest # "none" => <<i, "lost_key">> \in imported
  OBVIOUS
<1> HIDE DEF progress, imported
<1>6. /\ v.accounts = w.accounts /\ v.contracts = w.contracts /\ v.entities = w.entities
      /\ v.next_entity_id = w.next_entity_id /\ v.inventories = w.inventories
      /\ v.quests = w.quests /\ v.quest_progress = progress /\ v.head = w.head
      /\ v = [accounts |-> v.accounts, contracts |-> v.contracts, entities |-> v.entities,
              next_entity_id |-> v.next_entity_id, inventories |-> v.inventories,
              quests |-> v.quests, quest_progress |-> v.quest_progress, head |-> v.head]
  BY <1>2, <1>3 DEF WorldTyped
<1>7. WorldTyped(v)  BY <1>3, <1>4, <1>6 DEF WorldTyped
<1>8. Sound(v) /\ Grown(w, v)  BY <1>6, <1>7 DEF Sound, Grown
<1>9. QED  BY <1>1, <1>4, <1>5, <1>6, <1>8

(* The definitions of the demo's quests.                                   *)
LEMMA DefinitionTyped == \A q, mira, rowan : QuestTyped(DemoDefinition(q, mira, rowan))
<1>1. \A s : s = <<"lost_key">> => s \in Seq({s[i] : i \in DOMAIN s})  OBVIOUS
<1>2. \A s : s = <<>> => s \in Seq({s[i] : i \in DOMAIN s})  OBVIOUS
<1>3. QED  BY <1>1, <1>2 DEF QuestTyped, DemoDefinition, W!Items

LEMMA QuestsKeep ==
  ASSUME NEW w, Sound(w), NEW mira, NEW rowan
  PROVE  LET v == WithDemoQuests(w, mira, rowan)
         IN /\ Sound(v) /\ Grown(w, v) /\ v.entities = w.entities
            /\ v.next_entity_id = w.next_entity_id /\ v.contracts = w.contracts
            /\ v.quest_progress = w.quest_progress /\ v.head = w.head
            /\ DOMAIN v.quests = DOMAIN w.quests \cup DemoQuest
            /\ \A q \in DemoQuest : v.quests[q] = DemoDefinition(q, mira, rowan)
<1> DEFINE quests == [q \in DOMAIN w.quests \cup DemoQuest |->
                        IF q \in DemoQuest THEN DemoDefinition(q, mira, rowan) ELSE w.quests[q]]
<1>1. PICK v : v = WithDemoQuests(w, mira, rowan)  OBVIOUS
<1>2. v = [w EXCEPT !.quests = quests]  BY <1>1 DEF WithDemoQuests
<1>3. WorldTyped(w)  BY DEF Sound
<1>4. /\ DOMAIN quests = DOMAIN w.quests \cup DemoQuest /\ IsFunction(quests)
      /\ \A q \in DemoQuest : quests[q] = DemoDefinition(q, mira, rowan)
      /\ \A q \in DOMAIN w.quests : q \in DemoQuest \/ quests[q] = w.quests[q]
  BY DEF IsFunction
<1> HIDE DEF quests
<1>5. /\ v.accounts = w.accounts /\ v.contracts = w.contracts /\ v.entities = w.entities
      /\ v.next_entity_id = w.next_entity_id /\ v.inventories = w.inventories
      /\ v.quests = quests /\ v.quest_progress = w.quest_progress /\ v.head = w.head
      /\ v = [accounts |-> v.accounts, contracts |-> v.contracts, entities |-> v.entities,
              next_entity_id |-> v.next_entity_id, inventories |-> v.inventories,
              quests |-> v.quests, quest_progress |-> v.quest_progress, head |-> v.head]
  BY <1>2, <1>3 DEF WorldTyped
<1>6. IsFiniteSet(DOMAIN quests)
  <2>1. DOMAIN quests = ((DOMAIN w.quests \cup {"lost_key"}) \cup {"ruins_tablet"}) \cup {"open_shrine"}
    BY <1>4 DEF DemoQuest
  <2>2. IsFiniteSet(DOMAIN w.quests)  BY <1>3 DEF WorldTyped
  <2>3. IsFiniteSet(DOMAIN w.quests \cup {"lost_key"})  BY <2>2, FS_AddElement
  <2>4. IsFiniteSet((DOMAIN w.quests \cup {"lost_key"}) \cup {"ruins_tablet"})
    BY <2>3, FS_AddElement
  <2>5. IsFiniteSet(((DOMAIN w.quests \cup {"lost_key"}) \cup {"ruins_tablet"}) \cup {"open_shrine"})
    BY <2>4, FS_AddElement
  <2>6. QED  BY <2>1, <2>5
<1>7. \A q \in DOMAIN quests : QuestTyped(quests[q])
  BY <1>3, <1>4, DefinitionTyped DEF WorldTyped
<1>8. WorldTyped(v)  BY <1>3, <1>4, <1>5, <1>6, <1>7 DEF WorldTyped
<1>9. Sound(v) /\ Grown(w, v)  BY <1>5, <1>8 DEF Sound, Grown
<1>10. QED  BY <1>1, <1>4, <1>5, <1>9

(* Counting a change touches the head only.                                *)
LEMMA AdvanceKeeps ==
  ASSUME NEW old, NEW w, Sound(w)
  PROVE  LET v == Advanced(old, w)
         IN /\ Sound(v) /\ Grown(w, v) /\ v.entities = w.entities
            /\ v.next_entity_id = w.next_entity_id /\ v.contracts = w.contracts
            /\ v.quests = w.quests /\ v.quest_progress = w.quest_progress
            /\ v.accounts = w.accounts /\ v.inventories = w.inventories
<1>1. PICK v : v = Advanced(old, w)  OBVIOUS
<1>2. CASE w = old
  <2>1. v = w  BY <1>1, <1>2 DEF Advanced
  <2>2. QED  BY <1>1, <2>1, GrownSelf
<1>3. CASE w # old
  <2>1. v = [w EXCEPT !.head = Incremented(@, MaxHead)]  BY <1>1, <1>3 DEF Advanced
  <2>2. WorldTyped(w)  BY DEF Sound
  <2>3. /\ v.accounts = w.accounts /\ v.contracts = w.contracts /\ v.entities = w.entities
        /\ v.next_entity_id = w.next_entity_id /\ v.inventories = w.inventories
        /\ v.quests = w.quests /\ v.quest_progress = w.quest_progress
        /\ v.head = Incremented(w.head, MaxHead)
        /\ v = [accounts |-> v.accounts, contracts |-> v.contracts, entities |-> v.entities,
                next_entity_id |-> v.next_entity_id, inventories |-> v.inventories,
                quests |-> v.quests, quest_progress |-> v.quest_progress, head |-> v.head]
    BY <2>1, <2>2 DEF WorldTyped
  <2>4. v.head \in 0 .. MaxHead
    <3>1. w.head \in Nat  BY <2>2 DEF WorldTyped
    <3>2. QED  BY <2>3, <3>1, IncrementedType, FileAssumption
  <2>5. WorldTyped(v)  BY <2>2, <2>3, <2>4 DEF WorldTyped
  <2>6. Sound(v) /\ Grown(w, v)  BY <2>3, <2>5 DEF Sound, Grown
  <2>7. QED  BY <1>1, <2>3, <2>6
<1>4. QED  BY <1>2, <1>3

(* The chain of creations is defined.                                      *)
Created(worlds, e) == UNION {CreateEntity(v, e) : v \in worlds}

Creation(c, w, all, len) ==
  c = [n \in 0 .. len |-> IF n = 0 THEN {w} ELSE Created(c[n - 1], all[n])]

LEMMA CreationsExist ==
  ASSUME NEW w, NEW all, NEW len \in Nat
  PROVE  \E c : Creation(c, w, all, len)
<1> DEFINE Chain(c, k) == c = [n \in 0 .. k |-> IF n = 0 THEN {w}
                                 ELSE Created(c[n - 1], all[n])]
           S == {k \in Nat : \E c : Chain(c, k)}
<1>1. 0 \in S
  <2>1. Chain([n \in 0 .. 0 |-> {w}], 0)  OBVIOUS
  <2> HIDE DEF Chain
  <2>2. QED  BY <2>1
<1>2. ASSUME NEW m \in Nat, m \in S  PROVE m + 1 \in S
  <2>1. PICK c : Chain(c, m)  BY <1>2
  <2> DEFINE d == [n \in 0 .. m + 1 |->
                     IF n = m + 1 THEN Created(c[m], all[n]) ELSE c[n]]
  <2>2. ASSUME NEW n \in 0 .. m + 1
        PROVE  d[n] = IF n = 0 THEN {w} ELSE Created(d[n - 1], all[n])
    <3>1. CASE n = m + 1
      <4>1. n # 0 /\ n - 1 = m /\ m \in 0 .. m + 1 /\ m # m + 1  BY <3>1
      <4>2. d[n - 1] = c[m]  BY <4>1
      <4>3. QED  BY <3>1, <4>1, <4>2
    <3>2. CASE n # m + 1
      <4>1. n \in 0 .. m  BY <3>2
      <4>2. d[n] = c[n]  BY <3>2
      <4>3. c[n] = IF n = 0 THEN {w} ELSE Created(c[n - 1], all[n])
        BY <2>1, <4>1
      <4>4. n # 0 => d[n - 1] = c[n - 1]  BY <4>1
      <4>5. QED  BY <4>2, <4>3, <4>4
    <3>3. QED  BY <3>1, <3>2
  <2>3. PICK e : e = d  OBVIOUS
  <2>4. e = [n \in 0 .. m + 1 |-> e[n]]  BY <2>3
  <2>5. \A n \in 0 .. m + 1 :
          e[n] = IF n = 0 THEN {w} ELSE Created(e[n - 1], all[n])
    BY <2>2, <2>3
  <2>6. Chain(e, m + 1)
    <3> HIDE DEF d
    <3>1. QED  BY <2>4, <2>5
  <2> HIDE DEF Chain, d
  <2>7. m + 1 \in Nat  OBVIOUS
  <2>8. QED  BY <2>6, <2>7
<1>3. len \in S
  <2> HIDE DEF S
  <2>1. QED  BY <1>1, <1>2, UpTo
<1>4. QED  BY <1>3 DEF Creation

(* The new demo's entities, in the order of their ids.                     *)
Furnished(w, v, n) ==
  LET first == w.next_entity_id
  IN /\ Sound(v) /\ Grown(w, v)
     /\ v.next_entity_id = first + n
     /\ DOMAIN v.entities = DOMAIN w.entities \cup first .. first + n - 1
     /\ \A i \in DOMAIN w.entities : v.entities[i] = w.entities[i]
     /\ \A m \in 1 .. n : v.entities[first + m - 1] = DemoEntities(first)[m]
     /\ v.contracts = w.contracts /\ v.quests = w.quests
     /\ v.quest_progress = w.quest_progress

LEMMA DemoEntitiesTyped ==
  ASSUME NEW first \in Nat
  PROVE  /\ Len(DemoEntities(first)) = 8
         /\ \A n \in 1 .. 8 : /\ EntityTyped(DemoEntities(first)[n])
                              /\ DemoEntities(first)[n].inventory = NoClaim
                              /\ DemoEntities(first)[n].quest = "none"
<1> DEFINE all == DemoEntities(first)
<1>1. Len(all) = 8  BY DEF DemoEntities
<1>2. ASSUME NEW n \in 1 .. 8
      PROVE  \E kind, name, location, contract :
               all[n] = NewEntity(kind, name, location, contract)
  <2>1. n \in {1, 2, 3, 4, 5, 6, 7, 8}  OBVIOUS
  <2>2. /\ \E kind, name, location, contract : all[1] = NewEntity(kind, name, location, contract)
        /\ \E kind, name, location, contract : all[2] = NewEntity(kind, name, location, contract)
        /\ \E kind, name, location, contract : all[3] = NewEntity(kind, name, location, contract)
        /\ \E kind, name, location, contract : all[4] = NewEntity(kind, name, location, contract)
        /\ \E kind, name, location, contract : all[5] = NewEntity(kind, name, location, contract)
        /\ \E kind, name, location, contract : all[6] = NewEntity(kind, name, location, contract)
        /\ \E kind, name, location, contract : all[7] = NewEntity(kind, name, location, contract)
        /\ \E kind, name, location, contract : all[8] = NewEntity(kind, name, location, contract)
    BY DEF DemoEntities
  <2> HIDE DEF all
  <2>3. QED  BY <2>1, <2>2
<1>3. \A kind, name, location, contract :
        NewEntity(kind, name, location, contract).quest = "none"
  BY DEF NewEntity
<1> HIDE DEF all
<1>4. \A n \in 1 .. 8 : /\ EntityTyped(all[n])
                        /\ all[n].inventory = NoClaim /\ all[n].quest = "none"
  BY <1>2, <1>3, NewEntityTyped
<1>5. QED  BY <1>1, <1>4 DEF all

LEMMA DemoCreated ==
  ASSUME NEW w, Sound(w), NEW v \in CreateDemoEntities(w)
  PROVE  Furnished(w, v, 8)
<1> DEFINE first == w.next_entity_id
           all   == DemoEntities(first)
           Chain(c) == c = [n \in 0 .. Len(all) |->
                              IF n = 0 THEN {w}
                              ELSE UNION {CreateEntity(u, all[n]) : u \in c[n - 1]}]
           create == CHOOSE c : Chain(c)
           S == {n \in Nat : n <= 8 => \A u \in create[n] : Furnished(w, u, n)}
<1>1. first \in Nat /\ \A i \in DOMAIN w.entities : i \in Nat /\ i < first
  BY DEF Sound, WorldTyped
<1>2. Len(all) = 8 /\ \A n \in 1 .. 8 : EntityTyped(all[n]) /\ all[n].inventory = NoClaim
  BY <1>1, DemoEntitiesTyped
<1>3. CreateDemoEntities(w) = create[Len(all)]  BY DEF CreateDemoEntities
<1>4. Chain(create)
  <2>1. \E c : Chain(c)
    <3> HIDE DEF all, first
    <3>1. PICK a : a = all  OBVIOUS
    <3>2. PICK len \in Nat : len = Len(all)  BY <1>2
    <3>3. PICK c : Creation(c, w, a, len)
      BY <3>2, CreationsExist
    <3>4. \A n \in 0 .. len : (IF n = 0 THEN {w} ELSE Created(c[n - 1], a[n]))
                            = (IF n = 0 THEN {w} ELSE UNION {CreateEntity(u, a[n]) : u \in c[n - 1]})
      BY DEF Created
    <3>5. c = [n \in 0 .. len |-> IF n = 0 THEN {w}
                                 ELSE UNION {CreateEntity(u, a[n]) : u \in c[n - 1]}]
      <4>1. DOMAIN c = 0 .. len /\ IsFunction(c)  BY <3>3 DEF Creation, IsFunction
      <4>2. \A n \in 0 .. len : c[n] = IF n = 0 THEN {w} ELSE Created(c[n - 1], a[n])
        BY <3>3 DEF Creation
      <4>3. QED  BY <3>4, <4>1, <4>2 DEF IsFunction
    <3>6. Chain(c)  BY <3>1, <3>2, <3>5
    <3>7. QED  BY <3>6
  <2> HIDE DEF Chain
  <2>2. QED  BY <2>1
<1> HIDE DEF create, all, first
<1>5. \A n \in 0 .. 8 : create[n] = IF n = 0 THEN {w}
                                    ELSE UNION {CreateEntity(u, all[n]) : u \in create[n - 1]}
  BY <1>2, <1>4
<1>6. 0 \in S
  <2>1. create[0] = {w}  BY <1>5
  <2>2. first .. first + 0 - 1 = {}  BY <1>1
  <2>3. Furnished(w, w, 0)
    <3>1. 1 .. 0 = {} /\ first + 0 = first  BY <1>1
    <3>2. QED  BY <2>2, <3>1, GrownSelf DEF Furnished, first
  <2>4. QED  BY <2>1, <2>3
<1>7. ASSUME NEW m \in Nat, m \in S, m + 1 <= 8, NEW u \in create[m + 1]
      PROVE  Furnished(w, u, m + 1)
  <2>1. m + 1 \in 0 .. 8 /\ m + 1 # 0 /\ (m + 1) - 1 = m /\ m <= 8 /\ m + 1 \in 1 .. 8
    BY <1>7
  <2>2. create[m + 1] = UNION {CreateEntity(x, all[m + 1]) : x \in create[m]}
    BY <1>5, <2>1
  <2>3. PICK x \in create[m] : u \in CreateEntity(x, all[m + 1])  BY <1>7, <2>2
  <2>4. Furnished(w, x, m)  BY <1>7, <2>1, <2>3
  <2>5. EntityTyped(all[m + 1]) /\ all[m + 1].inventory = NoClaim  BY <1>2, <2>1
  <2>6. /\ Sound(u) /\ Grown(x, u)
        /\ DOMAIN u.entities = DOMAIN x.entities \cup {x.next_entity_id}
        /\ \A i \in DOMAIN x.entities : u.entities[i] = x.entities[i]
        /\ u.entities[x.next_entity_id] = all[m + 1]
        /\ u.next_entity_id = x.next_entity_id + 1
        /\ u.contracts = x.contracts
        /\ u.quests = x.quests /\ u.quest_progress = x.quest_progress
    BY <2>3, <2>4, <2>5, CreateKeeps DEF Furnished
  <2>7. /\ Sound(x) /\ Grown(w, x) /\ x.next_entity_id = first + m
        /\ DOMAIN x.entities = DOMAIN w.entities \cup first .. first + m - 1
        /\ \A i \in DOMAIN w.entities : x.entities[i] = w.entities[i]
        /\ \A l \in 1 .. m : x.entities[first + l - 1] = all[l]
        /\ x.contracts = w.contracts /\ x.quests = w.quests
        /\ x.quest_progress = w.quest_progress
    BY <2>4 DEF Furnished, first, all
  <2>8. u.next_entity_id = first + (m + 1)  BY <1>1, <2>6, <2>7
  <2>9. DOMAIN u.entities = DOMAIN w.entities \cup first .. first + (m + 1) - 1
    <3>1. first .. first + (m + 1) - 1 = (first .. first + m - 1) \cup {first + m}  BY <1>1
    <3>2. QED  BY <2>6, <2>7, <3>1
  <2>10. \A i \in DOMAIN w.entities : u.entities[i] = w.entities[i]  BY <2>6, <2>7
  <2>11. ASSUME NEW l \in 1 .. m + 1  PROVE u.entities[first + l - 1] = all[l]
    <3>1. CASE l = m + 1
      <4>1. first + l - 1 = first + m  BY <1>1, <3>1
      <4>2. QED  BY <2>6, <2>7, <3>1, <4>1
    <3>2. CASE l # m + 1
      <4>1. l \in 1 .. m /\ first + l - 1 \in first .. first + m - 1  BY <1>1, <3>2
      <4>2. QED  BY <2>6, <2>7, <4>1
    <3>3. QED  BY <3>1, <3>2
  <2>12. Grown(w, u)  BY <2>6, <2>7, GrownTransitive
  <2>13. QED  BY <2>6, <2>7, <2>8, <2>9, <2>10, <2>11, <2>12 DEF Furnished, first, all
<1>8. 8 \in S
  <2>1. \A m \in Nat : m \in S /\ m < 8 => m + 1 \in S  BY <1>7
  <2> HIDE DEF S
  <2>2. QED  BY <1>6, <2>1, UpTo
<1>9. QED  BY <1>2, <1>3, <1>8

(* initialize of an empty world.                                           *)
LEMMA InitializeKeeps ==
  ASSUME NEW w, Sound(w), NEW v \in Initialize(w)
  PROVE  Sound(v) /\ Grown(w, v) /\ Validate(v)
<1>1. PICK y \in DeployVersion(w, Demo, 1, "current") : \E x \in CreateDemoEntities(y) :
        v = WithDemoQuests(x, w.next_entity_id + 5, w.next_entity_id + 6) /\ Validate(v)
  BY DEF Initialize
<1>2. PICK x \in CreateDemoEntities(y) :
        v = WithDemoQuests(x, w.next_entity_id + 5, w.next_entity_id + 6) /\ Validate(v)
  BY <1>1
<1>3. Sound(y) /\ Grown(w, y)
  <2>1. 1 \in 0 .. MaxVersion  BY FileAssumption
  <2>2. QED  BY <2>1, DeployKeeps
<1>4. Sound(x) /\ Grown(y, x)  BY <1>3, DemoCreated DEF Furnished
<1>5. Sound(v) /\ Grown(x, v)  BY <1>2, <1>4, QuestsKeep
<1>6. QED  BY <1>2, <1>3, <1>4, <1>5, GrownTransitive

(* The entity is there afterwards, and nothing but it is new.              *)
LEMMA EnsuredKeeps ==
  ASSUME NEW w, Sound(w), NEW kind, NEW name, NEW location, NEW contract,
         NEW v \in Ensured(w, kind, name, location, contract)
  PROVE  /\ Sound(v) /\ Grown(w, v)
         /\ Named(v, kind, name) # {}
         /\ \A i \in DOMAIN w.entities : v.entities[i] = w.entities[i]
         /\ \A i \in DOMAIN v.entities :
              i \in DOMAIN w.entities \/ v.entities[i] = NewEntity(kind, name, location, contract)
         /\ v.contracts = w.contracts /\ v.quests = w.quests
         /\ v.quest_progress = w.quest_progress
<1>1. CASE Named(w, kind, name) # {}
  <2>1. v = w  BY <1>1 DEF Ensured
  <2>2. QED  BY <1>1, <2>1, GrownSelf
<1>2. CASE Named(w, kind, name) = {}
  <2> DEFINE e == NewEntity(kind, name, location, contract)
  <2>1. v \in CreateEntity(w, e)  BY <1>2 DEF Ensured
  <2>2. EntityTyped(e) /\ e.inventory = NoClaim  BY NewEntityTyped
  <2>3. e.kind = kind /\ e.name = name  BY DEF NewEntity
  <2> HIDE DEF e
  <2>4. /\ Sound(v) /\ Grown(w, v)
        /\ DOMAIN v.entities = DOMAIN w.entities \cup {w.next_entity_id}
        /\ \A i \in DOMAIN w.entities : v.entities[i] = w.entities[i]
        /\ v.entities[w.next_entity_id] = e
        /\ v.contracts = w.contracts
        /\ v.quests = w.quests /\ v.quest_progress = w.quest_progress
    BY <2>1, <2>2, CreateKeeps
  <2>5. w.next_entity_id \in Named(v, kind, name)  BY <2>3, <2>4 DEF Named
  <2>6. QED  BY <2>4, <2>5 DEF e
<1>3. QED  BY <1>1, <1>2

(* The last part of an upgrade: Rowan, the tablet and the quests.          *)
LEMMA FurnishKeeps ==
  ASSUME NEW w, Sound(w), NEW target, NEW v \in Furnish(w, target)
  PROVE  \E x, y : /\ x \in Ensured(w, "actor", "Rowan", Find(w, "zone", "Village"), target)
                   /\ y \in Ensured(x, "item", "stone tablet", Find(w, "zone", "Ruins"), NoContract)
                   /\ v = WithDemoQuests(y, Find(w, "actor", "Mira"), Find(y, "actor", "Rowan"))
                   /\ Sound(x) /\ Grown(w, x) /\ Sound(y) /\ Grown(x, y)
                   /\ Sound(v) /\ Grown(w, v)
                   /\ Named(w, "zone", "Village") # {} /\ Named(w, "zone", "Ruins") # {}
                   /\ Named(w, "actor", "Mira") # {}
<1>1. Named(w, "zone", "Village") # {} /\ Named(w, "zone", "Ruins") # {}
      /\ Named(w, "actor", "Mira") # {}
  BY DEF Furnish
<1>2. PICK y \in UNION {Ensured(x, "item", "stone tablet", Find(w, "zone", "Ruins"), NoContract) :
                x \in Ensured(w, "actor", "Rowan", Find(w, "zone", "Village"), target)} :
        v = WithDemoQuests(y, Find(w, "actor", "Mira"), Find(y, "actor", "Rowan"))
  BY <1>1 DEF Furnish
<1>3. PICK x \in Ensured(w, "actor", "Rowan", Find(w, "zone", "Village"), target) :
        y \in Ensured(x, "item", "stone tablet", Find(w, "zone", "Ruins"), NoContract)
  BY <1>2
<1>4. Sound(x) /\ Grown(w, x)  BY <1>3, EnsuredKeeps
<1>5. Sound(y) /\ Grown(x, y)  BY <1>3, <1>4, EnsuredKeeps
<1>6. Sound(v) /\ Grown(y, v)  BY <1>2, <1>5, QuestsKeep
<1>7. Grown(w, v)  BY <1>4, <1>5, <1>6, GrownTransitive
<1>8. QED  BY <1>1, <1>2, <1>3, <1>4, <1>5, <1>6, <1>7

(* A finite set of numbers has a largest one.                              *)
LEMMA MaxIsIn ==
  ASSUME NEW T, T \subseteq Nat, IsFiniteSet(T), T # {}
  PROVE  Max(T) \in T
<1> DEFINE Topped(U) == \E x \in U : \A y \in U : x >= y
           S == {n \in Nat : \A U \in SUBSET Nat :
                   IsFiniteSet(U) /\ Cardinality(U) = n /\ U # {} => Topped(U)}
<1>1. 0 \in S
  <2>1. \A U : IsFiniteSet(U) /\ Cardinality(U) = 0 => U = {}  BY FS_EmptySet
  <2>2. QED  BY <2>1
<1>2. ASSUME NEW m \in Nat, m \in S  PROVE m + 1 \in S
  <2>1. ASSUME NEW U \in SUBSET Nat, IsFiniteSet(U), Cardinality(U) = m + 1, U # {}
        PROVE  Topped(U)
    <3>1. PICK x : x \in U  BY <2>1
    <3>2. /\ IsFiniteSet(U \ {x}) /\ Cardinality(U \ {x}) = m /\ U \ {x} \subseteq Nat
      <4>1. IsFiniteSet(U \ {x}) /\ Cardinality(U \ {x}) = Cardinality(U) - 1
        BY <2>1, <3>1, FS_RemoveElement
      <4>2. (m + 1) - 1 = m  OBVIOUS
      <4>3. Cardinality(U \ {x}) = m  BY <2>1, <4>1, <4>2, Zenon
      <4>4. QED  BY <2>1, <4>1, <4>3
    <3>3. CASE U \ {x} = {}
      <4>1. U = {x} /\ x \in Nat  BY <3>1, <3>3
      <4>2. QED  BY <4>1
    <3>4. CASE U \ {x} # {}
      <4>1. Topped(U \ {x})  BY <1>2, <3>2, <3>4
      <4>2. PICK z \in U \ {x} : \A y \in U \ {x} : z >= y  BY <4>1
      <4>3. x \in Nat /\ z \in Nat /\ \A y \in U : y \in Nat  BY <3>1
      <4>4. CASE z >= x  BY <4>2, <4>3, <4>4
      <4>5. CASE ~ (z >= x)
        <5>1. x >= z  BY <4>3, <4>5
        <5>2. \A y \in U : x >= y  BY <4>2, <4>3, <5>1
        <5>3. QED  BY <3>1, <5>2
      <4>6. QED  BY <4>4, <4>5
    <3>5. QED  BY <3>3, <3>4
  <2>2. QED  BY <2>1
<1>3. Cardinality(T) \in Nat  BY FS_CardinalityType
<1>4. Cardinality(T) \in S
  <2> HIDE DEF S
  <2>1. QED  BY <1>1, <1>2, <1>3, UpTo
<1>5. Topped(T)  BY <1>4
<1>6. QED  BY <1>5 DEF Max

(* The version to bind the demo's actors to.                               *)
LEMMA TargetType ==
  ASSUME NEW w, Sound(w), DemoContracts(w) # {}
  PROVE  TargetVersion(w) \in 0 .. MaxVersion
<1>1. WorldTyped(w)  BY DEF Sound
<1>2. ASSUME NEW keys, keys \subseteq DemoContracts(w), keys # {}
      PROVE  Max(Versions(w, keys)) \in 0 .. MaxVersion
  <2> DEFINE version == [k \in keys |-> w.contracts[k].version]
             T == Versions(w, keys)
  <2>1. keys \subseteq DOMAIN w.contracts  BY <1>2 DEF DemoContracts
  <2>2. IsFiniteSet(keys)  BY <1>1, <2>1, FS_Subset DEF WorldTyped
  <2>3. T \subseteq 0 .. MaxVersion /\ T # {}
    BY <1>1, <1>2, <2>1 DEF WorldTyped, ContractTyped, Versions
  <2>4. version \in Surjection(keys, T)  BY DEF Surjection, Versions
  <2>5. IsFiniteSet(T)
    <3> HIDE DEF version, T
    <3>1. QED  BY <2>2, <2>4, FS_Surjection
  <2>6. Max(T) \in T
    <3> HIDE DEF version, T
    <3>1. T \subseteq Nat  BY <2>3, FileAssumption
    <3>2. QED  BY <2>3, <2>5, <3>1, MaxIsIn
  <2>7. QED  BY <2>3, <2>6
<1>3. UpToDate(w) \subseteq DemoContracts(w)  BY DEF UpToDate
<1>4. CASE UpToDate(w) # {}
  BY <1>2, <1>3, <1>4 DEF TargetVersion
<1>5. CASE UpToDate(w) = {}
  <2>1. PICK m \in 0 .. MaxVersion : m = Max(Versions(w, DemoContracts(w)))  BY <1>2
  <2>2. TargetVersion(w) = Incremented(m, MaxVersion)  BY <1>5, <2>1 DEF TargetVersion
  <2>3. m \in Nat /\ MaxVersion \in Nat  BY FileAssumption
  <2>4. QED  BY <2>2, <2>3, IncrementedType
<1>6. QED  BY <1>4, <1>5

(* An upgrade of a demo world, in its steps.                               *)
LEMMA UpgradeSteps ==
  ASSUME NEW w, NEW v \in Upgrade(w)
  PROVE  \E y, f : /\ y \in DeployDemo(w)
                   /\ f \in Furnish(ImportProgress(Rebind(y, Key(Demo, TargetVersion(w)))),
                                    Key(Demo, TargetVersion(w)))
                   /\ v = Advanced(w, f) /\ Validate(f)
<1>1. PICK f \in {x \in UNION {Furnish(ImportProgress(Rebind(y, Key(Demo, TargetVersion(w)))),
                                       Key(Demo, TargetVersion(w))) : y \in DeployDemo(w)} :
                    Validate(x)} :
        v = Advanced(w, f)
  BY DEF Upgrade
<1>2. PICK y \in DeployDemo(w) :
        f \in Furnish(ImportProgress(Rebind(y, Key(Demo, TargetVersion(w)))),
                      Key(Demo, TargetVersion(w)))
  BY <1>1
<1>3. QED  BY <1>1, <1>2

LEMMA DeployDemoKeeps ==
  ASSUME NEW w, Sound(w), DemoContracts(w) # {}, NEW y \in DeployDemo(w)
  PROVE  /\ Sound(y) /\ Grown(w, y)
         /\ y.entities = w.entities /\ y.quests = w.quests
         /\ y.quest_progress = w.quest_progress
<1>1. CASE UpToDate(w) # {}
  <2>1. y = w  BY <1>1 DEF DeployDemo
  <2>2. QED  BY <2>1, GrownSelf
<1>2. CASE UpToDate(w) = {}
  <2>1. y \in DeployVersion(w, Demo, TargetVersion(w), "current")  BY <1>2 DEF DeployDemo
  <2>2. PICK version \in 0 .. MaxVersion : version = TargetVersion(w)  BY TargetType
  <2>3. y \in DeployVersion(w, Demo, version, "current")  BY <2>1, <2>2
  <2>4. Sound(y) /\ Grown(w, y)  BY <2>2, <2>3, DeployKeeps
  <2>5. WorldTyped(w)  BY DEF Sound
  <2>6. /\ y.entities = w.entities
        /\ y.quests = w.quests /\ y.quest_progress = w.quest_progress
    BY <2>3, <2>5 DEF DeployVersion, WorldTyped
  <2>7. QED  BY <2>4, <2>5, <2>6
<1>3. QED  BY <1>1, <1>2

LEMMA UpgradeKeeps ==
  ASSUME NEW w, Sound(w), DemoContracts(w) # {}, NEW v \in Upgrade(w)
  PROVE  Sound(v) /\ Grown(w, v)
<1> DEFINE target == Key(Demo, TargetVersion(w))
<1>1. PICK y, f : /\ y \in DeployDemo(w)
                  /\ f \in Furnish(ImportProgress(Rebind(y, target)), target)
                  /\ v = Advanced(w, f)
  BY UpgradeSteps
<1>2. Sound(y) /\ Grown(w, y)  BY <1>1, DeployDemoKeeps
<1>3. PICK b : b = Rebind(y, target)  OBVIOUS
<1>4. Sound(b) /\ Grown(y, b)  BY <1>2, <1>3, RebindKeeps
<1>5. PICK p : p = ImportProgress(b)  OBVIOUS
<1>6. Sound(p) /\ Grown(b, p)  BY <1>4, <1>5, ImportKeeps
<1>7. f \in Furnish(p, target)  BY <1>1, <1>3, <1>5
<1>8. Sound(f) /\ Grown(p, f)  BY <1>6, <1>7, FurnishKeeps
<1>9. Sound(v) /\ Grown(f, v)  BY <1>1, <1>8, AdvanceKeeps
<1>10. Grown(w, v)
  <2>1. Grown(w, b)  BY <1>2, <1>4, GrownTransitive
  <2>2. Grown(w, p)  BY <1>6, <2>1, GrownTransitive
  <2>3. Grown(w, f)  BY <1>8, <2>2, GrownTransitive
  <2>4. QED  BY <1>9, <2>3, GrownTransitive
<1>11. QED  BY <1>9, <1>10

(* The demo, new or upgraded, on a world whose inventories have moved.     *)
LEMMA EnsureCurrentKeeps ==
  ASSUME NEW w, Sound(w), Claimants(w) = {}, NEW v \in EnsureCurrent(w)
  PROVE  Sound(v) /\ Grown(w, v) /\ Claimants(v) = {}
<1>1. CASE DOMAIN w.entities = {} /\ DOMAIN w.contracts = {}
  <2>1. v \in Initialize(w)  BY <1>1 DEF EnsureCurrent
  <2>2. QED  BY <2>1, InitializeKeeps, GrownClaimless
<1>2. CASE ~ (DOMAIN w.entities = {} /\ DOMAIN w.contracts = {})
  <2>1. DemoContracts(w) # {} /\ v \in UNION {Upgrade(x) : x \in Migrations(w)}
    BY <1>2 DEF EnsureCurrent
  <2>2. Migrations(w) = {w}  BY DEF Migrations
  <2>3. v \in Upgrade(w)  BY <2>1, <2>2
  <2>4. QED  BY <2>1, <2>3, UpgradeKeeps, GrownClaimless
<1>3. QED  BY <1>1, <1>2

----------------------------------------------------------------------------
(* The migration of the inventories.                                       *)

Push(held, item) == IF item \in W!Items(held) THEN held ELSE Append(held, item)

Pushing(c, held, claim, len) ==
  c = [n \in 0 .. len |-> IF n = 0 THEN held ELSE Push(c[n - 1], claim[n])]

(* The pushes of a merge are defined.                                      *)
LEMMA PushingExists ==
  ASSUME NEW held, NEW claim, NEW len \in Nat
  PROVE  \E c : Pushing(c, held, claim, len)
<1> DEFINE S == {k \in Nat : \E c : Pushing(c, held, claim, k)}
<1>1. 0 \in S
  <2>1. Pushing([n \in 0 .. 0 |-> held], held, claim, 0)  BY DEF Pushing
  <2>2. QED  BY <2>1
<1>2. ASSUME NEW m \in Nat, m \in S  PROVE m + 1 \in S
  <2>1. PICK c : Pushing(c, held, claim, m)  BY <1>2
  <2> DEFINE d == [n \in 0 .. m + 1 |-> IF n = m + 1 THEN Push(c[m], claim[n]) ELSE c[n]]
  <2>2. ASSUME NEW n \in 0 .. m + 1
        PROVE  d[n] = IF n = 0 THEN held ELSE Push(d[n - 1], claim[n])
    <3>1. CASE n = m + 1
      <4>1. n # 0 /\ n - 1 = m /\ m \in 0 .. m + 1 /\ m # m + 1  BY <3>1
      <4>2. d[n - 1] = c[m]  BY <4>1
      <4>3. QED  BY <3>1, <4>1, <4>2
    <3>2. CASE n # m + 1
      <4>1. n \in 0 .. m  BY <3>2
      <4>2. d[n] = c[n]  BY <3>2
      <4>3. c[n] = IF n = 0 THEN held ELSE Push(c[n - 1], claim[n])
        BY <2>1, <4>1 DEF Pushing
      <4>4. n # 0 => d[n - 1] = c[n - 1]  BY <4>1
      <4>5. QED  BY <4>2, <4>3, <4>4
    <3>3. QED  BY <3>1, <3>2
  <2>3. PICK e : e = d  OBVIOUS
  <2>4. e = [n \in 0 .. m + 1 |-> e[n]]  BY <2>3
  <2>5. \A n \in 0 .. m + 1 : e[n] = IF n = 0 THEN held ELSE Push(e[n - 1], claim[n])
    BY <2>2, <2>3
  <2>6. Pushing(e, held, claim, m + 1)
    <3> HIDE DEF d
    <3>1. QED  BY <2>4, <2>5 DEF Pushing
  <2> HIDE DEF d
  <2>7. m + 1 \in Nat  OBVIOUS
  <2>8. QED  BY <2>6, <2>7
<1>3. len \in S
  <2> HIDE DEF S
  <2>1. QED  BY <1>1, <1>2, UpTo
<1>4. QED  BY <1>3

LEMMA PushType ==
  ASSUME NEW held \in Seq(Nat), NEW item \in Nat
  PROVE  /\ Push(held, item) \in Seq(Nat)
         /\ W!Items(Push(held, item)) = W!Items(held) \cup {item}
<1>1. CASE item \in W!Items(held)  BY <1>1 DEF Push
<1>2. CASE item \notin W!Items(held)
  <2> Append(held, item) \in Seq(Nat)  OBVIOUS
  <2>1. PICK t \in Seq(Nat) : t = Append(held, item)  OBVIOUS
  <2>2. /\ DOMAIN t = 1 .. Len(held) + 1 /\ DOMAIN held = 1 .. Len(held) /\ Len(held) \in Nat
        /\ \A i \in 1 .. Len(held) : t[i] = held[i]
        /\ t[Len(held) + 1] = item
    BY <2>1
  <2>3. \A i \in 1 .. Len(held) + 1 : i \in 1 .. Len(held) \/ i = Len(held) + 1  BY <2>2
  <2>4. W!Items(t) = W!Items(held) \cup {item}  BY <2>2, <2>3 DEF W!Items
  <2>5. QED  BY <1>2, <2>1, <2>4 DEF Push
<1>3. QED  BY <1>1, <1>2

(* A merged inventory has the items it had and the claimed ones.           *)
LEMMA MergedIs ==
  ASSUME NEW held \in Seq(Nat), NEW claim \in Seq(Nat)
  PROVE  /\ Merged(held, claim) \in Seq(Nat)
         /\ W!Items(Merged(held, claim)) = W!Items(held) \cup W!Items(claim)
<1> DEFINE Chain(c) == c = [n \in 0 .. Len(claim) |->
                              IF n = 0 THEN held
                              ELSE IF claim[n] \in W!Items(c[n - 1]) THEN c[n - 1]
                              ELSE Append(c[n - 1], claim[n])]
           pushed == CHOOSE c : Chain(c)
           S == {n \in Nat : n <= Len(claim) =>
                   /\ pushed[n] \in Seq(Nat)
                   /\ W!Items(pushed[n]) = W!Items(held) \cup {claim[i] : i \in 1 .. n}}
<1>1. Merged(held, claim) = pushed[Len(claim)]  BY DEF Merged
<1>2. Len(claim) \in Nat /\ DOMAIN claim = 1 .. Len(claim)
      /\ \A i \in 1 .. Len(claim) : claim[i] \in Nat
  OBVIOUS
<1>3. Chain(pushed)
  <2>1. PICK c : Pushing(c, held, claim, Len(claim))  BY <1>2, PushingExists
  <2>2. Chain(c)  BY <2>1 DEF Pushing, Push
  <2> HIDE DEF Chain
  <2>3. QED  BY <2>2
<1> HIDE DEF pushed
<1>4. \A n \in 0 .. Len(claim) :
        pushed[n] = IF n = 0 THEN held ELSE Push(pushed[n - 1], claim[n])
  BY <1>3 DEF Push
<1>5. 0 \in S
  <2>1. pushed[0] = held /\ {claim[i] : i \in 1 .. 0} = {}  BY <1>2, <1>4
  <2>2. QED  BY <2>1
<1>6. ASSUME NEW m \in Nat, m \in S, m < Len(claim)  PROVE m + 1 \in S
  <2>1. m + 1 \in 1 .. Len(claim) /\ m <= Len(claim) /\ (m + 1) - 1 = m  BY <1>2, <1>6
  <2>2. PICK t \in Seq(Nat) : t = pushed[m]  BY <1>6, <2>1
  <2>3. W!Items(t) = W!Items(held) \cup {claim[i] : i \in 1 .. m}  BY <1>6, <2>1, <2>2
  <2>4. PICK u : u = pushed[m + 1]  OBVIOUS
  <2>5. u = Push(t, claim[m + 1])  BY <1>4, <2>1, <2>2, <2>4
  <2>6. u \in Seq(Nat) /\ W!Items(u) = W!Items(t) \cup {claim[m + 1]}
    BY <1>2, <2>1, <2>5, PushType
  <2>7. 1 .. m + 1 = (1 .. m) \cup {m + 1}  OBVIOUS
  <2>8. {claim[i] : i \in 1 .. m + 1} = {claim[i] : i \in 1 .. m} \cup {claim[m + 1]}
    BY <2>7
  <2>9. W!Items(u) = W!Items(held) \cup {claim[i] : i \in 1 .. m + 1}
    BY <2>3, <2>6, <2>8, Zenon
  <2>10. QED  BY <2>4, <2>6, <2>9
<1>7. Len(claim) \in S
  <2> HIDE DEF S
  <2>1. QED  BY <1>2, <1>5, <1>6, UpTo
<1>8. /\ pushed[Len(claim)] \in Seq(Nat)
      /\ W!Items(pushed[Len(claim)]) = W!Items(held) \cup {claim[i] : i \in 1 .. Len(claim)}
  BY <1>2, <1>7
<1>9. W!Items(claim) = {claim[i] : i \in 1 .. Len(claim)}  BY <1>2 DEF W!Items
<1>10. QED  BY <1>1, <1>8, <1>9

(* A claim is a sequence of ids, and the only element of the field.        *)
LEMMA ClaimTyped ==
  ASSUME NEW w, WorldTyped(w), NEW a \in Claimants(w)
  PROVE  Claim(w, a) \in Seq(Nat) /\ w.entities[a].inventory = {Claim(w, a)}
<1>1. EntityTyped(w.entities[a]) /\ w.entities[a].inventory # NoClaim
  BY DEF WorldTyped, Claimants
<1>2. PICK s \in w.entities[a].inventory : w.entities[a].inventory = {s} /\ s \in Seq(Nat)
  BY <1>1 DEF EntityTyped
<1>3. Claim(w, a) = s  BY <1>2 DEF Claim
<1>4. QED  BY <1>2, <1>3

(* The inventories move whole, and only what is claimed moves with them.   *)
LEMMA MovedKeeps ==
  ASSUME NEW w, Sound(w), w.head < MaxHead
  PROVE  LET v == Moved(w)
         IN /\ Sound(v) /\ Claimants(v) = {}
            /\ DOMAIN v.entities = DOMAIN w.entities
            /\ \A i \in DOMAIN w.entities :
                 /\ v.entities[i].kind = w.entities[i].kind
                 /\ ClaimedBy(w, i) = {} => v.entities[i].location = w.entities[i].location
            /\ \A a \in Claimants(w) :
                 W!Items(W!Inventory(v.inventories, a))
                   = W!Items(W!Inventory(w.inventories, a)) \cup W!Items(Claim(w, a))
<1> DEFINE entities == [i \in DOMAIN w.entities |-> MovedEntity(w, i)]
           inventories == [a \in DOMAIN w.inventories \cup Claimants(w) |->
                             LET held == W!Inventory(w.inventories, a)
                             IN IF a \in Claimants(w) THEN Merged(held, Claim(w, a)) ELSE held]
<1>1. PICK v : v = Moved(w)  OBVIOUS
<1>2. v = [w EXCEPT !.entities = entities, !.inventories = inventories, !.head = @ + 1]
  BY <1>1 DEF Moved
<1>3. WorldTyped(w)  BY DEF Sound
<1>4. DOMAIN entities = DOMAIN w.entities /\ IsFunction(entities)  BY DEF IsFunction
<1>5. ASSUME NEW i \in DOMAIN w.entities
      PROVE  /\ EntityTyped(entities[i])
             /\ entities[i].kind = w.entities[i].kind
             /\ entities[i].inventory = NoClaim \/ entities[i].inventory = w.entities[i].inventory
             /\ i \in Claimants(w) => entities[i].inventory = NoClaim
             /\ ClaimedBy(w, i) = {} => entities[i].location = w.entities[i].location
  <2>1. EntityTyped(w.entities[i])  BY <1>3 DEF WorldTyped
  <2>2. PICK e : e = w.entities[i]  OBVIOUS
  <2>3. PICK inventory : inventory = IF i \in Claimants(w) THEN NoClaim ELSE e.inventory  OBVIOUS
  <2>4. PICK location : location = IF ClaimedBy(w, i) = {} THEN e.location
                                   ELSE CHOOSE a \in ClaimedBy(w, i) : TRUE
    OBVIOUS
  <2>5. PICK f : f = entities[i]  OBVIOUS
  <2>6. f = [e EXCEPT !.inventory = inventory, !.location = location]
    BY <2>1, <2>2, <2>3, <2>4, <2>5 DEF EntityTyped, MovedEntity
  <2>7. /\ f.kind = e.kind /\ f.inventory = inventory /\ f.location = location
        /\ f = [kind |-> f.kind, owner |-> f.owner, location |-> f.location,
                contract |-> f.contract, name |-> f.name, inventory |-> f.inventory,
                quest |-> f.quest]
    BY <2>1, <2>2, <2>6 DEF EntityTyped
  <2>8. EntityTyped(f)  BY <2>1, <2>2, <2>3, <2>7 DEF EntityTyped
  <2> HIDE DEF entities
  <2>9. QED  BY <2>2, <2>3, <2>4, <2>5, <2>7, <2>8
<1>6. \A a \in DOMAIN w.inventories \cup Claimants(w) :
        W!Inventory(w.inventories, a) \in Seq(Nat)
  <2>1. <<>> \in Seq(Nat)  OBVIOUS
  <2>2. QED  BY <1>3, <2>1 DEF W!Inventory, WorldTyped
<1>7. DOMAIN inventories = DOMAIN w.inventories \cup Claimants(w)  OBVIOUS
<1>8. ASSUME NEW a \in DOMAIN inventories
      PROVE  /\ inventories[a] \in Seq(Nat)
             /\ a \in Claimants(w) =>
                  W!Items(inventories[a])
                    = W!Items(W!Inventory(w.inventories, a)) \cup W!Items(Claim(w, a))
  <2>1. PICK held \in Seq(Nat) : held = W!Inventory(w.inventories, a)  BY <1>6, <1>7
  <2>2. CASE a \in Claimants(w)
    <3>1. inventories[a] = Merged(held, Claim(w, a))  BY <2>1, <2>2
    <3>2. Claim(w, a) \in Seq(Nat)  BY <1>3, <2>2, ClaimTyped
    <3> HIDE DEF inventories
    <3>3. QED  BY <2>1, <3>1, <3>2, MergedIs
  <2>3. CASE a \notin Claimants(w)
    <3>1. inventories[a] = held  BY <2>1, <2>3
    <3> HIDE DEF inventories
    <3>2. QED  BY <2>1, <2>3, <3>1
  <2>4. QED  BY <2>2, <2>3
<1> HIDE DEF entities, inventories
<1>9. /\ v.accounts = w.accounts /\ v.contracts = w.contracts /\ v.entities = entities
      /\ v.next_entity_id = w.next_entity_id /\ v.inventories = inventories
      /\ v.quests = w.quests /\ v.quest_progress = w.quest_progress /\ v.head = w.head + 1
      /\ v = [accounts |-> v.accounts, contracts |-> v.contracts, entities |-> v.entities,
              next_entity_id |-> v.next_entity_id, inventories |-> v.inventories,
              quests |-> v.quests, quest_progress |-> v.quest_progress, head |-> v.head]
  BY <1>2, <1>3 DEF WorldTyped
<1>10. v.head \in 0 .. MaxHead
  <2>1. PICK h \in 0 .. MaxHead : h = w.head  BY <1>3 DEF WorldTyped
  <2>2. h + 1 \in 0 .. MaxHead  BY <2>1, FileAssumption
  <2>3. QED  BY <1>9, <2>1, <2>2
<1>11. WorldTyped(v)  BY <1>3, <1>4, <1>5, <1>8, <1>9, <1>10 DEF WorldTyped
<1>12. Sound(v)  BY <1>4, <1>9, <1>11 DEF Sound
<1>13. Claimants(v) = {}  BY <1>4, <1>5, <1>9 DEF Claimants
<1>14. \A a \in Claimants(w) : W!Inventory(v.inventories, a) = inventories[a]
  BY <1>7, <1>9 DEF W!Inventory
<1>15. QED  BY <1>1, <1>4, <1>5, <1>7, <1>8, <1>9, <1>12, <1>13, <1>14

(* What a migration of a world yields, if it does.                         *)
LEMMA MigrationKeeps ==
  ASSUME NEW w, Sound(w), NEW v \in Migrations(w)
  PROVE  /\ Sound(v) /\ Claimants(v) = {}
         /\ DOMAIN v.entities = DOMAIN w.entities
         /\ \A i \in DOMAIN w.entities :
              /\ v.entities[i].kind = w.entities[i].kind
              /\ ClaimedBy(w, i) = {} => v.entities[i].location = w.entities[i].location
         /\ \A a \in Claimants(w) :
              W!Items(W!Inventory(v.inventories, a))
                = W!Items(W!Inventory(w.inventories, a)) \cup W!Items(Claim(w, a))
<1>1. CASE Claimants(w) = {}
  <2>1. v = w  BY <1>1 DEF Migrations
  <2>2. QED  BY <1>1, <2>1
<1>2. CASE Claimants(w) # {}
  <2>1. v = Moved(w) /\ w.head < MaxHead  BY <1>2 DEF Migrations, Migratable
  <2>2. QED  BY <2>1, MovedKeeps
<1>3. QED  BY <1>1, <1>2

----------------------------------------------------------------------------
(* The states of a start.                                                  *)

Filed(f) == f = [format |-> f.format, world |-> f.world] /\ WorldTyped(f.world)

(* What the claims of the snapshot u have become in the world w.           *)
Honoured(u, w) ==
  /\ \A i \in DOMAIN u.entities :
       /\ i \in DOMAIN w.entities
       /\ ClaimedBy(u, i) = {} => w.entities[i].location = u.entities[i].location
  /\ \A a \in Claimants(u) :
       W!Items(W!Inventory(w.inventories, a))
         = W!Items(W!Inventory(u.inventories, a)) \cup W!Items(Claim(u, a))

Saving == {"backup", "replace"}
Migrated == {"upgrade", "serve", "serving"} \cup Saving

TypedInv ==
  /\ pc \in {"down", "migrate", "refused"} \cup Migrated /\ demo \in BOOLEAN
  /\ Filed(primary) /\ Filed(backup)
  /\ commands \in 0 .. MaxCommands /\ damage \in 0 .. MaxDamage

(* The world in memory; once past the migration, no actor has a claim.     *)
MemoryInv ==
  /\ pc \in {"down", "refused"} => world = {}
  /\ pc \notin {"down", "refused"} => \E w \in world : world = {w}
  /\ \A w \in world : Sound(w)
  /\ pc \in Migrated => \A w \in world : Claimants(w) = {}

NoFiles == primary = NoFile /\ backup = NoFile

(* What was loaded is what the primary holds until the first save.         *)
LoadedInv ==
  /\ \A f \in loaded : Sound(f.world)
  /\ pc \in {"migrate", "upgrade"} => loaded = {primary} /\ (Decodes(primary) \/ NoFiles)
  /\ pc = "migrate" => world = {primary.world}

(* From the decision to save or to serve on the world is valid, and what   *)
(* is served is what the primary holds.                                    *)
CurrentInv ==
  /\ pc \in {"serve", "serving"} \cup Saving => \A w \in world : Validate(w)
  /\ pc \in {"serve", "serving"} =>
       \A w \in world : primary = Current(w) \/ (w = Genesis /\ NoFiles)

ClaimInv ==
  pc \in {"upgrade", "serve"} \cup Saving =>
    \A f \in loaded, w \in world : Honoured(f.world, w)

StartInv == TypedInv /\ MemoryInv /\ LoadedInv /\ CurrentInv /\ ClaimInv

LEMMA GenesisSound == Sound(Genesis) /\ Claimants(Genesis) = {}
<1> DEFINE none == <<>>
<1>1. none = [x \in {} |-> 0] /\ DOMAIN none = {}  OBVIOUS
<1>2. IsFunction(none)  BY <1>1 DEF IsFunction
<1>3. IsFiniteSet({})  BY FS_EmptySet
<1>4. 0 \in 0 .. MaxHead  BY FileAssumption
<1>5. /\ Genesis.accounts = [a \in {"admin"} |-> 0] /\ Genesis.contracts = none
      /\ Genesis.entities = none /\ Genesis.next_entity_id = 1 /\ Genesis.inventories = none
      /\ Genesis.quests = none /\ Genesis.quest_progress = none /\ Genesis.head = 0
      /\ Genesis = [accounts |-> Genesis.accounts, contracts |-> Genesis.contracts,
                    entities |-> Genesis.entities, next_entity_id |-> Genesis.next_entity_id,
                    inventories |-> Genesis.inventories, quests |-> Genesis.quests,
                    quest_progress |-> Genesis.quest_progress, head |-> Genesis.head]
  BY DEF Genesis
<1> HIDE DEF none
<1>6. WorldTyped(Genesis)  BY <1>1, <1>2, <1>3, <1>4, <1>5 DEF WorldTyped
<1>7. QED  BY <1>1, <1>5, <1>6 DEF Sound, Claimants

LEMMA CurrentFiled == \A w : Sound(w) => Filed(Current(w)) /\ Current(w).world = w
BY DEF Filed, Current, Sound

(* What decodes is sound: the references it must pass bound the ids.       *)
LEMMA DecodedSound ==
  ASSUME NEW f, Filed(f), Decodes(f)
  PROVE  Sound(f.world) /\ f.format \in {"bare", "1", "2"}
<1>1. ValidateReferences(f.world) /\ f.format \in {"bare", "1", "2"}
  BY DEF Decodes, ValidateLegacyState, Validate
<1>2. /\ f.world.next_entity_id > 0
      /\ \A i \in DOMAIN f.world.entities : i < f.world.next_entity_id
  BY <1>1 DEF ValidateReferences, W!ValidateReferences
<1>3. QED  BY <1>1, <1>2 DEF Sound, Filed

LEMMA HonouredGrown ==
  ASSUME NEW u, NEW w, NEW v, Honoured(u, w), Grown(w, v)
  PROVE  Honoured(u, v)
BY DEF Honoured, Grown

(* The world that a start will serve.                                      *)
LEMMA PreparedKeeps ==
  ASSUME NEW w, Sound(w), Claimants(w) = {}, NEW v \in Prepared(w)
  PROVE  Sound(v) /\ Grown(w, v) /\ Claimants(v) = {} /\ Validate(v)
<1>1. CASE demo  BY <1>1, EnsureCurrentKeeps DEF Prepared
<1>2. CASE ~demo  BY <1>2, GrownSelf DEF Prepared
<1>3. QED  BY <1>1, <1>2

(* A request, here the deployment of a contract or the creation of an actor. *)
LEMMA RequestedKeeps ==
  ASSUME NEW w, Sound(w), Claimants(w) = {}, NEW v \in Requested(w)
  PROVE  Sound(v) /\ Claimants(v) = {}
<1>1. ASSUME NEW name, v \in DeployVersion(w, name, 1, "old")
      PROVE  Sound(v) /\ Claimants(v) = {}
  <2>1. 1 \in 0 .. MaxVersion  BY FileAssumption
  <2>2. Sound(v) /\ Grown(w, v)  BY <1>1, <2>1, DeployKeeps
  <2>3. QED  BY <2>2, GrownClaimless
<1>2. ASSUME NEW k, v \in CreateEntity(w, NewEntity("actor", NoName, NoEntity, k))
      PROVE  Sound(v) /\ Claimants(v) = {}
  <2>1. PICK e : e = NewEntity("actor", NoName, NoEntity, k)  OBVIOUS
  <2>2. EntityTyped(e) /\ e.inventory = NoClaim  BY <2>1, NewEntityTyped
  <2>3. Sound(v) /\ Grown(w, v)  BY <1>2, <2>1, <2>2, CreateKeeps
  <2>4. QED  BY <2>3, GrownClaimless
<1>3. \/ \E name \in {Demo, Append(Demo, 2)} : v \in DeployVersion(w, name, 1, "old")
      \/ \E k \in DOMAIN w.contracts :
           v \in CreateEntity(w, NewEntity("actor", NoName, NoEntity, k))
  BY DEF Requested
<1>4. QED  BY <1>1, <1>2, <1>3

LEMMA StartInit == Init => StartInv
<1> SUFFICES ASSUME Init  PROVE StartInv
  OBVIOUS
<1>1. Filed(primary) /\ Filed(backup)  BY FileAssumption DEF Init, Filed
<1>2. 0 \in 0 .. MaxCommands /\ 0 \in 0 .. MaxDamage  BY FileAssumption
<1>3. TypedInv  BY <1>1, <1>2 DEF Init, TypedInv
<1>4. MemoryInv /\ LoadedInv /\ CurrentInv /\ ClaimInv
  BY DEF Init, MemoryInv, LoadedInv, CurrentInv, ClaimInv, Migrated, Saving
<1>5. QED  BY <1>3, <1>4 DEF StartInv

LEMMA StartStep == StartInv /\ [Next]_vars => StartInv'
<1> SUFFICES ASSUME StartInv, [Next]_vars  PROVE StartInv'
  OBVIOUS
<1>1. TypedInv /\ MemoryInv /\ LoadedInv /\ CurrentInv /\ ClaimInv  BY DEF StartInv
<1>2. ASSUME NEW d \in BOOLEAN, NEW f, Begin(d, f), primary' = f, Filed(f),
             Decodes(f) \/ (f = NoFile /\ backup = NoFile)
      PROVE  StartInv'
  <2>1. Sound(f.world)
    <3>1. CASE Decodes(f)  BY <1>2, <3>1, DecodedSound
    <3>2. CASE f = NoFile  BY <3>2, GenesisSound DEF NoFile
    <3>3. QED  BY <1>2, <3>1, <3>2
  <2>2. TypedInv'  BY <1>1, <1>2 DEF Begin, TypedInv, history
  <2>3. MemoryInv'  BY <1>2, <2>1 DEF Begin, MemoryInv, Migrated, Saving
  <2>4. loaded' = {primary'} /\ world' = {primary'.world}  BY <1>2 DEF Begin
  <2>5. (Decodes(primary) \/ NoFiles)'  BY <1>2 DEF Begin, NoFiles
  <2>6. LoadedInv'  BY <1>2, <2>1, <2>4, <2>5 DEF LoadedInv
  <2>7. CurrentInv' /\ ClaimInv'  BY <1>2 DEF Begin, CurrentInv, ClaimInv, Saving
  <2>8. QED  BY <2>2, <2>3, <2>6, <2>7 DEF StartInv
<1>3. ASSUME NEW d \in BOOLEAN, StartFromPrimary(d)  PROVE StartInv'
  <2>1. PICK f : f = primary  OBVIOUS
  <2>2. Begin(d, f) /\ primary' = f /\ Filed(f) /\ (Decodes(f) \/ (f = NoFile /\ backup = NoFile))
    BY <1>1, <1>3, <2>1 DEF StartFromPrimary, TypedInv
  <2>3. QED  BY <1>2, <2>2
<1>4. ASSUME NEW d \in BOOLEAN, StartFromBackup(d)  PROVE StartInv'
  <2>1. PICK f : f = backup  OBVIOUS
  <2>2. Begin(d, f) /\ primary' = f /\ Filed(f) /\ Decodes(f)
    BY <1>1, <1>4, <2>1 DEF StartFromBackup, TypedInv
  <2>3. QED  BY <1>2, <2>2
<1>5. ASSUME pc' \in {"down", "refused"}, world' = {}, \A f \in loaded' : f \in loaded,
             Filed(primary'), Filed(backup'), demo' \in BOOLEAN,
             commands' \in 0 .. MaxCommands, damage' \in 0 .. MaxDamage
      PROVE  StartInv'
  <2>1. TypedInv'  BY <1>5 DEF TypedInv
  <2>2. MemoryInv'  BY <1>5 DEF MemoryInv, Migrated, Saving
  <2>3. LoadedInv' /\ CurrentInv' /\ ClaimInv'
    BY <1>1, <1>5 DEF LoadedInv, CurrentInv, ClaimInv, Saving
  <2>4. QED  BY <2>1, <2>2, <2>3 DEF StartInv
<1>6. ASSUME NEW d \in BOOLEAN, StartUnreadable(d)  PROVE StartInv'
  BY <1>1, <1>5, <1>6 DEF StartUnreadable, files, history, TypedInv
<1>7. CASE MigrationFails \/ PreparationFails
  BY <1>1, <1>5, <1>7 DEF MigrationFails, PreparationFails, Refuse, files, history, TypedInv
<1>8. CASE Stop
  BY <1>1, <1>5, <1>8 DEF Stop, files, history, TypedInv
<1>9. CASE Damage
  <2>1. Filed(primary')  BY <1>9, GenesisSound DEF Damage, Filed, NoFile, Torn, Sound
  <2>2. damage' \in 0 .. MaxDamage
    <3>1. PICK n \in 0 .. MaxDamage : n = damage  BY <1>1 DEF TypedInv
    <3>2. n < MaxDamage /\ damage' = n + 1  BY <1>9, <3>1 DEF Damage
    <3>3. QED  BY <3>1, <3>2, FileAssumption
  <2>3. world' = {}  BY <1>1, <1>9 DEF Damage, MemoryInv
  <2>4. QED  BY <1>1, <1>5, <1>9, <2>1, <2>2, <2>3 DEF Damage, TypedInv
<1>10. CASE Migrate
  <2>1. PICK w, v : w \in world /\ v \in Migrations(w) /\ world' = {v}
    BY <1>10 DEF Migrate
  <2>2. /\ pc = "migrate" /\ pc' = "upgrade" /\ UNCHANGED <<files, demo, loaded, found, history>>
    BY <1>10 DEF Migrate
  <2>3. w = primary.world /\ loaded = {primary} /\ Sound(w)
        /\ (Decodes(primary) \/ NoFiles)
    BY <1>1, <2>1, <2>2 DEF LoadedInv, MemoryInv
  <2>4. Sound(v) /\ Claimants(v) = {} /\ Honoured(w, v)
    BY <2>1, <2>3, MigrationKeeps DEF Honoured
  <2>5. TypedInv'  BY <1>1, <2>2 DEF TypedInv, files, history, Migrated
  <2>6. MemoryInv'  BY <2>1, <2>2, <2>4 DEF MemoryInv
  <2>7. primary' = primary /\ backup' = backup /\ loaded' = loaded  BY <2>2 DEF files
  <2>8. LoadedInv'  BY <1>1, <2>2, <2>3, <2>7 DEF LoadedInv, NoFiles
  <2>9. ClaimInv'  BY <2>1, <2>3, <2>4, <2>7 DEF ClaimInv
  <2>10. CurrentInv'  BY <2>2 DEF CurrentInv, Saving
  <2>11. QED  BY <2>5, <2>6, <2>8, <2>9, <2>10 DEF StartInv
<1>11. CASE Prepare
  <2>1. PICK w, f, v : /\ w \in world /\ f \in loaded /\ v \in Prepared(w) /\ world' = {v}
                       /\ pc' = IF NeedsSave(f, v) THEN "backup" ELSE "serve"
    BY <1>11 DEF Prepare
  <2>2. pc = "upgrade" /\ UNCHANGED <<files, demo, loaded, found, history>>
    BY <1>11 DEF Prepare
  <2>3. pc' \in {"backup", "serve"} /\ (pc' = "serve" => ~NeedsSave(f, v))  BY <2>1
  <2>4. Sound(w) /\ Claimants(w) = {} /\ Honoured(f.world, w) /\ f = primary /\ loaded = {f}
        /\ Filed(f) /\ (Decodes(f) \/ (f = NoFile /\ NoFiles)) /\ Sound(f.world)
    BY <1>1, <2>1, <2>2 DEF MemoryInv, ClaimInv, LoadedInv, TypedInv, Migrated, NoFiles
  <2>5. Sound(v) /\ Claimants(v) = {} /\ Validate(v) /\ Honoured(f.world, v)
    BY <2>1, <2>4, PreparedKeeps, HonouredGrown
  <2>6. TypedInv'  BY <1>1, <2>2, <2>3 DEF TypedInv, files, history, Migrated, Saving
  <2>7. MemoryInv'  BY <2>1, <2>3, <2>5 DEF MemoryInv
  <2>8. LoadedInv'  BY <1>1, <2>2, <2>3 DEF LoadedInv, NoFiles
  <2>9. ClaimInv'  BY <2>1, <2>2, <2>4, <2>5 DEF ClaimInv
  <2>10. pc' = "serve" => primary = Current(v) \/ (v = Genesis /\ NoFiles)
    <3>1. SUFFICES ASSUME ~NeedsSave(f, v)
                   PROVE  f = Current(v) \/ (v = Genesis /\ NoFiles)
      BY <2>3, <2>4
    <3>2. v = f.world /\ f.format \notin {"bare", "1"}  BY <3>1 DEF NeedsSave, NeedsRewrite
    <3>3. CASE f = NoFile /\ NoFiles  BY <3>2, <3>3 DEF NoFile
    <3>4. CASE Decodes(f)
      <4>1. f.format = "2"  BY <2>4, <3>2, <3>4, DecodedSound
      <4>2. f = [format |-> f.format, world |-> f.world]  BY <2>4 DEF Filed
      <4>3. QED  BY <3>2, <4>1, <4>2 DEF Current
    <3>5. QED  BY <2>4, <3>3, <3>4
  <2>11. CurrentInv'
    <3>1. primary' = primary /\ backup' = backup /\ pc' # "serving"
      BY <2>2, <2>3 DEF files
    <3>2. \A x \in world' : x = v  BY <2>1
    <3>3. QED  BY <2>5, <2>10, <3>1, <3>2 DEF CurrentInv, NoFiles
  <2>12. QED  BY <2>6, <2>7, <2>8, <2>9, <2>11 DEF StartInv
<1>12. CASE SaveBackup
  <2>1. Filed(backup')  BY <1>1, <1>12 DEF SaveBackup, TypedInv
  <2>2. TypedInv' /\ MemoryInv'
    BY <1>1, <1>12, <2>1 DEF SaveBackup, TypedInv, MemoryInv, history, Migrated, Saving
  <2>3. LoadedInv' /\ CurrentInv' /\ ClaimInv'
    BY <1>1, <1>12 DEF SaveBackup, LoadedInv, CurrentInv, ClaimInv, Saving
  <2>4. QED  BY <2>2, <2>3 DEF StartInv
<1>13. CASE SavePrimary
  <2>1. PICK w \in world : primary' = Current(w)  BY <1>13 DEF SavePrimary
  <2>2. world = {w} /\ Sound(w)
    BY <1>1, <1>13, <2>1 DEF SavePrimary, MemoryInv
  <2>3. Filed(primary')  BY <2>1, <2>2, CurrentFiled
  <2>4. TypedInv' /\ MemoryInv'
    BY <1>1, <1>13, <2>3 DEF SavePrimary, TypedInv, MemoryInv, history, Migrated, Saving
  <2>5. LoadedInv' /\ ClaimInv'
    BY <1>1, <1>13 DEF SavePrimary, LoadedInv, ClaimInv, Saving
  <2>6. CurrentInv'  BY <1>1, <1>13, <2>1, <2>2 DEF SavePrimary, CurrentInv, Saving
  <2>7. QED  BY <2>4, <2>5, <2>6 DEF StartInv
<1>14. CASE Serve
  <2>1. pc = "serve" /\ pc' = "serving"
        /\ UNCHANGED <<files, demo, world, loaded, found, commands, damage>>
    BY <1>14 DEF Serve
  <2>2. TypedInv' /\ MemoryInv'
    BY <1>1, <2>1 DEF TypedInv, MemoryInv, files, Migrated, Saving
  <2>3. LoadedInv' /\ CurrentInv' /\ ClaimInv'
    BY <1>1, <2>1 DEF LoadedInv, CurrentInv, ClaimInv, NoFiles, files, Saving
  <2>4. QED  BY <2>2, <2>3 DEF StartInv
<1>15. CASE Command
  <2>1. PICK w, v :
          /\ w \in world /\ v \in Requested(w) /\ Validate(v)
          /\ world' = {v} /\ primary' = Current(v)
          /\ backup' = IF Decodes(primary) THEN primary ELSE backup
    BY <1>15 DEF Command
  <2>2. /\ pc = "serving" /\ commands < MaxCommands /\ commands' = commands + 1
        /\ UNCHANGED <<pc, demo, loaded, found, damage>>
    BY <1>15 DEF Command
  <2>3. Sound(w) /\ Claimants(w) = {}  BY <1>1, <2>1, <2>2 DEF MemoryInv, Migrated
  <2>4. Sound(v) /\ Claimants(v) = {}  BY <2>1, <2>3, RequestedKeeps
  <2>5. Filed(primary') /\ Filed(backup')
    BY <1>1, <2>1, <2>4, CurrentFiled DEF TypedInv
  <2>6. commands' \in 0 .. MaxCommands
    <3>1. PICK n \in 0 .. MaxCommands : n = commands  BY <1>1 DEF TypedInv
    <3>2. n < MaxCommands /\ commands' = n + 1  BY <2>2, <3>1
    <3>3. QED  BY <3>1, <3>2, FileAssumption
  <2>7. TypedInv'  BY <1>1, <2>2, <2>5, <2>6 DEF TypedInv
  <2>8. MemoryInv'  BY <2>1, <2>2, <2>4 DEF MemoryInv
  <2>9. LoadedInv' /\ ClaimInv'  BY <1>1, <2>2 DEF LoadedInv, ClaimInv, Saving
  <2>10. CurrentInv'  BY <2>1, <2>2 DEF CurrentInv
  <2>11. QED  BY <2>7, <2>8, <2>9, <2>10 DEF StartInv
<1>16. CASE UNCHANGED vars
  <2>1. TypedInv' /\ MemoryInv'
    BY <1>1, <1>16 DEF vars, files, history, TypedInv, MemoryInv
  <2>2. LoadedInv' /\ ClaimInv' /\ CurrentInv'
    BY <1>1, <1>16 DEF vars, files, history, NoFiles, LoadedInv, ClaimInv, CurrentInv
  <2>3. QED  BY <2>1, <2>2 DEF StartInv
<1>17. QED  BY <1>3, <1>4, <1>6, <1>7, <1>8, <1>9, <1>10, <1>11, <1>12, <1>13, <1>14, <1>15, <1>16
            DEF Next

LEMMA StartInvariant == Spec => []StartInv
BY StartInit, StartStep, PTL DEF Spec

(* Whatever two snapshots the first start finds: every head stays within   *)
(* its word, through checked and unchecked additions, and a world is in    *)
(* memory exactly from the load to the stop or the refusal.                *)
THEOREM TypeCorrect == Spec => []TypeOK
<1>1. StartInv => TypeOK
  <2> SUFFICES ASSUME StartInv  PROVE TypeOK
    OBVIOUS
  <2>1. TypedInv /\ MemoryInv  BY DEF StartInv
  <2>2. \A w \in world : w.head \in 0 .. MaxHead  BY <2>1 DEF MemoryInv, Sound, WorldTyped
  <2>3. Cardinality(world) = IF pc \in {"down", "refused"} THEN 0 ELSE 1
    <3>1. CASE pc \in {"down", "refused"}
      <4>1. world = {}  BY <2>1, <3>1 DEF MemoryInv
      <4>2. QED  BY <3>1, <4>1, FS_EmptySet
    <3>2. CASE pc \notin {"down", "refused"}
      <4>1. PICK w : world = {w}  BY <2>1, <3>2 DEF MemoryInv
      <4>2. QED  BY <3>2, <4>1, FS_Singleton
    <3>3. QED  BY <3>1, <3>2
  <2>4. QED  BY <2>1, <2>2, <2>3 DEF TypeOK, TypedInv, Migrated, Saving
<1>2. QED  BY <1>1, StartInvariant, PTL

(* What a node serves is valid, has no legacy data left, and is what the   *)
(* primary holds, from its first answer to its last.                       *)
THEOREM ServedAlwaysCurrent == Spec => []ServedIsCurrent
<1>1. StartInv => ServedIsCurrent
  BY DEF StartInv, MemoryInv, CurrentInv, NoFiles, ServedIsCurrent, Migrated
<1>2. QED  BY <1>1, StartInvariant, PTL

(* The migration moves every claimed item to the inventory of its actor,   *)
(* and neither it nor the demo upgrade after it moves any other.           *)
THEOREM ClaimsAlwaysHonoured == Spec => []ClaimsHonoured
<1>1. StartInv => ClaimsHonoured
  <2> SUFFICES ASSUME StartInv, pc \in {"serve"} \cup Saving, NEW f \in loaded, NEW w \in world
               PROVE  /\ \A a \in Claimants(f.world) : \A claim \in f.world.entities[a].inventory :
                           W!Items(claim) \cup W!Items(W!Inventory(f.world.inventories, a))
                             = W!Items(W!Inventory(w.inventories, a))
                      /\ \A i \in DOMAIN f.world.entities :
                           (\A a \in Claimants(f.world) :
                              \A claim \in f.world.entities[a].inventory : i \notin W!Items(claim))
                             => w.entities[i].location = f.world.entities[i].location
    BY DEF ClaimsHonoured, Saving
  <2>1. WorldTyped(f.world) /\ Honoured(f.world, w)
    BY DEF StartInv, LoadedInv, ClaimInv, Sound
  <2>2. PICK u : u = f.world  OBVIOUS
  <2>3. \A a \in Claimants(u) : u.entities[a].inventory = {Claim(u, a)}
    BY <2>1, <2>2, ClaimTyped
  <2>4. \A a \in Claimants(u) : \A claim \in u.entities[a].inventory :
          W!Items(claim) \cup W!Items(W!Inventory(u.inventories, a))
            = W!Items(W!Inventory(w.inventories, a))
    BY <2>1, <2>2, <2>3 DEF Honoured
  <2>5. \A i \in DOMAIN u.entities :
          (\A a \in Claimants(u) : \A claim \in u.entities[a].inventory : i \notin W!Items(claim))
            => w.entities[i].location = u.entities[i].location
    <3>1. ASSUME NEW i, \A a \in Claimants(u) :
                          \A claim \in u.entities[a].inventory : i \notin W!Items(claim)
          PROVE  ClaimedBy(u, i) = {}
      BY <2>3, <3>1 DEF ClaimedBy
    <3>2. QED  BY <2>1, <2>2, <3>1 DEF Honoured
  <2>6. QED  BY <2>2, <2>4, <2>5
<1>2. QED  BY <1>1, StartInvariant, PTL

----------------------------------------------------------------------------
(* The cycle check.                                                        *)

(* A count of turns is defined when each turn brings a measure down.       *)
Counted(g, D, done, turn) == g = [s \in D |-> IF s \in done THEN 0 ELSE 1 + g[turn[s]]]

LEMMA CountExists ==
  ASSUME NEW D, NEW done, NEW turn \in [D -> D], NEW measure \in [D -> Nat], NEW top \in Nat,
         \A s \in D : measure[s] < top,
         \A s \in D \ done : measure[turn[s]] < measure[s]
  PROVE  \E g : Counted(g, D, done, turn)
<1> DEFINE Below(n) == {s \in D : measure[s] < n}
           S == {n \in Nat : \E g : Counted(g, Below(n), done, turn)}
<1>1. 0 \in S
  <2> DEFINE none == [s \in {} |-> 0]
  <2>1. Below(0) = {}  OBVIOUS
  <2>2. Counted(none, Below(0), done, turn)  BY <2>1 DEF Counted
  <2> HIDE DEF none, Below
  <2>3. QED  BY <2>2
<1>2. ASSUME NEW m \in Nat, m \in S  PROVE m + 1 \in S
  <2>1. PICK g : Counted(g, Below(m), done, turn)  BY <1>2
  <2> DEFINE h == [s \in Below(m + 1) |-> IF s \in done THEN 0 ELSE 1 + g[turn[s]]]
  <2>2. Below(m) \subseteq Below(m + 1)  OBVIOUS
  <2>3. \A s \in Below(m + 1) : s \notin done => turn[s] \in Below(m)
    <3>1. ASSUME NEW s \in D, measure[s] < m + 1, s \notin done
          PROVE  turn[s] \in D /\ measure[turn[s]] < m
      <4>1. PICK i \in Nat : i = measure[s]  OBVIOUS
      <4>2. turn[s] \in D /\ measure[turn[s]] < measure[s]  BY <3>1
      <4>3. PICK j \in Nat : j = measure[turn[s]]  BY <4>2
      <4>4. QED  BY <3>1, <4>1, <4>2, <4>3
    <3>2. QED  BY <3>1
  <2> HIDE DEF Below
  <2>4. \A s \in Below(m) : h[s] = g[s]
    <3>1. \A s \in Below(m) : g[s] = IF s \in done THEN 0 ELSE 1 + g[turn[s]]
      BY <2>1 DEF Counted
    <3>2. QED  BY <2>2, <3>1
  <2>5. \A s \in Below(m + 1) : h[s] = IF s \in done THEN 0 ELSE 1 + h[turn[s]]
    BY <2>3, <2>4
  <2>6. PICK f : f = h  OBVIOUS
  <2>7. f = [s \in Below(m + 1) |-> f[s]]  BY <2>6
  <2>8. \A s \in Below(m + 1) : f[s] = IF s \in done THEN 0 ELSE 1 + f[turn[s]]
    BY <2>5, <2>6
  <2>9. Counted(f, Below(m + 1), done, turn)
    <3> HIDE DEF h
    <3>1. QED  BY <2>7, <2>8 DEF Counted
  <2>10. QED  BY <2>9
<1>3. top \in S
  <2> HIDE DEF S
  <2>1. QED  BY <1>1, <1>2, UpTo
<1>4. Below(top) = D  OBVIOUS
<1> HIDE DEF Below
<1>5. QED  BY <1>3, <1>4

QuestsTyped(quests) ==
  IsFiniteSet(DOMAIN quests) /\ \A q \in DOMAIN quests : QuestTyped(quests[q])

At(quests, q, id) == {i \in 1 .. Len(Requires(quests, q)) : Requires(quests, q)[i] = id}

Waiting(quests, s) == {q \in DOMAIN quests : s.degree[q] > 0}
Left(quests, s)    == Cardinality(s.ready) + Cardinality(Waiting(quests, s))

LEMMA AtType ==
  ASSUME NEW quests, QuestsTyped(quests), NEW q \in DOMAIN quests, NEW id
  PROVE  IsFiniteSet(At(quests, q, id)) /\ Cardinality(At(quests, q, id)) \in Nat
<1>1. Len(Requires(quests, q)) \in Nat  BY DEF QuestsTyped, QuestTyped, Requires
<1>2. PICK len \in Nat : len = Len(Requires(quests, q))  BY <1>1
<1>3. IsFiniteSet(1 .. len)  BY <1>2, FS_Interval
<1>4. At(quests, q, id) \subseteq 1 .. len  BY <1>2 DEF At
<1>5. IsFiniteSet(At(quests, q, id))  BY <1>3, <1>4, FS_Subset
<1>6. QED  BY <1>5, FS_CardinalityType

LEMMA LeftType ==
  ASSUME NEW quests, IsFiniteSet(DOMAIN quests), NEW s \in KahnState(quests)
  PROVE  /\ IsFiniteSet(s.ready) /\ IsFiniteSet(Waiting(quests, s))
         /\ Cardinality(s.ready) \in Nat /\ Cardinality(Waiting(quests, s)) \in Nat
         /\ Cardinality(s.ready) <= Cardinality(DOMAIN quests)
         /\ Cardinality(Waiting(quests, s)) <= Cardinality(DOMAIN quests)
<1>1. s.ready \subseteq DOMAIN quests /\ Waiting(quests, s) \subseteq DOMAIN quests
  BY DEF KahnState, Waiting
<1>2. /\ IsFiniteSet(s.ready) /\ Cardinality(s.ready) <= Cardinality(DOMAIN quests)
      /\ IsFiniteSet(Waiting(quests, s))
      /\ Cardinality(Waiting(quests, s)) <= Cardinality(DOMAIN quests)
  BY <1>1, FS_Subset
<1>3. QED  BY <1>2, FS_CardinalityType

(* A turn takes one quest off the queue, and each that it frees was        *)
(* waiting and does so no more.                                            *)
LEMMA TurnIs ==
  ASSUME NEW quests, QuestsTyped(quests), NEW s \in KahnState(quests), s.ready # {}
  PROVE  LET t == Drained(quests, s)
         IN /\ t \in KahnState(quests)
            /\ \E id \in s.ready :
                 /\ \A q \in DOMAIN quests :
                      t.degree[q] = s.degree[q] - Cardinality(At(quests, q, id))
                 /\ t.ready = (s.ready \ {id})
                                \cup {q \in DOMAIN quests : t.degree[q] = 0 /\ s.degree[q] > 0}
<1> DEFINE Ids == DOMAIN quests
<1>1. PICK id : id = CHOOSE q \in s.ready : TRUE  OBVIOUS
<1>2. id \in s.ready  BY <1>1
<1> DEFINE degree == [q \in Ids |-> s.degree[q] - Cardinality(At(quests, q, id))]
           freed  == {q \in Ids : degree[q] = 0 /\ s.degree[q] > 0}
<1>3. PICK t : t = Drained(quests, s)  OBVIOUS
<1>4. t = [degree |-> degree, ready |-> (s.ready \ {id}) \cup freed]
  BY <1>1, <1>3 DEF Drained, At
<1>5. s.ready \subseteq Ids /\ s.degree \in [Ids -> Int]  BY DEF KahnState
<1>6. \A q \in Ids : s.degree[q] - Cardinality(At(quests, q, id)) \in Int
  <2>1. SUFFICES ASSUME NEW q \in Ids  PROVE s.degree[q] - Cardinality(At(quests, q, id)) \in Int
    OBVIOUS
  <2>2. PICK m \in Nat : m = Cardinality(At(quests, q, id))  BY AtType
  <2>3. PICK n \in Int : n = s.degree[q]  BY <1>5
  <2>4. QED  BY <2>2, <2>3
<1>7. degree \in [Ids -> Int]  BY <1>6
<1>8. /\ t.degree = degree /\ t.ready = (s.ready \ {id}) \cup freed
      /\ t = [degree |-> t.degree, ready |-> t.ready]
  <2> HIDE DEF degree, freed
  <2>1. QED  BY <1>4
<1>9. t \in KahnState(quests)
  <2>1. t.ready \subseteq Ids  BY <1>5, <1>8
  <2> HIDE DEF degree, freed
  <2>2. QED  BY <1>7, <1>8, <2>1 DEF KahnState
<1>10. freed = {q \in Ids : t.degree[q] = 0 /\ s.degree[q] > 0}  BY <1>8
<1>11. \A q \in Ids : t.degree[q] = s.degree[q] - Cardinality(At(quests, q, id))  BY <1>8
<1> HIDE DEF degree, freed
<1>12. QED  BY <1>2, <1>3, <1>8, <1>9, <1>10, <1>11

LEMMA TurnLeavesLess ==
  ASSUME NEW quests, QuestsTyped(quests), NEW s \in KahnState(quests), s.ready # {}
  PROVE  Left(quests, Drained(quests, s)) < Left(quests, s)
<1> DEFINE Ids == DOMAIN quests
<1>1. PICK t \in KahnState(quests) : t = Drained(quests, s)  BY TurnIs
<1>2. PICK id \in s.ready :
        /\ \A q \in Ids : t.degree[q] = s.degree[q] - Cardinality(At(quests, q, id))
        /\ t.ready = (s.ready \ {id}) \cup {q \in Ids : t.degree[q] = 0 /\ s.degree[q] > 0}
  BY <1>1, TurnIs
<1>3. PICK freed : freed = {q \in Ids : t.degree[q] = 0 /\ s.degree[q] > 0}  OBVIOUS
<1>4. IsFiniteSet(Ids)  BY DEF QuestsTyped
<1>5. /\ s.degree \in [Ids -> Int] /\ t.degree \in [Ids -> Int]  BY DEF KahnState
<1>6. freed \cup Waiting(quests, t) \subseteq Waiting(quests, s)
      /\ freed \cap Waiting(quests, t) = {}
  <2>1. ASSUME NEW q \in Ids, t.degree[q] > 0  PROVE s.degree[q] > 0
    <3>1. PICK m \in Nat : m = Cardinality(At(quests, q, id))  BY AtType
    <3>2. PICK n \in Int : n = s.degree[q]  BY <1>5
    <3>3. t.degree[q] = n - m  BY <1>2, <3>1, <3>2
    <3>4. PICK k \in Int : k = t.degree[q]  BY <1>5
    <3>5. k > 0 /\ k = n - m  BY <2>1, <3>3, <3>4
    <3>6. n > 0  BY <3>5
    <3>7. QED  BY <3>2, <3>6
  <2>2. freed \cap Waiting(quests, t) = {}  BY <1>3 DEF Waiting
  <2>3. QED  BY <1>3, <2>1, <2>2 DEF Waiting
<1>7. /\ IsFiniteSet(s.ready) /\ IsFiniteSet(Waiting(quests, s)) /\ IsFiniteSet(t.ready)
      /\ IsFiniteSet(Waiting(quests, t))
  BY <1>1, <1>4, LeftType
<1>8. IsFiniteSet(freed)  BY <1>6, <1>7, FS_Subset
<1>9. PICK r \in Nat : r = Cardinality(s.ready)  BY <1>7, FS_CardinalityType
<1>10. PICK x \in Nat : x = Cardinality(freed)  BY <1>8, FS_CardinalityType
<1>11. PICK y \in Nat : y = Cardinality(Waiting(quests, t))  BY <1>7, FS_CardinalityType
<1>12. PICK z \in Nat : z = Cardinality(Waiting(quests, s))  BY <1>7, FS_CardinalityType
<1>13. PICK u \in Nat : u = Cardinality(t.ready)  BY <1>7, FS_CardinalityType
<1>14. x + y <= z
  <2>1. Cardinality(freed \cup Waiting(quests, t)) = x + y
    <3>1. Cardinality(freed \cap Waiting(quests, t)) = 0  BY <1>6, FS_EmptySet
    <3>2. Cardinality(freed \cup Waiting(quests, t))
            = Cardinality(freed) + Cardinality(Waiting(quests, t))
                - Cardinality(freed \cap Waiting(quests, t))
      BY <1>7, <1>8, FS_Union
    <3>3. Cardinality(freed \cup Waiting(quests, t)) = x + y - 0
      BY <1>10, <1>11, <3>1, <3>2, Zenon
    <3>4. QED  BY <3>3
  <2>2. Cardinality(freed \cup Waiting(quests, t)) <= z
    BY <1>6, <1>7, <1>12, FS_Subset
  <2>3. QED  BY <2>1, <2>2
<1>15. u <= (r - 1) + x
  <2>1. IsFiniteSet(s.ready \ {id}) /\ Cardinality(s.ready \ {id}) = r - 1
    BY <1>7, <1>9, FS_RemoveElement
  <2>2. t.ready = (s.ready \ {id}) \cup freed  BY <1>2, <1>3
  <2>3. PICK c \in Nat : c = Cardinality((s.ready \ {id}) \cap freed)
    <3>1. IsFiniteSet((s.ready \ {id}) \cap freed)  BY <1>8, FS_Subset
    <3>2. QED  BY <3>1, FS_CardinalityType
  <2>4. u = (r - 1) + x - c
    BY <1>8, <1>10, <1>13, <2>1, <2>2, <2>3, FS_Union
  <2>5. QED  BY <2>4
<1>16. u + y < r + z  BY <1>14, <1>15
<1>17. QED  BY <1>1, <1>9, <1>11, <1>12, <1>13, <1>16 DEF Left

IsDrain(g, quests) ==
  g = [s \in KahnState(quests) |-> IF s.ready = {} THEN 0 ELSE 1 + g[Drained(quests, s)]]

KahnStart(quests) ==
  LET indegree == [q \in DOMAIN quests |-> Indegree(quests, q)]
  IN [degree |-> indegree, ready |-> {q \in DOMAIN quests : indegree[q] = 0}]

LEMMA DrainExists ==
  ASSUME NEW quests, QuestsTyped(quests)
  PROVE  \E g : IsDrain(g, quests)
<1> DEFINE D == KahnState(quests)
           done == {s \in D : s.ready = {}}
           turn == [s \in D |-> IF s.ready = {} THEN s ELSE Drained(quests, s)]
           measure == [s \in D |-> Left(quests, s)]
<1>1. IsFiniteSet(DOMAIN quests)  BY DEF QuestsTyped
<1>2. PICK n \in Nat : n = Cardinality(DOMAIN quests)  BY <1>1, FS_CardinalityType
<1>3. ASSUME NEW s \in D  PROVE Left(quests, s) \in Nat /\ Left(quests, s) < 2 * n + 1
  <2>1. PICK r \in Nat : r = Cardinality(s.ready)  BY <1>1, LeftType
  <2>2. PICK w \in Nat : w = Cardinality(Waiting(quests, s))  BY <1>1, LeftType
  <2>3. r <= n /\ w <= n  BY <1>1, <1>2, <2>1, <2>2, LeftType
  <2>4. Left(quests, s) = r + w  BY <2>1, <2>2 DEF Left
  <2>5. QED  BY <2>3, <2>4
<1>4. turn \in [D -> D]  BY TurnIs
<1>5. measure \in [D -> Nat]  BY <1>3
<1>6. \A s \in D : measure[s] < 2 * n + 1  BY <1>3
<1>7. \A s \in D \ done : measure[turn[s]] < measure[s]
  <2>1. SUFFICES ASSUME NEW s \in D, s.ready # {}  PROVE measure[turn[s]] < measure[s]
    OBVIOUS
  <2>2. turn[s] = Drained(quests, s) /\ turn[s] \in D  BY <1>4, <2>1
  <2>3. measure[turn[s]] = Left(quests, Drained(quests, s)) /\ measure[s] = Left(quests, s)
    BY <2>2
  <2>4. Left(quests, Drained(quests, s)) < Left(quests, s)  BY <2>1, TurnLeavesLess
  <2>5. QED  BY <2>3, <2>4
<1>8. 2 * n + 1 \in Nat  OBVIOUS
<1>9. PICK g : Counted(g, D, done, turn)
  <2> HIDE DEF D, done, turn, measure
  <2>1. QED  BY <1>4, <1>5, <1>6, <1>7, <1>8, CountExists
<1>10. IsFunction(g) /\ DOMAIN g = D  BY <1>9 DEF Counted, IsFunction
<1>11. \A s \in D : g[s] = IF s.ready = {} THEN 0 ELSE 1 + g[Drained(quests, s)]
  <2>1. \A s \in D : g[s] = IF s \in done THEN 0 ELSE 1 + g[turn[s]]  BY <1>9 DEF Counted
  <2>2. QED  BY <2>1
<1>12. QED  BY <1>10, <1>11 DEF IsDrain, IsFunction

LEMMA ProcessedIs ==
  ASSUME NEW quests, QuestsTyped(quests)
  PROVE  \E g : IsDrain(g, quests) /\ Processed(quests) = g[KahnStart(quests)]
<1> DEFINE drain == CHOOSE g : IsDrain(g, quests)
<1>1. IsDrain(drain, quests)
  <2>1. \E g : IsDrain(g, quests)  BY DrainExists
  <2>2. QED  BY <2>1
<1>2. Processed(quests) = drain[KahnStart(quests)]  BY DEF Processed, KahnStart, IsDrain
<1> HIDE DEF drain
<1>3. QED  BY <1>1, <1>2

Needs(quests, q) == W!Items(Requires(quests, q))

(* validate_quests before its cycle check: every prerequisite is a quest,  *)
(* and none is listed twice.                                               *)
NeedsKnown(quests) ==
  \A q \in DOMAIN quests :
    /\ Needs(quests, q) \subseteq DOMAIN quests
    /\ Cardinality(Needs(quests, q)) = Len(Requires(quests, q))

LEMMA NeedsOnce ==
  ASSUME NEW quests, QuestsTyped(quests), NeedsKnown(quests), NEW q \in DOMAIN quests, NEW id
  PROVE  Cardinality(At(quests, q, id)) = IF id \in Needs(quests, q) THEN 1 ELSE 0
<1> DEFINE r == Requires(quests, q)
           T == Needs(quests, q)
<1>1. r \in Seq(T)  BY DEF QuestsTyped, QuestTyped, Requires, Needs
<1>2. PICK len \in Nat : len = Len(r)  BY <1>1
<1>3. DOMAIN r = 1 .. len /\ r \in [1 .. len -> T]  BY <1>1, <1>2
<1>4. T = {r[i] : i \in 1 .. len}  BY <1>3 DEF Needs, W!Items
<1>5. Cardinality(T) = len  BY <1>2 DEF NeedsKnown
<1>6. At(quests, q, id) = {i \in 1 .. len : r[i] = id}  BY <1>2 DEF At
<1> HIDE DEF r, T
<1>7. IsFiniteSet(1 .. len) /\ Cardinality(1 .. len) = len
  <2>1. IsFiniteSet(1 .. len) /\ Cardinality(1 .. len) = IF 1 > len THEN 0 ELSE len - 1 + 1
    BY FS_Interval
  <2>2. (IF 1 > len THEN 0 ELSE len - 1 + 1) = len  OBVIOUS
  <2>3. QED  BY <2>1, <2>2
<1>8. r \in Surjection(1 .. len, T)  BY <1>3, <1>4 DEF Surjection
<1>9. r \in Injection(1 .. len, T)  BY <1>5, <1>7, <1>8, FS_Surjection
<1>10. \A i, j \in 1 .. len : r[i] = r[j] => i = j  BY <1>9 DEF Injection, IsInjective
<1>11. CASE id \in T
  <2>1. PICK i \in 1 .. len : r[i] = id  BY <1>4, <1>11
  <2>2. At(quests, q, id) = {i}  BY <1>6, <1>10, <2>1
  <2>3. QED  BY <1>11, <2>2, FS_Singleton DEF T
<1>12. CASE id \notin T
  <2>1. At(quests, q, id) = {}  BY <1>4, <1>6, <1>12
  <2>2. QED  BY <1>12, <2>1, FS_EmptySet DEF T
<1>13. QED  BY <1>11, <1>12

(* After the quests of P have left the queue.                              *)
KahnInv(quests, s, P) ==
  /\ s \in KahnState(quests) /\ P \subseteq DOMAIN quests /\ s.ready \cap P = {}
  /\ \A q \in DOMAIN quests :
       /\ s.degree[q] = Cardinality(Needs(quests, q) \ P)
       /\ s.degree[q] = 0 <=> q \in s.ready \cup P

LEMMA KahnStarts ==
  ASSUME NEW quests, QuestsTyped(quests), NeedsKnown(quests)
  PROVE  KahnInv(quests, KahnStart(quests), {})
<1> DEFINE indegree == [q \in DOMAIN quests |-> Indegree(quests, q)]
           ready == {q \in DOMAIN quests : indegree[q] = 0}
<1>1. PICK s : s = KahnStart(quests)  OBVIOUS
<1>2. s = [degree |-> indegree, ready |-> ready]  BY <1>1 DEF KahnStart
<1>3. \A q \in DOMAIN quests : Indegree(quests, q) \in Nat
  BY DEF QuestsTyped, QuestTyped, Requires, Indegree
<1>4. indegree \in [DOMAIN quests -> Int]  BY <1>3
<1>5. s \in KahnState(quests)  BY <1>2, <1>4 DEF KahnState
<1>6. \A q \in DOMAIN quests :
        /\ s.degree[q] = Indegree(quests, q)
        /\ s.degree[q] = 0 <=> q \in s.ready
  BY <1>2
<1>7. \A q \in DOMAIN quests : Indegree(quests, q) = Cardinality(Needs(quests, q) \ {})
  <2>1. \A q : Needs(quests, q) \ {} = Needs(quests, q)  OBVIOUS
  <2>2. QED  BY <2>1 DEF NeedsKnown, Indegree
<1>8. QED  BY <1>1, <1>5, <1>6, <1>7 DEF KahnInv

LEMMA KahnTurns ==
  ASSUME NEW quests, QuestsTyped(quests), NeedsKnown(quests), NEW s, NEW P,
         KahnInv(quests, s, P), s.ready # {}
  PROVE  \E id \in s.ready : /\ KahnInv(quests, Drained(quests, s), P \cup {id})
                             /\ Needs(quests, id) \subseteq P
<1> DEFINE Ids == DOMAIN quests
<1>1. s \in KahnState(quests) /\ P \subseteq Ids /\ s.ready \cap P = {} /\ s.ready \subseteq Ids
  BY DEF KahnInv, KahnState
<1>2. PICK t \in KahnState(quests) : t = Drained(quests, s)  BY <1>1, TurnIs
<1>3. PICK id \in s.ready :
        /\ \A q \in Ids : t.degree[q] = s.degree[q] - Cardinality(At(quests, q, id))
        /\ t.ready = (s.ready \ {id}) \cup {q \in Ids : t.degree[q] = 0 /\ s.degree[q] > 0}
  BY <1>1, <1>2, TurnIs
<1>4. \A q \in Ids : IsFiniteSet(Needs(quests, q) \ P)
  BY FS_Subset DEF QuestsTyped, NeedsKnown
<1>5. Needs(quests, id) \subseteq P
  <2>1. s.degree[id] = 0 /\ s.degree[id] = Cardinality(Needs(quests, id) \ P)
    BY <1>1 DEF KahnInv
  <2>2. Needs(quests, id) \ P = {}  BY <1>1, <1>4, <2>1, FS_EmptySet
  <2>3. QED  BY <2>2
<1>6. ASSUME NEW q \in Ids
      PROVE  /\ t.degree[q] = Cardinality(Needs(quests, q) \ (P \cup {id}))
             /\ t.degree[q] = 0 <=> q \in t.ready \cup (P \cup {id})
  <2>1. PICK A : A = Needs(quests, q) \ P  OBVIOUS
  <2>2. PICK n \in Nat : n = Cardinality(A)  BY <1>4, <2>1, FS_CardinalityType
  <2>3. s.degree[q] = n /\ (s.degree[q] = 0 <=> q \in s.ready \cup P)  BY <2>1, <2>2 DEF KahnInv
  <2>4. A \ {id} = Needs(quests, q) \ (P \cup {id})  BY <2>1
  <2>5. id \in A <=> id \in Needs(quests, q)  BY <1>1, <2>1
  <2>6. PICK d : d = t.degree[q]  OBVIOUS
  <2>7. d = n - Cardinality(At(quests, q, id))  BY <1>3, <2>3, <2>6
  <2>8. Cardinality(A \ {id}) = IF id \in A THEN n - 1 ELSE n
    BY <1>4, <2>1, <2>2, FS_RemoveElement
  <2>9. Cardinality(At(quests, q, id)) = IF id \in A THEN 1 ELSE 0
    BY <2>5, NeedsOnce
  <2>10. d = Cardinality(A \ {id}) /\ (n = 0 => d = 0)
    <3>1. CASE id \in A
      <4>1. d = n - 1  BY <2>7, <2>9, <3>1
      <4>2. A # {}  BY <3>1
      <4>3. n # 0  BY <1>4, <2>1, <2>2, <4>2, FS_EmptySet
      <4>4. QED  BY <2>8, <3>1, <4>1, <4>3
    <3>2. CASE id \notin A
      <4>1. d = n - 0  BY <2>7, <2>9, <3>2
      <4>2. QED  BY <2>8, <3>2, <4>1
    <3>3. QED  BY <3>1, <3>2
  <2>11. t.degree[q] = 0 <=> q \in t.ready \cup (P \cup {id})
    <3>1. q \in t.ready <=> (q \in s.ready /\ q # id) \/ (d = 0 /\ n > 0)
      BY <1>3, <2>3, <2>6
    <3>2. n = 0 <=> q \in s.ready \cup P  BY <2>3
    <3>3. n > 0 \/ n = 0  OBVIOUS
    <3>4. d = 0 <=> (n = 0 \/ (d = 0 /\ n > 0))  BY <2>10, <3>3
    <3>5. QED  BY <1>3, <2>6, <3>1, <3>2, <3>4
  <2>12. QED  BY <2>4, <2>6, <2>10, <2>11
<1>7. t.ready \cap (P \cup {id}) = {}
  <2>1. ASSUME NEW q \in Ids, s.degree[q] > 0  PROVE q \notin P /\ q \notin s.ready
    <3>1. PICK n \in Int : n = s.degree[q]  BY <1>1 DEF KahnState
    <3>2. n # 0  BY <2>1, <3>1
    <3>3. QED  BY <3>1, <3>2 DEF KahnInv
  <2>2. QED  BY <1>1, <1>3, <2>1
<1>8. KahnInv(quests, t, P \cup {id})  BY <1>1, <1>2, <1>3, <1>6, <1>7 DEF KahnInv
<1>9. QED  BY <1>2, <1>5, <1>8

(* Some of the quests outside P wait for each other.                       *)
Blocked(quests, P) ==
  \E S \in (SUBSET (DOMAIN quests \ P)) \ {{}} : \A q \in S : Needs(quests, q) \cap S # {}

(* What an empty queue leaves over is blocked.                             *)
LEMMA EmptyQueue ==
  ASSUME NEW quests, QuestsTyped(quests), NeedsKnown(quests), NEW s, NEW P,
         KahnInv(quests, s, P), s.ready = {}
  PROVE  Blocked(quests, P) <=> DOMAIN quests \ P # {}
<1>1. CASE DOMAIN quests \ P = {}  BY <1>1 DEF Blocked
<1>2. CASE DOMAIN quests \ P # {}
  <2> DEFINE S == DOMAIN quests \ P
  <2>1. ASSUME NEW q \in S  PROVE Needs(quests, q) \cap S # {}
    <3>1. Cardinality(Needs(quests, q) \ P) # 0  BY DEF KahnInv
    <3>2. Needs(quests, q) \ P # {}  BY <3>1, FS_EmptySet
    <3>3. QED  BY <3>2 DEF NeedsKnown
  <2>2. QED  BY <1>2, <2>1 DEF Blocked
<1>3. QED  BY <1>1, <1>2

(* A quest that waits for nothing is in no circle.                         *)
LEMMA FreeIsOutside ==
  ASSUME NEW quests, NEW P, NEW id, Needs(quests, id) \subseteq P
  PROVE  Blocked(quests, P) <=> Blocked(quests, P \cup {id})
<1>1. ASSUME NEW S, S \subseteq DOMAIN quests \ P, \A q \in S : Needs(quests, q) \cap S # {}
      PROVE  id \notin S
  BY <1>1
<1>2. Blocked(quests, P) => Blocked(quests, P \cup {id})
  <2>1. SUFFICES ASSUME NEW S \in (SUBSET (DOMAIN quests \ P)) \ {{}},
                        \A q \in S : Needs(quests, q) \cap S # {}
                 PROVE  Blocked(quests, P \cup {id})
    BY DEF Blocked
  <2>2. S \in (SUBSET (DOMAIN quests \ (P \cup {id}))) \ {{}}  BY <1>1, <2>1
  <2>3. QED  BY <2>1, <2>2 DEF Blocked
<1>3. Blocked(quests, P \cup {id}) => Blocked(quests, P)
  <2>1. SUFFICES ASSUME NEW S \in (SUBSET (DOMAIN quests \ (P \cup {id}))) \ {{}},
                        \A q \in S : Needs(quests, q) \cap S # {}
                 PROVE  Blocked(quests, P)
    BY DEF Blocked
  <2>2. S \in (SUBSET (DOMAIN quests \ P)) \ {{}}  OBVIOUS
  <2>3. QED  BY <2>1, <2>2 DEF Blocked
<1>4. QED  BY <1>2, <1>3

(* The turns from here on are as many as the quests left, or fewer when    *)
(* some of them are blocked.                                               *)
LEMMA KahnCounts ==
  ASSUME NEW quests, QuestsTyped(quests), NeedsKnown(quests), NEW g, IsDrain(g, quests),
         NEW len \in Nat
  PROVE  \A s, P : KahnInv(quests, s, P) /\ Cardinality(DOMAIN quests \ P) = len =>
           g[s] \in 0 .. len /\ (g[s] = len <=> ~Blocked(quests, P))
<1> DEFINE Ids == DOMAIN quests
           Counts(n) == \A s, P : KahnInv(quests, s, P) /\ Cardinality(Ids \ P) = n =>
                          g[s] \in 0 .. n /\ (g[s] = n <=> ~Blocked(quests, P))
           S == {n \in Nat : Counts(n)}
<1>1. \A P : IsFiniteSet(Ids \ P)  BY FS_Subset DEF QuestsTyped
<1>2. \A s \in KahnState(quests) :
        g[s] = IF s.ready = {} THEN 0 ELSE 1 + g[Drained(quests, s)]
  BY DEF IsDrain
<1>3. ASSUME NEW n \in Nat, NEW s, NEW P, KahnInv(quests, s, P), Cardinality(Ids \ P) = n,
             s.ready = {}
      PROVE  g[s] \in 0 .. n /\ (g[s] = n <=> ~Blocked(quests, P))
  <2>1. g[s] = 0  BY <1>2, <1>3 DEF KahnInv
  <2>2. n = 0 <=> Ids \ P = {}  BY <1>1, <1>3, FS_EmptySet
  <2>3. Blocked(quests, P) <=> Ids \ P # {}  BY <1>3, EmptyQueue
  <2>4. QED  BY <2>1, <2>2, <2>3
<1>4. 0 \in S
  <2>1. SUFFICES ASSUME NEW s, NEW P, KahnInv(quests, s, P), Cardinality(Ids \ P) = 0
                 PROVE  g[s] \in 0 .. 0 /\ (g[s] = 0 <=> ~Blocked(quests, P))
    OBVIOUS
  <2>2. Ids \ P = {}  BY <1>1, <2>1, FS_EmptySet
  <2>3. s.ready = {}  BY <2>1, <2>2 DEF KahnInv, KahnState
  <2>4. QED  BY <1>3, <2>1, <2>3
<1>5. ASSUME NEW m \in Nat, m \in S  PROVE m + 1 \in S
  <2>1. SUFFICES ASSUME NEW s, NEW P, KahnInv(quests, s, P), Cardinality(Ids \ P) = m + 1
                 PROVE  g[s] \in 0 .. m + 1 /\ (g[s] = m + 1 <=> ~Blocked(quests, P))
    OBVIOUS
  <2>2. CASE s.ready = {}  BY <1>3, <2>1, <2>2
  <2>3. CASE s.ready # {}
    <3>1. PICK t : t = Drained(quests, s)  OBVIOUS
    <3>2. PICK id \in s.ready : KahnInv(quests, t, P \cup {id}) /\ Needs(quests, id) \subseteq P
      BY <2>1, <2>3, <3>1, KahnTurns
    <3>3. id \in Ids \ P  BY <2>1, <3>2 DEF KahnInv, KahnState
    <3>4. Ids \ (P \cup {id}) = (Ids \ P) \ {id}  OBVIOUS
    <3>5. Cardinality((Ids \ P) \ {id}) = (m + 1) - 1
      BY <1>1, <2>1, <3>3, FS_RemoveElement
    <3>6. (m + 1) - 1 = m  OBVIOUS
    <3>7. Cardinality(Ids \ (P \cup {id})) = m  BY <3>4, <3>5, <3>6, Zenon
    <3>8. g[t] \in 0 .. m /\ (g[t] = m <=> ~Blocked(quests, P \cup {id}))
      BY <1>5, <3>2, <3>7
    <3>9. g[s] = 1 + g[t]  BY <1>2, <2>1, <2>3, <3>1 DEF KahnInv
    <3>10. Blocked(quests, P) <=> Blocked(quests, P \cup {id})  BY <3>2, FreeIsOutside
    <3>11. QED  BY <3>8, <3>9, <3>10
  <2>4. QED  BY <2>2, <2>3
<1>6. len \in S
  <2> HIDE DEF S
  <2>1. QED  BY <1>4, <1>5, UpTo
<1>7. QED  BY <1>6

LEMMA CycleCheckIs ==
  ASSUME NEW w, WorldTyped(w), QuestsWellFormed(w)
  PROVE  ValidateQuests(w) <=>
           ~ \E S \in (SUBSET DOMAIN w.quests) \ {{}} :
               \A q \in S : W!Items(Requires(w.quests, q)) \cap S # {}
<1>1. PICK quests : quests = w.quests  OBVIOUS
<1>2. QuestsTyped(quests)  BY <1>1 DEF WorldTyped, QuestsTyped
<1>3. NeedsKnown(quests)  BY <1>1 DEF QuestsWellFormed, NeedsKnown, Needs
<1>4. PICK g : IsDrain(g, quests) /\ Processed(quests) = g[KahnStart(quests)]
  BY <1>2, ProcessedIs
<1>5. PICK n \in Nat : n = Cardinality(DOMAIN quests)
  BY <1>2, FS_CardinalityType DEF QuestsTyped
<1>6. DOMAIN quests \ {} = DOMAIN quests  OBVIOUS
<1>7. Processed(quests) = n <=> ~Blocked(quests, {})
  BY <1>2, <1>3, <1>4, <1>5, <1>6, KahnStarts, KahnCounts
<1>8. Blocked(quests, {}) <=> \E S \in (SUBSET DOMAIN quests) \ {{}} :
                                \A q \in S : W!Items(Requires(quests, q)) \cap S # {}
  BY <1>6 DEF Blocked, Needs
<1>9. QED  BY <1>1, <1>5, <1>7, <1>8 DEF ValidateQuests

(* Kahn's algorithm, of whatever quests are well formed, finds a cycle     *)
(* exactly when some of them wait for each other.                          *)
THEOREM CycleCheckAlwaysExact == Spec => []CycleCheckExact
<1>1. StartInv => CycleCheckExact
  <2> SUFFICES ASSUME StartInv  PROVE CycleCheckExact
    OBVIOUS
  <2>1. \A w \in world \cup {primary.world, backup.world} : WorldTyped(w)
    BY DEF StartInv, TypedInv, MemoryInv, Filed, Sound
  <2>2. QED  BY <2>1, CycleCheckIs DEF CycleCheckExact
<1>2. QED  BY <1>1, StartInvariant, PTL

----------------------------------------------------------------------------
(* Starts repeat.                                                          *)

(* A world in which a demo upgrade has nothing to do.                      *)
Bound(w, target) ==
  \A i \in DemoActors(w) :
    /\ w.entities[i].contract = target
    /\ w.entities[i].quest # "none" => <<i, "lost_key">> \in DOMAIN w.quest_progress

Peopled(w) ==
  /\ Named(w, "zone", "Village") # {} /\ Named(w, "zone", "Ruins") # {}
  /\ Named(w, "actor", "Mira") # {} /\ Named(w, "actor", "Rowan") # {}
  /\ Named(w, "item", "stone tablet") # {}

Stable(w) ==
  /\ Validate(w) /\ UpToDate(w) # {}
  /\ Bound(w, Key(Demo, TargetVersion(w)))
  /\ Peopled(w)
  /\ \A q \in DemoQuest :
       /\ q \in DOMAIN w.quests
       /\ w.quests[q] = DemoDefinition(q, Find(w, "actor", "Mira"), Find(w, "actor", "Rowan"))

LEMMA SameEntities ==
  ASSUME NEW v, NEW w, v.entities = w.entities
  PROVE  \A kind, name : Named(v, kind, name) = Named(w, kind, name)
                         /\ Find(v, kind, name) = Find(w, kind, name)
<1>1. \A kind, name : Named(v, kind, name) = Named(w, kind, name)  BY DEF Named
<1>2. QED  BY <1>1 DEF Find

LEMMA SameContracts ==
  ASSUME NEW v, NEW w, v.contracts = w.contracts
  PROVE  /\ DemoContracts(v) = DemoContracts(w) /\ UpToDate(v) = UpToDate(w)
         /\ TargetVersion(v) = TargetVersion(w)
<1>1. DemoContracts(v) = DemoContracts(w)  BY DEF DemoContracts
<1>2. UpToDate(v) = UpToDate(w)  BY <1>1 DEF UpToDate
<1>3. \A keys : Versions(v, keys) = Versions(w, keys)  BY DEF Versions
<1>4. QED  BY <1>1, <1>2, <1>3 DEF TargetVersion

LEMMA SameActors ==
  ASSUME NEW v, NEW w, v.contracts = w.contracts, v.entities = w.entities
  PROVE  DemoActors(v) = DemoActors(w)
BY SameContracts, SameEntities DEF DemoActors

(* Worlds are equal if their fields are.                                   *)
LEMMA SameWorld ==
  ASSUME NEW v, NEW w, WorldTyped(v), WorldTyped(w),
         v.accounts = w.accounts, v.contracts = w.contracts, v.entities = w.entities,
         v.next_entity_id = w.next_entity_id, v.inventories = w.inventories,
         v.quests = w.quests, v.quest_progress = w.quest_progress, v.head = w.head
  PROVE  v = w
<1>1. PICK a : a = w.accounts  OBVIOUS
<1>2. PICK c : c = w.contracts  OBVIOUS
<1>3. PICK e : e = w.entities  OBVIOUS
<1>4. PICK n : n = w.next_entity_id  OBVIOUS
<1>5. PICK i : i = w.inventories  OBVIOUS
<1>6. PICK q : q = w.quests  OBVIOUS
<1>7. PICK p : p = w.quest_progress  OBVIOUS
<1>8. PICK h : h = w.head  OBVIOUS
<1>9. w = [accounts |-> a, contracts |-> c, entities |-> e, next_entity_id |-> n,
           inventories |-> i, quests |-> q, quest_progress |-> p, head |-> h]
  BY <1>1, <1>2, <1>3, <1>4, <1>5, <1>6, <1>7, <1>8 DEF WorldTyped
<1>10. v = [accounts |-> a, contracts |-> c, entities |-> e, next_entity_id |-> n,
            inventories |-> i, quests |-> q, quest_progress |-> p, head |-> h]
  BY <1>1, <1>2, <1>3, <1>4, <1>5, <1>6, <1>7, <1>8 DEF WorldTyped
<1>11. QED  BY <1>9, <1>10, Zenon

(* The validation does not read the head.                                  *)
LEMMA SameValidity ==
  ASSUME NEW v, NEW w, Validate(w),
         v.accounts = w.accounts, v.contracts = w.contracts, v.entities = w.entities,
         v.next_entity_id = w.next_entity_id, v.inventories = w.inventories,
         v.quests = w.quests, v.quest_progress = w.quest_progress
  PROVE  Validate(v)
<1>1. ValidateReferences(v)  BY DEF Validate, ValidateReferences
<1>2. QuestsWellFormed(v)  BY DEF Validate, ValidateQuests, QuestsWellFormed
<1>3. ValidateQuests(v)  BY <1>2 DEF Validate, ValidateQuests
<1>4. QED  BY <1>1, <1>3 DEF Validate

LEMMA RebindNothing ==
  ASSUME NEW w, Sound(w), NEW target, \A i \in DemoActors(w) : w.entities[i].contract = target
  PROVE  Rebind(w, target) = w
<1>1. WorldTyped(w)  BY DEF Sound
<1>2. PICK v : v = Rebind(w, target)  OBVIOUS
<1>3. /\ WorldTyped(v) /\ Grown(w, v)
      /\ DOMAIN v.entities = DOMAIN w.entities /\ IsFunction(v.entities)
      /\ v.next_entity_id = w.next_entity_id /\ v.contracts = w.contracts
      /\ v.quests = w.quests /\ v.quest_progress = w.quest_progress
      /\ v.head = w.head
  BY <1>2, RebindKeeps DEF Sound
<1>4. \A i \in DOMAIN w.entities : v.entities[i] = w.entities[i]
  <2>1. SUFFICES ASSUME NEW i \in DOMAIN w.entities  PROVE v.entities[i] = w.entities[i]
    OBVIOUS
  <2>2. v.entities[i] = IF i \in DemoActors(w) THEN [w.entities[i] EXCEPT !.contract = target]
                        ELSE w.entities[i]
    BY <1>2, RebindKeeps
  <2>3. PICK e : e = w.entities[i]  OBVIOUS
  <2>4. EntityTyped(e)  BY <1>1, <2>3 DEF WorldTyped
  <2>5. CASE i \in DemoActors(w)
    <3>1. e.contract = target  BY <2>3, <2>5
    <3>2. [e EXCEPT !.contract = target] = e  BY <2>4, <3>1 DEF EntityTyped
    <3>3. QED  BY <2>2, <2>3, <2>5, <3>2
  <2>6. QED  BY <2>2, <2>5
<1>5. v.entities = w.entities  BY <1>1, <1>3, <1>4 DEF WorldTyped, IsFunction
<1>6. v.accounts = w.accounts /\ v.inventories = w.inventories  BY <1>3 DEF Grown
<1>7. v = w  BY <1>1, <1>3, <1>5, <1>6, SameWorld
<1>8. QED  BY <1>2, <1>7

LEMMA ImportNothing ==
  ASSUME NEW w, Sound(w),
         \A i \in DemoActors(w) :
           w.entities[i].quest # "none" => <<i, "lost_key">> \in DOMAIN w.quest_progress
  PROVE  ImportProgress(w) = w
<1> DEFINE imported == {<<i, "lost_key">> :
                          i \in {j \in DemoActors(w) : w.entities[j].quest # "none"}}
           progress == [k \in DOMAIN w.quest_progress \cup imported |->
                          IF k \in DOMAIN w.quest_progress THEN w.quest_progress[k]
                          ELSE w.entities[k[1]].quest]
<1>1. WorldTyped(w)  BY DEF Sound
<1>2. ImportProgress(w) = [w EXCEPT !.quest_progress = progress]  BY DEF ImportProgress
<1>3. DOMAIN w.quest_progress \cup imported = DOMAIN w.quest_progress  OBVIOUS
<1>4. progress = w.quest_progress
  <2>1. DOMAIN progress = DOMAIN w.quest_progress  BY <1>3
  <2>2. \A k \in DOMAIN w.quest_progress : progress[k] = w.quest_progress[k]  OBVIOUS
  <2>3. progress = [k \in DOMAIN progress |-> progress[k]]  OBVIOUS
  <2>4. w.quest_progress = [k \in DOMAIN w.quest_progress |-> w.quest_progress[k]]
    BY <1>1 DEF WorldTyped, IsFunction
  <2> HIDE DEF progress
  <2>5. QED  BY <2>1, <2>2, <2>3, <2>4
<1> HIDE DEF progress, imported
<1>5. [w EXCEPT !.quest_progress = progress] = w  BY <1>1, <1>4 DEF WorldTyped
<1>6. QED  BY <1>2, <1>5

LEMMA QuestsNothing ==
  ASSUME NEW w, Sound(w), NEW mira, NEW rowan,
         \A q \in DemoQuest : /\ q \in DOMAIN w.quests
                              /\ w.quests[q] = DemoDefinition(q, mira, rowan)
  PROVE  WithDemoQuests(w, mira, rowan) = w
<1> DEFINE quests == [q \in DOMAIN w.quests \cup DemoQuest |->
                        IF q \in DemoQuest THEN DemoDefinition(q, mira, rowan) ELSE w.quests[q]]
<1>1. WorldTyped(w)  BY DEF Sound
<1>2. WithDemoQuests(w, mira, rowan) = [w EXCEPT !.quests = quests]  BY DEF WithDemoQuests
<1>3. quests = w.quests
  <2>1. DOMAIN quests = DOMAIN w.quests  OBVIOUS
  <2>2. \A q \in DOMAIN w.quests : quests[q] = w.quests[q]  OBVIOUS
  <2>3. quests = [q \in DOMAIN quests |-> quests[q]]  OBVIOUS
  <2>4. w.quests = [q \in DOMAIN w.quests |-> w.quests[q]]
    BY <1>1 DEF WorldTyped, IsFunction
  <2> HIDE DEF quests
  <2>5. QED  BY <2>1, <2>2, <2>3, <2>4
<1> HIDE DEF quests
<1>4. [w EXCEPT !.quests = quests] = w  BY <1>1, <1>3 DEF WorldTyped
<1>5. QED  BY <1>2, <1>4

(* An upgrade of a stable world leaves it as it is.                        *)
LEMMA StableStays ==
  ASSUME NEW w, Sound(w), Claimants(w) = {}, Stable(w)
  PROVE  EnsureCurrent(w) = {w}
<1> DEFINE target == Key(Demo, TargetVersion(w))
           mira   == Find(w, "actor", "Mira")
           rowan  == Find(w, "actor", "Rowan")
           village == Find(w, "zone", "Village")
           ruins  == Find(w, "zone", "Ruins")
<1>1. UpToDate(w) # {} /\ DemoContracts(w) # {} /\ DOMAIN w.contracts # {}
  BY DEF Stable, UpToDate, DemoContracts
<1>2. DeployDemo(w) = {w}  BY <1>1 DEF DeployDemo
<1>3. Rebind(w, target) = w  BY RebindNothing DEF Stable, Bound
<1>4. ImportProgress(w) = w  BY ImportNothing DEF Stable, Bound
<1>5. Furnish(w, target) = {w}
  <2>1. Peopled(w)  BY DEF Stable
  <2>2. Ensured(w, "actor", "Rowan", village, target) = {w}  BY <2>1 DEF Ensured, Peopled
  <2>3. Ensured(w, "item", "stone tablet", ruins, NoContract) = {w}
    BY <2>1 DEF Ensured, Peopled
  <2>4. UNION {Ensured(v, "item", "stone tablet", ruins, NoContract) :
                 v \in Ensured(w, "actor", "Rowan", village, target)} = {w}
    BY <2>2, <2>3
  <2>5. WithDemoQuests(w, mira, rowan) = w  BY QuestsNothing DEF Stable
  <2> DEFINE equipped == UNION {Ensured(v, "item", "stone tablet", ruins, NoContract) :
                                  v \in Ensured(w, "actor", "Rowan", village, target)}
  <2>6. Furnish(w, target)
          = {WithDemoQuests(v, mira, Find(v, "actor", "Rowan")) : v \in equipped}
    BY <2>1 DEF Furnish, Peopled
  <2> HIDE DEF mira, village, ruins, target, equipped
  <2>7. equipped = {w}  BY <2>4 DEF equipped
  <2>8. {WithDemoQuests(v, mira, Find(v, "actor", "Rowan")) : v \in equipped}
          = {WithDemoQuests(w, mira, rowan)}
    BY <2>7
  <2>9. QED  BY <2>5, <2>6, <2>8
<1>6. Validate(w)  BY DEF Stable
<1>7. Upgrade(w) = {w}
  <2>1. UNION {Furnish(ImportProgress(Rebind(y, target)), target) : y \in DeployDemo(w)} = {w}
    <3> HIDE DEF target
    <3>1. QED  BY <1>2, <1>3, <1>4, <1>5
  <2>2. Advanced(w, w) = w  BY DEF Advanced
  <2>3. Upgrade(w) = {Advanced(w, v) :
          v \in {x \in UNION {Furnish(ImportProgress(Rebind(y, target)), target) :
                                y \in DeployDemo(w)} : Validate(x)}}
    BY DEF Upgrade
  <2> DEFINE furnished == UNION {Furnish(ImportProgress(Rebind(y, target)), target) :
                                   y \in DeployDemo(w)}
  <2> HIDE DEF furnished
  <2>4. {x \in furnished : Validate(x)} = {w}  BY <1>6, <2>1 DEF furnished
  <2>5. Upgrade(w) = {Advanced(w, v) : v \in {x \in furnished : Validate(x)}}
    BY <2>3 DEF furnished
  <2>6. {Advanced(w, v) : v \in {x \in furnished : Validate(x)}} = {Advanced(w, w)}
    BY <2>4
  <2>7. QED  BY <2>2, <2>5, <2>6
<1>8. Migrations(w) = {w}  BY DEF Migrations
<1>9. EnsureCurrent(w) = UNION {Upgrade(v) : v \in Migrations(w)}  BY <1>1 DEF EnsureCurrent
<1>10. QED  BY <1>7, <1>8, <1>9

(* The version deployed is the one the actors are bound to ever after.     *)
LEMMA DeployDemoTargets ==
  ASSUME NEW w, Sound(w), DemoContracts(w) # {}, NEW y \in DeployDemo(w)
  PROVE  UpToDate(y) # {} /\ TargetVersion(y) = TargetVersion(w)
<1>1. CASE UpToDate(w) # {}  BY <1>1 DEF DeployDemo
<1>2. CASE UpToDate(w) = {}
  <2>1. PICK version \in 0 .. MaxVersion : version = TargetVersion(w)  BY TargetType
  <2>2. y \in DeployVersion(w, Demo, version, "current")  BY <1>2, <2>1 DEF DeployDemo
  <2>3. PICK key : key = Key(Demo, version)  OBVIOUS
  <2>4. PICK c : c = [name |-> Demo, version |-> version, source |-> "current"]  OBVIOUS
  <2>5. c.name = Demo /\ c.version = version /\ c.source = "current"  BY <2>4
  <2>6. /\ DOMAIN y.contracts = DOMAIN w.contracts \cup {key}
        /\ \A k \in DOMAIN w.contracts : y.contracts[k] = w.contracts[k]
        /\ y.contracts[key] = c
        /\ key \notin DOMAIN w.contracts
    BY <2>2, <2>3, <2>4, DeployKeeps
  <2>7. UpToDate(y) = {key}
    BY <1>2, <2>5, <2>6 DEF UpToDate, DemoContracts
  <2>8. Versions(y, {key}) = {version}  BY <2>5, <2>6 DEF Versions
  <2>9. Max({version}) = version
    <3>1. version >= version  BY FileAssumption
    <3>2. QED  BY <3>1 DEF Max
  <2>10. QED  BY <2>1, <2>7, <2>8, <2>9 DEF TargetVersion
<1>3. QED  BY <1>1, <1>2

LEMMA NewStayBound ==
  ASSUME NEW w, NEW v, NEW target, Bound(w, target),
         v.contracts = w.contracts, v.quest_progress = w.quest_progress,
         \A i \in DOMAIN w.entities : v.entities[i] = w.entities[i],
         \A i \in DOMAIN v.entities :
           \/ i \in DOMAIN w.entities
           \/ v.entities[i].contract = target /\ v.entities[i].quest = "none"
           \/ v.entities[i].contract \notin DemoContracts(v) /\ v.entities[i].kind # "actor"
  PROVE  Bound(v, target)
<1>1. DemoContracts(v) = DemoContracts(w)  BY SameContracts
<1>2. SUFFICES ASSUME NEW i \in DemoActors(v)
               PROVE  /\ v.entities[i].contract = target
                      /\ v.entities[i].quest # "none" =>
                           <<i, "lost_key">> \in DOMAIN v.quest_progress
  BY DEF Bound
<1>3. i \in DOMAIN v.entities
      /\ (v.entities[i].contract \in DemoContracts(v) \/ v.entities[i].kind = "actor")
  BY DEF DemoActors, Named
<1>4. CASE i \in DOMAIN w.entities
  <2>1. i \in DemoActors(w)  BY <1>1, <1>4 DEF DemoActors, Named
  <2>2. QED  BY <1>4, <2>1 DEF Bound
<1>5. CASE i \notin DOMAIN w.entities  BY <1>3, <1>5
<1>6. QED  BY <1>4, <1>5

(* What an upgrade yields is stable.                                       *)
LEMMA UpgradeStable ==
  ASSUME NEW w, Sound(w), DemoContracts(w) # {}, NEW v \in Upgrade(w)
  PROVE  Stable(v)
<1> DEFINE T == TargetVersion(w)
<1>1. PICK target : target = Key(Demo, T)  OBVIOUS
<1>2. PICK y, f : /\ y \in DeployDemo(w)
                  /\ f \in Furnish(ImportProgress(Rebind(y, target)), target)
                  /\ v = Advanced(w, f) /\ Validate(f)
  BY <1>1, UpgradeSteps
<1>3. Sound(y) /\ UpToDate(y) # {} /\ TargetVersion(y) = T
  BY <1>2, DeployDemoKeeps, DeployDemoTargets
<1>4. PICK b : b = Rebind(y, target)  OBVIOUS
<1>5. /\ Sound(b) /\ Grown(y, b) /\ DOMAIN b.entities = DOMAIN y.entities
      /\ \A i \in DOMAIN y.entities :
           b.entities[i] = IF i \in DemoActors(y) THEN [y.entities[i] EXCEPT !.contract = target]
                           ELSE y.entities[i]
      /\ b.contracts = y.contracts
  BY <1>3, <1>4, RebindKeeps
<1>6. \A i \in DemoActors(b) : b.entities[i].contract = target
  <2>1. SUFFICES ASSUME NEW i \in DemoActors(b)  PROVE b.entities[i].contract = target
    OBVIOUS
  <2>2. i \in DOMAIN y.entities  BY <1>5 DEF DemoActors, Named
  <2>3. CASE i \in DemoActors(y)
    <3>1. PICK e : e = y.entities[i]  OBVIOUS
    <3>2. EntityTyped(e)  BY <1>3, <2>2, <3>1 DEF Sound, WorldTyped
    <3>3. b.entities[i] = [e EXCEPT !.contract = target]  BY <1>5, <2>2, <2>3, <3>1
    <3>4. QED  BY <3>2, <3>3 DEF EntityTyped
  <2>4. CASE i \notin DemoActors(y)
    <3>1. b.entities[i] = y.entities[i]  BY <1>5, <2>2, <2>4
    <3>2. DemoContracts(b) = DemoContracts(y)  BY <1>5, SameContracts
    <3>3. i \in DemoActors(y)  BY <2>2, <3>1, <3>2 DEF DemoActors, Named
    <3>4. QED  BY <2>4, <3>3
  <2>5. QED  BY <2>3, <2>4
<1>7. PICK p : p = ImportProgress(b)  OBVIOUS
<1>8. /\ Sound(p) /\ p.entities = b.entities /\ p.contracts = b.contracts
      /\ \A i \in DemoActors(b) :
           b.entities[i].quest # "none" => <<i, "lost_key">> \in DOMAIN p.quest_progress
  BY <1>5, <1>7, ImportKeeps
<1>9. Bound(p, target)
  <2>1. DemoActors(p) = DemoActors(b)  BY <1>8, SameActors
  <2>2. QED  BY <1>6, <1>8, <2>1 DEF Bound
<1>10. f \in Furnish(p, target)  BY <1>2, <1>4, <1>7
<1>11. PICK x, z : /\ x \in Ensured(p, "actor", "Rowan", Find(p, "zone", "Village"), target)
                   /\ z \in Ensured(x, "item", "stone tablet", Find(p, "zone", "Ruins"), NoContract)
                   /\ f = WithDemoQuests(z, Find(p, "actor", "Mira"), Find(z, "actor", "Rowan"))
                   /\ Sound(x) /\ Grown(p, x) /\ Sound(z) /\ Grown(x, z)
                   /\ Named(p, "zone", "Village") # {} /\ Named(p, "zone", "Ruins") # {}
                   /\ Named(p, "actor", "Mira") # {}
  BY <1>8, <1>10, FurnishKeeps
<1>12. PICK village, ruins : village = Find(p, "zone", "Village") /\ ruins = Find(p, "zone", "Ruins")
  OBVIOUS
<1>13. /\ Named(x, "actor", "Rowan") # {}
       /\ \A i \in DOMAIN p.entities : x.entities[i] = p.entities[i]
       /\ \A i \in DOMAIN x.entities :
            i \in DOMAIN p.entities \/ x.entities[i] = NewEntity("actor", "Rowan", village, target)
       /\ x.contracts = p.contracts /\ x.quest_progress = p.quest_progress
  <2>1. x \in Ensured(p, "actor", "Rowan", village, target)  BY <1>11, <1>12
  <2>2. Named(x, "actor", "Rowan") # {}  BY <1>8, <2>1, EnsuredKeeps
  <2>3. \A i \in DOMAIN p.entities : x.entities[i] = p.entities[i]  BY <1>8, <2>1, EnsuredKeeps
  <2>4. \A i \in DOMAIN x.entities :
          i \in DOMAIN p.entities \/ x.entities[i] = NewEntity("actor", "Rowan", village, target)
    BY <1>8, <2>1, EnsuredKeeps
  <2>5. x.contracts = p.contracts /\ x.quest_progress = p.quest_progress
    BY <1>8, <2>1, EnsuredKeeps
  <2>6. QED  BY <2>2, <2>3, <2>4, <2>5
<1>14. /\ Named(z, "item", "stone tablet") # {}
       /\ \A i \in DOMAIN x.entities : z.entities[i] = x.entities[i]
       /\ \A i \in DOMAIN z.entities :
            \/ i \in DOMAIN x.entities
            \/ z.entities[i] = NewEntity("item", "stone tablet", ruins, NoContract)
       /\ z.contracts = x.contracts /\ z.quest_progress = x.quest_progress
  <2>1. Sound(x)  BY <1>11
  <2>2. PICK none, tablet : none = NoContract /\ tablet = "stone tablet"  BY Zenon
  <2>3. z \in Ensured(x, "item", tablet, ruins, none)  BY <1>11, <1>12, <2>2, Zenon
  <2>4. Named(z, "item", tablet) # {}  BY <2>1, <2>3, EnsuredKeeps
  <2>5. \A i \in DOMAIN x.entities : z.entities[i] = x.entities[i]  BY <2>1, <2>3, EnsuredKeeps
  <2>6. \A i \in DOMAIN z.entities :
          i \in DOMAIN x.entities \/ z.entities[i] = NewEntity("item", tablet, ruins, none)
    BY <2>1, <2>3, EnsuredKeeps
  <2>7. z.contracts = x.contracts /\ z.quest_progress = x.quest_progress
    BY <2>1, <2>3, EnsuredKeeps
  <2>8. QED  BY <2>2, <2>4, <2>5, <2>6, <2>7, Zenon
<1>15. /\ f.entities = z.entities /\ f.contracts = z.contracts
       /\ f.quest_progress = z.quest_progress /\ Sound(f)
       /\ \A q \in DemoQuest :
            /\ q \in DOMAIN f.quests
            /\ f.quests[q] = DemoDefinition(q, Find(p, "actor", "Mira"), Find(z, "actor", "Rowan"))
  <2>1. PICK mira, rowan : mira = Find(p, "actor", "Mira") /\ rowan = Find(z, "actor", "Rowan")
    OBVIOUS
  <2>2. Sound(z) /\ f = WithDemoQuests(z, mira, rowan)  BY <1>11, <2>1
  <2>3. f.entities = z.entities /\ f.contracts = z.contracts  BY <2>2, QuestsKeep
  <2>4. f.quest_progress = z.quest_progress /\ Sound(f)  BY <2>2, QuestsKeep
  <2>5. DOMAIN f.quests = DOMAIN z.quests \cup DemoQuest  BY <2>2, QuestsKeep
  <2>6. \A q \in DemoQuest : f.quests[q] = DemoDefinition(q, mira, rowan)
    BY <2>2, QuestsKeep
  <2>7. QED  BY <2>1, <2>3, <2>4, <2>5, <2>6
<1>16. /\ v.entities = f.entities /\ v.contracts = f.contracts /\ v.quests = f.quests
       /\ v.quest_progress = f.quest_progress /\ v.accounts = f.accounts
       /\ v.next_entity_id = f.next_entity_id /\ v.inventories = f.inventories
  BY <1>2, <1>15, AdvanceKeeps
<1>17. Validate(v)  BY <1>2, <1>16, SameValidity
<1>18. UpToDate(v) # {} /\ TargetVersion(v) = T
  <2>1. v.contracts = y.contracts  BY <1>5, <1>8, <1>13, <1>14, <1>15, <1>16
  <2>2. QED  BY <1>3, <2>1, SameContracts
<1>19. Bound(v, target)
  <2>1. Bound(x, target)
    <3>1. /\ NewEntity("actor", "Rowan", village, target).contract = target
          /\ NewEntity("actor", "Rowan", village, target).quest = "none"
      BY DEF NewEntity
    <3>2. QED  BY <1>9, <1>13, <3>1, NewStayBound
  <2>2. Bound(z, target)
    <3>1. /\ NewEntity("item", "stone tablet", ruins, NoContract).contract = NoContract
          /\ NewEntity("item", "stone tablet", ruins, NoContract).kind # "actor"
      BY DEF NewEntity
    <3>2. NoContract \notin DemoContracts(z)
      <4>1. ASSUME NEW k \in DemoContracts(z)  PROVE k # NoContract
        <5>1. k \in DOMAIN f.contracts /\ f.contracts[k].name = Demo
          BY <1>15 DEF DemoContracts
        <5>2. k = Key(Demo, f.contracts[k].version)
          BY <1>2, <5>1 DEF Validate, ValidateReferences
        <5>3. PICK n : k = Key(Demo, n)  BY <5>2
        <5>4. Len(Demo) = 1 /\ Len(Append(Demo, n)) = 2 /\ Len(NoContract) = 0
          BY DEF Demo, NoContract
        <5>5. QED  BY <5>3, <5>4 DEF Key
      <4>2. QED  BY <4>1
    <3>3. \A i \in DOMAIN z.entities :
            \/ i \in DOMAIN x.entities
            \/ z.entities[i].contract \notin DemoContracts(z) /\ z.entities[i].kind # "actor"
      BY <1>14, <3>1, <3>2
    <3>4. QED  BY <1>14, <2>1, <3>3, NewStayBound
  <2>3. DemoActors(v) = DemoActors(z)  BY <1>15, <1>16, SameActors
  <2>4. QED  BY <1>15, <1>16, <2>2, <2>3 DEF Bound
<1>20. \A kind, name : Named(v, kind, name) = Named(z, kind, name)
                       /\ Find(v, kind, name) = Find(z, kind, name)
  BY <1>15, <1>16, SameEntities
<1>21. \A kind, name : Named(p, kind, name) \subseteq Named(x, kind, name)
                       /\ Named(x, kind, name) \subseteq Named(z, kind, name)
  <2>1. \A i \in DOMAIN p.entities : i \in DOMAIN x.entities  BY <1>11 DEF Grown
  <2>2. \A i \in DOMAIN x.entities : i \in DOMAIN z.entities  BY <1>11 DEF Grown
  <2>3. QED  BY <1>13, <1>14, <2>1, <2>2 DEF Named
<1>22. Peopled(v)
  <2>1. Named(z, "zone", "Village") # {}  BY <1>11, <1>21
  <2>2. Named(z, "zone", "Ruins") # {}  BY <1>11, <1>21
  <2>3. Named(z, "actor", "Mira") # {}  BY <1>11, <1>21
  <2>4. Named(z, "actor", "Rowan") # {}  BY <1>13, <1>21
  <2>5. QED  BY <1>14, <1>20, <2>1, <2>2, <2>3, <2>4 DEF Peopled
<1>23. Named(z, "actor", "Mira") = Named(p, "actor", "Mira")
  <2>1. /\ NewEntity("actor", "Rowan", village, target).name # "Mira"
        /\ NewEntity("item", "stone tablet", ruins, NoContract).kind # "actor"
    BY DEF NewEntity
  <2>2. Named(x, "actor", "Mira") \subseteq Named(p, "actor", "Mira")
    BY <1>13, <2>1 DEF Named
  <2>3. Named(z, "actor", "Mira") \subseteq Named(x, "actor", "Mira")
    BY <1>14, <2>1 DEF Named
  <2>4. QED  BY <1>21, <2>2, <2>3
<1>24. Find(v, "actor", "Mira") = Find(p, "actor", "Mira")
       /\ Find(v, "actor", "Rowan") = Find(z, "actor", "Rowan")
  BY <1>20, <1>23 DEF Find
<1>25. QED  BY <1>1, <1>15, <1>16, <1>17, <1>18, <1>19, <1>22, <1>24 DEF Stable

(* Who is who in a new demo world.                                         *)
LEMMA DemoCast ==
  ASSUME NEW first \in Nat, NEW all, all = DemoEntities(first)
  PROVE  /\ all[1].kind = "zone" /\ all[1].name = "Village"
         /\ all[3].kind = "zone" /\ all[3].name = "Ruins"
         /\ all[6].kind = "actor" /\ all[6].name = "Mira"
         /\ all[7].kind = "actor" /\ all[7].name = "Rowan"
         /\ all[8].kind = "item"
         /\ \A m \in 1 .. 8 : /\ all[m].contract = IF m \in {4, 6, 7} THEN Demo ELSE NoContract
                              /\ all[m].kind = "actor" /\ all[m].name = "Mira" => m = 6
                              /\ all[m].kind = "actor" /\ all[m].name = "Rowan" => m = 7
<1>1. PICK tablet, key : tablet = "stone tablet" /\ key = "brass key"  BY Zenon
<1>2. all[1] = NewEntity("zone", "Village", NoEntity, NoContract)  BY DEF DemoEntities
<1>3. all[2] = NewEntity("zone", "Forest", NoEntity, NoContract)  BY DEF DemoEntities
<1>4. all[3] = NewEntity("zone", "Ruins", NoEntity, NoContract)  BY DEF DemoEntities
<1>5. all[4] = NewEntity("actor", NoName, first, Demo)  BY DEF DemoEntities
<1>6. all[5] = NewEntity("item", key, first + 1, NoContract)  BY <1>1 DEF DemoEntities
<1>7. all[6] = NewEntity("actor", "Mira", first, Demo)  BY DEF DemoEntities
<1>8. all[7] = NewEntity("actor", "Rowan", first, Demo)  BY DEF DemoEntities
<1>9. all[8] = NewEntity("item", tablet, first + 2, NoContract)  BY <1>1 DEF DemoEntities
<1>10. \A kind, name, location, contract :
         /\ NewEntity(kind, name, location, contract).kind = kind
         /\ NewEntity(kind, name, location, contract).name = name
         /\ NewEntity(kind, name, location, contract).contract = contract
  BY DEF NewEntity
<1>11. /\ all[1].kind = "zone" /\ all[1].name = "Village" /\ all[1].contract = NoContract
       /\ all[2].kind = "zone" /\ all[2].contract = NoContract
       /\ all[3].kind = "zone" /\ all[3].name = "Ruins" /\ all[3].contract = NoContract
       /\ all[4].kind = "actor" /\ all[4].name = "unnamed" /\ all[4].contract = Demo
  BY <1>2, <1>3, <1>4, <1>5, <1>10 DEF NoName
<1>12. /\ all[5].kind = "item" /\ all[5].contract = NoContract
       /\ all[6].kind = "actor" /\ all[6].name = "Mira" /\ all[6].contract = Demo
       /\ all[7].kind = "actor" /\ all[7].name = "Rowan" /\ all[7].contract = Demo
       /\ all[8].kind = "item" /\ all[8].contract = NoContract
  BY <1>6, <1>7, <1>8, <1>9, <1>10
<1>13. ASSUME NEW m \in 1 .. 8
       PROVE  /\ all[m].contract = IF m \in {4, 6, 7} THEN Demo ELSE NoContract
              /\ all[m].kind = "actor" /\ all[m].name = "Mira" => m = 6
              /\ all[m].kind = "actor" /\ all[m].name = "Rowan" => m = 7
  <2>1. m \in {1, 2, 3, 4, 5, 6, 7, 8}  OBVIOUS
  <2>2. CASE m \in {1, 2, 3, 4}  BY <1>11, <2>2
  <2>3. CASE m \in {5, 6, 7, 8}  BY <1>12, <2>3
  <2>4. QED  BY <2>1, <2>2, <2>3
<1>14. QED  BY <1>11, <1>12, <1>13, Zenon

LEMMA DemoTablet ==
  ASSUME NEW first \in Nat
  PROVE  DemoEntities(first)[8].name = "stone tablet"
<1>1. PICK tablet : tablet = "stone tablet"  BY Zenon
<1>2. DemoEntities(first)[8] = NewEntity("item", tablet, first + 2, NoContract)
  BY <1>1 DEF DemoEntities
<1>3. \A kind, name, location, contract : NewEntity(kind, name, location, contract).name = name
  BY DEF NewEntity
<1>4. DemoEntities(first)[8].name = tablet  BY <1>2, <1>3
<1>5. QED  BY <1>1, <1>4, Zenon

(* The smallest of a single number.                                        *)
LEMMA MinOfOne == \A n \in Nat : Min({n}) = n
<1>1. SUFFICES ASSUME NEW n \in Nat  PROVE Min({n}) = n
  OBVIOUS
<1>2. n <= n  OBVIOUS
<1>3. QED  BY <1>2 DEF Min

LEMMA FirstDeployed ==
  ASSUME NEW w, Sound(w), NEW y \in DeployVersion(w, Demo, 1, "current")
  PROVE  /\ Sound(y) /\ DOMAIN y.contracts = DOMAIN w.contracts \cup {Key(Demo, 1)}
         /\ y.contracts[Key(Demo, 1)] = [name |-> Demo, version |-> 1, source |-> "current"]
         /\ y.entities = w.entities /\ y.next_entity_id = w.next_entity_id
<1>1. PICK version \in 0 .. MaxVersion : version = 1  BY FileAssumption
<1>2. PICK c : c = [name |-> Demo, version |-> version, source |-> "current"]  OBVIOUS
<1>3. PICK key : key = Key(Demo, version)  OBVIOUS
<1>4. y \in DeployVersion(w, Demo, version, "current")  BY <1>1
<1>5. /\ Sound(y) /\ DOMAIN y.contracts = DOMAIN w.contracts \cup {key}
      /\ y.contracts[key] = c
      /\ y.entities = w.entities /\ y.next_entity_id = w.next_entity_id
  BY <1>2, <1>3, <1>4, DeployKeeps
<1>6. QED  BY <1>1, <1>2, <1>3, <1>5

(* A new demo world is stable.                                             *)
LEMMA InitializeStable ==
  ASSUME NEW w, Sound(w), DOMAIN w.entities = {}, DOMAIN w.contracts = {},
         NEW v \in Initialize(w)
  PROVE  Stable(v)
<1>1. PICK first \in Nat : first = w.next_entity_id  BY DEF Sound, WorldTyped
<1>2. PICK y, x : /\ y \in DeployVersion(w, Demo, 1, "current") /\ x \in CreateDemoEntities(y)
                  /\ v = WithDemoQuests(x, first + 5, first + 6) /\ Validate(v)
  BY <1>1 DEF Initialize
<1>3. PICK c : c = [name |-> Demo, version |-> 1, source |-> "current"]  OBVIOUS
<1>4. Key(Demo, 1) = Demo  BY DEF Key
<1>5. /\ Sound(y) /\ DOMAIN y.contracts = {Demo} /\ y.contracts[Demo] = c
      /\ y.entities = w.entities /\ y.next_entity_id = first
  <2>1. y.contracts[Key(Demo, 1)] = c  BY <1>2, <1>3, FirstDeployed
  <2>2. Sound(y) /\ DOMAIN y.contracts = DOMAIN w.contracts \cup {Key(Demo, 1)}
    BY <1>2, FirstDeployed
  <2>3. y.entities = w.entities /\ y.next_entity_id = w.next_entity_id
    BY <1>2, FirstDeployed
  <2>4. QED  BY <1>1, <1>4, <2>1, <2>2, <2>3
<1>6. PICK all : all = DemoEntities(first)  OBVIOUS
<1>7. /\ Sound(x) /\ x.contracts = y.contracts
      /\ DOMAIN x.entities = first .. first + 7
      /\ \A m \in 1 .. 8 : x.entities[first + m - 1] = all[m]
  <2>1. Furnished(y, x, 8)  BY <1>2, <1>5, DemoCreated
  <2>2. DOMAIN x.entities = DOMAIN y.entities \cup first .. first + 8 - 1
    BY <1>5, <2>1 DEF Furnished
  <2>3. first + 8 - 1 = first + 7  OBVIOUS
  <2>4. DOMAIN x.entities = first .. first + 7  BY <1>5, <2>2, <2>3
  <2>5. Sound(x) /\ x.contracts = y.contracts
        /\ \A m \in 1 .. 8 : x.entities[first + m - 1] = all[m]
    BY <1>5, <1>6, <2>1 DEF Furnished
  <2>6. QED  BY <2>4, <2>5
<1>8. /\ Sound(v) /\ v.entities = x.entities /\ v.contracts = y.contracts
      /\ \A q \in DemoQuest : /\ q \in DOMAIN v.quests
                              /\ v.quests[q] = DemoDefinition(q, first + 5, first + 6)
  <2>1. PICK mira, rowan : mira = first + 5 /\ rowan = first + 6  OBVIOUS
  <2>2. v = WithDemoQuests(x, mira, rowan)  BY <1>2, <2>1
  <2>3. Sound(v) /\ v.entities = x.entities /\ v.contracts = x.contracts
    BY <1>7, <2>2, QuestsKeep
  <2>4. DOMAIN v.quests = DOMAIN x.quests \cup DemoQuest  BY <1>7, <2>2, QuestsKeep
  <2>5. \A q \in DemoQuest : v.quests[q] = DemoDefinition(q, mira, rowan)
    BY <1>7, <2>2, QuestsKeep
  <2>6. QED  BY <1>7, <2>1, <2>3, <2>4, <2>5
<1>9. \A i \in DOMAIN v.entities :
        \E m \in 1 .. 8 : i = first + m - 1 /\ v.entities[i] = all[m]
  <2>1. SUFFICES ASSUME NEW i \in first .. first + 7
                 PROVE  \E m \in 1 .. 8 : i = first + m - 1 /\ v.entities[i] = all[m]
    BY <1>7, <1>8
  <2>2. i - first + 1 \in 1 .. 8 /\ i = first + (i - first + 1) - 1  OBVIOUS
  <2>3. PICK m : m = i - first + 1  OBVIOUS
  <2>4. m \in 1 .. 8 /\ i = first + m - 1  BY <2>2, <2>3
  <2>5. QED  BY <1>7, <1>8, <2>4
<1>10. /\ \A m \in 1 .. 8 : all[m].quest = "none"
       /\ \A m \in 1 .. 8 : v.entities[first + m - 1] = all[m] /\ first + m - 1 \in DOMAIN v.entities
  <2>1. \A m \in 1 .. 8 : all[m].quest = "none"  BY <1>6, DemoEntitiesTyped
  <2>2. \A m \in 1 .. 8 : first + m - 1 \in first .. first + 7  OBVIOUS
  <2>3. QED  BY <1>7, <1>8, <2>1, <2>2
<1>11. \A m \in 1 .. 8 : /\ all[m].contract = IF m \in {4, 6, 7} THEN Demo ELSE NoContract
                         /\ all[m].kind = "actor" /\ all[m].name = "Mira" => m = 6
                         /\ all[m].kind = "actor" /\ all[m].name = "Rowan" => m = 7
  BY <1>6, DemoCast
<1>12. UpToDate(v) = {Demo} /\ DemoContracts(v) = {Demo} /\ TargetVersion(v) = 1
  <2>1. v.contracts[Demo].name = Demo /\ v.contracts[Demo].version = 1
        /\ v.contracts[Demo].source = "current" /\ DOMAIN v.contracts = {Demo}
    BY <1>3, <1>5, <1>8
  <2>2. UpToDate(v) = {Demo} /\ DemoContracts(v) = {Demo}
    BY <2>1 DEF UpToDate, DemoContracts
  <2>3. Versions(v, {Demo}) = {1}  BY <2>1 DEF Versions
  <2>4. Max({1}) = 1
    <3>1. 1 >= 1  OBVIOUS
    <3>2. QED  BY <3>1 DEF Max
  <2>5. QED  BY <2>2, <2>3, <2>4 DEF TargetVersion
<1>13. Bound(v, Demo)
  <2>1. SUFFICES ASSUME NEW i \in DemoActors(v)
                 PROVE  v.entities[i].contract = Demo /\ v.entities[i].quest = "none"
    BY DEF Bound
  <2>2. PICK m \in 1 .. 8 : v.entities[i] = all[m]  BY <1>9 DEF DemoActors, Named
  <2>3. all[m].contract = Demo \/ (all[m].kind = "actor" /\ all[m].name = "Mira")
    BY <1>12, <2>2 DEF DemoActors, Named
  <2>4. Demo # NoContract  BY DEF Demo, NoContract
  <2>5. all[m].contract = Demo  BY <1>11, <2>3, <2>4
  <2>6. QED  BY <1>10, <2>2, <2>5
<1>14. Named(v, "actor", "Mira") = {first + 5} /\ Named(v, "actor", "Rowan") = {first + 6}
  <2>1. all[6].kind = "actor" /\ all[6].name = "Mira" /\ all[7].kind = "actor"
        /\ all[7].name = "Rowan"
    BY <1>6, DemoCast
  <2>2. first + 6 - 1 = first + 5 /\ first + 7 - 1 = first + 6 /\ 6 \in 1 .. 8 /\ 7 \in 1 .. 8
    OBVIOUS
  <2>3. v.entities[first + 5] = all[6] /\ first + 5 \in DOMAIN v.entities
    BY <1>10, <2>2
  <2>4. v.entities[first + 6] = all[7] /\ first + 6 \in DOMAIN v.entities
    BY <1>10, <2>2
  <2>5. \A i \in Named(v, "actor", "Mira") : i = first + 5
    BY <1>9, <1>11, <2>2 DEF Named
  <2>6. \A i \in Named(v, "actor", "Rowan") : i = first + 6
    BY <1>9, <1>11, <2>2 DEF Named
  <2>7. first + 5 \in Named(v, "actor", "Mira") /\ first + 6 \in Named(v, "actor", "Rowan")
    BY <2>1, <2>3, <2>4 DEF Named
  <2>8. QED  BY <2>5, <2>6, <2>7
<1>15. Find(v, "actor", "Mira") = first + 5 /\ Find(v, "actor", "Rowan") = first + 6
  BY <1>14, MinOfOne DEF Find
<1>16. Peopled(v)
  <2>1. PICK tablet : tablet = "stone tablet"  BY Zenon
  <2>2. /\ all[1].kind = "zone" /\ all[1].name = "Village"
        /\ all[3].kind = "zone" /\ all[3].name = "Ruins" /\ all[8].kind = "item"
    BY <1>6, DemoCast
  <2>3. all[8].name = "stone tablet"  BY <1>6, DemoTablet, Zenon
  <2>4. all[8].name = tablet  BY <2>1, <2>3, Zenon
  <2>5. /\ v.entities[first + 1 - 1] = all[1] /\ first + 1 - 1 \in DOMAIN v.entities
        /\ v.entities[first + 3 - 1] = all[3] /\ first + 3 - 1 \in DOMAIN v.entities
        /\ v.entities[first + 8 - 1] = all[8] /\ first + 8 - 1 \in DOMAIN v.entities
    BY <1>10
  <2>6. /\ first + 1 - 1 \in Named(v, "zone", "Village")
        /\ first + 3 - 1 \in Named(v, "zone", "Ruins")
    BY <2>2, <2>5 DEF Named
  <2>7. first + 8 - 1 \in Named(v, "item", tablet)  BY <2>2, <2>4, <2>5 DEF Named
  <2>8. Named(v, "item", "stone tablet") # {}  BY <2>1, <2>7, Zenon
  <2>9. Named(v, "zone", "Village") # {} /\ Named(v, "zone", "Ruins") # {}  BY <2>6
  <2>10. Named(v, "actor", "Mira") # {} /\ Named(v, "actor", "Rowan") # {}  BY <1>14
  <2>11. QED  BY <2>8, <2>9, <2>10, Zenon DEF Peopled
<1>17. \A q \in DemoQuest :
         /\ q \in DOMAIN v.quests
         /\ v.quests[q] = DemoDefinition(q, Find(v, "actor", "Mira"), Find(v, "actor", "Rowan"))
  BY <1>8, <1>15
<1>18. QED  BY <1>2, <1>4, <1>12, <1>13, <1>16, <1>17 DEF Stable

(* Whatever brings the demo up to date, doing it again changes nothing.    *)
LEMMA EnsuredOnce ==
  ASSUME NEW w, Sound(w), Claimants(w) = {}, NEW v \in EnsureCurrent(w)
  PROVE  EnsureCurrent(v) = {v}
<1>1. Stable(v)
  <2>1. CASE DOMAIN w.entities = {} /\ DOMAIN w.contracts = {}
    <3>1. v \in Initialize(w)  BY <2>1 DEF EnsureCurrent
    <3>2. QED  BY <2>1, <3>1, InitializeStable
  <2>2. CASE ~(DOMAIN w.entities = {} /\ DOMAIN w.contracts = {})
    <3>1. DemoContracts(w) # {} /\ v \in UNION {Upgrade(x) : x \in Migrations(w)}
      BY <2>2 DEF EnsureCurrent
    <3>2. Migrations(w) = {w}  BY DEF Migrations
    <3>3. v \in Upgrade(w)  BY <3>1, <3>2
    <3>4. QED  BY <3>1, <3>3, UpgradeStable
  <2>3. QED  BY <2>1, <2>2
<1>2. Sound(v) /\ Claimants(v) = {}  BY EnsureCurrentKeeps
<1>3. QED  BY <1>1, <1>2, StableStays

LEMMA CurrentDecodes ==
  ASSUME NEW w, Sound(w), Claimants(w) = {}, Validate(w)
  PROVE  Decodes(Current(w))
<1>1. \A q \in DOMAIN w.quests : w.quests[q].giver_entity_id \in DOMAIN w.entities
  BY DEF Validate, ValidateQuests, QuestsWellFormed, W!IsKind
<1>2. NoEntity \notin DOMAIN w.entities  BY DEF Sound, WorldTyped
<1>3. ~MissingGiver(w)  BY <1>1, <1>2 DEF MissingGiver
<1>4. Current(w).format = "2" /\ Current(w).world = w  BY DEF Current
<1>5. QED  BY <1>3, <1>4 DEF Decodes

LEMMA AbsentUndecoded == ~Decodes(NoFile)
BY DEF Decodes, NoFile

----------------------------------------------------------------------------
(* Starts that repeat.                                                     *)

(* The files hold what the last start served, and bringing it up to date   *)
(* once more would not change it.                                          *)
SettledInv ==
  \A s \in settled :
    /\ Sound(s.world) /\ Claimants(s.world) = {} /\ Validate(s.world)
    /\ s.demo => EnsureCurrent(s.world) = {s.world}
    /\ primary = Current(s.world) \/ (s.world = Genesis /\ NoFiles)

(* A start that must repeat the last one does so at every stage.           *)
RepeatInv ==
  \A s \in settled :
    s.demo \/ ~demo =>
      /\ pc \notin Saving \cup {"refused"}
      /\ pc \in {"migrate", "upgrade", "serve", "serving"} => world = {s.world}

(* What a start with the demo is about to serve is up to date.             *)
UpgradedInv ==
  demo /\ pc \in Saving \cup {"serve"} => \A w \in world : EnsureCurrent(w) = {w}

SameInv == SettledInv /\ RepeatInv /\ UpgradedInv

LEMMA SameInit == Init => SameInv
BY DEF Init, SameInv, SettledInv, RepeatInv, UpgradedInv, Saving

LEMMA SettledDecodes ==
  ASSUME StartInv, SettledInv, NEW s \in settled
  PROVE  /\ primary.world = s.world /\ ~NeedsRewrite(primary)
         /\ Decodes(primary) \/ (NoFiles /\ ~Decodes(primary) /\ ~Decodes(backup))
<1>1. /\ Sound(s.world) /\ Claimants(s.world) = {} /\ Validate(s.world)
      /\ primary = Current(s.world) \/ (s.world = Genesis /\ NoFiles)
  BY DEF SettledInv
<1>2. CASE primary = Current(s.world)
  <2>1. Decodes(primary)  BY <1>1, <1>2, CurrentDecodes
  <2>2. primary.world = s.world /\ primary.format = "2"  BY <1>2 DEF Current
  <2>3. QED  BY <2>1, <2>2 DEF NeedsRewrite
<1>3. CASE s.world = Genesis /\ NoFiles
  <2>1. primary = NoFile /\ backup = NoFile  BY <1>3 DEF NoFiles
  <2>2. NoFile.world = Genesis /\ NoFile.format = "absent"  BY DEF NoFile
  <2>3. ~Decodes(primary) /\ ~Decodes(backup)  BY <2>1, AbsentUndecoded
  <2>4. QED  BY <1>3, <2>1, <2>2, <2>3 DEF NeedsRewrite
<1>4. QED  BY <1>1, <1>2, <1>3

LEMMA SameStep == StartInv /\ StartInv' /\ SameInv /\ [Next]_vars => SameInv'
<1> SUFFICES ASSUME StartInv, StartInv', SameInv, [Next]_vars  PROVE SameInv'
  OBVIOUS
<1>1. SettledInv /\ RepeatInv /\ UpgradedInv  BY DEF SameInv
<1>2. ASSUME settled' = settled, primary' = primary, backup' = backup  PROVE SettledInv'
  BY <1>1, <1>2 DEF SettledInv, NoFiles
<1>3. ASSUME settled' = {}  PROVE SettledInv' /\ RepeatInv'
  BY <1>3 DEF SettledInv, RepeatInv
<1>4. ASSUME pc' \in {"down", "migrate", "refused", "serving"}  PROVE UpgradedInv'
  BY <1>4 DEF UpgradedInv, Saving
<1>5. ASSUME NEW d \in BOOLEAN, StartFromPrimary(d)  PROVE SameInv'
  <2>1. UNCHANGED <<primary, backup, history>> /\ pc' = "migrate" /\ world' = {primary.world}
    BY <1>5 DEF StartFromPrimary, Begin
  <2>2. settled' = settled  BY <2>1 DEF history
  <2>3. RepeatInv'  BY <1>1, <2>1, <2>2, SettledDecodes DEF RepeatInv, Saving
  <2>4. QED  BY <1>2, <1>4, <2>1, <2>2, <2>3 DEF SameInv
<1>6. ASSUME NEW d \in BOOLEAN, StartFromBackup(d) \/ StartUnreadable(d)  PROVE SameInv'
  <2>1. /\ settled' = settled /\ pc' \in {"migrate", "refused"}
        /\ ~Decodes(primary) /\ (Decodes(backup) \/ ~NoFiles)
    BY <1>6 DEF StartFromBackup, StartUnreadable, Begin, history, NoFiles
  <2>2. settled = {}  BY <1>1, <2>1, SettledDecodes
  <2>3. QED  BY <1>3, <1>4, <2>1, <2>2 DEF SameInv
<1>7. CASE Migrate
  <2>1. PICK w, v : w \in world /\ v \in Migrations(w) /\ world' = {v}
    BY <1>7 DEF Migrate
  <2>2. pc = "migrate" /\ pc' = "upgrade" /\ UNCHANGED <<files, demo, loaded, found, history>>
    BY <1>7 DEF Migrate
  <2>3. settled' = settled /\ primary' = primary /\ backup' = backup  BY <2>2 DEF files, history
  <2>4. ASSUME NEW s \in settled, s.demo \/ ~demo  PROVE world' = {s.world}
    <3>1. w = s.world  BY <1>1, <2>1, <2>2, <2>4 DEF RepeatInv
    <3>2. Claimants(w) = {}  BY <1>1, <3>1 DEF SettledInv
    <3>3. v = w  BY <2>1, <3>2 DEF Migrations
    <3>4. QED  BY <2>1, <3>1, <3>3
  <2>5. RepeatInv'  BY <2>2, <2>3, <2>4 DEF RepeatInv, Saving
  <2>6. UpgradedInv'  BY <2>2 DEF UpgradedInv, Saving
  <2>7. QED  BY <1>2, <2>3, <2>5, <2>6 DEF SameInv
<1>8. CASE MigrationFails
  <2>1. PICK w \in world : Migrations(w) = {}  BY <1>8 DEF MigrationFails
  <2>2. /\ pc = "migrate" /\ pc' = "refused" /\ world' = {}
        /\ UNCHANGED <<files, demo, history>>
    BY <1>8 DEF MigrationFails, Refuse
  <2>3. settled' = settled /\ primary' = primary /\ backup' = backup  BY <2>2 DEF files, history
  <2>4. ASSUME NEW s \in settled, s.demo \/ ~demo  PROVE FALSE
    <3>1. w = s.world  BY <1>1, <2>1, <2>2, <2>4 DEF RepeatInv
    <3>2. Claimants(w) = {}  BY <1>1, <3>1 DEF SettledInv
    <3>3. QED  BY <2>1, <3>2 DEF Migrations
  <2>5. RepeatInv'  BY <2>2, <2>3, <2>4 DEF RepeatInv
  <2>6. QED  BY <1>2, <1>4, <2>2, <2>3, <2>5 DEF SameInv
<1>9. CASE Prepare
  <2>1. PICK w, f, v : /\ w \in world /\ f \in loaded /\ v \in Prepared(w) /\ world' = {v}
                       /\ pc' = IF NeedsSave(f, v) THEN "backup" ELSE "serve"
    BY <1>9 DEF Prepare
  <2>2. pc = "upgrade" /\ UNCHANGED <<files, demo, loaded, found, history>>
    BY <1>9 DEF Prepare
  <2>3. settled' = settled /\ primary' = primary /\ backup' = backup  BY <2>2 DEF files, history
  <2>4. Sound(w) /\ Claimants(w) = {} /\ f = primary
    BY <2>1, <2>2 DEF StartInv, MemoryInv, LoadedInv, Migrated
  <2>5. v \in IF demo THEN EnsureCurrent(w) ELSE {w}  BY <2>1 DEF Prepared
  <2>6. ASSUME NEW s \in settled, s.demo \/ ~demo  PROVE v = s.world /\ pc' = "serve"
    <3>1. w = s.world  BY <1>1, <2>1, <2>2, <2>6 DEF RepeatInv
    <3>2. s.demo => EnsureCurrent(w) = {w}  BY <1>1, <3>1 DEF SettledInv
    <3>3. v = w  BY <2>5, <2>6, <3>2
    <3>4. f.world = s.world /\ ~NeedsRewrite(f)  BY <1>1, <2>4, SettledDecodes
    <3>5. ~NeedsSave(f, v)  BY <3>1, <3>3, <3>4 DEF NeedsSave
    <3>6. QED  BY <2>1, <3>1, <3>3, <3>5
  <2>7. RepeatInv'  BY <2>1, <2>2, <2>3, <2>6 DEF RepeatInv, Saving
  <2>8. UpgradedInv'
    <3>1. demo => EnsureCurrent(v) = {v}  BY <2>4, <2>5, EnsuredOnce
    <3>2. demo' = demo /\ world' = {v}  BY <2>1, <2>2
    <3>3. QED  BY <3>1, <3>2 DEF UpgradedInv
  <2>9. QED  BY <1>2, <2>3, <2>7, <2>8 DEF SameInv
<1>10. CASE PreparationFails
  <2>1. PICK w \in world : Prepared(w) = {}  BY <1>10 DEF PreparationFails
  <2>2. /\ pc = "upgrade" /\ pc' = "refused" /\ world' = {}
        /\ UNCHANGED <<files, demo, history>>
    BY <1>10 DEF PreparationFails, Refuse
  <2>3. settled' = settled /\ primary' = primary /\ backup' = backup  BY <2>2 DEF files, history
  <2>4. ASSUME NEW s \in settled, s.demo \/ ~demo  PROVE FALSE
    <3>1. w = s.world  BY <1>1, <2>1, <2>2, <2>4 DEF RepeatInv
    <3>2. Validate(w) /\ (s.demo => EnsureCurrent(w) = {w})  BY <1>1, <3>1 DEF SettledInv
    <3>3. w \in Prepared(w)  BY <2>4, <3>2 DEF Prepared
    <3>4. QED  BY <2>1, <3>3
  <2>5. RepeatInv'  BY <2>2, <2>3, <2>4 DEF RepeatInv
  <2>6. QED  BY <1>2, <1>4, <2>2, <2>3, <2>5 DEF SameInv
<1>11. CASE SaveBackup
  <2>1. /\ pc = "backup" /\ pc' = "replace"
        /\ backup' = IF Decodes(primary) THEN primary ELSE backup
        /\ UNCHANGED <<primary, demo, world, loaded, found, history>>
    BY <1>11 DEF SaveBackup
  <2>2. settled' = settled /\ primary' = primary  BY <2>1 DEF history
  <2>3. SettledInv'
    <3>1. ASSUME NEW s \in settled  PROVE NoFiles => backup' = backup
      BY <2>1, AbsentUndecoded DEF NoFiles
    <3>2. QED  BY <1>1, <2>2, <3>1 DEF SettledInv, NoFiles
  <2>4. RepeatInv'  BY <1>1, <2>1, <2>2 DEF RepeatInv, Saving
  <2>5. UpgradedInv'  BY <1>1, <2>1 DEF UpgradedInv, Saving
  <2>6. QED  BY <2>3, <2>4, <2>5 DEF SameInv
<1>12. CASE SavePrimary
  <2>1. pc = "replace" /\ pc' = "serve" /\ settled' = {} /\ demo' = demo /\ world' = world
    BY <1>12 DEF SavePrimary
  <2>2. UpgradedInv'  BY <1>1, <2>1 DEF UpgradedInv, Saving
  <2>3. QED  BY <1>3, <2>1, <2>2 DEF SameInv
<1>13. CASE Serve
  <2>1. /\ pc = "serve" /\ pc' = "serving"
        /\ settled' = IF settled = {} \/ demo THEN {[demo |-> demo, world |-> w] : w \in world}
                      ELSE settled
        /\ UNCHANGED <<files, demo, world, loaded, found, commands, damage>>
    BY <1>13 DEF Serve
  <2>2. primary' = primary /\ backup' = backup  BY <2>1 DEF files
  <2>3. CASE settled = {} \/ demo
    <3>1. settled' = {[demo |-> demo, world |-> w] : w \in world}  BY <2>1, <2>3
    <3>2. PICK w : world = {w}  BY <2>1 DEF StartInv, MemoryInv
    <3>3. \A s \in settled' : s.demo = demo /\ s.world = w  BY <3>1, <3>2
    <3>4. Sound(w) /\ Claimants(w) = {}
      BY <2>1, <3>2 DEF StartInv, MemoryInv, Migrated
    <3>5. Validate(w) /\ (primary = Current(w) \/ (w = Genesis /\ NoFiles))
      BY <2>1, <3>2 DEF StartInv, CurrentInv
    <3>6. demo => EnsureCurrent(w) = {w}  BY <1>1, <2>1, <3>2 DEF UpgradedInv
    <3>7. SettledInv'  BY <2>2, <3>3, <3>4, <3>5, <3>6 DEF SettledInv, NoFiles
    <3>8. RepeatInv'  BY <2>1, <3>2, <3>3 DEF RepeatInv, Saving
    <3>9. QED  BY <1>4, <2>1, <3>7, <3>8 DEF SameInv
  <2>4. CASE ~(settled = {} \/ demo)
    <3>1. settled' = settled  BY <2>1, <2>4
    <3>2. RepeatInv'  BY <1>1, <2>1, <3>1 DEF RepeatInv, Saving
    <3>3. QED  BY <1>2, <1>4, <2>1, <2>2, <3>1, <3>2 DEF SameInv
  <2>5. QED  BY <2>3, <2>4
<1>14. CASE Command
  BY <1>3, <1>4, <1>14 DEF Command, SameInv
<1>15. CASE Stop
  <2>1. pc' = "down" /\ UNCHANGED <<files, demo, found, history>>  BY <1>15 DEF Stop
  <2>2. settled' = settled /\ primary' = primary /\ backup' = backup  BY <2>1 DEF files, history
  <2>3. RepeatInv'  BY <2>1 DEF RepeatInv, Saving
  <2>4. QED  BY <1>2, <1>4, <2>1, <2>2, <2>3 DEF SameInv
<1>16. CASE Damage
  <2>1. pc' = "down" /\ settled' = {}  BY <1>16 DEF Damage
  <2>2. QED  BY <1>3, <1>4, <2>1 DEF SameInv
<1>17. CASE UNCHANGED vars
  <2>1. UNCHANGED <<primary, backup, pc, demo, world, settled>>
    BY <1>17 DEF vars, files, history
  <2>2. RepeatInv' /\ UpgradedInv'  BY <1>1, <2>1 DEF RepeatInv, UpgradedInv
  <2>3. QED  BY <1>2, <2>1, <2>2 DEF SameInv
<1>18. QED  BY <1>5, <1>6, <1>7, <1>8, <1>9, <1>10, <1>11, <1>12, <1>13, <1>14, <1>15, <1>16, <1>17
            DEF Next

(* Upgrades happen once: when no request and no damage came between, a     *)
(* start like the last one, or any after a start with the demo, is not     *)
(* refused, writes nothing and serves the very same world.                 *)
THEOREM StartsAlwaysRepeat == Spec => []StartsRepeat
<1>1. SameInv => StartsRepeat  BY DEF SameInv, RepeatInv, StartsRepeat, Saving
<1>2. QED  BY <1>1, StartInvariant, SameInit, SameStep, PTL DEF Spec
==================================================================================
