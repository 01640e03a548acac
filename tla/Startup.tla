--------------------------------- MODULE Startup ---------------------------------
(***************************************************************************)
(* The start of a node: load_world of src/main.rs, which takes a snapshot  *)
(* of any format (src/storage.rs: decode), moves the inventories that old  *)
(* snapshots keep inside actors (src/migration.rs), brings the demo world  *)
(* up to date if asked to (src/demo.rs), validates the result              *)
(* (src/model.rs) and saves it if it is not what the disk holds.  The      *)
(* process may be killed anywhere, the primary damaged from outside, and   *)
(* every start may or may not ask for the demo.                            *)
(*                                                                         *)
(* A start leaves the log, the receipts and the accounts alone, so a world *)
(* here is its entities, inventories, contracts, quests and progress.      *)
(* Whole files are read and written at once; SnapshotStore has the single  *)
(* file operations.                                                        *)
(***************************************************************************)
EXTENDS Integers, Sequences, FiniteSets, FiniteSetsExt

CONSTANTS
  Primaries,    \* what state.json may hold before the first start
  Backups,      \* what state.json.bak may hold before the first start
  Quest,        \* quest ids
  MaxHead,      \* the largest u64
  MaxVersion,   \* the largest u32
  MaxCommands,  \* bound: commands served
  MaxDamage     \* bound: times the primary is corrupted or deleted from outside

VARIABLES
  primary, backup,  \* state.json and state.json.bak
  pc,               \* what the process does next
  demo,             \* the --demo flag of this start
  world,            \* {} or {w}: the world in memory
  loaded,           \* {} or {f}: the file this start decoded
  found,            \* the two files when this start began
  settled,          \* {} or {[demo, world]}: what the last start served, if
                    \* nothing was written or damaged since
  commands, damage

files   == <<primary, backup>>
history == <<settled, commands, damage>>
vars    == <<files, pc, demo, world, loaded, found, history>>

(***************************************************************************)
(* A contract's key is its name for version 1 and name@version otherwise.  *)
(* A name is a tuple, so that a contract may have the key of another's     *)
(* later version for its name.                                             *)
(***************************************************************************)
NoContract == <<>>
Key(name, version) == IF version = 1 THEN name ELSE Append(name, version)
Demo == <<"demo">>

NoEntity == 0     \* Option::None; as a giver: the field is missing
NoClaim  == {}    \* the actor has no data.inventory
NoName   == "unnamed"

(***************************************************************************)
(* Of an entity's data: its name, the old data.quest, and data.inventory   *)
(* as {s}.  In s, NoEntity stands for an element that is not an id; a      *)
(* value that is no array at all is refused just like <<NoEntity>>.        *)
(***************************************************************************)
W == INSTANCE World WITH
       Account <- {"admin"}, Contract <- {}, Name <- {}, Intent <- {}, QuestDef <- <<>>,
       MaxEntities <- 0, MaxBalance <- 0

NewEntity(kind, name, location, contract) ==
  [kind |-> kind, owner |-> "admin", location |-> location, contract |-> contract,
   name |-> name, inventory |-> NoClaim, quest |-> "none"]

Genesis ==
  [accounts |-> [a \in {"admin"} |-> 0], contracts |-> <<>>, entities |-> <<>>, next_entity_id |-> 1,
   inventories |-> <<>>, quests |-> <<>>, quest_progress |-> <<>>, head |-> 0]

(* What serde gives the program: every field is there, with maps, vectors  *)
(* and numbers where the types say so, and the head fits in its word.      *)
IsFunction(f) == f = [x \in DOMAIN f |-> f[x]]

EntityTyped(e) ==
  /\ e = [kind |-> e.kind, owner |-> e.owner, location |-> e.location, contract |-> e.contract,
          name |-> e.name, inventory |-> e.inventory, quest |-> e.quest]
  /\ e.inventory = NoClaim \/ \E s \in e.inventory : e.inventory = {s} /\ s \in Seq(Nat)

ContractTyped(c) ==
  /\ c = [name |-> c.name, version |-> c.version, source |-> c.source]
  /\ c.version \in 0 .. MaxVersion

QuestTyped(q) ==
  /\ q = [giver_entity_id |-> q.giver_entity_id, terms |-> q.terms,
          prerequisite_quest_ids |-> q.prerequisite_quest_ids]
  /\ q.prerequisite_quest_ids \in Seq(W!Items(q.prerequisite_quest_ids))

WorldTyped(w) ==
  /\ w = [accounts |-> w.accounts, contracts |-> w.contracts, entities |-> w.entities,
          next_entity_id |-> w.next_entity_id, inventories |-> w.inventories,
          quests |-> w.quests, quest_progress |-> w.quest_progress, head |-> w.head]
  /\ IsFunction(w.contracts) /\ IsFiniteSet(DOMAIN w.contracts)
  /\ \A k \in DOMAIN w.contracts : ContractTyped(w.contracts[k])
  /\ IsFunction(w.entities) /\ DOMAIN w.entities \subseteq Nat \ {NoEntity}
  /\ \A i \in DOMAIN w.entities : EntityTyped(w.entities[i])
  /\ \A a \in DOMAIN w.inventories : w.inventories[a] \in Seq(Nat)
  /\ IsFunction(w.quests) /\ IsFiniteSet(DOMAIN w.quests)
  /\ \A q \in DOMAIN w.quests : QuestTyped(w.quests[q])
  /\ IsFunction(w.quest_progress)
  /\ w.next_entity_id \in Nat
  /\ w.head \in 0 .. MaxHead

ASSUME FileAssumption ==
  /\ MaxHead \in Nat /\ MaxVersion \in Nat \ {0}
  /\ MaxCommands \in Nat /\ MaxDamage \in Nat
  /\ \A f \in Primaries \cup Backups :
       f = [format |-> f.format, world |-> f.world] /\ WorldTyped(f.world)

(* A file is absent, undecodable ("torn"), of the bare format without a    *)
(* version, of format 1 or 2, or of a later format ("future").             *)
NoFile      == [format |-> "absent", world |-> Genesis]
Torn        == [format |-> "torn", world |-> Genesis]
Current(w)  == [format |-> "2", world |-> w]

----------------------------------------------------------------------------
(* WorldState::validate_quests. *)

Requires(quests, q) == quests[q].prerequisite_quest_ids

QuestsWellFormed(w) ==
  \A q \in DOMAIN w.quests :
    LET requires == Requires(w.quests, q)
    IN /\ W!IsKind(w.entities, w.quests[q].giver_entity_id, {"actor"})
       /\ q \notin W!Items(requires)
       /\ Cardinality(W!Items(requires)) = Len(requires)
       /\ W!Items(requires) \subseteq DOMAIN w.quests

(* Mutant: the quests that wait for it are counted. *)
Dependents(quests, q) == Cardinality({d \in DOMAIN quests : q \in W!Items(Requires(quests, d))})

Indegree(quests, q) == Len(Requires(quests, q))

(* Kahn's algorithm: what each quest still waits for, and the queue.  A    *)
(* turn takes one off the queue; which one does not matter for the count.  *)
KahnState(quests) == [degree : [DOMAIN quests -> Int], ready : SUBSET DOMAIN quests]

Drained(quests, s) ==
  LET id == CHOOSE q \in s.ready : TRUE
      degree == [q \in DOMAIN quests |->
        s.degree[q] - Cardinality({i \in 1 .. Len(Requires(quests, q)) :
                                     Requires(quests, q)[i] = id})]
      freed == {q \in DOMAIN quests : degree[q] = 0 /\ s.degree[q] > 0}
  IN [degree |-> degree, ready |-> (s.ready \ {id}) \cup freed]

(* How many quests it takes off the queue.                                 *)
Processed(quests) ==
  LET indegree == [q \in DOMAIN quests |-> Indegree(quests, q)]
      drain[s \in KahnState(quests)] ==
        IF s.ready = {} THEN 0 ELSE 1 + drain[Drained(quests, s)]
  IN drain[[degree |-> indegree, ready |-> {q \in DOMAIN quests : indegree[q] = 0}]]

ValidateQuests(w) ==
  /\ QuestsWellFormed(w)
  /\ Processed(w.quests) = Cardinality(DOMAIN w.quests)

ValidateReferences(w) ==
  /\ \A k \in DOMAIN w.contracts :
       w.contracts[k].version > 0 /\ k = Key(w.contracts[k].name, w.contracts[k].version)
  /\ W!ValidateReferences(w.accounts, DOMAIN w.contracts, w.entities, w.next_entity_id,
                          w.quest_progress, <<>>)
  /\ \A k \in DOMAIN w.quest_progress : k[2] \in DOMAIN w.quests

Validate(w) ==
  /\ ValidateReferences(w)
  /\ W!ValidateLocations(w.entities)
  /\ ValidateQuests(w)
  /\ W!ValidateInventories(w.entities, w.inventories)

----------------------------------------------------------------------------
(* SnapshotStore: decode. *)

Claimants(w) == {a \in DOMAIN w.entities :
                   w.entities[a].kind = "actor" /\ w.entities[a].inventory # NoClaim}

MissingGiver(w) == \E q \in DOMAIN w.quests : w.quests[q].giver_entity_id = NoEntity

(* An old snapshot is spared the checks its schema cannot pass. *)
ValidateLegacyState(w) ==
  /\ ValidateReferences(w)
  /\ W!ValidateLocations(w.entities)
  /\ MissingGiver(w) \/ ValidateQuests(w)
  /\ Claimants(w) # {} \/ W!ValidateInventories(w.entities, w.inventories)

Decodes(f) ==
  \/ f.format \in {"bare", "1"} /\ ValidateLegacyState(f.world)
  \/ f.format = "2" /\ Claimants(f.world) = {} /\ ~MissingGiver(f.world) /\ Validate(f.world)

NeedsRewrite(f) == f.format \in {"bare", "1"}

----------------------------------------------------------------------------
(* migrate_legacy_inventories. *)

(* Mutant: items that do not exist are dropped from the claim. *)
ExistingClaim(w, a) ==
  LET claim == CHOOSE s \in w.entities[a].inventory : TRUE
  IN SelectSeq(claim, LAMBDA i : W!IsKind(w.entities, i, {"item"}))

Claim(w, a) == CHOOSE s \in w.entities[a].inventory : TRUE

(* Every element is an item and no other claims it, of this actor or of    *)
(* another.                                                                *)
ClaimsSound(w) ==
  \A a \in Claimants(w) :
    /\ \A i \in DOMAIN Claim(w, a) : W!IsKind(w.entities, Claim(w, a)[i], {"item"})
    /\ Cardinality(W!Items(Claim(w, a))) = Len(Claim(w, a))
    /\ \A b \in Claimants(w) \ {a} : W!Items(Claim(w, a)) \cap W!Items(Claim(w, b)) = {}

ClaimedBy(w, i) == {a \in Claimants(w) : i \in W!Items(Claim(w, a))}

(* The claimed items are pushed one by one, unless they are there already. *)
Merged(held, claim) ==
  LET pushed[n \in 0 .. Len(claim)] ==
        IF n = 0 THEN held
        ELSE IF claim[n] \in W!Items(pushed[n - 1]) THEN pushed[n - 1]
        ELSE Append(pushed[n - 1], claim[n])
  IN pushed[Len(claim)]

MovedEntity(w, i) ==
  [w.entities[i] EXCEPT
     !.inventory = IF i \in Claimants(w) THEN NoClaim ELSE @,
     !.location  = IF ClaimedBy(w, i) = {} THEN @ ELSE CHOOSE a \in ClaimedBy(w, i) : TRUE]

Moved(w) ==
  [w EXCEPT
     !.entities = [i \in DOMAIN @ |-> MovedEntity(w, i)],
     !.inventories = [a \in DOMAIN @ \cup Claimants(w) |->
        LET held == W!Inventory(w.inventories, a)
        IN IF a \in Claimants(w) THEN Merged(held, Claim(w, a)) ELSE held],
     !.head = @ + 1]

MigratableAtLimit(w) ==  \* mutant: the addition to the head is not checked
  /\ ClaimsSound(w)
  /\ W!ValidateLocations(Moved(w).entities)
  /\ W!ValidateInventories(Moved(w).entities, Moved(w).inventories)

Migratable(w) ==
  /\ ClaimsSound(w)
  /\ w.head < MaxHead
  /\ W!ValidateLocations(Moved(w).entities)
  /\ W!ValidateInventories(Moved(w).entities, Moved(w).inventories)

(* {} where the migration fails. *)
Migrations(w) ==
  IF Claimants(w) = {} THEN {w} ELSE IF Migratable(w) THEN {Moved(w)} ELSE {}

----------------------------------------------------------------------------
(* The demo world: initialize and ensure_current.  Each operator takes a   *)
(* world and yields the set of its outcomes, {} where the code fails.      *)

(* head += 1 and version + 1 are unchecked here: at the largest value the  *)
(* released program, which Dockerfile builds, goes on with 0.              *)
Incremented(n, max) == (n + 1) % (max + 1)

DeployVersion(w, name, version, source) ==
  IF version = 0 \/ Key(name, version) \in DOMAIN w.contracts THEN {}
  ELSE {[w EXCEPT
           !.contracts = [k \in DOMAIN @ \cup {Key(name, version)} |->
              IF k \in DOMAIN @ THEN @[k]
              ELSE [name |-> name, version |-> version, source |-> source]],
           !.head = Incremented(@, MaxHead)]}

CreateEntity(w, e) ==
  IF e.owner \notin DOMAIN w.accounts \/ e.contract \notin DOMAIN w.contracts \cup {NoContract} THEN {}
  ELSE {[w EXCEPT
           !.entities = [i \in DOMAIN @ \cup {w.next_entity_id} |->
                           IF i = w.next_entity_id THEN e ELSE @[i]],
           !.next_entity_id = @ + 1,
           !.head = Incremented(@, MaxHead)]}

Named(w, kind, name) ==
  {i \in DOMAIN w.entities : w.entities[i].kind = kind /\ w.entities[i].name = name}

(* find_named_entity: the first in the order of the ids. *)
Find(w, kind, name) == Min(Named(w, kind, name))

DemoQuest == {"lost_key", "ruins_tablet", "open_shrine"}

DemoDefinition(q, mira, rowan) ==
  [giver_entity_id        |-> IF q = "lost_key" THEN mira ELSE rowan,
   prerequisite_quest_ids |-> IF q = "open_shrine" THEN <<"lost_key">> ELSE <<>>,
   terms                  |-> "current"]

WithDemoQuests(w, mira, rowan) ==
  [w EXCEPT !.quests = [q \in DOMAIN @ \cup DemoQuest |->
                          IF q \in DemoQuest THEN DemoDefinition(q, mira, rowan) ELSE @[q]]]

(* The entities of a new demo world; a zone's exits are left out. *)
DemoEntities(first) ==
  LET village == first  forest == first + 1  ruins == first + 2
  IN << NewEntity("zone", "Village", NoEntity, NoContract),
        NewEntity("zone", "Forest", NoEntity, NoContract),
        NewEntity("zone", "Ruins", NoEntity, NoContract),
        NewEntity("actor", NoName, village, Demo),
        NewEntity("item", "brass key", forest, NoContract),
        NewEntity("actor", "Mira", village, Demo),
        NewEntity("actor", "Rowan", village, Demo),
        NewEntity("item", "stone tablet", ruins, NoContract) >>

CreateDemoEntities(w) ==
  LET all == DemoEntities(w.next_entity_id)
      create[n \in 0 .. Len(all)] ==
        IF n = 0 THEN {w} ELSE UNION {CreateEntity(v, all[n]) : v \in create[n - 1]}
  IN create[Len(all)]

Initialize(w) ==
  {v \in {WithDemoQuests(x, w.next_entity_id + 5, w.next_entity_id + 6) :
            x \in UNION {CreateDemoEntities(y) : y \in DeployVersion(w, Demo, 1, "current")}} :
     Validate(v)}

DemoContracts(w) == {k \in DOMAIN w.contracts : w.contracts[k].name = Demo}
Versions(w, keys) == {w.contracts[k].version : k \in keys}

UpToDate(w) == {k \in DemoContracts(w) : w.contracts[k].source = "current"}

TargetVersion(w) ==
  IF UpToDate(w) # {} THEN Max(Versions(w, UpToDate(w)))
  ELSE Incremented(Max(Versions(w, DemoContracts(w))), MaxVersion)

DeployDemo(w) ==
  IF UpToDate(w) # {} THEN {w} ELSE DeployVersion(w, Demo, TargetVersion(w), "current")

DemoActors(w) ==
  {i \in DOMAIN w.entities : \/ w.entities[i].contract \in DemoContracts(w)
                             \/ i \in Named(w, "actor", "Mira")}

Rebind(w, target) ==
  [w EXCEPT !.entities = [i \in DOMAIN @ |->
     IF i \in DemoActors(w) THEN [@[i] EXCEPT !.contract = target] ELSE @[i]]]

(* Progress kept in data.quest counts where there is no progress yet.      *)
ImportProgress(w) ==
  LET imported == {<<i, "lost_key">> :
                     i \in {j \in DemoActors(w) : w.entities[j].quest # "none"}}
  IN [w EXCEPT !.quest_progress =
        [k \in DOMAIN @ \cup imported |-> IF k \in DOMAIN @ THEN @[k] ELSE w.entities[k[1]].quest]]

Ensured(w, kind, name, location, contract) ==
  IF Named(w, kind, name) # {} THEN {w}
  ELSE CreateEntity(w, NewEntity(kind, name, location, contract))

Furnish(w, target) ==
  IF Named(w, "zone", "Village") = {} \/ Named(w, "zone", "Ruins") = {}
     \/ Named(w, "actor", "Mira") = {} THEN {}
  ELSE LET village == Find(w, "zone", "Village")
           ruins   == Find(w, "zone", "Ruins")
           mira    == Find(w, "actor", "Mira")
           peopled == Ensured(w, "actor", "Rowan", village, target)
           equipped == UNION {Ensured(v, "item", "stone tablet", ruins, NoContract) : v \in peopled}
       IN {WithDemoQuests(v, mira, Find(v, "actor", "Rowan")) : v \in equipped}

(* Mutant: the head advances with every demo start. *)
AlwaysAdvanced(old, new) == [new EXCEPT !.head = Incremented(@, MaxHead)]

Advanced(old, new) == IF new = old THEN old ELSE [new EXCEPT !.head = Incremented(@, MaxHead)]

Upgrade(w) ==
  LET bound(v) == Rebind(v, Key(Demo, TargetVersion(w)))
  IN {Advanced(w, v) :
        v \in {x \in UNION {Furnish(ImportProgress(bound(y)), Key(Demo, TargetVersion(w))) :
                              y \in DeployDemo(w)} : Validate(x)}}

(* The call of the inventory migration inside finds nothing left to do:    *)
(* load_world has made it before.                                          *)
EnsureCurrent(w) ==
  IF DOMAIN w.entities = {} /\ DOMAIN w.contracts = {} THEN Initialize(w)
  ELSE IF DemoContracts(w) = {} THEN {}
  ELSE UNION {Upgrade(v) : v \in Migrations(w)}

----------------------------------------------------------------------------
(* load_world. *)

Init ==
  /\ primary \in Primaries /\ backup \in Backups
  /\ pc = "down" /\ demo = FALSE /\ world = {} /\ loaded = {}
  /\ found = [primary |-> primary, backup |-> backup]
  /\ settled = {} /\ commands = 0 /\ damage = 0

(* SnapshotStore::load_with_status of the two files. *)
Begin(d, f) ==
  /\ pc = "down" /\ pc' = "migrate"
  /\ demo' = d /\ found' = [primary |-> primary, backup |-> backup]
  /\ loaded' = {f} /\ world' = {f.world}
  /\ UNCHANGED <<backup, history>>

StartFromPrimary(d) ==
  /\ Decodes(primary) \/ (primary = NoFile /\ backup = NoFile)
  /\ Begin(d, primary)
  /\ UNCHANGED primary

StartFromBackup(d) ==
  /\ ~Decodes(primary) /\ Decodes(backup)
  /\ Begin(d, backup)
  /\ primary' = backup

Refuse ==
  /\ pc' = "refused" /\ world' = {}
  /\ UNCHANGED <<files, demo, history>>

StartUnreadable(d) ==
  /\ pc = "down" /\ ~Decodes(primary) /\ ~Decodes(backup)
  /\ primary # NoFile \/ backup # NoFile
  /\ pc' = "refused" /\ demo' = d /\ found' = [primary |-> primary, backup |-> backup]
  /\ loaded' = {} /\ world' = {}
  /\ UNCHANGED <<files, history>>

(* Mutant: the migrated world is saved before the demo upgrade. *)
MigrateAndSave ==
  /\ pc = "migrate"
  /\ \E w \in world : \E v \in Migrations(w) :
       /\ world' = {v} /\ pc' = "upgrade"
       /\ primary' = IF Claimants(w) # {} THEN Current(v) ELSE primary
  /\ UNCHANGED <<backup, demo, loaded, found, history>>

Migrate ==
  /\ pc = "migrate"
  /\ \E w \in world : \E v \in Migrations(w) : world' = {v} /\ pc' = "upgrade"
  /\ UNCHANGED <<files, demo, loaded, found, history>>

MigrationFails ==
  /\ pc = "migrate"
  /\ \E w \in world : Migrations(w) = {}
  /\ Refuse /\ UNCHANGED <<loaded, found>>

(* The world to serve, if the demo can be brought up to date and the whole *)
(* is valid.                                                               *)
Prepared(w) == {v \in IF demo THEN EnsureCurrent(w) ELSE {w} : Validate(v)}

(* Mutant: a snapshot of an old format is not rewritten for its format. *)
ChangedWorld(f, w) == w # f.world

(* needs_save: an old format, a migrated inventory or a changed demo.      *)
NeedsSave(f, w) == NeedsRewrite(f) \/ w # f.world

Prepare ==
  /\ pc = "upgrade"
  /\ \E w \in world, f \in loaded : \E v \in Prepared(w) :
       world' = {v} /\ pc' = IF NeedsSave(f, v) THEN "backup" ELSE "serve"
  /\ UNCHANGED <<files, demo, loaded, found, history>>

PreparationFails ==
  /\ pc = "upgrade"
  /\ \E w \in world : Prepared(w) = {}
  /\ Refuse /\ UNCHANGED <<loaded, found>>

(* SnapshotStore::save, of which SnapshotStore.tla has the steps. *)
SaveBackup ==
  /\ pc = "backup" /\ pc' = "replace"
  /\ backup' = IF Decodes(primary) THEN primary ELSE backup
  /\ UNCHANGED <<primary, demo, world, loaded, found, history>>

SavePrimary ==
  /\ pc = "replace" /\ pc' = "serve"
  /\ \E w \in world : primary' = Current(w)
  /\ settled' = {}
  /\ UNCHANGED <<backup, demo, world, loaded, found, commands, damage>>

(* The node begins to answer requests.  What it serves stays so for starts *)
(* without the demo, and after a start with it for all.                    *)
Serve ==
  /\ pc = "serve" /\ pc' = "serving"
  /\ settled' = IF settled = {} \/ demo THEN {[demo |-> demo, world |-> w] : w \in world}
                ELSE settled
  /\ UNCHANGED <<files, demo, world, loaded, found, commands, damage>>

----------------------------------------------------------------------------
(* Between starts. *)

(* Requests that bear on the next start, committed whole: an operator      *)
(* deploys a contract or creates an actor.  Runtime.tla has the rest.      *)
Requested(w) ==
  (UNION {DeployVersion(w, name, 1, "old") : name \in {Demo, Append(Demo, 2)}})
    \cup (UNION {CreateEntity(w, NewEntity("actor", NoName, NoEntity, k)) :
                  k \in DOMAIN w.contracts})

Command ==
  /\ pc = "serving" /\ commands < MaxCommands /\ commands' = commands + 1
  /\ \E w \in world : \E v \in Requested(w) :
       /\ Validate(v)
       /\ world' = {v} /\ primary' = Current(v)
       /\ backup' = IF Decodes(primary) THEN primary ELSE backup
  /\ settled' = {}
  /\ UNCHANGED <<pc, demo, loaded, found, damage>>

Stop ==
  /\ pc # "down" /\ pc' = "down"
  /\ world' = {} /\ loaded' = {}
  /\ UNCHANGED <<files, demo, found, history>>

(* External: someone corrupts or deletes state.json. *)
Damage ==
  /\ pc = "down" /\ damage < MaxDamage /\ damage' = damage + 1
  /\ primary' \in {NoFile, Torn} \ {primary}
  /\ settled' = {}
  /\ UNCHANGED <<backup, pc, demo, world, loaded, found, commands>>

Next ==
  \/ \E d \in BOOLEAN : StartFromPrimary(d) \/ StartFromBackup(d) \/ StartUnreadable(d)
  \/ Migrate \/ MigrationFails \/ Prepare \/ PreparationFails
  \/ SaveBackup \/ SavePrimary \/ Serve
  \/ Command \/ Stop \/ Damage

Spec == Init /\ [][Next]_vars

----------------------------------------------------------------------------
(* Properties. *)

(* The head stays within u64, whatever snapshot a start finds, and what    *)
(* the program holds in memory goes with what it does next.                *)
TypeOK ==
  /\ pc \in {"down", "migrate", "upgrade", "backup", "replace", "serve", "serving", "refused"}
  /\ demo \in BOOLEAN
  /\ \A w \in world : w.head \in 0 .. MaxHead
  /\ Cardinality(world) = IF pc \in {"down", "refused"} THEN 0 ELSE 1
  /\ commands \in 0 .. MaxCommands /\ damage \in 0 .. MaxDamage

(* A world that is served passes the whole validation, keeps no legacy     *)
(* data, and is what the current format on disk holds: a kill brings       *)
(* nothing older back and repeats no migration.                            *)
ServedIsCurrent ==
  pc = "serving" =>
    \A w \in world :
      /\ Validate(w) /\ Claimants(w) = {}
      /\ primary = Current(w) \/ (w = Genesis /\ primary = NoFile)

(* operations.md: the old inventories of all actors move to the formal     *)
(* ones.  When a start has served, every item an actor claimed is in its   *)
(* inventory, what was there before still is, and no other item moved.     *)
ClaimsHonoured ==
  pc \in {"serve", "backup", "replace"} =>
    \A f \in loaded, w \in world :
      /\ \A a \in Claimants(f.world) : \A claim \in f.world.entities[a].inventory :
           W!Items(claim) \cup W!Items(W!Inventory(f.world.inventories, a))
             = W!Items(W!Inventory(w.inventories, a))
      /\ \A i \in DOMAIN f.world.entities :
           (\A a \in Claimants(f.world) : \A claim \in f.world.entities[a].inventory :
              i \notin W!Items(claim))
             => w.entities[i].location = f.world.entities[i].location

(* operations.md: a failed migration or validation does not rewrite the    *)
(* original snapshot.                                                      *)
RefusalKeepsFiles ==
  pc = "refused" =>
    /\ backup = found.backup
    /\ Decodes(found.primary) => primary = found.primary

(* A start with the flag of the last one, or any start after one with the  *)
(* demo, if no command and no damage came between, is not refused, writes  *)
(* nothing and serves the very same world: upgrades happen once, and heads *)
(* do not creep.                                                           *)
StartsRepeat ==
  \A s \in settled :
    (s.demo \/ ~demo) =>
      /\ pc \notin {"backup", "replace", "refused"}
      /\ pc = "serving" => world = {s.world}

(* The cycle check accepts exactly the definitions among which no quests   *)
(* wait for each other, so that each can be reached by completing others.  *)
CycleCheckExact ==
  \A w \in world \cup {primary.world, backup.world} :
    QuestsWellFormed(w) =>
      (ValidateQuests(w) <=>
         ~ \E S \in (SUBSET DOMAIN w.quests) \ {{}} :
             \A q \in S : W!Items(Requires(w.quests, q)) \cap S # {})

(* operations.md: an unknown later format is refused, and a downgraded     *)
(* binary cannot force it open.                                            *)
FutureFormatKept == found.primary.format = "future" /\ pc # "down" => primary = found.primary
==================================================================================
