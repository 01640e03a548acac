---------------------------------- MODULE World ----------------------------------
(***************************************************************************)
(* The persisted world of an Aomori node (src/model.rs): accounts,         *)
(* entities, inventories, quest progress, events and receipts, and the     *)
(* semantic validation that SnapshotStore::save and the loader run over    *)
(* the whole of it.  There is no state here: every operator takes the      *)
(* fields it reads, so that it applies to the world in memory, to the copy *)
(* a Lua command works on and to a snapshot alike.                         *)
(*                                                                         *)
(* Data is abstract: names, contracts, accounts and the payload of a       *)
(* command are members of small sets; of an entity's data map only "name"  *)
(* is kept, the one key the runtime itself reads.                          *)
(***************************************************************************)
EXTENDS Integers, Sequences, FiniteSets

CONSTANTS
  Account,      \* account names
  Contract,     \* keys of the contract map
  Quest,        \* quest ids
  Name,         \* values of data["name"]
  Intent,       \* what a transaction asks for: an action and its arguments
  NoContract,   \* Option::None for Entity.contract
  QuestDef,     \* the quest definitions, fixed while a node runs
  MaxEntities,  \* bound: entity ids are 1 .. MaxEntities
  MaxBalance    \* the largest u64

ASSUME BoundAssumption == MaxEntities \in Nat /\ MaxBalance \in Nat

NoEntity == 0                       \* Option::None for an EntityId
EntityId == 1 .. MaxEntities
EntityKind == {"actor", "zone", "item"}

Entity == [kind     : EntityKind,
           owner    : Account,
           location : EntityId \cup {NoEntity},
           contract : Contract \cup {NoContract},
           name     : Name]

AccountState == [has_key : BOOLEAN, nonce : Nat, balance : 0 .. MaxBalance]

QuestDefinition == [giver_entity_id        : EntityId,
                    prerequisite_quest_ids : SUBSET Quest,
                    required_item          : Name,
                    completion_zone        : Name,
                    reward_balance         : Nat,
                    consume_required_item  : BOOLEAN]

QuestStatus == {"accepted", "completed"}

ASSUME ContractAssumption == NoContract \notin Contract
ASSUME QuestAssumption    == IsFiniteSet(Quest) /\ QuestDef \in [Quest -> QuestDefinition]

(***************************************************************************)
(* A transaction's id hashes the whole of it, signature included, so the   *)
(* transaction stands for its id.                                          *)
(***************************************************************************)
Transaction == [from      : Account,
                nonce     : Nat,
                entity_id : EntityId,
                intent    : Intent,
                signature : {"none", "valid", "invalid"}]

(***************************************************************************)
(* Events.  The four system kinds are reserved; a contract may emit any    *)
(* other kind, all of which are "domain" here.                             *)
(***************************************************************************)
SystemKind == {"entity_changed", "quest_progress_changed",
               "command_executed", "transaction_executed"}
EventKind  == SystemKind \cup {"domain"}

EventData == [change : {"created", "updated", "deleted"}]
               \cup [quest : Quest, status : QuestStatus]
               \cup [tx : Transaction]
               \cup [payload : {"any"}]

WorldEvent == [id        : Nat,
               head      : Nat,
               kind      : EventKind,
               entity_id : EntityId \cup {NoEntity},
               data      : EventData]

AnyPayload == [payload |-> "any"]

(* The parts of the type invariant, one for each kind of map the world keeps. *)
AccountsTyped(accs)    == accs \in [DOMAIN accs -> AccountState] /\ DOMAIN accs \subseteq Account
EntitiesTyped(ents)    == ents \in [DOMAIN ents -> Entity] /\ DOMAIN ents \subseteq EntityId
InventoriesTyped(invs) == invs \in [DOMAIN invs -> Seq(EntityId)] /\ DOMAIN invs \subseteq EntityId
ProgressTyped(prog)    == /\ prog \in [DOMAIN prog -> QuestStatus]
                          /\ DOMAIN prog \subseteq EntityId \X Quest
ReceiptsTyped(rcpts)   == /\ rcpts \in [DOMAIN rcpts -> [from : Account, nonce : Nat]]
                          /\ DOMAIN rcpts \subseteq Transaction

----------------------------------------------------------------------------
(* Semantic validation: WorldState::validate and its parts.                *)

Kind(ents, id) == ents[id].kind
IsKind(ents, id, kinds) == id \in DOMAIN ents /\ Kind(ents, id) \in kinds

Items(s) == {s[i] : i \in DOMAIN s}

ValidateReferences(accs, ctrs, ents, nextId, progress, rcpts) ==
  /\ \A id \in DOMAIN ents :
       /\ ents[id].owner \in DOMAIN accs
       /\ ents[id].contract \in ctrs \cup {NoContract}
       /\ id < nextId
  /\ nextId > 0
  /\ \A k \in DOMAIN progress : IsKind(ents, k[1], {"actor"}) /\ k[2] \in Quest
  /\ \A t \in DOMAIN rcpts : rcpts[t].from \in DOMAIN accs

(***************************************************************************)
(* A transaction event must match a stored receipt, and no two of them the *)
(* same one.                                                               *)
(***************************************************************************)
ValidateEvents(evs, nextId, hd, rcpts) ==
  /\ \A i \in DOMAIN evs :
       /\ evs[i].id > 0
       /\ evs[i].head <= hd
       /\ evs[i].id < nextId
       /\ evs[i].kind \in {"entity_changed", "quest_progress_changed", "command_executed"}
            => evs[i].entity_id # NoEntity
       /\ evs[i].kind = "transaction_executed"
            => LET t == evs[i].data.tx
               IN /\ t \in DOMAIN rcpts
                  /\ rcpts[t].from = t.from
                  /\ rcpts[t].nonce = t.nonce
  /\ \A i, j \in DOMAIN evs :
       i < j => /\ evs[i].id < evs[j].id
                /\ ~ /\ evs[i].kind = "transaction_executed"
                     /\ evs[j].kind = "transaction_executed"
                     /\ evs[i].data.tx = evs[j].data.tx
  /\ nextId > 0

ValidateLocations(ents) ==
  \A id \in DOMAIN ents :
    LET at == ents[id].location
    IN at # NoEntity =>
         \/ ents[id].kind = "actor" /\ IsKind(ents, at, {"zone"})
         \/ ents[id].kind = "item"  /\ IsKind(ents, at, {"zone", "actor"})

ValidateGivers(ents) == \A q \in Quest : IsKind(ents, QuestDef[q].giver_entity_id, {"actor"})

(***************************************************************************)
(* The two directions of the inventory relation: what an inventory lists   *)
(* is an item located at its owner and listed nowhere else, and an item    *)
(* located at an actor is listed by that actor.                            *)
(***************************************************************************)
ListedItemsAreHere(ents, invs) ==
  \A a \in DOMAIN invs : \A i \in DOMAIN invs[a] :
    /\ IsKind(ents, invs[a][i], {"item"})
    /\ ents[invs[a][i]].location = a

InventoryOwnersAreActors(ents, invs) == \A a \in DOMAIN invs : IsKind(ents, a, {"actor"})

ListedOnce(invs) == \A a \in DOMAIN invs : \A i, j \in DOMAIN invs[a] :
                      invs[a][i] = invs[a][j] => i = j

HeldItemsAreListed(ents, invs) ==
  \A id \in DOMAIN ents :
    /\ ents[id].kind = "item"
    /\ IsKind(ents, ents[id].location, {"actor"})
    => /\ ents[id].location \in DOMAIN invs
       /\ id \in Items(invs[ents[id].location])

ValidateInventories(ents, invs) ==
  /\ InventoryOwnersAreActors(ents, invs)
  /\ ListedItemsAreHere(ents, invs)
  /\ ListedOnce(invs)
  /\ HeldItemsAreListed(ents, invs)

----------------------------------------------------------------------------
(* Inventory vectors. *)

Position(s, x) == CHOOSE p \in DOMAIN s : s[p] = x

(***************************************************************************)
(* Vec::remove at the position of x.  Vec::retain(|id| id != x) is the     *)
(* same operation on an inventory, which never lists an item twice         *)
(* (ListedOnce).                                                           *)
(***************************************************************************)
Without(s, x) ==
  [i \in 1 .. Len(s) - 1 |-> IF i < Position(s, x) THEN s[i] ELSE s[i + 1]]

Inventory(invs, a) == IF a \in DOMAIN invs THEN invs[a] ELSE <<>>

(* The entity id at another place. *)
Located(ents, id, at) == [ents EXCEPT ![id].location = at]

(* entry(a).or_default().push(x) *)
Pushed(invs, a, x) ==
  [b \in DOMAIN invs \cup {a} |-> IF b = a THEN Append(Inventory(invs, a), x) ELSE invs[b]]
==================================================================================
