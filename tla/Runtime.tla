--------------------------------- MODULE Runtime ---------------------------------
(***************************************************************************)
(* Command and transaction execution (src/runtime.rs) under the commit     *)
(* protocol of src/rpc.rs: mutate_and_save.  One mutex covers a whole      *)
(* request, so one command runs at a time, but it is a sequence of host    *)
(* calls made by a Lua contract, any of which may fail, and its effects    *)
(* become the world only if the whole command and the validated save       *)
(* succeed.                                                                *)
(*                                                                         *)
(* The variables accounts .. receipts are the world the running command    *)
(* sees: the clone `shared` of execute_internal, equal to AppState.world   *)
(* between commands.  `saved` is `original`: the world of the last commit, *)
(* to which every failure returns.                                         *)
(***************************************************************************)
EXTENDS World, FiniteSetsExt

CONSTANTS
  Script,        \* the host functions each contract may call
  Scriptable,    \* the entity kinds an operator gives a contract to
  AllowUnsigned, \* AppState.allow_unsigned_commands
  AdminEnabled,  \* an admin token is configured
  Deposits,      \* the balances accounts are created with
  InitWorld,     \* the world the node starts with
  MaxHead,       \* bound: no request is accepted once head reaches it
  MaxCalls       \* bound: host calls per command (the instruction limit)

VARIABLES
  accounts, contracts, entities, inventories, quest_progress,
  events, next_event_id, next_entity_id, head, receipts,
  saved,    \* the world of the last commit
  caller,   \* the entity whose command runs, or NoEntity
  calls,    \* host calls the running command has made
  tx        \* <<t>> while transaction t runs, else <<>>

world   == <<accounts, contracts, entities, inventories, quest_progress,
             events, next_event_id, next_entity_id, head, receipts>>
request == <<caller, calls, tx>>
vars    == <<world, saved, request>>

HostFunction == {"move_actor", "take_item", "drop_item", "transfer_item",
                 "move_entity", "spawn_entity", "update_entity_data", "emit_event",
                 "accept_quest", "complete_quest", "credit_balance"}

ASSUME ScriptAssumption ==
  /\ Script \in [Contract -> SUBSET HostFunction]
  /\ Scriptable \subseteq EntityKind
  /\ AllowUnsigned \in BOOLEAN /\ AdminEnabled \in BOOLEAN
  /\ Deposits \subseteq 0 .. MaxBalance
  /\ MaxHead \in Nat /\ MaxCalls \in Nat

Snapshot == [accounts |-> accounts, contracts |-> contracts, entities |-> entities,
             inventories |-> inventories, quest_progress |-> quest_progress,
             events |-> events, next_event_id |-> next_event_id,
             next_entity_id |-> next_entity_id, head |-> head, receipts |-> receipts]

WorldTyped(w) ==
  /\ AccountsTyped(w.accounts)
  /\ w.contracts \subseteq Contract
  /\ EntitiesTyped(w.entities)
  /\ InventoriesTyped(w.inventories)
  /\ ProgressTyped(w.quest_progress)
  /\ w.events \in Seq(WorldEvent)
  /\ w.next_event_id \in Nat \ {0}
  /\ w.next_entity_id \in Nat \ {0}
  /\ w.head \in Nat
  /\ ReceiptsTyped(w.receipts)

WorldValid(w) ==
  /\ ValidateReferences(w.accounts, w.contracts, w.entities, w.next_entity_id,
                        w.quest_progress, w.receipts)
  /\ ValidateEvents(w.events, w.next_event_id, w.head, w.receipts)
  /\ ValidateLocations(w.entities)
  /\ ValidateGivers(w.entities)
  /\ ValidateInventories(w.entities, w.inventories)

(* The node starts in a world the loader has validated. *)
ASSUME InitAssumption ==
  /\ DOMAIN InitWorld = {"accounts", "contracts", "entities", "inventories",
                         "quest_progress", "events", "next_event_id",
                         "next_entity_id", "head", "receipts"}
  /\ WorldTyped(InitWorld) /\ WorldValid(InitWorld)

TypeOK ==
  /\ WorldTyped(Snapshot) /\ WorldTyped(saved)
  /\ caller \in EntityId \cup {NoEntity}
  /\ calls \in Nat
  /\ tx \in Seq(Transaction) /\ Len(tx) <= 1

Init ==
  /\ accounts = InitWorld.accounts /\ contracts = InitWorld.contracts
  /\ entities = InitWorld.entities /\ inventories = InitWorld.inventories
  /\ quest_progress = InitWorld.quest_progress
  /\ events = InitWorld.events     /\ next_event_id = InitWorld.next_event_id
  /\ next_entity_id = InitWorld.next_entity_id
  /\ head = InitWorld.head         /\ receipts = InitWorld.receipts
  /\ saved = Snapshot
  /\ caller = NoEntity /\ calls = 0 /\ tx = <<>>

----------------------------------------------------------------------------
(* Starting a request.  A refused request changes nothing and is not a     *)
(* step.                                                                   *)

Idle == caller = NoEntity

(* aomori_command: an unsigned command of an entity with a contract. *)
BeginCommand(e) ==
  /\ Idle /\ head < MaxHead
  /\ AllowUnsigned
  /\ e \in DOMAIN entities /\ entities[e].contract \in contracts
  /\ caller' = e
  /\ UNCHANGED <<world, saved, calls, tx>>

NonceAhead(t)   == accounts[t.from].nonce <= t.nonce  \* mutant: any later nonce
NonceMatches(t) == accounts[t.from].nonce = t.nonce

(***************************************************************************)
(* The checks of aomori_submit_transaction and execute_transaction before  *)
(* the command runs: the account exists, its nonce is the transaction's,   *)
(* a signature is given and valid exactly if the account has a key, and    *)
(* the account owns the entity.                                            *)
(***************************************************************************)
BeginTransaction(t) ==
  /\ Idle /\ head < MaxHead
  /\ t.from \in DOMAIN accounts
  /\ AllowUnsigned \/ accounts[t.from].has_key
  /\ NonceMatches(t)
  /\ t.signature = IF accounts[t.from].has_key THEN "valid" ELSE "none"
  /\ t.entity_id \in DOMAIN entities
  /\ entities[t.entity_id].owner = t.from
  /\ entities[t.entity_id].contract \in contracts
  /\ caller' = t.entity_id /\ tx' = <<t>>
  /\ UNCHANGED <<world, saved, calls>>

----------------------------------------------------------------------------
(* Host functions.  A call checks everything before it writes anything, so *)
(* a refused call changes nothing: the contract fails (Fail) or catches    *)
(* the error and goes on.  (drop_item looks the item up after taking it    *)
(* off the inventory, but an item an inventory lists always exists.)       *)

Calling(f) ==
  /\ ~Idle /\ calls < MaxCalls
  /\ f \in Script[saved.entities[caller].contract]
  /\ calls' = calls + 1
  /\ UNCHANGED <<saved, caller, tx>>

CallerExists == caller \in DOMAIN entities
OwnerOf(id) == entities[id].owner

(* Mutant: the kind of what is moved is not checked. *)
MoveAnything(actor, zone) ==
  /\ Calling("move_actor")
  /\ IsKind(entities, zone, {"zone"}) /\ actor \in DOMAIN entities
  /\ entities' = Located(entities, actor, zone)
  /\ UNCHANGED <<accounts, contracts, inventories, quest_progress, events,
                 next_event_id, next_entity_id, head, receipts>>

MoveActor(actor, zone) ==
  /\ Calling("move_actor")
  /\ IsKind(entities, zone, {"zone"}) /\ IsKind(entities, actor, {"actor"})
  /\ entities' = Located(entities, actor, zone)
  /\ UNCHANGED <<accounts, contracts, inventories, quest_progress, events,
                 next_event_id, next_entity_id, head, receipts>>

TakeItem(item) ==
  /\ Calling("take_item")
  /\ CallerExists
  /\ IsKind(entities, item, {"item"})
  /\ entities[item].location = entities[caller].location
  /\ \A a \in DOMAIN inventories : item \notin Items(inventories[a])
  /\ entities' = Located(entities, item, caller)
  /\ inventories' = Pushed(inventories, caller, item)
  /\ UNCHANGED <<accounts, contracts, quest_progress, events,
                 next_event_id, next_entity_id, head, receipts>>

DropItem(item) ==
  /\ Calling("drop_item")
  /\ CallerExists /\ entities[caller].location # NoEntity
  /\ item \in Items(Inventory(inventories, caller))
  /\ item \in DOMAIN entities
  /\ inventories' = [inventories EXCEPT ![caller] = Without(@, item)]
  /\ entities' = Located(entities, item, entities[caller].location)
  /\ UNCHANGED <<accounts, contracts, quest_progress, events,
                 next_event_id, next_entity_id, head, receipts>>

TransferItem(item, target) ==
  /\ Calling("transfer_item")
  /\ target # caller /\ CallerExists
  /\ IsKind(entities, target, {"actor"})
  /\ entities[target].location = entities[caller].location
  /\ item \in Items(Inventory(inventories, caller))
  /\ IsKind(entities, item, {"item"}) /\ entities[item].location = caller
  /\ inventories' = Pushed([inventories EXCEPT ![caller] = Without(@, item)], target, item)
  /\ entities' = Located(entities, item, target)
  /\ UNCHANGED <<accounts, contracts, quest_progress, events,
                 next_event_id, next_entity_id, head, receipts>>

(* Moves any entity of the caller's owner to any existing entity. *)
MoveEntity(id, location) ==
  /\ Calling("move_entity")
  /\ CallerExists /\ id \in DOMAIN entities /\ OwnerOf(id) = OwnerOf(caller)
  /\ location \in DOMAIN entities
  /\ entities' = Located(entities, id, location)
  /\ UNCHANGED <<accounts, contracts, inventories, quest_progress, events,
                 next_event_id, next_entity_id, head, receipts>>

LargestPlusOne == CHOOSE n \in 1 .. MaxEntities + 1 :  \* mutant: ids of deleted entities
                    /\ \A id \in DOMAIN entities : id < n
                    /\ n = 1 \/ n - 1 \in DOMAIN entities
FreshId == next_entity_id

(* create_entity takes the next id and advances the head by itself. *)
CreateEntity(kind, owner, contract, location, name) ==
  /\ FreshId \in EntityId
  /\ owner \in DOMAIN accounts
  /\ contract \in contracts \cup {NoContract}
  /\ entities' = [id \in DOMAIN entities \cup {FreshId} |->
                    IF id = FreshId
                    THEN [kind |-> kind, owner |-> owner, location |-> location,
                          contract |-> contract, name |-> name]
                    ELSE entities[id]]
  /\ next_entity_id' = FreshId + 1
  /\ head' = head + 1

(* The location is not checked here; save's validation does. *)
SpawnEntity(kind, location, name) ==
  /\ Calling("spawn_entity")
  /\ CallerExists
  /\ CreateEntity(kind, OwnerOf(caller), NoContract, location, name)
  /\ UNCHANGED <<accounts, contracts, inventories, quest_progress, events,
                 next_event_id, receipts>>

UpdateEntityName(id, name) ==
  /\ Calling("update_entity_data")
  /\ CallerExists /\ id \in DOMAIN entities /\ OwnerOf(id) = OwnerOf(caller)
  /\ entities' = [entities EXCEPT ![id].name = name]
  /\ UNCHANGED <<accounts, contracts, inventories, quest_progress, events,
                 next_event_id, next_entity_id, head, receipts>>

EmitEvent(kind, about) ==
  /\ Calling("emit_event")
  /\ kind \notin SystemKind
  /\ about \in DOMAIN entities \cup {NoEntity}
  /\ events' = Append(events, [id |-> next_event_id, head |-> head, kind |-> kind,
                               entity_id |-> about, data |-> AnyPayload])
  /\ next_event_id' = next_event_id + 1
  /\ UNCHANGED <<accounts, contracts, entities, inventories, quest_progress,
                 next_entity_id, head, receipts>>

Completed(a, q) == <<a, q>> \in DOMAIN quest_progress /\ quest_progress[<<a, q>>] = "completed"

NoneUnfinished(q) ==  \* mutant: a prerequisite never accepted counts as met
  \A p \in QuestDef[q].prerequisite_quest_ids :
    <<caller, p>> \in DOMAIN quest_progress => Completed(caller, p)
PrerequisitesMet(q) == \A p \in QuestDef[q].prerequisite_quest_ids : Completed(caller, p)

AcceptQuest(q, giver) ==
  /\ Calling("accept_quest")
  /\ QuestDef[q].giver_entity_id = giver
  /\ PrerequisitesMet(q)
  /\ CallerExists /\ entities[caller].location # NoEntity
  /\ IsKind(entities, giver, {"actor"})
  /\ entities[giver].location = entities[caller].location
  /\ <<caller, q>> \notin DOMAIN quest_progress
  /\ quest_progress' = [k \in DOMAIN quest_progress \cup {<<caller, q>>} |->
                          IF k = <<caller, q>> THEN "accepted" ELSE quest_progress[k]]
  /\ UNCHANGED <<accounts, contracts, entities, inventories, events,
                 next_event_id, next_entity_id, head, receipts>>

(* Mutant: the addition is not checked. *)
CreditedUnchecked(a, amount) ==
  /\ a \in DOMAIN accounts
  /\ accounts' = [accounts EXCEPT ![a].balance = @ + amount]

(* Account.balance.checked_add *)
Credited(a, amount) ==
  /\ a \in DOMAIN accounts /\ accounts[a].balance + amount <= MaxBalance
  /\ accounts' = [accounts EXCEPT ![a].balance = @ + amount]

FirstItem(s, p, name) == p = 1  \* mutant: the first item, whatever its name

(* The first item of the inventory that bears the name. *)
FirstNamed(s, p, name) ==
  /\ s[p] \in DOMAIN entities /\ entities[s[p]].name = name
  /\ \A i \in 1 .. p - 1 : ~(s[i] \in DOMAIN entities /\ entities[s[i]].name = name)

Started(q)  == <<caller, q>> \in DOMAIN quest_progress  \* mutant: completed counts, too
Accepted(q) == <<caller, q>> \in DOMAIN quest_progress /\ quest_progress[<<caller, q>>] = "accepted"

CompleteQuest(q) ==
  LET def  == QuestDef[q]
      held == Inventory(inventories, caller)
  IN /\ Calling("complete_quest")
     /\ Accepted(q)
     /\ CallerExists
     /\ entities[caller].location \in DOMAIN entities
     /\ entities[entities[caller].location].name = def.completion_zone
     /\ \E p \in DOMAIN held :
          /\ FirstNamed(held, p, def.required_item)
          /\ IF def.consume_required_item
             THEN /\ inventories' = [inventories EXCEPT ![caller] = Without(@, held[p])]
                  /\ entities' = [id \in DOMAIN entities \ {held[p]} |-> entities[id]]
             ELSE UNCHANGED <<inventories, entities>>
     /\ Credited(OwnerOf(caller), def.reward_balance)
     /\ quest_progress' = [quest_progress EXCEPT ![<<caller, q>>] = "completed"]
     /\ UNCHANGED <<contracts, events, next_event_id, next_entity_id, head, receipts>>

CreditBalance(amount) ==
  /\ Calling("credit_balance")
  /\ CallerExists /\ Credited(OwnerOf(caller), amount)
  /\ UNCHANGED <<contracts, entities, inventories, quest_progress, events,
                 next_event_id, next_entity_id, head, receipts>>

----------------------------------------------------------------------------
(* Ending a request. *)

EndRequest == caller' = NoEntity /\ calls' = 0 /\ tx' = <<>>

(***************************************************************************)
(* Any error: the contract raises one or exceeds its limits, the result    *)
(* has no JSON form (execute_internal has then already replaced the        *)
(* world), save refuses the world or cannot write it.  mutate_and_save     *)
(* restores the original.                                                  *)
(***************************************************************************)
Fail ==
  /\ ~Idle
  /\ accounts' = saved.accounts /\ contracts' = saved.contracts
  /\ entities' = saved.entities /\ inventories' = saved.inventories
  /\ quest_progress' = saved.quest_progress
  /\ events' = saved.events     /\ next_event_id' = saved.next_event_id
  /\ next_entity_id' = saved.next_entity_id
  /\ head' = saved.head         /\ receipts' = saved.receipts
  /\ EndRequest /\ UNCHANGED saved

(* Ids of the entities the command created, updated or deleted. *)
ChangedEntities ==
  {id \in DOMAIN entities \cup DOMAIN saved.entities :
     \/ id \notin DOMAIN entities
     \/ id \notin DOMAIN saved.entities
     \/ entities[id] # saved.entities[id]}

ChangedProgress ==
  {k \in DOMAIN quest_progress :
     k \notin DOMAIN saved.quest_progress \/ quest_progress[k] # saved.quest_progress[k]}

ChangeOf(id) ==
  [change |-> IF id \notin DOMAIN saved.entities THEN "created"
              ELSE IF id \notin DOMAIN entities THEN "deleted" ELSE "updated"]

(* A set of ids in ascending order, and a set of progress keys in some. *)
Ascending(S) == {f \in [1 .. Cardinality(S) -> S] :
                   \A i, j \in DOMAIN f : i < j => f[i] < f[j]}
Listings(S)  == {f \in [1 .. Cardinality(S) -> S] :
                   \A i, j \in DOMAIN f : f[i] = f[j] => i = j}

(* Mutant: system events carry the head of the world before the command. *)
StampedEarly(i, kind, about, data) ==
  [id |-> next_event_id + i - 1, head |-> saved.head, kind |-> kind,
   entity_id |-> about, data |-> data]

Stamped(i, kind, about, data) ==
  [id |-> next_event_id + i - 1, head |-> head + 1, kind |-> kind,
   entity_id |-> about, data |-> data]

(***************************************************************************)
(* The n events a successful command appends: one for each entity and each *)
(* quest progress that differs from the original, then command_executed,   *)
(* then transaction_executed if it was a transaction.                      *)
(***************************************************************************)
Epilogue(ids, keys) ==
  LET e == Len(ids)
      k == Len(keys)
  IN [i \in 1 .. e + k + 1 + Len(tx) |->
        CASE i <= e         -> Stamped(i, "entity_changed", ids[i], ChangeOf(ids[i]))
          [] i \in e + 1 .. e + k ->
               Stamped(i, "quest_progress_changed", keys[i - e][1],
                       [quest |-> keys[i - e][2], status |-> quest_progress[keys[i - e]]])
          [] i = e + k + 1  -> Stamped(i, "command_executed", caller, AnyPayload)
          [] i = e + k + 2  -> Stamped(i, "transaction_executed", caller, [tx |-> tx[1]])]

AppendEpilogue ==
  \E ids \in Ascending(ChangedEntities), keys \in Listings(ChangedProgress) :
    /\ events' = events \o Epilogue(ids, keys)
    /\ next_event_id' = next_event_id + Len(Epilogue(ids, keys))

(* A transaction uses up its nonce and leaves its receipt. *)
SettleTransaction ==
  IF tx = <<>> THEN UNCHANGED <<accounts, receipts>>
  ELSE /\ accounts' = [accounts EXCEPT ![tx[1].from].nonce = @ + 1]
       /\ receipts' = [t \in DOMAIN receipts \cup {tx[1]} |->
                         IF t = tx[1] THEN [from |-> t.from, nonce |-> t.nonce]
                         ELSE receipts[t]]

(* Mutant: the candidate is stored without validation. *)
SaveUnvalidated == saved' = Snapshot'

(* SnapshotStore::save accepts only a world that passes WorldState::validate. *)
Save == WorldValid(Snapshot)' /\ saved' = Snapshot'

Commit ==
  /\ ~Idle
  /\ head' = head + 1
  /\ AppendEpilogue
  /\ SettleTransaction
  /\ UNCHANGED <<contracts, entities, inventories, quest_progress, next_entity_id>>
  /\ Save
  /\ EndRequest

----------------------------------------------------------------------------
(* The methods of the admin token.  Each is one mutate_and_save: if save   *)
(* refuses the result nothing changes.  They append no event.              *)

Admin == Idle /\ AdminEnabled /\ head < MaxHead /\ UNCHANGED request

CreateAccount(a, has_key, balance) ==
  /\ Admin
  /\ a \notin DOMAIN accounts
  /\ accounts' = [b \in DOMAIN accounts \cup {a} |->
                    IF b = a THEN [has_key |-> has_key, nonce |-> 0, balance |-> balance]
                    ELSE accounts[b]]
  /\ head' = head + 1
  /\ UNCHANGED <<contracts, entities, inventories, quest_progress, events,
                 next_event_id, next_entity_id, receipts>>
  /\ Save

(* Mutant: deploying does not advance the head. *)
DeploySameHead(c) ==
  /\ Admin
  /\ c \notin contracts
  /\ contracts' = contracts \cup {c}
  /\ UNCHANGED <<accounts, entities, inventories, quest_progress, events, head,
                 next_event_id, next_entity_id, receipts>>
  /\ Save

Deploy(c) ==
  /\ Admin
  /\ c \notin contracts
  /\ contracts' = contracts \cup {c}
  /\ head' = head + 1
  /\ UNCHANGED <<accounts, entities, inventories, quest_progress, events,
                 next_event_id, next_entity_id, receipts>>
  /\ Save

CreateEntityByAdmin(kind, owner, contract, location, name) ==
  /\ Admin
  /\ contract # NoContract => kind \in Scriptable
  /\ CreateEntity(kind, owner, contract, location, name)
  /\ UNCHANGED <<accounts, contracts, inventories, quest_progress, events,
                 next_event_id, receipts>>
  /\ Save

----------------------------------------------------------------------------
Request ==
  \/ \E e \in EntityId : BeginCommand(e)
  \/ \E t \in [from : Account, nonce : 0 .. MaxHead, entity_id : EntityId,
               intent : Intent, signature : {"none", "valid", "invalid"}] :
       BeginTransaction(t)

HostCall ==
  \/ \E a, z \in EntityId : MoveActor(a, z)
  \/ \E i \in EntityId : TakeItem(i) \/ DropItem(i)
  \/ \E i, t \in EntityId : TransferItem(i, t)
  \/ \E i, l \in EntityId : MoveEntity(i, l)
  \/ \E k \in EntityKind, l \in EntityId \cup {NoEntity}, n \in Name : SpawnEntity(k, l, n)
  \/ \E i \in EntityId, n \in Name : UpdateEntityName(i, n)
  \/ \E k \in EventKind, i \in EntityId \cup {NoEntity} : EmitEvent(k, i)
  \/ \E q \in Quest, g \in EntityId : AcceptQuest(q, g)
  \/ \E q \in Quest : CompleteQuest(q)
  \/ \E n \in 1 .. MaxBalance : CreditBalance(n)

AdminRequest ==
  \/ \E a \in Account, k \in BOOLEAN, b \in Deposits : CreateAccount(a, k, b)
  \/ \E c \in Contract : Deploy(c)
  \/ \E k \in EntityKind, a \in Account, c \in Contract \cup {NoContract},
        l \in EntityId \cup {NoEntity}, n \in Name : CreateEntityByAdmin(k, a, c, l, n)

Next == Request \/ HostCall \/ Fail \/ Commit \/ AdminRequest

Spec == Init /\ [][Next]_vars

----------------------------------------------------------------------------
(* Properties. *)

(***************************************************************************)
(* With contracts that use only SafeCalls and run for actors (those of the *)
(* demo), no sequence of host calls ever makes a world that save would     *)
(* refuse for its locations or inventories: the checks of the host         *)
(* functions suffice by themselves, at every point inside a command.       *)
(***************************************************************************)
SafeCalls == {"move_actor", "take_item", "drop_item", "transfer_item", "emit_event",
              "accept_quest", "complete_quest", "credit_balance"}

HeldConsistent ==
  /\ ValidateLocations(entities)
  /\ ValidateInventories(entities, inventories)

(***************************************************************************)
(* Whatever the contracts do, with move_entity, spawn_entity and renaming, *)
(* the world a node serves between requests passes validation: a command   *)
(* that breaks it is undone as a whole.                                    *)
(***************************************************************************)
ServedWorldValid == Idle => WorldValid(Snapshot) /\ Snapshot = saved

(***************************************************************************)
(* Contracts that do not credit balances pay exactly the rewards of the    *)
(* quests the account's actors have completed, each once.                  *)
(***************************************************************************)
InitialBalance(a) == IF a \in DOMAIN InitWorld.accounts THEN InitWorld.accounts[a].balance ELSE 0

Earned(a) ==
  LET paid == {k \in DOMAIN quest_progress :
                 /\ quest_progress[k] = "completed"
                 /\ k[1] \in DOMAIN entities /\ entities[k[1]].owner = a}
  IN  MapThenSumSet(LAMBDA k : QuestDef[k[2]].reward_balance, paid)

RewardOnce == \A a \in DOMAIN accounts :
                accounts[a].balance = InitialBalance(a) + Earned(a)

(* An actor has started a quest only if it completed every prerequisite. *)
PrerequisitesFirst ==
  \A k \in DOMAIN quest_progress :
    \A p \in QuestDef[k[2]].prerequisite_quest_ids : Completed(k[1], p)

(***************************************************************************)
(* An entity disappears only in a command that completes a quest which     *)
(* consumes an item of that name, at most one entity for each such quest.  *)
(***************************************************************************)
LostEntities == DOMAIN saved.entities \ DOMAIN saved'.entities

NewlyConsuming ==
  {k \in DOMAIN saved'.quest_progress :
     /\ saved'.quest_progress[k] = "completed"
     /\ QuestDef[k[2]].consume_required_item
     /\ ~(k \in DOMAIN saved.quest_progress /\ saved.quest_progress[k] = "completed")}

ItemsConserved ==
  [][/\ Cardinality(LostEntities) <= Cardinality(NewlyConsuming)
     /\ \A id \in LostEntities :
          /\ saved.entities[id].kind = "item"
          /\ \E k \in NewlyConsuming :
               QuestDef[k[2]].required_item = saved.entities[id].name]_saved

(***************************************************************************)
(* The receipts of an account are exactly the nonces it has used, one      *)
(* each, and the log holds exactly one transaction event per receipt.      *)
(***************************************************************************)
InitialNonce(a) == IF a \in DOMAIN InitWorld.accounts THEN InitWorld.accounts[a].nonce ELSE 0

TransactionEvents == {i \in DOMAIN events : events[i].kind = "transaction_executed"}

OneReceiptPerNonce ==
  /\ \A a \in DOMAIN accounts :
       LET mine == {t \in DOMAIN receipts : receipts[t].from = a}
       IN /\ {receipts[t].nonce : t \in mine} = InitialNonce(a) .. accounts[a].nonce - 1
          /\ Cardinality(mine) = accounts[a].nonce - InitialNonce(a)
  /\ {events[i].data.tx : i \in TransactionEvents} = DOMAIN receipts
  /\ Cardinality(TransactionEvents) = Cardinality(DOMAIN receipts)

(***************************************************************************)
(* The log tells an entity's life: nothing is said of an id after its      *)
(* deletion, an id is created at most once and before it is updated, and   *)
(* the deleted ids are exactly those no entity has.  Ids are never reused. *)
(***************************************************************************)
Changes(id) == {i \in DOMAIN saved.events : /\ saved.events[i].kind = "entity_changed"
                                            /\ saved.events[i].entity_id = id}

EntityLifecycle ==
  \A id \in EntityId : \A i \in Changes(id) :
    /\ saved.events[i].data.change = "deleted" =>
         id \notin DOMAIN saved.entities /\ \A j \in Changes(id) : j <= i
    /\ saved.events[i].data.change = "created" =>
         id \notin DOMAIN InitWorld.entities /\ \A j \in Changes(id) : i <= j
    /\ id \notin DOMAIN saved.entities =>
         \E j \in Changes(id) : saved.events[j].data.change = "deleted"

(***************************************************************************)
(* The log orders commits: event ids are consecutive and heads never       *)
(* decrease along it, although a contract's own events carry the head the  *)
(* running command has reached and the system's events the one after it.   *)
(***************************************************************************)
LogFollowsHead ==
  \A i, j \in DOMAIN events :
    i < j => events[j].id = events[i].id + (j - i) /\ events[i].head <= events[j].head

(* A commit only appends to the log and moves the head and the ids forward. *)
LogOnlyGrows ==
  [][/\ Len(saved.events) <= Len(saved'.events)
     /\ SubSeq(saved'.events, 1, Len(saved.events)) = saved.events
     /\ saved'.head > saved.head
     /\ saved'.next_entity_id >= saved.next_entity_id]_saved
==================================================================================
