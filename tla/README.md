# A verification development for the Aomori node

Aomori is a single-node, persistent world: accounts own entities, Lua contracts
act on them through host functions, every change is one command or transaction
that is saved to a snapshot before it is answered, and clients follow a log of
events. The modules in this directory model the parts of it whose correctness
depends on order, failure and accumulated state. TLC checks them on small
instances and TLAPS proves the theorems listed below for every value of the
constants. Paths are relative to the repository root.

## 1. Inventory

| Component | State it keeps | Operations | Modelled in |
|---|---|---|---|
| World model (`src/model.rs`) | accounts, entities, contracts, receipts, quests, progress, inventories, events, counters | `validate` and its parts, `root` | `World` |
| Execution (`src/runtime.rs`) | the copy of the world a command works on | `execute`, `execute_transaction`, 11 host functions that write, `deploy_version`, `create_entity` | `Runtime` |
| RPC and commit (`src/rpc.rs`) | `AppState` under one mutex | `dispatch`, `mutate_and_save`, `publish_new_events` | `Runtime`, `SnapshotStore`, `EventStream` |
| Snapshot store (`src/storage.rs`) | `state.json`, `state.json.bak`, temporary files | `save`, `load_with_status`, `rollback_primary`, `restore_file` | `SnapshotStore`, `DurableWorld` |
| Event stream (`src/rpc.rs`, `web/src/main.ts`) | broadcast channel, one receiver per socket; the page's cursor, recovery and buffer | `websocket_loop`, `aomori_get_events`, `recoverEvents`, `connectEvents` | `EventStream` |
| Start-up and migration (`src/main.rs`, `src/migration.rs`, `src/storage.rs`) | the loaded world before it is served | `load_world`, `decode`, `migrate_inventories`, the save after them | `Startup` |
| Demo (`src/demo.rs`, `contracts/demo.lua`) | - | `initialize`, `ensure_current`; the contract | `Startup`, `MCRuntimeDemo` |
| Ledger runtime (`src/ledger_runtime.rs`, `src/ledger.rs`) | world, tip, blocks of one in-memory instance | `new`, `propose`, `apply`, `submit` | `MemoryLedger`, `AppendOnlyLedger` |
| Rate limiter (`src/rpc.rs`) | token buckets, the time of the last pruning | `RateLimiter::check` | `RateLimiter`, `IdealLimiter` |
| Signed client (`web/src/main.ts`) | the running command, its attempt, `pendingTxId`, the receipt panel | `command`, `submitCommand`, `queryPendingReceipt` | `SignedClient` |

How they interact. `POST /rpc` first asks the rate limiter, which is part of `AppState`
and under its one mutex, and then `dispatch` holds that mutex until the answer is
made; the other routes do not pass the limiter. A mutating method calls `mutate_and_save`: copy the world, mutate it
(a contract running in Lua calls host functions that change a further copy, which
replaces the world if the contract returns), validate, save, and only then answer and
publish the new events into a broadcast channel. Every WebSocket has a task of
its own that takes events out of the channel; it does not hold the mutex. The
page reads the log by RPC whenever it connects or is told that it lags, and holds
live events back meanwhile. At start the node loads the primary snapshot, or the
backup and copies it over the primary, migrates what old formats kept elsewhere,
brings the demo up to date if asked to, validates and saves what changed, all before it
answers anything. The page signs a command with a nonce it has just read and submits it
once; a submission the page no longer waits for may still reach the node. The
ledger runtime is experimental: no RPC method reaches it, and an instance meets others only
through the blocks it is handed.

What is hard, and what makes each part correct:

- *Execution*: a command is a sequence of host calls any of which may fail;
  contracts are arbitrary. Correct: all or nothing; items neither duplicated nor
  lost; rewards once; prerequisites first; the log in step with the world;
  one receipt for each nonce.
- *Store*: every file operation may fail, reads and stats included, and the code
  goes on after some of these; the process may be killed, the machine lose power
  and the primary be damaged between any two. Correct: nothing acknowledged is
  lost, the node can always come back, a primary damaged or not readable costs little.
- *Event stream*: the channel drops events for slow sockets, sockets close
  on either side, recoveries are single-flight and asynchronous, and their
  answers are older than the live events around them. Correct: the cursor
  passes no event that was not shown except where the code knowingly merges recoveries,
  the buffer is always released, the page catches up.
- *Start-up*: five kinds of snapshot, some with unsound claims of possession, a demo
  that repairs a dozen things, kills between upgrade and save. Correct: what is served
  is valid and on disk, old possessions arrive, a refused start writes neither the
  backup nor a primary that decodes (one that does not decode is first restored from the
  backup, also if the start is then refused), a repeated start changes nothing.
- *Ledger*: blocks arrive late, twice, altered, or from an instance whose Lua engine
  computes something else. Correct: a chain replays from genesis, equal hashes mean
  equal worlds, a transaction is published once, a repeated `submit` answers the same.
- *Rate limiter*: buckets are refilled lazily, dropped when idle and created full; the
  table is bounded and the rest share a bucket. Correct: none of this grants a client
  more than a bucket that is always there.
- *Signed client*: answers are lost, late or garbled, another client uses the same
  key, the user repeats a command and asks for old receipts meanwhile. Correct: no
  command runs twice or after it was refused, a success shown is one, the page
  does not stay busy.

`PROJECT.json` lists the hazards one by one at the lines where they bite, with the
properties that cover them.

## 2. Modules

| Module | Models | EXTENDS / INSTANCE |
|---|---|---|
| `World` | data of the world, `validate_*`, inventory vectors; no state | |
| `Runtime` | commands, transactions, admin methods and the commit protocol | `World` |
| `MCRuntimeDemo`, `MCRuntimeFree` | two instances of `Runtime` | `Runtime` |
| `RuntimeProofs` | lemmas on inventories and locations; theorems about `Runtime` | `Runtime`, TLAPS |
| `SignedClient`, `MCSignedClient`, `ClientProofs` | the page's signed commands, composed with the node | `Runtime` |
| `DurableWorld` | the abstract promise of durability | |
| `SnapshotStore`, `StoreProofs` | `save`, `load` and rollback, one action per file operation; theorems about it and about the promise | `INSTANCE DurableWorld` |
| `Startup`, `MCStartup`, `StartupProofs` | `load_world`, migrations, the demo upgrade | `INSTANCE World` |
| `EventStream`, `EventProofs` | node side and page side of the event stream | |
| `AppendOnlyLedger` | the abstract promise of the ledger, and its theorem | |
| `MemoryLedger`, `MCLedger`, `LedgerProofs` | a group of ledger instances | `INSTANCE AppendOnlyLedger` |
| `IdealLimiter` | permanent buckets | |
| `RateLimiter`, `LimiterProofs` | `check` with pruning, lazy refill and the shared bucket | `INSTANCE IdealLimiter` |

### Runtime

The variables `accounts` .. `receipts` are the fields of `WorldState` in the copy the
running command sees; `saved` is `original` of `mutate_and_save`. `caller`, `calls`
and `tx` are the running request. A request starts (`BeginCommand`,
`BeginTransaction`), makes host calls (one action for each host function, with the
checks of the code as conjuncts) and ends in `Commit` - head, epilogue of events,
nonce and receipt, validation, save - or in `Fail`, which restores every field. `Fail`
is enabled whenever a request runs: it stands for a contract error, an exceeded
limit, a result without JSON form, a failed validation and a failed save. Admin
methods are single steps. A contract is abstracted to the set of host functions it
may call (`Script`), which it calls in any order with any arguments; a contract may
catch an error of a host function, which changes nothing. Since the mutex covers the
whole request, requests do not interleave with each other and `caller` is one value.

Data is abstract: of an entity's data map only `name`, the one key the runtime reads,
is kept; a transaction is its own id, because the id hashes the whole of it; a
signature is absent, valid or invalid; JSON arguments are an `Intent`.

### SnapshotStore and DurableWorld

A world is the sequence of requests it results from. `view` is the directory as the
running system sees it, `possible` the entries each name may have after a loss of
power: an entry changed by a rename is either of the two until the directory is
synced, and the bytes of a file renamed before it was synced may be torn. `pc`
walks through `save`, `rollback_primary` and `load_with_status`; `OperationFails`
and `SyncPrimaryFails` are the error returns of each operation. `DurableWorld` knows
no files: it has the set `maybe` of worlds a restart may come back with, answers
success only when nothing but the proposal can come back, and lets an unanswered or
refused proposal be among them or not. `SnapshotStore` implements it with
`maybe <- Recoverable`, what `load` makes of the possible files.

A read may fail on a sound file, and `Path::exists` answers false when a stat fails. Most
of these failures end the operation; the code goes on after the following, and history
variables record them:

| Where | What the code does | Model |
|---|---|---|
| `storage.rs:65`, `:89` | restores the older backup over a sound primary | `LoadBackup`, counted in `passed` |
| `:65`, `:81` | serves genesis although there are files | `LoadGenesis`, recorded in `overlooked` |
| `:130` | saves without keeping the primary, which `previous = Unseen` marks; a rollback then removes it | `BeginSave`; `skipped`, and `overlooked` if it is removed |
| `:149` | saves without keeping the primary | `WriteTemporary`, counted in `skipped` |
| `:247` | leaves the uncommitted snapshot where it is | `RollbackRemove` |

`Damage` corrupts or deletes `state.json` at any time, also within a save; `raced` records that
it was corrupted between the decode at `:149` and the read at `:151`. A file deleted
between two stats of one load looks like a stat that failed, and is counted as such.
`Undisturbed` means no damage, no load that passed over a sound primary, nothing overlooked;
skipped backups, failed loads and all other failures leave it true. Damage to the backup
is not modelled: no document promises anything of it.

### EventStream

Events are their ids. `rx` and `wire` are the receiver of the page's socket and what
is on its way; `Send` delivers the next event or, if the channel has dropped it, the
lag message, and goes on with the oldest event kept. `recovery` is the loop of
`refreshEvents` (asked, replied) and `recoveringEvents`; `waiting` is `recoverOnOpen`
awaiting an earlier recovery; `pending` and `overflow` are the buffer. A JavaScript
task runs to its end together with the callbacks it settles, so each handler is one
action, and `EndRecovery` is the whole of the finally clause followed by what a
waiting `recoverOnOpen` does. `seenEvents` never decides anything that the cursor does
not and is left out; so is `selectRpc`.

### SignedClient

The page's command goes through `phase`: `account` (the nonce is read), `submit`, `refresh`
(quests and inventory are read), `idle`. `attempt` is the one new signature after a nonce
conflict. An abandoned submission goes to `late`, from where the node takes it up at any later
time or never. `queries` are receipt queries under way, answered at any time, also during
a later command. `shown` is the receipt panel; `ended` is a history of how each command
ended. The node's side is `Runtime`, with its own actions: a page's submission is a
`BeginTransaction`, and its `Commit` or `Fail` is the answer the page sees. Other
clients, some holding the same key, send transactions of other intents.

Two endings keep their name: a body that is not JSON, as of HTTP 504, and a
refresh that fails after the command succeeded are both shown as FAILED although the node may
have executed the command. `ExecutedAtMostOnce` counts them as possible executions. A receipt
query of an earlier transaction that succeeds during a command clears `pendingTxId`; if that
command's answer is then lost, the panel does not say UNKNOWN (`UnknownPanel`).

### Startup

`primary` and `backup` are files with a format (`bare`, `1`, `2`, `future`) and a world, torn, or
missing. `StartFromPrimary`, `StartFromBackup` and `StartUnreadable` are
`load_with_status`; `Migrate`, `Prepare` and their failures are the body of `load_world`;
`SaveBackup` and `SavePrimary` are the save in the two steps that matter here, of which
`SnapshotStore` has the file operations; reads that fail in a load are there too, not here. `Stop` may come anywhere. A start leaves the log,
the receipts and the accounts alone, so a world is its entities, inventories, contracts, quests
and progress. `EnsureCurrent` is the whole of `ensure_current`, as operators from a world to
the set of its outcomes, empty where the code fails. `validate` is that of `World` and the quest
definitions with Kahn's algorithm as the code runs it (`ValidateQuests`). An element
of a claim that is not an id stands for any malformed claim. The migration adds to the head
with a check; `deploy_version`, `create_entity` and the demo's version do not, and at the
largest value a release build goes on with 0 (`Incremented`). Entity ids count from 1, as
`WorldState::genesis` starts them; that their u64 runs out is not modelled.

### MemoryLedger and AppendOnlyLedger

Each instance has `world`, `tip` and `blocks`; a refused call changes nothing and is a
stuttering step. A digest stands for what it is computed from, so two digests are equal exactly
if what they commit to is. `Executes` is `execute_candidate` with its checks, among them the
limits of `canonical_json`; `Accepts` is `apply` with its comparison of the whole replayed
block. What an action does is the constant `Outcome`, one function *per instance*: that two
machines compute the same is not established by the code, so the model does not assume
it. `Offered` are the blocks anyone has seen and what can be made of one by altering it and
computing its digests again. `AppendOnlyLedger` knows no blocks: each instance has a log of
transactions, appends only the one whose nonce is due, and nothing else.

### RateLimiter and IdealLimiter

Time passes in ticks; a token is `Second` units, and a tick refills `Rate` units, so that levels
are exact integers. A bucket keeps its level at the last access and its age; `Check` prunes if
it is time, chooses the client's bucket or the shared one, refills and takes or refuses.
`IdealLimiter` has a bucket for every client, always there, refilled by the clock;
`RateLimiter` implements it with `level <- LevelOf(buckets, k)`. `burst` is a history of what
one client has drawn, less what two buckets have refilled.

## 3. Runs

| Run | States | Shows |
|---|---|---|
| `demo` | 123 k | `HeldConsistent`: at every point inside a command locations and inventories agree. `RewardOnce`: balances are exactly the rewards of completed quests. `PrerequisitesFirst`. `ItemsConserved`: a commit loses an item only to a quest that consumes one of that name. |
| `free` | 387 k | `TypeOK` (balances within u64), `ServedWorldValid`: what is served passes validation although commands build worlds that do not. `EntityLifecycle`: created, updated, deleted, in this order, once, ids never reused. `LogFollowsHead`, `LogOnlyGrows`. |
| `tx` | 198 k | With the page and other clients: `OneReceiptPerNonce`: used nonces, receipts and transaction events correspond one to one. `ExecutedAtMostOnce`: no command runs twice, or after it was reported as refused. `SuccessIsExecuted`. Under fairness, `CommandsEnd`. `ClientTypeOK`. |
| `store_promise` | 1.6 M | `KeepsPromise`: undisturbed, the store implements `DurableWorld`, and so `AckedSurvives`. With the primary damaged at any time: `BackupStaysReadable`, but for one race. `OneLossBounded`: one damage, or one load that cannot read the primary, costs the last acknowledged command and one more for each save that skipped the backup. `TypeOK`. |
| `events_catchup` | 537 k | `NoGapOtherwise`: outside four named situations the page shows exactly the events up to its cursor. `BufferIsTransient`, `ResetsOnlyForAnotherWorld` and, under fairness, `CatchesUp`, with lag, a lost connection, a failed call and another world. `TypeOK`. |
| `ledger` | 5.5 k | `ChainReplays`, `SameTipSameLedger`, `EventRangesTile`, `SubmitIdempotent`; `KeepsPromise`: it implements `AppendOnlyLedger`. `TypeOK`: what is published can be encoded. |
| `startup` | 75 k | `ServedIsCurrent`, `ClaimsHonoured`, `RefusalKeepsFiles`, `StartsRepeat`; `CycleCheckExact`: Kahn's algorithm refuses exactly the definitions in which some quests wait for each other. `TypeOK`. |
| `limiter` | 155 k | `KeepsPromise`: it implements `IdealLimiter`. `BurstBounded`: two full buckets are the most a client draws at once. `TypeOK`. |
| `store_refused` | violation | `RefusedNeverServed`, see finding 1 |
| `events_lag` | violation | `NoGap` with a lag, see finding 2 |
| `events_reconnect` | violation | `NoGap` with a lost connection, see finding 3 |
| `startup_future` | violation | `FutureFormatKept`, see finding 4 |

Each property of a passing run has a mutant of the code's model that breaks it: a
definition commented `Mutant` beside the one it replaces, paired in `PROJECT.json`.

### Bounds

- `demo`: two zones, two actors who can both act, a quest that consumes its item and
  one that requires the first and does not. Completing both takes seven calls, so
  two commands (`MaxHead = 2`) of four calls (`MaxCalls = 4`) reach it, as
  well as taking, handing over, dropping and handing back in between.
- `free`: one actor, one quest ready to be completed, `MaxCalls = 2` and
  `MaxHead = 2`: two commits or admin requests, of which one can consume the newest
  entity and the next create another, or spawn one and break it. `MaxBalance = 2` is
  the largest u64, reached by a deposit, a reward and credits.
- `tx`: two commands of the page, each with up to two submissions, and three commits, so
  that a late submission can meet a repeated command and another client's transaction.
  Two accounts; two intents, of which only the page uses one. Contracts make no host calls
  (`MaxCalls = 0`): what they do is the subject of `demo` and `free`.
- `store_promise`: three requests, so that primary and backup are each replaced after the other
  and one more runs after a recovery; two damages, since one decides `OneLossBounded` and
  the second must not harm the backup; one load that passes over the primary, two saves that
  skip the backup, so that it falls three commands behind, the most there are; losses of power
  and all other failures unbounded.
- `events_catchup`: channel and page of two, buffer and wire of one, the smallest at which lag,
  paging, overflow and a blocked sender all happen; five events published one or two
  at a time, one lost connection, one failed call, one replacement by a world of any length.
- `ledger`: two instances that disagree on one action, two accounts, one candidate kept
  by someone, every alteration of every block. `MaxInteger = 9` with an initial head of 4 and
  `MaxEvents = 8` let the head, the event ids and the size each reach its limit first; a chain
  has at most three transactions, enough for a stale candidate and a fork.
- `startup`: eighteen demo worlds of the first formats, sound and unsound claims among them, in
  both old formats, and every choice of nine prerequisite lists for three quests (729 graphs,
  repeated, dangling and circular ones included); one command and one damage
  between starts; starts and kills unbounded. `MaxHead = 60` is the largest u64,
  at which two of the worlds start, one with a claim (the migration refuses) and one without
  (the demo upgrade wraps); `MaxVersion = 4` is the largest u32, at which one contract is.
- `limiter`: three clients for two buckets beside the shared one, a burst of two
  tokens, three ticks to a second; a bucket is idle after four ticks, longer than it takes to
  refill, as in the code.

Deadlock is checked except in `demo`, `free`, `events_catchup` and `events_reconnect`: with the
bounds on commits or events reached and everything delivered, these systems rest.

### Fairness

`CatchesUp`: weak fairness of `Subscribe`, `Send` and `Reply`: the
server's tasks are scheduled and an RPC is answered. Of `Connect`: `onclose` sets a
timer. Of `OnOpen`, `OnLag`, `OnEvent`, `Closed`, `ResetCursor` and `RenderPage`: the
browser's event loop delivers what has happened. Publishing, failing, dropping and
replacing are not fair. A recovery that fails while the connection stays up and
nothing was held back is not repeated by the code until the next event, lag or
connection, so `CatchesUp` excepts runs with such a failure.

`CommandsEnd`: weak fairness of `Timeout` alone. `RPC_TIMEOUT_MS` aborts every call the
page waits for; nothing is assumed of the node or the network.

## 4. Findings

1. `store_refused`: `save` renames the snapshot into place, the directory sync fails
   and `rollback_primary` fails too. The request is answered with an error and the
   node goes on with the old world, but the disk holds the new one, and
   the next start serves it. `doc/api.md:298` says that failed snapshot writes
   persist no events; `doc/api.md:309` only that a rollback is attempted.
2. `events_lag`: `recoverEvents` returns the recovery in flight. A lag message that
   arrives then starts nothing, although the recovery's page may be older than what
   the channel dropped; the events held back are rendered after the gap and the
   cursor, which is persisted, passes it. `doc/api.md:326` asks for a query on every lag.
3. `events_reconnect`: the buffer outlives the connection. A recovery of the old
   connection ends on the new one and renders the new connection's events; what was
   published in between is behind the cursor when `recoverOnOpen` asks for it.
   `README.md:27` promises reconnect compensation.
4. `startup_future`: `load_with_status` treats every error of `decode` alike, so a snapshot of a
   later format counts as damaged; if the backup is of a known format, it is renamed
   over the newer world and served. `doc/operations.md:102` says that unknown later
   versions are refused and a downgraded binary cannot force them open.

Three differences have no run of their own:

- `doc/api.md:309` says that a corrupt primary is never copied over the last valid backup.
  `save` decodes the primary at `src/storage.rs:149` and reads it again at `:151`; bytes
  corrupted between the two replace the backup. `BackupStaysReadable` excepts exactly
  this, by `raced`; without the exception TLC shows a `Damage` between `WriteTemporary` and
  `WriteBackup`. Keeping the bytes that were decoded would close the gap.
- `doc/operations.md:89` says that recovery goes by the valid primary, that the node starts from
  genesis if neither file exists, and that an invalid backup stops the start instead of a silent
  reset. A sound primary that cannot be read (`:89`) is replaced by the older backup, and if stats fail at
  `:65` and `:81` genesis is served although there are files. `KeepsPromise`, `AckedSurvives` and
  `OneLossBounded` except or count this by `passed` and `overlooked`. Without `overlooked` TLC
  shows one failed stat after a kill and genesis served; without `passed`, the older backup
  renamed over an acknowledged primary. The bound `1 + skipped` is tight.
- `doc/api.md:139` says that the old inventories may load only for demo migration, while
  `doc/operations.md` and the code migrate them at every start.

## 5. Theorems

| Module, theorem | Statement | Assumptions beyond those of the module |
|---|---|---|
| `RuntimeProofs` `TypeCorrect` | `[]TypeOK` | none |
| `ServedWorldIsValid` | `[]ServedWorldValid` | none |
| `SafeContractsConsistent` | `[]HeldConsistent` | scripts use only `SafeCalls`, only actors have contracts |
| `ItemsAlwaysConserved` | `ItemsConserved` | the same |
| `PrerequisitesAlwaysFirst` | `[]PrerequisitesFirst` | it holds of the initial world |
| `LogAlwaysInOrder` | `[]LogFollowsHead` | the initial log is in order |
| `LogAlwaysGrows` | `LogOnlyGrows` | none |
| `EntitiesLiveOnce` | `[]EntityLifecycle` | the initial log says nothing of entities |
| `TransactionsRunOnce` | `[]OneReceiptPerNonce` | the initial world has no receipt and no transaction event |
| `RewardsPaidOnce` | `[]RewardOnce` | `OnlyQuestsPay`: no `credit_balance`, only actors have contracts, accounts are created empty, no quest is completed at the start |
| `ClientProofs` `ClientUsesRuntime` | `ClientSpec => Spec` of `Runtime` | none |
| `ClientTypeCorrect`, `SuccessAlwaysExecuted`, `CommandsExecutedOnce` | `[]ClientTypeOK`, `[]SuccessIsExecuted`, `[]ExecutedAtMostOnce` | none |
| `ClientReceiptsOnce` | `[]OneReceiptPerNonce` with the page | as `TransactionsRunOnce` |
| `StoreProofs` `TypeCorrect`, `BackupCorrect` | `[]TypeOK`, `[]BackupStaysReadable`, with any damage to the primary | none |
| `StoreImplementsPromise` | `KeepsPromise`: `SnapshotStore => DurableWorld` while `Undisturbed` | none |
| `AckedAlwaysSurvives` | `DurableWorld`: `[]AckedSurvives` | none |
| `AckedCommandsSurvive` | `[]AckedSurvives` of the store | none |
| `OneLossAlwaysBounded` | `[]OneLossBounded` | none |
| `StartupProofs` `TypeCorrect`, `ServedAlwaysCurrent`, `ClaimsAlwaysHonoured` | `[]TypeOK`, `[]ServedIsCurrent`, `[]ClaimsHonoured` | none |
| `RefusalWritesNothing`, `StartsAlwaysRepeat` | `[]RefusalKeepsFiles`, `[]StartsRepeat` | none |
| `CycleCheckAlwaysExact` | `[]CycleCheckExact` | none |
| `EventProofs` `TypeCorrect`, `BufferReleased` | `[]TypeOK`, `[]BufferIsTransient` | none |
| `ResetsAreJustified` | `ResetsOnlyForAnotherWorld` | none |
| `NoOtherGap` | `[]NoGapOtherwise` | none |
| `AppendOnlyLedger` `NoncesAlwaysInOrder` | published nonces are 0, 1, 2, ... | transactions have their type |
| `LedgerProofs` `LedgerTypeCorrect`, `ChainAlwaysReplays` | `[]TypeOK`, `[]ChainReplays` | none |
| `SameTipAlwaysSameLedger` | `[]SameTipSameLedger` | none |
| `EventRangesAlwaysTile`, `SubmitAlwaysIdempotent` | `[]EventRangesTile`, `[]SubmitIdempotent` | none |
| `LedgerKeepsPromise`, `PublishedNoncesInOrder` | `MemoryLedger => AppendOnlyLedger`, and what follows | none |
| `LimiterProofs` `TypeCorrect`, `BurstCorrect` | `[]TypeOK`, `[]BurstBounded` | none |
| `ImplementsIdeal` | `RateLimiter => IdealLimiter` | none |

All are of the form `Spec => ...`. The modules' own assumptions: bounds are numbers, quest
definitions have their type, the initial world has its type and passes validation (the loader
refuses any other), an idle bucket has had time to refill (`BucketTtl >= Second`, which the
code's constants satisfy). `ClientAssumption`: the page's account exists with a key, its nonce is
not ahead of the head (every transaction advances both) and no receipt of the page's
commands exists yet; the instance of `tx` satisfies all of it. The instance of `demo` satisfies
`OnlyQuestsPay` and the assumptions on safe contracts. `FileAssumption`: the worlds in the first two files have the types serde
enforces, and no entity has the id 0, which the program never gives; nothing else is assumed
of their contents, validity included.

### Runtime

*TypeOK* is inductive once both the world in memory and `saved` are typed. The hard
steps are a quest's completion (checked addition, the shrinking inventory) and
`Commit`, whose events are built from listings of finite sets.

*ServedWorldValid* needs `ServedInv`: `saved` is always valid, not only when idle,
and `saved` is a record of exactly the world's fields; `Fail` restores it field by field.

*HeldConsistent* needs `SafeInv`: the saved world is consistent too, an idle
world is the saved one, and the caller is an actor throughout its command. The
lemmas on inventories in `RuntimeProofs` carry the argument: moving an actor to a zone (`ActorMoved`),
listing an unlisted item (`ItemListed`), taking one off the only inventory that lists it
(`ItemUnlisted`) and deleting an unlisted one (`ItemDeleted`) keep the inventory relation.
The safe host functions are the eight of which every write is checked by the function itself;
`move_entity`, `spawn_entity` and `update_entity_data` are excluded and are why `save` validates.

*ItemsConserved* compares the world before a command with the one after it, so its invariant
`ConserveInv` says what the running command has done so far: whatever is gone since the last save
was an item paid for by a completion since then that consumes one of its name, and there are at
most as many of those as completions. It needs *HeldConsistent*, because an item
consumed must not leave the world by another way.

*PrerequisitesFirst* needs the same of the saved world, and that no
host call takes a completion back. *LogFollowsHead* needs
`LogInOrder`, which adds that ids lie below `next_event_id`, heads at or below the
head, and ids are consecutive, for both logs. *LogOnlyGrows* needs `Ahead`: at every
point of a command the log extends the saved one, and head and next entity id
are not behind.

*EntityLifecycle* needs `LifeInv`: the saved log tells the lives of the saved entities, the
running command has said nothing about changes yet, and what it created bears ids no saved entity
ever had. The step is `Commit`: its epilogue lists each changed entity exactly once
(`EpilogueTellsAll`), which rests on a listing in ascending order reaching every member of a finite
set (`AscendingOnto`).

*OneReceiptPerNonce* needs `ReceiptInv`: both worlds are settled (used nonces, receipts and
transaction events are equally many and name each other), and the running transaction
has the next nonce of its account.

*RewardOnce* needs `RewardInv`: both worlds are `Paid`. Beside the balances this says that quests are
kept by actors, which nothing deletes, that only actors run contracts, that what an inventory lists
is an item or, once consumed, an id that no later entity gets, and that an owner has an account, so
that a new account starts with nothing earned. Without these a completed quest could
change its owner or vanish from the sum. The sum is a fold over a set; it is shown to be the
number of `Units` of reward, which a cardinality argument handles where induction over
data is out of reach.

### Signed client

`ClientUsesRuntime` needs only that each action of the composition is one of `Runtime` or leaves the
node alone. `ClientInv` then has three parts beside the types. `NodeInv` is what the page relies on
in the node: its account stays, a used nonce has advanced the head, only a commit adds
receipts. `FollowInv` ties the page's phase and the awaited answer to the running request and the
receipts; *SuccessIsExecuted* is one of its conjuncts. `CountInv` is the argument for *ExecutedAtMostOnce*:
executed transactions, the running one, abandoned submissions that may still
arrive, the one still to be sent and the refused commands are together no more than the
commands issued. A new signature is allowed exactly because a conflict proves that the
refused submission has no share in this sum.

### Store

`StoreInv` relates `pc`, `view` and `possible`: which file holds what before each operation of
`save`, rollback and restore. Its parts hold whatever happens to the primary, but for
`WholeInv`, which needs that nobody damaged it. `FilesInv`: renamed bytes are whole because they
were synced under their temporary name. `RacedInv`: torn bytes reach the backup only by the
race, because what is read at `:151` is otherwise what was decoded. `ProposalInv` and
`CopyInv`: what is about to be renamed. `WholeInv`: the previous world stays among the
possible ones until the directory is synced.

While `Undisturbed` the refinement goes action by action: a rename adds the proposal to what may
come back, a directory sync removes everything else, a loss of power picks one. A save that
skips the backup is no exception, since the primary alone decides what comes back. Once disturbed the
store promises `DurableWorld` nothing more, and no step undoes that (`NeverForgotten`). `AckedSurvives`
follows from the theorem about `DurableWorld`, whose invariant `DurableInv` says that a
served or pending world extends the acknowledged one.

*OneLossBounded* needs `KeptInv` while `Undisturbed`: no two entries the files may have lie further
apart than `1 + skipped` commands, nor does what is served lie further from any of them, and
before the primary is replaced, all have what is served but for the saves that skipped
the backup. So `FilesEnough`: whichever file a load falls back on has all but
`1 + skipped` of the acknowledged commands. After one loss `AlmostInv` remains: this much
holds of all the node serves, can come back with or is about to put into a file, and what is
served afterwards extends it.

### Event stream

*ResetsOnlyForAnotherWorld*: `WithinInv`, while the node has its own world nothing the page
has heard of lies beyond the log. *NoGapOtherwise*: `WireInv`, messages on a socket are consecutive
between lags, and `SteadyInv`, outside the excepted situations the recovery's answer and the buffer
behind it account for everything up to some event, from which the socket goes on (`Accounted`,
`Continues`). The four situations are recorded by the history variable `exposed`: a lag
message that finds a recovery's answer already there, a connection lost during a recovery, a
recovery that fails with nothing held back, another world.

### Ledger

`ChainInv`: every block is what its own instance computes from the block before it.
*SameTipSameLedger* uses that a header determines its block and its parent's header, and
nothing of `Outcome`: agreement comes from comparing whole blocks, not from determinism.
*SubmitIdempotent* and the refinement use that a published transaction has spent its nonce.

### Limiter

*ImplementsIdeal*: refilling lazily commutes with the clock (`ProductMonotone`, `LevelBounds`), a
bucket old enough to be pruned is full, and the delay computed by a rounded division is the exact
one (`RetryExact`). *BurstBounded*: what a client has drawn is at most what is missing
from its two buckets.

### Start-up

`Sound` is a typed world whose ids lie below the next one; `Grown` is what the demo upgrade may do:
add entities without legacy data, leave possessions and places alone. Each operator from
a world to its outcomes keeps both (`DeployKeeps` .. `EnsureCurrentKeeps`, `MigrationKeeps`).
`StartInv` says for each stage of a start what memory and files hold: what was loaded is the
primary until the first save, from the decision to save on the world is valid, what
is served is in the primary, and the claims of the loaded snapshot are `Honoured`.
`RefusalWritesNothing` needs no more than who writes which file.

*StartsRepeat* needs that the upgrade has reached a fixed point when it has run once. `Stable` says what
such a world is: the current demo version is deployed and every demo actor is bound
to it with its progress imported, all persons, places and things have their names, the quests are
the current ones. `UpgradeStable` and `InitializeStable`: both ways to a demo world end in one;
`StableStays`: the upgrade of one is itself, head included. `SettledInv` carries this across
starts: the files hold what the last start served, and the next one finds nothing to do.

*CycleCheckExact* is about the loop itself, for quest sets of any size. That the recursive count is
defined at all follows from a measure, the quests not yet taken off the queue
(`CountExists`, `DrainExists`). A quest's degree is always the number of its prerequisites still
inside (`TurnIs`, `NeedsOnce`), so the quests left when the queue is empty block each other
(`EmptyQueue`), and a set that blocks itself is never entered (`FreeIsOutside`).

### Only model-checked

Liveness (`CatchesUp`, `CommandsEnd`), which needs `ENABLED` and fairness and so is beyond
TLAPS. Every other property of a passing run is a theorem. The four runs that
expect a violation show counterexamples, of which there is nothing to prove. No module here declares
a `RECURSIVE` operator; where the code loops, the theorems show that the recursive function
exists, by induction over a set of numbers.

## 6. Not modelled

- The Lua interpreter, its sandbox and its limits: an external library; `Fail` is their effect,
  at any point of a command.
- Signatures, hash functions, canonical JSON and its strict parser: pure functions. A signature is
  absent, valid or invalid, a digest is what it commits to, and of `canonical_json` the limits
  on integers and size are kept.
- The page's key storage, its encryption, and `selectRpc`, which abandons all its state for
  another address. The encoding of `web/src/ledger.ts`.
- `resolve_client_ip`: a pure function of headers. The limiter's clock and levels are
  exact integers here; the code uses f64, and what its rounding adds is not examined.
- CORS, health, readiness, metrics and logs: nothing reads them back. Deployment and scripts.
- Read-only methods and queries change no state; a query works on a copy that is thrown
  away. Several pages do not affect each other's event stream and one is modelled.
  Leftover temporary files are never read. The page's list of 200 visible rows.

Two hazards have no property. A start after a kill serves a renamed primary whose directory
entry was never synced (`src/storage.rs:90`), so a later loss of power may take a world back that
was served but never acknowledged: `DurableWorld` allows this, and what readers
saw of it needs the composition below. A world of another history whose log is at least as
long as the page's cursor is not recognised as another (`web/src/main.ts:355`): event ids carry
no identity of the world, and no document promises more.

## 7. Plan

What remains, in order:

1. `Node`: `Runtime`'s commit (abstracted to requests), `SnapshotStore` and the
   node side of `EventStream` in one state: nothing is published before it is durable,
   an acknowledged transaction survives a crash and cannot run again after a restart,
   what readers saw between a kill and a loss of power. Three requests, one reader.
2. Theorems about `Node`: that a reader never sees an event that a restart takes back, as far
   as it holds, by the refinements of its parts.
