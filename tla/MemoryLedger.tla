------------------------------- MODULE MemoryLedger -------------------------------
(***************************************************************************)
(* The experimental in-memory ledger (src/ledger.rs, src/ledger_runtime.rs)*)
(* as a group of independent instances that were created from one genesis  *)
(* and are handed the same transactions and blocks in any order: each one  *)
(* proposes, applies and submits on its own, and nothing but the blocks    *)
(* keeps them together.                                                    *)
(*                                                                         *)
(* A digest stands for what it is computed from: a header is its own hash, *)
(* and the digests in it are the transactions, results and the world they  *)
(* commit to.  A transaction stands for its id, which covers its           *)
(* signature; an account can sign one body twice ("first", "second").      *)
(* What a contract's action does to a world is the constant Outcome, one   *)
(* function per instance, because that two machines compute the same is    *)
(* not established (doc/ledger-v2-execution.md): an instance that computes *)
(* something else must refuse the block and agree on what it did accept.   *)
(***************************************************************************)
EXTENDS Integers, Sequences, FiniteSets

CONSTANTS
  Replica,        \* the MemoryLedger instances
  Account,        \* accounts of the genesis world, each with a public key
  EntityId,
  Action,         \* actions and their arguments
  Data,           \* worlds, without counters, nonces and events
  InitData,       \* the genesis world
  InitHead,       \* and its head
  NoAccount,      \* the owner of an entity that does not exist
  Owner,          \* Owner[d][e]: who owns entity e in world d
  Outcome,        \* Outcome[r][d][e][a]: what action a of e does to d at r
  Failure,        \* the script fails, or validate() refuses the world it leaves
  ChainId,        \* chains a transaction may be signed for
  ThisChain,      \* the chain_id and the hash of the genesis manifest
  NoHash,         \* parent_hash of the genesis header
  MaxInteger,     \* the largest integer canonical_json encodes
  MaxEvents,      \* the events a world can hold within canonical_json's MAX_BYTES
  Signed,         \* the transactions that bear a signature of their sender
  Submitted,      \* the transactions the environment sends
  MaxCandidates   \* bound: candidates proposed

Signature == {"first", "second"}

LedgerTransaction == [chain_id  : ChainId,
                      from      : Account,
                      nonce     : Nat,
                      entity_id : EntityId,
                      action    : Action,
                      signature : Signature]

(* The world after a script ran, how often it moved head and how many      *)
(* events it and the changes it made left behind.                          *)
Ran == [data : Data, heads : Nat, events : Nat]

ASSUME LimitAssumption ==
  /\ MaxInteger \in Nat \ {0} /\ InitHead \in 0 .. MaxInteger /\ MaxEvents \in Nat /\ MaxCandidates \in Nat
ASSUME GenesisAssumption ==
  /\ InitData \in Data /\ ThisChain \in ChainId /\ NoAccount \notin Account
  /\ Owner \in [Data -> [EntityId -> Account \cup {NoAccount}]]
  /\ Submitted \subseteq LedgerTransaction /\ Signed \subseteq Submitted
ASSUME OutcomeAssumption ==
  /\ Outcome \in [Replica -> [Data -> [EntityId -> [Action -> Ran \cup {Failure}]]]]
  /\ Failure \notin Ran

VARIABLES
  world,       \* world[r]: the published world
  tip,         \* tip[r]: the header of the last block
  blocks,      \* blocks[r]: the chain, the genesis block first
  candidates,  \* blocks that a propose returned and that anyone may keep
  answered     \* answered[r]: what submit returned, as <<transaction, block>>

vars == <<world, tip, blocks, candidates, answered>>

----------------------------------------------------------------------------
(* Values. *)

Genesis == [data |-> InitData, nonce |-> [a \in Account |-> 0],
            head |-> InitHead, next_event_id |-> 1, events |-> <<>>]

GenesisHeader == [chain_id |-> ThisChain, height |-> 0, parent_hash |-> NoHash,
                  tx_count |-> 0, transactions_digest |-> <<>>,
                  results_digest |-> <<>>, post_state_digest |-> Genesis]

GenesisBlock == [header |-> GenesisHeader, transactions |-> <<>>,
                 execution_results |-> <<>>]

(* What canonical_json encodes: integers that every JSON reader agrees on, *)
(* and no more of them than fit its size limit.                            *)
Encodable(w) ==
  /\ w.head <= MaxInteger /\ w.next_event_id <= MaxInteger
  /\ \A a \in Account : w.nonce[a] <= MaxInteger
  /\ Len(w.events) <= MaxEvents

----------------------------------------------------------------------------
(* LedgerBlock::validate_commitments, the hash of the header included. *)

HeaderHashes(h) ==
  /\ h.tx_count = IF h.height = 0 THEN 0 ELSE 1
  /\ h.height = 0 => h.parent_hash = NoHash

ValidCommitments(b) ==
  /\ HeaderHashes(b.header)
  /\ Len(b.transactions) = b.header.tx_count
  /\ Len(b.execution_results) = Len(b.transactions)
  /\ \A i \in 1 .. Len(b.transactions) :
       LET t == b.transactions[i]
           result == b.execution_results[i]
       IN /\ t.chain_id = b.header.chain_id
          /\ result.tx_id = t
          /\ 0 < result.first_event_id /\ result.first_event_id <= result.last_event_id
  /\ b.header.transactions_digest = b.transactions
  /\ b.header.results_digest = b.execution_results

----------------------------------------------------------------------------
(* MemoryLedger::execute_candidate: transaction t on world w, on top of    *)
(* the block with header h.                                                *)

(* Only the holder of the key can make a signature that verifies. *)
Verifies(t) == t.chain_id = ThisChain /\ t \in Signed

Execution(r, w, t) == Outcome[r][w.data][t.entity_id][t.action]

(* The script's events and those of its changes, then command_executed,    *)
(* then ledger_transaction_executed, the one that names the transaction.   *)
NewEvents(r, w, t) ==
  LET last == Execution(r, w, t).events + 2
  IN [i \in 1 .. last |-> [id |-> w.next_event_id + i - 1,
                           tx |-> IF i = last THEN <<t>> ELSE <<>>]]

(* Mutant: next_event_id is taken before the last event is pushed. *)
PostStateLastUncounted(r, w, t) ==
  LET ran == Execution(r, w, t)
  IN [data |-> ran.data,
      nonce |-> [w.nonce EXCEPT ![t.from] = @ + 1],
      head |-> w.head + ran.heads + 1,
      next_event_id |-> w.next_event_id + ran.events + 1,
      events |-> w.events \o NewEvents(r, w, t)]

PostState(r, w, t) ==
  LET ran == Execution(r, w, t)
  IN [data |-> ran.data,
      nonce |-> [w.nonce EXCEPT ![t.from] = @ + 1],
      head |-> w.head + ran.heads + 1,
      next_event_id |-> w.next_event_id + ran.events + 2,
      events |-> w.events \o NewEvents(r, w, t)]

(* Mutant: the candidate is not held against the limits of the encoding. *)
ExecutesUnencodable(r, w, t) ==
  /\ t.from \in Account /\ Verifies(t)
  /\ t.nonce = w.nonce[t.from]
  /\ Owner[w.data][t.entity_id] = t.from
  /\ w.head < MaxInteger /\ w.next_event_id < MaxInteger
  /\ Execution(r, w, t) # Failure

(* Mutant: an old nonce is accepted as well as the one that is due. *)
ExecutesOldNonce(r, w, t) ==
  /\ t.from \in Account /\ Verifies(t)
  /\ t.nonce <= w.nonce[t.from]
  /\ Owner[w.data][t.entity_id] = t.from
  /\ w.head < MaxInteger /\ w.next_event_id < MaxInteger
  /\ Execution(r, w, t) # Failure
  /\ Encodable(PostState(r, w, t))

Executes(r, w, t) ==
  /\ t.from \in Account
  /\ Verifies(t)
  /\ t.nonce = w.nonce[t.from]
  /\ Owner[w.data][t.entity_id] = t.from
  /\ w.head < MaxInteger /\ w.next_event_id < MaxInteger
  /\ Execution(r, w, t) # Failure
  /\ Encodable(PostState(r, w, t))

Results(r, w, t) ==
  <<[tx_id |-> t,
     first_event_id |-> w.next_event_id,
     last_event_id |-> w.next_event_id + Len(NewEvents(r, w, t)) - 1,
     events_digest |-> NewEvents(r, w, t)]>>

Candidate(r, w, h, t) ==
  [header |-> [chain_id |-> ThisChain, height |-> h.height + 1, parent_hash |-> h,
               tx_count |-> 1, transactions_digest |-> <<t>>,
               results_digest |-> Results(r, w, t),
               post_state_digest |-> PostState(r, w, t)],
   transactions |-> <<t>>,
   execution_results |-> Results(r, w, t)]

----------------------------------------------------------------------------
(* The operations of an instance.  A refused call returns an error and     *)
(* changes nothing: it is a stuttering step.                               *)

Init ==
  /\ world = [r \in Replica |-> Genesis]
  /\ tip = [r \in Replica |-> GenesisHeader]
  /\ blocks = [r \in Replica |-> <<GenesisBlock>>]
  /\ candidates = {}
  /\ answered = [r \in Replica |-> {}]

(* propose: a candidate, and nothing published. *)
Propose(r, t) ==
  /\ Executes(r, world[r], t)
  /\ Cardinality(candidates) < MaxCandidates
  /\ candidates' = candidates \cup {Candidate(r, world[r], tip[r], t)}
  /\ UNCHANGED <<world, tip, blocks, answered>>

Extends(b, h) == b.header.height = h.height + 1 /\ b.header.parent_hash = h

(* Mutant: apply executes the block but trusts its header. *)
AcceptsUnreplayed(r, b) ==
  /\ ValidCommitments(b)
  /\ Extends(b, tip[r])
  /\ Executes(r, world[r], b.transactions[1])

(* Mutant: apply compares everything but the state with its replay. *)
AcceptsAnyState(r, b) ==
  /\ ValidCommitments(b)
  /\ Extends(b, tip[r])
  /\ Executes(r, world[r], b.transactions[1])
  /\ b = [Candidate(r, world[r], tip[r], b.transactions[1]) EXCEPT
            !.header.post_state_digest = b.header.post_state_digest]

(* The checks of apply, in its order; the whole block must be what this    *)
(* instance computes itself.                                               *)
Accepts(r, b) ==
  /\ ValidCommitments(b)
  /\ Extends(b, tip[r])
  /\ Executes(r, world[r], b.transactions[1])
  /\ b = Candidate(r, world[r], tip[r], b.transactions[1])

(* apply's last three assignments. *)
Publish(r, b) ==
  /\ world' = [world EXCEPT ![r] = PostState(r, world[r], b.transactions[1])]
  /\ tip' = [tip EXCEPT ![r] = b.header]
  /\ blocks' = [blocks EXCEPT ![r] = Append(@, b)]

Apply(r, b) ==
  /\ Accepts(r, b)
  /\ Publish(r, b)
  /\ UNCHANGED <<candidates, answered>>

(* Mutant: a repeated submit is recognised by its account and nonce. *)
KnownByNonce(r, t) ==
  {i \in 2 .. Len(blocks[r]) : /\ blocks[r][i].execution_results[1].tx_id.from = t.from
                               /\ blocks[r][i].execution_results[1].tx_id.nonce = t.nonce}

(* The first block of r that holds t, the genesis block aside. *)
Known(r, t) == {i \in 2 .. Len(blocks[r]) : blocks[r][i].execution_results[1].tx_id = t}

(* submit of a transaction that r has a block for: the block, and no       *)
(* second execution.                                                       *)
SubmitKnown(r, t) ==
  /\ Known(r, t) # {}
  /\ answered' = [answered EXCEPT ![r] = @ \cup {<<t, blocks[r][CHOOSE i \in Known(r, t) :
                                                     \A j \in Known(r, t) : i <= j]>>}]
  /\ UNCHANGED <<world, tip, blocks, candidates>>

(* submit of a new one: propose and apply in one call. *)
SubmitNew(r, t) ==
  /\ Known(r, t) = {}
  /\ Executes(r, world[r], t)
  /\ LET b == Candidate(r, world[r], tip[r], t)
     IN /\ Accepts(r, b)
        /\ Publish(r, b)
        /\ answered' = [answered EXCEPT ![r] = @ \cup {<<t, b>>}]
  /\ UNCHANGED candidates

(***************************************************************************)
(* Blocks that may be handed to apply: those anyone has seen, candidates   *)
(* and published ones, and what can be made of one by changing it and      *)
(* computing its digests again.                                            *)
(***************************************************************************)
Seen == candidates \cup UNION {{blocks[r][i] : i \in DOMAIN blocks[r]} : r \in Replica}

Redigested(b) ==
  [b EXCEPT !.header.transactions_digest = b.transactions,
            !.header.results_digest = b.execution_results,
            !.header.tx_count = Len(b.transactions)]

WithTransaction(b, t) ==
  Redigested([b EXCEPT !.transactions = <<t>>, !.execution_results[1].tx_id = t])

Altered(b) ==
  IF b.transactions = <<>> THEN {} ELSE
  {[b EXCEPT !.header.post_state_digest.data = d] : d \in Data} \cup
  {[b EXCEPT !.header.parent_hash = tip[r], !.header.height = 1 + tip[r].height] : r \in Replica} \cup
  {[b EXCEPT !.header.height = 1 + @]} \cup
  {Redigested([b EXCEPT !.execution_results[1].first_event_id = @ - 1]),
   Redigested([b EXCEPT !.transactions = <<>>, !.execution_results = <<>>,
                        !.header.height = 0, !.header.parent_hash = NoHash])} \cup
  {WithTransaction(b, t) : t \in Submitted}

Offered == Seen \cup UNION {Altered(b) : b \in Seen}

Next ==
  \E r \in Replica :
    \/ \E t \in Submitted : Propose(r, t) \/ SubmitKnown(r, t) \/ SubmitNew(r, t)
    \/ \E b \in Offered : Apply(r, b)

Spec == Init /\ [][Next]_vars

----------------------------------------------------------------------------
(* Properties. *)

Event == [id : Nat \ {0}, tx : Seq(Signed)]

World == [data : Data, nonce : [Account -> Nat], head : Nat,
          next_event_id : Nat \ {0}, events : Seq(Event)]

(* What is published has its type and can be encoded: an instance at the   *)
(* limits of the protocol's integers or sizes keeps a world whose digest   *)
(* can still be computed, and refuses what would leave them.               *)
TypeOK ==
  /\ world \in [Replica -> World]
  /\ DOMAIN tip = Replica /\ DOMAIN blocks = Replica /\ DOMAIN answered = Replica
  /\ \A r \in Replica :
       /\ Encodable(world[r])
       /\ blocks[r] # <<>>
       /\ \A i \in DOMAIN blocks[r] : blocks[r][i].header.height = i - 1

(* The chain is a replay of the genesis world: every block is exactly what *)
(* this instance computes from the block before it, and the last one       *)
(* commits to the published world, whatever blocks it was handed.          *)
ChainReplays ==
  \A r \in Replica :
    /\ blocks[r][1] = GenesisBlock
    /\ \A i \in 2 .. Len(blocks[r]) :
         LET parent == blocks[r][i - 1].header
             t == blocks[r][i].transactions[1]
         IN /\ Executes(r, parent.post_state_digest, t)
            /\ blocks[r][i] = Candidate(r, parent.post_state_digest, parent, t)
    /\ tip[r] = blocks[r][Len(blocks[r])].header
    /\ world[r] = tip[r].post_state_digest

(* Two instances that have one block's hash in common have everything up   *)
(* to it in common, and two with the same tip have the same world, even if *)
(* their Lua engines do not compute the same everywhere.                   *)
SameTipSameLedger ==
  \A r, s \in Replica :
    /\ \A i \in DOMAIN blocks[r], j \in DOMAIN blocks[s] :
         blocks[r][i].header = blocks[s][j].header =>
           i = j /\ \A k \in 1 .. i : blocks[r][k] = blocks[s][k]
    /\ tip[r] = tip[s] => world[r] = world[s]

(* The event ranges of the blocks' results cover the events of the world   *)
(* without a gap or an overlap, and each range ends with the event that    *)
(* names the block's transaction.                                          *)
EndBefore(chain, i) == IF i = 2 THEN 0 ELSE chain[i - 1].execution_results[1].last_event_id

RangeAt(chain, w, i) ==
  LET result == chain[i].execution_results[1]
      before == EndBefore(chain, i)
  IN /\ result.first_event_id = before + 1
     /\ result.last_event_id = chain[i].header.post_state_digest.next_event_id - 1
     /\ \A k \in result.first_event_id .. result.last_event_id :
          w.events[k] = result.events_digest[k - before]
     /\ w.events[result.last_event_id].tx = <<result.tx_id>>

EventRangesTile ==
  \A r \in Replica :
    /\ world[r].next_event_id = Len(world[r].events) + 1
    /\ \A i \in 2 .. Len(blocks[r]) : RangeAt(blocks[r], world[r], i)

(* submit may be repeated by a client that lost the answer: an instance    *)
(* answers one transaction with one block, the one of its chain that holds *)
(* it, and no transaction has two.                                         *)
SubmitIdempotent ==
  \A r \in Replica :
    /\ \A p, q \in answered[r] : p[1] = q[1] => p = q
    /\ \A p \in answered[r] :
         /\ p[2].transactions = <<p[1]>>
         /\ \E i \in 2 .. Len(blocks[r]) : blocks[r][i] = p[2]
    /\ \A t \in Submitted : \A i, j \in Known(r, t) : i = j

(* The published transactions of the instances are logs as                 *)
(* AppendOnlyLedger promises them.                                         *)
PublishedLog(r) == [i \in 1 .. Len(blocks[r]) - 1 |-> blocks[r][i + 1].transactions[1]]

Promise == INSTANCE AppendOnlyLedger WITH
             Transaction <- Signed,
             log <- [r \in Replica |-> PublishedLog(r)],
             next <- [r \in Replica |-> world[r].nonce]

KeepsPromise == Promise!Spec
==================================================================================
