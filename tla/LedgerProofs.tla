------------------------------- MODULE LedgerProofs -------------------------------
(***************************************************************************)
(* Theorems about MemoryLedger.tla, for every set of instances, accounts   *)
(* and transactions, every execution function of each instance and every   *)
(* limit of the encoding.                                                  *)
(***************************************************************************)
EXTENDS MemoryLedger, TLAPS

(* What a chain is after a block was appended to it. *)
LEMMA AppendFacts ==
  ASSUME NEW S, NEW c \in Seq(S), NEW b
  PROVE  /\ Append(c, b) \in Seq(S \cup {b})
         /\ Len(c) \in Nat /\ DOMAIN c = 1 .. Len(c)
         /\ Len(Append(c, b)) = Len(c) + 1
         /\ DOMAIN Append(c, b) = 1 .. Len(c) + 1
         /\ Append(c, b)[Len(c) + 1] = b
         /\ \A i \in 1 .. Len(c) : Append(c, b)[i] = c[i]
<1>1. c \in Seq(S \cup {b}) /\ b \in S \cup {b}  OBVIOUS
<1>2. QED  BY <1>1

(* What Executes says of its transaction and its outcome. *)
LEMMA ExecutesType ==
  ASSUME NEW r \in Replica, NEW w \in World, NEW t, Executes(r, w, t)
  PROVE  /\ t \in Signed /\ t \in LedgerTransaction
         /\ Execution(r, w, t) \in Ran
         /\ t.nonce = w.nonce[t.from]
<1>1. t \in LedgerTransaction  BY GenesisAssumption DEF Executes, Verifies
<1>2. w.data \in Data /\ t.entity_id \in EntityId /\ t.action \in Action
  BY <1>1 DEF World, LedgerTransaction
<1>3. Execution(r, w, t) \in Ran \cup {Failure}
  BY <1>2, OutcomeAssumption DEF Execution
<1>4. QED  BY <1>1, <1>3 DEF Executes, Verifies

(* The events of a command: at least two, numbered on from the last one,   *)
(* and the transaction in the last.                                        *)
LEMMA NewEventsType ==
  ASSUME NEW r \in Replica, NEW w \in World, NEW t, Executes(r, w, t)
  PROVE  /\ NewEvents(r, w, t) \in Seq(Event)
         /\ Len(NewEvents(r, w, t)) = Execution(r, w, t).events + 2
         /\ Len(NewEvents(r, w, t)) \in Nat \ {0, 1}
         /\ NewEvents(r, w, t)[Len(NewEvents(r, w, t))].tx = <<t>>
<1> DEFINE n == Execution(r, w, t).events + 2
           ev == [i \in 1 .. n |-> [id |-> w.next_event_id + i - 1,
                                    tx |-> IF i = n THEN <<t>> ELSE <<>>]]
<1>1. n \in Nat \ {0, 1}  BY ExecutesType DEF Ran
<1>2. w.next_event_id \in Nat \ {0}  BY DEF World
<1>3. <<t>> \in Seq(Signed) /\ <<>> \in Seq(Signed)  BY ExecutesType
<1>4. ev \in [1 .. n -> Event]
  <2> SUFFICES ASSUME NEW i \in 1 .. n
               PROVE  [id |-> w.next_event_id + i - 1,
                       tx |-> IF i = n THEN <<t>> ELSE <<>>] \in Event
    OBVIOUS
  <2>1. w.next_event_id + i - 1 \in Nat \ {0}  BY <1>1, <1>2
  <2>2. QED  BY <1>3, <2>1 DEF Event
<1>5. NewEvents(r, w, t) = ev  BY DEF NewEvents
<1>6. ev[n].tx = <<t>>  BY <1>1
<1> HIDE DEF n, ev
<1>7. ev \in Seq(Event) /\ Len(ev) = n  BY <1>1, <1>4
<1>8. QED  BY <1>1, <1>5, <1>6, <1>7 DEF n

(* A transaction that is executed leaves a typed world. *)
LEMMA PostStateType ==
  ASSUME NEW r \in Replica, NEW w \in World, NEW t, Executes(r, w, t)
  PROVE  /\ PostState(r, w, t) \in World
         /\ Encodable(PostState(r, w, t))
<1> DEFINE ran == Execution(r, w, t)
<1>1. /\ ran \in Ran /\ t.from \in Account
      /\ w.nonce \in [Account -> Nat] /\ w.head \in Nat /\ w.next_event_id \in Nat \ {0}
      /\ w.events \in Seq(Event)
  BY ExecutesType DEF World, LedgerTransaction
<1>2. [w.nonce EXCEPT ![t.from] = @ + 1] \in [Account -> Nat]  BY <1>1
<1>3. w.head + ran.heads + 1 \in Nat /\ w.next_event_id + ran.events + 2 \in Nat \ {0}
  BY <1>1 DEF Ran
<1>4. w.events \o NewEvents(r, w, t) \in Seq(Event)  BY <1>1, NewEventsType
<1>5. ran.data \in Data  BY <1>1 DEF Ran
<1>6. PostState(r, w, t) \in World  BY <1>2, <1>3, <1>4, <1>5 DEF PostState, World
<1>7. QED  BY <1>6 DEF Executes

----------------------------------------------------------------------------
(* The only way to publish: the block this instance computes itself. *)

Published(r, t) ==
  /\ Executes(r, world[r], t)
  /\ world' = [world EXCEPT ![r] = PostState(r, world[r], t)]
  /\ tip' = [tip EXCEPT ![r] = Candidate(r, world[r], tip[r], t).header]
  /\ blocks' = [blocks EXCEPT ![r] = Append(@, Candidate(r, world[r], tip[r], t))]

(* A step publishes one computed block at one instance or leaves all       *)
(* instances as they are.                                                  *)
LEMMA StepPublishes ==
  ASSUME [Next]_vars
  PROVE  \/ \E r \in Replica : \E t : Published(r, t)
         \/ UNCHANGED <<world, tip, blocks>>
<1>1. CASE UNCHANGED vars  BY <1>1 DEF vars
<1>2. ASSUME NEW r \in Replica, NEW t \in Submitted, Propose(r, t) \/ SubmitKnown(r, t)
      PROVE  UNCHANGED <<world, tip, blocks>>
  BY <1>2 DEF Propose, SubmitKnown
<1>3. ASSUME NEW r \in Replica, NEW b, Accepts(r, b), Publish(r, b)
      PROVE  \E t : Published(r, t)
  <2>1. Published(r, b.transactions[1])
    BY <1>3 DEF Accepts, Publish, Published
  <2>2. QED  BY <2>1
<1>4. ASSUME NEW r \in Replica, NEW t \in Submitted, SubmitNew(r, t)
      PROVE  \E u : Published(r, u)
  BY <1>3, <1>4 DEF SubmitNew
<1>5. ASSUME NEW r \in Replica, NEW b \in Offered, Apply(r, b)
      PROVE  \E u : Published(r, u)
  BY <1>3, <1>5 DEF Apply
<1>6. QED  BY <1>1, <1>2, <1>4, <1>5 DEF Next

----------------------------------------------------------------------------
(* The inductive invariant: the chains are replays, and typed. *)

ChainInv ==
  /\ world \in [Replica -> World]
  /\ tip = [r \in Replica |-> tip[r]]
  /\ blocks = [r \in Replica |-> blocks[r]]
  /\ \A r \in Replica :
       /\ \E S : blocks[r] \in Seq(S)
       /\ blocks[r] # <<>>
       /\ Encodable(world[r])
       /\ \A i \in DOMAIN blocks[r] : blocks[r][i].header.height = i - 1
  /\ ChainReplays

(* The genesis world is typed, and fits the encoding. *)
LEMMA GenesisType == Genesis \in World /\ Encodable(Genesis)
<1>1. <<>> \in Seq(Event) /\ [a \in Account |-> 0] \in [Account -> Nat]  OBVIOUS
<1>2. Genesis \in World  BY <1>1, GenesisAssumption, LimitAssumption DEF Genesis, World
<1>3. QED  BY <1>2, LimitAssumption DEF Encodable, Genesis

(* The parts of a replayed chain that the instance keeps in a state that   *)
(* satisfies the invariant.                                                *)
LEMMA ChainEnd ==
  ASSUME ChainInv, NEW r \in Replica
  PROVE  /\ Len(blocks[r]) \in Nat \ {0} /\ DOMAIN blocks[r] = 1 .. Len(blocks[r])
         /\ tip[r] = blocks[r][Len(blocks[r])].header
         /\ tip[r].height = Len(blocks[r]) - 1
         /\ world[r] = tip[r].post_state_digest /\ world[r] \in World
<1>1. PICK S : blocks[r] \in Seq(S)  BY DEF ChainInv
<1>2. Len(blocks[r]) \in Nat \ {0} /\ DOMAIN blocks[r] = 1 .. Len(blocks[r])
  BY <1>1 DEF ChainInv
<1>3. QED  BY <1>2 DEF ChainInv, ChainReplays

(* A block appended to one chain, as a change of all chains. *)
LEMMA PublishedChains ==
  ASSUME ChainInv, NEW r \in Replica, NEW t, Published(r, t)
  PROVE  LET n == Len(blocks[r])
             b == Candidate(r, world[r], tip[r], t)
         IN /\ Len(blocks'[r]) = n + 1 /\ DOMAIN blocks'[r] = 1 .. n + 1
            /\ \E S : blocks'[r] \in Seq(S)
            /\ blocks'[r][n + 1] = b
            /\ \A i \in 1 .. n : blocks'[r][i] = blocks[r][i]
            /\ tip'[r] = b.header
            /\ world'[r] = PostState(r, world[r], t) /\ world'[r] \in World /\ Encodable(world'[r])
            /\ \A s \in Replica \ {r} :
                 blocks'[s] = blocks[s] /\ tip'[s] = tip[s] /\ world'[s] = world[s]
<1> DEFINE b == Candidate(r, world[r], tip[r], t)
<1>1. PICK S : blocks[r] \in Seq(S)  BY DEF ChainInv
<1>2. blocks'[r] = Append(blocks[r], b)  BY DEF Published, ChainInv
<1>3. tip'[r] = b.header /\ world'[r] = PostState(r, world[r], t)  BY DEF Published, ChainInv
<1>4. world[r] \in World /\ Executes(r, world[r], t)  BY DEF Published, ChainInv
<1>5. world'[r] \in World /\ Encodable(world'[r])  BY <1>3, <1>4, PostStateType
<1>6. \A s \in Replica \ {r} :
        blocks'[s] = blocks[s] /\ tip'[s] = tip[s] /\ world'[s] = world[s]
  BY DEF Published, ChainInv
<1> HIDE DEF b
<1>7. /\ Len(blocks'[r]) = Len(blocks[r]) + 1 /\ DOMAIN blocks'[r] = 1 .. Len(blocks[r]) + 1
      /\ blocks'[r] \in Seq(S \cup {b})
      /\ blocks'[r][Len(blocks[r]) + 1] = b
      /\ \A i \in 1 .. Len(blocks[r]) : blocks'[r][i] = blocks[r][i]
  BY <1>1, <1>2, AppendFacts
<1>8. QED  BY <1>3, <1>5, <1>6, <1>7 DEF b

(* Publishing keeps the invariant. *)
LEMMA PublishedKeepsChain ==
  ASSUME ChainInv, NEW r \in Replica, NEW t, Published(r, t)
  PROVE  ChainInv'
<1> DEFINE n == Len(blocks[r])
           b == Candidate(r, world[r], tip[r], t)
<1>1. /\ n \in Nat \ {0} /\ DOMAIN blocks[r] = 1 .. n
      /\ tip[r] = blocks[r][n].header /\ tip[r].height = n - 1
      /\ world[r] = tip[r].post_state_digest
  BY ChainEnd
<1>2. /\ Len(blocks'[r]) = n + 1 /\ DOMAIN blocks'[r] = 1 .. n + 1
      /\ \E S : blocks'[r] \in Seq(S)
      /\ blocks'[r][n + 1] = b
      /\ \A i \in 1 .. n : blocks'[r][i] = blocks[r][i]
      /\ tip'[r] = b.header
      /\ world'[r] = PostState(r, world[r], t) /\ world'[r] \in World /\ Encodable(world'[r])
      /\ \A s \in Replica \ {r} :
           blocks'[s] = blocks[s] /\ tip'[s] = tip[s] /\ world'[s] = world[s]
  BY PublishedChains
<1>3. b.header.height = n /\ b.header.post_state_digest = PostState(r, world[r], t)
  BY <1>1 DEF Candidate
<1>4. b.transactions[1] = t  BY DEF Candidate
<1>5. Executes(r, world[r], t)  BY DEF Published
<1>6. b = Candidate(r, tip[r].post_state_digest, tip[r], t)  BY <1>1
<1> HIDE DEF n, b
<1>7. /\ world' \in [Replica -> World]
      /\ tip' = [s \in Replica |-> tip'[s]] /\ blocks' = [s \in Replica |-> blocks'[s]]
  <2>1. world' \in [Replica -> World]
    <3>1. DOMAIN world' = Replica /\ world' = [s \in Replica |-> world'[s]]
      BY DEF Published, ChainInv
    <3>2. \A s \in Replica : world'[s] \in World  BY <1>2 DEF ChainInv
    <3>3. QED  BY <3>1, <3>2
  <2>2. QED  BY <2>1 DEF Published, ChainInv
<1>8. ASSUME NEW s \in Replica
      PROVE  /\ \E S : blocks'[s] \in Seq(S)
             /\ blocks'[s] # <<>>
             /\ Encodable(world[s])'
             /\ \A i \in DOMAIN blocks'[s] : blocks'[s][i].header.height = i - 1
  <2>1. CASE s = r
    <3>1. \A i \in 1 .. n : blocks'[r][i].header.height = i - 1
      <4>1. \A i \in 1 .. n : blocks[r][i].header.height = i - 1  BY <1>1 DEF ChainInv
      <4>2. QED  BY <1>2, <4>1
    <3>2. \A i \in DOMAIN blocks'[r] : blocks'[r][i].header.height = i - 1
      BY <1>1, <1>2, <1>3, <3>1
    <3>3. Encodable(world[r])'  BY <1>2 DEF Encodable
    <3>4. blocks'[r] # <<>>  BY <1>1, <1>2
    <3>5. QED  BY <1>2, <2>1, <3>2, <3>3, <3>4
  <2>2. CASE s # r  BY <1>2, <2>2 DEF ChainInv, Encodable
  <2>3. QED  BY <2>1, <2>2
<1>9. ChainReplays'
  <2> SUFFICES ASSUME NEW s \in Replica
      PROVE  /\ blocks'[s][1] = GenesisBlock
             /\ \A i \in 2 .. Len(blocks'[s]) :
                  LET parent == blocks'[s][i - 1].header
                      u == blocks'[s][i].transactions[1]
                  IN /\ Executes(s, parent.post_state_digest, u)
                     /\ blocks'[s][i] = Candidate(s, parent.post_state_digest, parent, u)
             /\ tip'[s] = blocks'[s][Len(blocks'[s])].header
             /\ world'[s] = tip'[s].post_state_digest
    BY DEF ChainReplays
  <2>1. CASE s # r  BY <1>2, <2>1, SMTT(30) DEF ChainInv, ChainReplays
  <2>2. CASE s = r
    <3>1. blocks'[r][1] = GenesisBlock
      BY <1>1, <1>2, SMTT(30) DEF ChainInv, ChainReplays
    <3>2. ASSUME NEW i \in 2 .. Len(blocks'[r])
          PROVE  LET parent == blocks'[r][i - 1].header
                     u == blocks'[r][i].transactions[1]
                 IN /\ Executes(r, parent.post_state_digest, u)
                    /\ blocks'[r][i] = Candidate(r, parent.post_state_digest, parent, u)
      <4>1. CASE i = n + 1
        <5>1. blocks'[r][i - 1] = blocks[r][n]  BY <1>1, <1>2, <4>1
        <5>2. blocks'[r][i - 1].header = tip[r]  BY <1>1, <5>1
        <5>3. blocks'[r][i] = b  BY <1>2, <4>1
        <5>4. QED  BY <1>1, <1>4, <1>5, <1>6, <5>2, <5>3
      <4>2. CASE i \in 2 .. n
        <5>1. blocks'[r][i - 1] = blocks[r][i - 1] /\ blocks'[r][i] = blocks[r][i]
          BY <1>1, <1>2, <4>2
        <5>2. QED  BY <1>1, <4>2, <5>1 DEF ChainInv, ChainReplays, n
      <4>3. QED  BY <1>1, <1>2, <4>1, <4>2
    <3>3. tip'[r] = blocks'[r][Len(blocks'[r])].header  BY <1>1, <1>2
    <3>4. world'[r] = tip'[r].post_state_digest  BY <1>2, <1>3
    <3>5. QED  BY <2>2, <3>1, <3>2, <3>3, <3>4
  <2>3. QED  BY <2>1, <2>2
<1>10. QED  BY <1>7, <1>8, <1>9 DEF ChainInv

(* The invariant holds initially. *)
LEMMA InitChain == Init => ChainInv
<1> SUFFICES ASSUME Init  PROVE ChainInv  OBVIOUS
<1>1. \A r \in Replica : blocks[r] = <<GenesisBlock>> /\ tip[r] = GenesisHeader /\ world[r] = Genesis
  BY DEF Init
<1>2. <<GenesisBlock>> \in Seq({GenesisBlock})  OBVIOUS
<1>3. world \in [Replica -> World]  BY GenesisType DEF Init
<1>4. GenesisBlock.header = GenesisHeader /\ GenesisHeader.height = 0
      /\ GenesisHeader.post_state_digest = Genesis
  BY DEF GenesisBlock, GenesisHeader
<1>5. ChainReplays
  <2>1. Len(<<GenesisBlock>>) = 1 /\ <<GenesisBlock>>[1] = GenesisBlock  OBVIOUS
  <2>2. QED  BY <1>1, <1>4, <2>1 DEF ChainReplays
<1>6. \A r \in Replica :
        /\ \E S : blocks[r] \in Seq(S)
        /\ blocks[r] # <<>>
        /\ Encodable(world[r])
        /\ \A i \in DOMAIN blocks[r] : blocks[r][i].header.height = i - 1
  <2> SUFFICES ASSUME NEW r \in Replica
               PROVE  /\ \E S : blocks[r] \in Seq(S)
                      /\ blocks[r] # <<>>
                      /\ Encodable(world[r])
                      /\ \A i \in DOMAIN blocks[r] : blocks[r][i].header.height = i - 1
    OBVIOUS
  <2>1. <<GenesisBlock>> # <<>> /\ DOMAIN <<GenesisBlock>> = {1}
        /\ <<GenesisBlock>>[1].header.height = 1 - 1
    BY <1>4
  <2>2. Encodable(world[r])  BY <1>1, GenesisType
  <2>3. \E S : blocks[r] \in Seq(S)  BY <1>1, <1>2
  <2>4. QED  BY <1>1, <2>1, <2>2, <2>3
<1>7. tip = [r \in Replica |-> tip[r]] /\ blocks = [r \in Replica |-> blocks[r]]  BY DEF Init
<1>8. QED  BY <1>3, <1>5, <1>6, <1>7 DEF ChainInv

(* ChainInv is inductive. *)
LEMMA ChainInvHolds == Spec => []ChainInv
<1>1. Init => ChainInv  BY InitChain
<1>2. ChainInv /\ [Next]_vars => ChainInv'
  <2> SUFFICES ASSUME ChainInv, [Next]_vars  PROVE ChainInv'  OBVIOUS
  <2>1. CASE \E r \in Replica : \E t : Published(r, t)  BY <2>1, PublishedKeepsChain
  <2>2. CASE UNCHANGED <<world, tip, blocks>>
    BY <2>2 DEF ChainInv, ChainReplays, Encodable
  <2>3. QED  BY <2>1, <2>2, StepPublishes
<1>3. QED  BY <1>1, <1>2, PTL DEF Spec

(* Every chain is a replay of the genesis world by its own instance, and   *)
(* the published world is where the replay ends.                           *)
THEOREM ChainAlwaysReplays == Spec => []ChainReplays
<1>1. ChainInv => ChainReplays  BY DEF ChainInv
<1>2. QED  BY <1>1, ChainInvHolds, PTL

(* What an instance publishes has its type and fits the encoding.          *)
THEOREM LedgerTypeCorrect == Spec => []TypeOK
<1> DEFINE AnsweredTyped == DOMAIN answered = Replica
<1>1. Init => AnsweredTyped  BY DEF Init
<1>2. AnsweredTyped /\ [Next]_vars => AnsweredTyped'
  BY DEF Next, Propose, SubmitKnown, SubmitNew, Apply, vars
<1>3. ChainInv /\ AnsweredTyped => TypeOK
  <2> SUFFICES ASSUME ChainInv, AnsweredTyped  PROVE TypeOK  OBVIOUS
  <2>1. DOMAIN tip = Replica /\ DOMAIN blocks = Replica  BY DEF ChainInv
  <2>2. QED  BY <2>1 DEF ChainInv, TypeOK
<1>4. QED  BY <1>1, <1>2, <1>3, ChainInvHolds, PTL DEF Spec

----------------------------------------------------------------------------
(* Equal hashes mean equal ledgers. *)

(* A computed block is determined by its header. *)
LEMMA HeaderDetermines ==
  ASSUME NEW r, NEW w, NEW h, NEW t, NEW s, NEW v, NEW g, NEW u,
         Candidate(r, w, h, t).header = Candidate(s, v, g, u).header
  PROVE  /\ Candidate(r, w, h, t) = Candidate(s, v, g, u)
         /\ h = g
<1>1. /\ Candidate(r, w, h, t).header.transactions_digest = <<t>>
      /\ Candidate(r, w, h, t).header.results_digest = Results(r, w, t)
      /\ Candidate(r, w, h, t).header.parent_hash = h
      /\ Candidate(s, v, g, u).header.transactions_digest = <<u>>
      /\ Candidate(s, v, g, u).header.results_digest = Results(s, v, u)
      /\ Candidate(s, v, g, u).header.parent_hash = g
  BY DEF Candidate
<1>2. <<t>> = <<u>> /\ Results(r, w, t) = Results(s, v, u) /\ h = g  BY <1>1
<1>3. Candidate(r, w, h, t) = [header |-> Candidate(r, w, h, t).header,
                               transactions |-> <<t>>, execution_results |-> Results(r, w, t)]
  BY DEF Candidate
<1>4. Candidate(s, v, g, u) = [header |-> Candidate(s, v, g, u).header,
                               transactions |-> <<u>>, execution_results |-> Results(s, v, u)]
  BY DEF Candidate
<1>5. QED  BY <1>2, <1>3, <1>4

(* The first part of SameTipSameLedger, for two instances. *)
Agree(r, s) ==
  \A i \in DOMAIN blocks[r], j \in DOMAIN blocks[s] :
    blocks[r][i].header = blocks[s][j].header =>
      i = j /\ \A k \in 1 .. i : blocks[r][k] = blocks[s][k]

(* It is symmetric. *)
LEMMA AgreeSymmetric ==
  ASSUME NEW r \in Replica, NEW s \in Replica, Agree(r, s)  PROVE Agree(s, r)
BY DEF Agree

(* An instance that publishes still agrees with each other one. *)
LEMMA PublishedAgrees ==
  ASSUME ChainInv, ChainInv', NEW r \in Replica, NEW t, Published(r, t),
         NEW s \in Replica, s # r, Agree(r, s)
  PROVE  Agree(r, s)'
<1> DEFINE n == Len(blocks[r])
           b == Candidate(r, world[r], tip[r], t)
<1>1. /\ n \in Nat \ {0} /\ DOMAIN blocks[r] = 1 .. n /\ tip[r] = blocks[r][n].header
      /\ Len(blocks[s]) \in Nat \ {0} /\ DOMAIN blocks[s] = 1 .. Len(blocks[s])
  BY ChainEnd
<1>2. /\ DOMAIN blocks'[r] = 1 .. n + 1 /\ blocks'[r][n + 1] = b
      /\ \A i \in 1 .. n : blocks'[r][i] = blocks[r][i]
      /\ blocks'[s] = blocks[s]
  BY PublishedChains
<1>3. SUFFICES ASSUME NEW i \in DOMAIN blocks'[r], NEW j \in DOMAIN blocks'[s],
                      blocks'[r][i].header = blocks'[s][j].header
               PROVE  i = j /\ \A k \in 1 .. i : blocks'[r][k] = blocks'[s][k]
  BY DEF Agree
<1>4. i \in 1 .. n + 1 /\ j \in DOMAIN blocks[s] /\ j \in Nat \ {0}  BY <1>1, <1>2
<1>5. i - 1 = j - 1
  <2>1. blocks'[r][i].header.height = i - 1  BY DEF ChainInv
  <2>2. blocks'[s][j].header.height = j - 1  BY DEF ChainInv
  <2>3. QED  BY <1>3, <2>1, <2>2
<1>6. i = j  BY <1>4, <1>5
<1>7. CASE i \in 1 .. n
  <2>1. blocks[r][i].header = blocks[s][j].header  BY <1>2, <1>3, <1>7
  <2>2. \A k \in 1 .. i : blocks[r][k] = blocks[s][k]  BY <1>1, <1>4, <1>7, <2>1 DEF Agree
  <2>3. QED  BY <1>1, <1>2, <1>6, <1>7, <2>2
<1>8. CASE i = n + 1
  <2>1. j \in 2 .. Len(blocks[s]) /\ j - 1 = n  BY <1>1, <1>4, <1>6, <1>8
  <2> DEFINE g == blocks[s][j - 1].header
             v == g.post_state_digest
             u == blocks[s][j].transactions[1]
  <2>2. blocks[s][j] = Candidate(s, v, g, u)
    BY <2>1 DEF ChainInv, ChainReplays
  <2>3. b.header = Candidate(s, v, g, u).header  BY <1>2, <1>3, <1>8, <2>2
  <2>4. b = blocks[s][j] /\ tip[r] = g  BY <2>2, <2>3, HeaderDetermines
  <2>5. blocks[r][n].header = blocks[s][n].header  BY <1>1, <2>1, <2>4
  <2>6. n \in DOMAIN blocks[r] /\ n \in DOMAIN blocks[s]  BY <1>1, <2>1
  <2>7. \A k \in 1 .. n : blocks[r][k] = blocks[s][k]  BY <2>5, <2>6 DEF Agree
  <2> HIDE DEF n, b
  <2>8. \A k \in 1 .. n + 1 : blocks'[r][k] = blocks'[s][k]
    <3>1. ASSUME NEW k \in 1 .. n + 1  PROVE blocks'[r][k] = blocks'[s][k]
      <4>1. CASE k \in 1 .. n  BY <1>2, <2>7, <4>1
      <4>2. CASE k = n + 1  BY <1>2, <1>6, <1>8, <2>4, <4>2
      <4>3. QED  BY <1>1, <4>1, <4>2
    <3>2. QED  BY <3>1
  <2>9. QED  BY <1>6, <1>8, <2>8
<1>9. QED  BY <1>1, <1>4, <1>7, <1>8

(* Two instances with a block hash in common have the same blocks up to    *)
(* it, and with the same tip the same world, even if they do not compute   *)
(* the same everywhere.                                                    *)
THEOREM SameTipAlwaysSameLedger == Spec => []SameTipSameLedger
<1> DEFINE Agreement == \A r, s \in Replica : Agree(r, s)
<1>1. Init => Agreement
  <2> SUFFICES ASSUME Init, NEW r \in Replica, NEW s \in Replica  PROVE Agree(r, s)
    OBVIOUS
  <2>1. blocks[r] = <<GenesisBlock>> /\ blocks[s] = <<GenesisBlock>>  BY DEF Init
  <2>2. DOMAIN <<GenesisBlock>> = {1}  OBVIOUS
  <2>3. QED  BY <2>1, <2>2 DEF Agree
<1>2. ChainInv /\ ChainInv' /\ Agreement /\ [Next]_vars => Agreement'
  <2> SUFFICES ASSUME ChainInv, ChainInv', Agreement, [Next]_vars,
                      NEW r \in Replica, NEW s \in Replica
               PROVE  Agree(r, s)'
    OBVIOUS
  <2>1. CASE UNCHANGED <<world, tip, blocks>>  BY <2>1 DEF Agree
  <2>2. CASE r = s
    <3>1. \A i, j \in DOMAIN blocks'[r] : i \in Nat /\ j \in Nat
      BY <2>2, ChainEnd DEF ChainInv
    <3>2. \A i, j \in DOMAIN blocks'[r] :
            blocks'[r][i].header = blocks'[r][j].header => i - 1 = j - 1
      BY DEF ChainInv
    <3>3. QED  BY <2>2, <3>1, <3>2 DEF Agree
  <2>3. ASSUME NEW p \in Replica, NEW t, Published(p, t), r # s  PROVE Agree(r, s)'
    <3>1. CASE p = r  BY <2>3, <3>1, PublishedAgrees
    <3>2. CASE p = s
      <4>1. Agree(s, r)  OBVIOUS
      <4>2. Agree(s, r)'  BY <2>3, <3>2, <4>1, PublishedAgrees
      <4>3. QED  BY <4>2 DEF Agree
    <3>3. CASE p # r /\ p # s
      <4>1. blocks'[r] = blocks[r] /\ blocks'[s] = blocks[s]
        BY <2>3, <3>3, PublishedChains
      <4>2. QED  BY <4>1 DEF Agree
    <3>4. QED  BY <3>1, <3>2, <3>3
  <2>4. QED  BY <2>1, <2>2, <2>3, StepPublishes
<1>3. ChainInv /\ Agreement => SameTipSameLedger
  <2> SUFFICES ASSUME ChainInv, Agreement, NEW r \in Replica, NEW s \in Replica
               PROVE  Agree(r, s) /\ (tip[r] = tip[s] => world[r] = world[s])
    BY DEF Agree, SameTipSameLedger
  <2>1. Agree(r, s)  OBVIOUS
  <2>2. world[r] = tip[r].post_state_digest /\ world[s] = tip[s].post_state_digest
    BY ChainEnd
  <2>3. QED  BY <2>1, <2>2
<1>4. QED  BY <1>1, <1>2, <1>3, ChainInvHolds, PTL DEF Spec

----------------------------------------------------------------------------
(* Submission is idempotent. *)

(* What a replayed block says of itself. *)
LEMMA ReplayedBlock ==
  ASSUME ChainInv, NEW r \in Replica, NEW i \in 2 .. Len(blocks[r])
  PROVE  /\ blocks[r][i].transactions[1] \in Signed
         /\ blocks[r][i].transactions = <<blocks[r][i].transactions[1]>>
         /\ blocks[r][i].execution_results[1].tx_id = blocks[r][i].transactions[1]
<1> DEFINE g == blocks[r][i - 1].header
           v == g.post_state_digest
           u == blocks[r][i].transactions[1]
<1>1. Executes(r, v, u) /\ blocks[r][i] = Candidate(r, v, g, u)
  BY SMTT(30) DEF ChainInv, ChainReplays
<1>2. u \in Signed  BY <1>1 DEF Executes, Verifies
<1>3. blocks[r][i].transactions = <<u>> /\ blocks[r][i].execution_results = Results(r, v, u)
  BY <1>1 DEF Candidate
<1>4. Results(r, v, u)[1].tx_id = u  BY DEF Results
<1>5. QED  BY <1>2, <1>3, <1>4

(* The nonce of a published transaction is used up, and no two blocks of a *)
(* chain hold the same transaction.                                        *)
NoncesSpent ==
  \A r \in Replica :
    \A i \in 2 .. Len(blocks[r]) :
      LET t == blocks[r][i].transactions[1]
      IN /\ t.nonce < world[r].nonce[t.from]
         /\ \A j \in 2 .. Len(blocks[r]) : blocks[r][j].transactions[1] = t => i = j

(* What submit answered is in the chain. *)
AnsweredPublished ==
  \A r \in Replica : \A p \in answered[r] :
    /\ p = <<p[1], p[2]>>
    /\ p[2].transactions = <<p[1]>>
    /\ \E i \in 2 .. Len(blocks[r]) : blocks[r][i] = p[2]

(* A nonce is spent when its transaction is published. *)
LEMMA PublishedSpends ==
  ASSUME ChainInv, NoncesSpent, NEW r \in Replica, NEW t, Published(r, t)
  PROVE  NoncesSpent'
<1> DEFINE n == Len(blocks[r])
           b == Candidate(r, world[r], tip[r], t)
<1>1. n \in Nat \ {0} /\ world[r] \in World  BY ChainEnd
<1>2. /\ Len(blocks'[r]) = n + 1 /\ blocks'[r][n + 1] = b
      /\ \A i \in 1 .. n : blocks'[r][i] = blocks[r][i]
      /\ world'[r] = PostState(r, world[r], t)
      /\ \A s \in Replica \ {r} : blocks'[s] = blocks[s] /\ world'[s] = world[s]
  BY PublishedChains
<1>3. /\ t \in Signed /\ t \in LedgerTransaction /\ t.nonce = world[r].nonce[t.from]
  BY <1>1, ExecutesType DEF Published
<1>4. world'[r].nonce = [world[r].nonce EXCEPT ![t.from] = @ + 1]  BY <1>2 DEF PostState
<1>5. t.from \in Account /\ world[r].nonce \in [Account -> Nat]
  BY <1>1, <1>3 DEF LedgerTransaction, World
<1>6. b.transactions[1] = t  BY DEF Candidate
<1>7. \A i \in 2 .. n : blocks[r][i].transactions[1] \in Signed
  BY ReplayedBlock
<1>8. \A u \in Signed : u.from \in Account /\ u.nonce \in Nat
  BY GenesisAssumption DEF LedgerTransaction
<1> HIDE DEF n, b
<1>9. ASSUME NEW i \in 2 .. n
      PROVE  LET u == blocks[r][i].transactions[1]
             IN u.nonce < world'[r].nonce[u.from] /\ u # t
  <2> DEFINE u == blocks[r][i].transactions[1]
  <2>1. u \in Signed /\ u.from \in Account /\ u.nonce \in Nat  BY <1>7, <1>8
  <2>2. u.nonce < world[r].nonce[u.from]  BY DEF NoncesSpent, n
  <2> HIDE DEF u
  <2>3. u # t  BY <1>3, <1>5, <2>1, <2>2
  <2>4. u.nonce < world'[r].nonce[u.from]  BY <1>4, <1>5, <2>1, <2>2
  <2>5. QED  BY <2>3, <2>4 DEF u
<1>10. SUFFICES ASSUME NEW s \in Replica, NEW i \in 2 .. Len(blocks'[s])
       PROVE  LET u == blocks'[s][i].transactions[1]
              IN /\ u.nonce < world'[s].nonce[u.from]
                 /\ \A j \in 2 .. Len(blocks'[s]) : blocks'[s][j].transactions[1] = u => i = j
  BY DEF NoncesSpent
<1>11. CASE s # r  BY <1>2, <1>11 DEF NoncesSpent
<1>12. CASE s = r /\ i \in 2 .. n
  <2>1. blocks'[r][i] = blocks[r][i]  BY <1>1, <1>2, <1>12
  <2>2. ASSUME NEW j \in 2 .. n + 1,
               blocks'[r][j].transactions[1] = blocks[r][i].transactions[1]
        PROVE  i = j
    <3>1. CASE j = n + 1  BY <1>2, <1>6, <1>9, <1>12, <2>2, <3>1
    <3>2. CASE j \in 2 .. n
      <4>1. blocks'[r][j] = blocks[r][j]  BY <1>1, <1>2, <3>2
      <4>2. QED  BY <1>12, <2>2, <3>2, <4>1 DEF NoncesSpent, n
    <3>3. QED  BY <1>1, <2>2, <3>1, <3>2
  <2>3. QED  BY <1>2, <1>9, <1>12, <2>1, <2>2
<1>13. CASE s = r /\ i = n + 1
  <2>1. blocks'[r][i].transactions[1] = t  BY <1>2, <1>6, <1>13
  <2>2. t.nonce < world'[r].nonce[t.from]  BY <1>3, <1>4, <1>5
  <2>3. ASSUME NEW j \in 2 .. n + 1, blocks'[r][j].transactions[1] = t  PROVE i = j
    <3>1. CASE j \in 2 .. n
      <4>1. blocks'[r][j] = blocks[r][j]  BY <1>1, <1>2, <3>1
      <4>2. QED  BY <1>9, <2>3, <3>1, <4>1
    <3>2. QED  BY <1>1, <1>13, <3>1
  <2>4. QED  BY <1>2, <1>13, <2>1, <2>2, <2>3
<1>14. QED  BY <1>1, <1>2, <1>10, <1>11, <1>12, <1>13

(* An answer of submit is a block of the chain, now and after any step. *)
LEMMA AnswersStayPublished ==
  ASSUME ChainInv, ChainInv', NoncesSpent, AnsweredPublished,
         DOMAIN answered = Replica, [Next]_vars
  PROVE  AnsweredPublished'
<1>1. ASSUME NEW r \in Replica, NEW b, NEW i \in 2 .. Len(blocks[r]), blocks[r][i] = b
      PROVE  \E j \in 2 .. Len(blocks'[r]) : blocks'[r][j] = b
  <2>1. CASE UNCHANGED <<world, tip, blocks>>  BY <1>1, <2>1
  <2>2. ASSUME NEW p \in Replica, NEW t, Published(p, t)
        PROVE  i \in 2 .. Len(blocks'[r]) /\ blocks'[r][i] = b
    <3>1. CASE p = r
      <4>1. i \in 1 .. Len(blocks[r])  BY ChainEnd
      <4>2. Len(blocks'[r]) = Len(blocks[r]) + 1 /\ blocks'[r][i] = blocks[r][i]
        BY <2>2, <3>1, <4>1, PublishedChains
      <4>3. QED  BY <1>1, <4>2, ChainEnd
    <3>2. CASE p # r  BY <1>1, <2>2, <3>2, PublishedChains
    <3>3. QED  BY <3>1, <3>2
  <2>3. QED  BY <2>1, <2>2, StepPublishes
<1>2. SUFFICES ASSUME NEW r \in Replica, NEW p \in answered'[r]
      PROVE  /\ p = <<p[1], p[2]>>
             /\ p[2].transactions = <<p[1]>>
             /\ \E i \in 2 .. Len(blocks'[r]) : blocks'[r][i] = p[2]
  BY DEF AnsweredPublished
<1>3. CASE p \in answered[r]
  BY <1>1, <1>3 DEF AnsweredPublished
<1>4. CASE p \notin answered[r]
  <2>1. PICK s \in Replica, t \in Submitted : SubmitKnown(s, t) \/ SubmitNew(s, t)
    BY <1>2, <1>4 DEF Next, Propose, Apply, vars
  <2>2. CASE SubmitKnown(s, t)
    <3> DEFINE k == CHOOSE i \in Known(s, t) : \A j \in Known(s, t) : i <= j
    <3>1. s = r /\ p = <<t, blocks[r][k]>> /\ blocks' = blocks
      BY <1>2, <1>4, <2>2 DEF SubmitKnown
    <3>2. k \in Known(r, t)
      <4>1. PICK i \in Known(r, t) : TRUE  BY <2>2, <3>1 DEF SubmitKnown
      <4>2. \A j \in Known(r, t) :
              j \in 2 .. Len(blocks[r]) /\ blocks[r][j].transactions[1] = t
        BY ReplayedBlock DEF Known
      <4>3. \A j \in Known(r, t) : i = j  BY <4>1, <4>2 DEF NoncesSpent
      <4>4. \A j \in Known(r, t) : i <= j  BY <4>2, <4>3
      <4>5. QED  BY <3>1, <4>1, <4>4
    <3> HIDE DEF k
    <3>3. k \in 2 .. Len(blocks[r]) /\ blocks[r][k].execution_results[1].tx_id = t
      BY <3>2 DEF Known
    <3>4. blocks[r][k].transactions = <<t>>  BY <3>3, ReplayedBlock
    <3>5. QED  BY <3>1, <3>3, <3>4
  <2>3. CASE SubmitNew(s, t)
    <3> DEFINE b == Candidate(s, world[s], tip[s], t)
    <3>1. s = r /\ p = <<t, b>> /\ Publish(s, b)
      BY <1>2, <1>4, <2>3 DEF SubmitNew
    <3>2. b.transactions = <<t>>  BY DEF Candidate
    <3>3. blocks'[r] = Append(blocks[r], b)  BY <3>1 DEF Publish, ChainInv
    <3> HIDE DEF b
    <3>4. \E i \in 2 .. Len(blocks'[r]) : blocks'[r][i] = b
      <4>1. PICK S : blocks[r] \in Seq(S)  BY DEF ChainInv
      <4>2. Len(blocks'[r]) = Len(blocks[r]) + 1 /\ blocks'[r][Len(blocks[r]) + 1] = b
        BY <3>3, <4>1, AppendFacts
      <4>3. QED  BY <4>2, ChainEnd
    <3>5. QED  BY <3>1, <3>2, <3>4
  <2>4. QED  BY <2>1, <2>2, <2>3
<1>5. QED  BY <1>3, <1>4

(* However often a transaction is submitted, one block of the chain holds  *)
(* it and every answer is that block.                                      *)
THEOREM SubmitAlwaysIdempotent == Spec => []SubmitIdempotent
<1> DEFINE Inv == NoncesSpent /\ AnsweredPublished /\ DOMAIN answered = Replica
<1>1. Init => Inv
  <2> SUFFICES ASSUME Init  PROVE Inv  OBVIOUS
  <2>1. \A r \in Replica : Len(blocks[r]) = 1 /\ answered[r] = {}  BY DEF Init
  <2>2. DOMAIN answered = Replica  BY DEF Init
  <2>3. QED  BY <2>1, <2>2 DEF NoncesSpent, AnsweredPublished
<1>2. ChainInv /\ ChainInv' /\ Inv /\ [Next]_vars => Inv'
  <2> SUFFICES ASSUME ChainInv, ChainInv', Inv, [Next]_vars  PROVE Inv'  OBVIOUS
  <2>1. NoncesSpent'
    <3>1. CASE UNCHANGED <<world, tip, blocks>>  BY <3>1 DEF NoncesSpent
    <3>2. CASE \E r \in Replica : \E t : Published(r, t)  BY <3>2, PublishedSpends
    <3>3. QED  BY <3>1, <3>2, StepPublishes
  <2>2. AnsweredPublished'  BY AnswersStayPublished
  <2>3. (DOMAIN answered = Replica)'
    BY DEF Next, Propose, SubmitKnown, SubmitNew, Apply, vars
  <2>4. QED  BY <2>1, <2>2, <2>3
<1>3. ChainInv /\ Inv => SubmitIdempotent
  <2> SUFFICES ASSUME ChainInv, Inv, NEW r \in Replica
      PROVE  /\ \A p, q \in answered[r] : p[1] = q[1] => p = q
             /\ \A p \in answered[r] :
                  /\ p[2].transactions = <<p[1]>>
                  /\ \E i \in 2 .. Len(blocks[r]) : blocks[r][i] = p[2]
             /\ \A t \in Submitted : \A i, j \in Known(r, t) : i = j
    BY DEF SubmitIdempotent
  <2>1. ASSUME NEW t \in Submitted, NEW i \in Known(r, t), NEW j \in Known(r, t)
        PROVE  i = j
    <3>1. i \in 2 .. Len(blocks[r]) /\ j \in 2 .. Len(blocks[r])  BY DEF Known
    <3>2. blocks[r][i].transactions[1] = t /\ blocks[r][j].transactions[1] = t
      BY <3>1, ReplayedBlock DEF Known
    <3>3. QED  BY <3>1, <3>2 DEF NoncesSpent
  <2>2. ASSUME NEW p \in answered[r], NEW q \in answered[r], p[1] = q[1]  PROVE p = q
    <3>1. PICK i \in 2 .. Len(blocks[r]) : blocks[r][i] = p[2]  BY DEF AnsweredPublished
    <3>2. PICK j \in 2 .. Len(blocks[r]) : blocks[r][j] = q[2]  BY DEF AnsweredPublished
    <3>3. blocks[r][i].transactions[1] = blocks[r][j].transactions[1]
      BY <2>2, <3>1, <3>2 DEF AnsweredPublished
    <3>4. i = j  BY <3>3 DEF NoncesSpent
    <3>5. p = <<p[1], p[2]>> /\ q = <<q[1], q[2]>>  BY DEF AnsweredPublished
    <3>6. p[2] = q[2]  BY <3>1, <3>2, <3>4
    <3>7. QED  BY <2>2, <3>5, <3>6
  <2>3. QED  BY <2>1, <2>2 DEF AnsweredPublished
<1>4. QED  BY <1>1, <1>2, <1>3, ChainInvHolds, PTL DEF Spec

----------------------------------------------------------------------------
(* The event ranges of the blocks. *)

(* What a log is after events were appended to it. *)
LEMMA ConcatFacts ==
  ASSUME NEW S, NEW c \in Seq(S), NEW d \in Seq(S)
  PROVE  /\ Len(c \o d) = Len(c) + Len(d)
         /\ \A k \in 1 .. Len(c) : (c \o d)[k] = c[k]
         /\ \A k \in Len(c) + 1 .. Len(c \o d) : (c \o d)[k] = d[k - Len(c)]
OBVIOUS

(* A chain with the range of every block, none of them past the events of  *)
(* the world, and the last one at their end.                               *)
Tiled(chain, w) ==
  /\ w.next_event_id = Len(w.events) + 1
  /\ \A i \in 2 .. Len(chain) :
       /\ RangeAt(chain, w, i)
       /\ chain[i].execution_results[1].last_event_id \in 1 .. Len(w.events)
  /\ EndBefore(chain, Len(chain) + 1) = Len(w.events)

(* The event range of a computed block. *)
RangeFacts(r, w, h, t) ==
  LET result == Candidate(r, w, h, t).execution_results[1]
      new == NewEvents(r, w, t)
      ev == PostState(r, w, t).events
  IN /\ Len(w.events) \in Nat /\ Len(new) \in Nat \ {0, 1}
     /\ Len(ev) = Len(w.events) + Len(new)
     /\ PostState(r, w, t).next_event_id = Len(ev) + 1
     /\ result.tx_id = t /\ result.events_digest = new
     /\ result.first_event_id = Len(w.events) + 1
     /\ result.last_event_id = Len(ev)
     /\ \A k \in 1 .. Len(w.events) : ev[k] = w.events[k]
     /\ \A k \in Len(w.events) + 1 .. Len(ev) : ev[k] = new[k - Len(w.events)]
     /\ ev[Len(ev)].tx = <<t>>

(* A computed block's range starts behind the events of the world it was   *)
(* computed on and ends at the new end, with the transaction's own event.  *)
LEMMA CandidateRange ==
  ASSUME NEW r \in Replica, NEW w \in World, NEW h, NEW t, Executes(r, w, t),
         w.next_event_id = Len(w.events) + 1
  PROVE  RangeFacts(r, w, h, t)
<1> DEFINE new == NewEvents(r, w, t)
           ev == PostState(r, w, t).events
           result == Candidate(r, w, h, t).execution_results[1]
<1>1. /\ new \in Seq(Event) /\ Len(new) = Execution(r, w, t).events + 2
      /\ Len(new) \in Nat \ {0, 1} /\ new[Len(new)].tx = <<t>>
  BY NewEventsType
<1>2. w.events \in Seq(Event) /\ Len(w.events) \in Nat  BY DEF World
<1>3. ev = w.events \o new  BY DEF PostState
<1>4. PostState(r, w, t).next_event_id = w.next_event_id + Execution(r, w, t).events + 2
  BY DEF PostState
<1>5. Execution(r, w, t).events \in Nat  BY ExecutesType DEF Ran
<1>6. /\ result.tx_id = t /\ result.events_digest = new
      /\ result.first_event_id = w.next_event_id
      /\ result.last_event_id = w.next_event_id + Len(new) - 1
  BY DEF Candidate, Results
<1> HIDE DEF new, ev, result
<1>7. /\ Len(ev) = Len(w.events) + Len(new)
      /\ \A k \in 1 .. Len(w.events) : ev[k] = w.events[k]
      /\ \A k \in Len(w.events) + 1 .. Len(ev) : ev[k] = new[k - Len(w.events)]
  <2> DEFINE old == w.events
  <2>1. old \in Seq(Event) /\ new \in Seq(Event) /\ ev = old \o new  BY <1>1, <1>2, <1>3
  <2> HIDE DEF old
  <2>2. /\ Len(old \o new) = Len(old) + Len(new)
        /\ \A k \in 1 .. Len(old) : (old \o new)[k] = old[k]
        /\ \A k \in Len(old) + 1 .. Len(old \o new) : (old \o new)[k] = new[k - Len(old)]
    BY <2>1, ConcatFacts
  <2>3. QED  BY <2>1, <2>2 DEF old
<1>8. ev[Len(ev)].tx = <<t>>
  <2>1. Len(ev) \in Len(w.events) + 1 .. Len(ev) /\ Len(ev) - Len(w.events) = Len(new)
    <3> DEFINE a == Len(w.events)
               b == Len(new)
    <3>1. a \in Nat /\ b \in Nat \ {0, 1} /\ Len(ev) = a + b  BY <1>1, <1>2, <1>7
    <3> HIDE DEF a, b
    <3>2. a + b \in a + 1 .. a + b /\ (a + b) - a = b  BY <3>1
    <3>3. QED  BY <3>1, <3>2 DEF a, b
  <2>2. ev[Len(ev)] = new[Len(ev) - Len(w.events)]  BY <1>7, <2>1
  <2>3. QED  BY <1>1, <2>1, <2>2
<1>9. PostState(r, w, t).next_event_id = Len(ev) + 1
  <2> DEFINE e == Execution(r, w, t).events
  <2>1. /\ e \in Nat /\ Len(new) = e + 2 /\ w.next_event_id = Len(w.events) + 1
        /\ PostState(r, w, t).next_event_id = w.next_event_id + e + 2
    BY <1>1, <1>4, <1>5
  <2> HIDE DEF e
  <2>2. Len(ev) = Len(w.events) + Len(new)  BY <1>7
  <2>3. \A x \in Nat : (x + 1) + e + 2 = (x + (e + 2)) + 1  BY <2>1
  <2>4. (Len(w.events) + 1) + e + 2 = (Len(w.events) + (e + 2)) + 1  BY <1>2, <2>3
  <2>5. QED  BY <2>1, <2>2, <2>4
<1>10. result.first_event_id = Len(w.events) + 1 /\ result.last_event_id = Len(ev)
  BY <1>1, <1>2, <1>6, <1>7
<1>11. QED  BY <1>1, <1>2, <1>6, <1>7, <1>8, <1>9, <1>10 DEF RangeFacts, new, ev, result

(* The chain that an instance publishes is tiled if the one before was. *)
LEMMA PublishedTiles ==
  ASSUME ChainInv, NEW r \in Replica, NEW t, Published(r, t), Tiled(blocks[r], world[r])
  PROVE  Tiled(blocks'[r], world'[r])
<1> DEFINE c == blocks[r]
           d == blocks'[r]
           n == Len(c)
           w == world[r]
           v == world'[r]
           b == Candidate(r, w, tip[r], t)
           result == b.execution_results[1]
           new == NewEvents(r, w, t)
<1>1. n \in Nat \ {0} /\ w \in World  BY ChainEnd
<1>2. /\ Len(d) = n + 1 /\ d[n + 1] = b
      /\ \A i \in 1 .. n : d[i] = c[i]
      /\ v = PostState(r, w, t)
  BY PublishedChains
<1>3. Executes(r, w, t) /\ w.next_event_id = Len(w.events) + 1
  BY DEF Published, Tiled
<1>4. /\ Len(w.events) \in Nat /\ Len(new) \in Nat \ {0, 1}
      /\ Len(v.events) = Len(w.events) + Len(new)
      /\ v.next_event_id = Len(v.events) + 1
      /\ result.tx_id = t /\ result.events_digest = new
      /\ result.first_event_id = Len(w.events) + 1 /\ result.last_event_id = Len(v.events)
      /\ \A k \in 1 .. Len(w.events) : v.events[k] = w.events[k]
      /\ \A k \in Len(w.events) + 1 .. Len(v.events) : v.events[k] = new[k - Len(w.events)]
      /\ v.events[Len(v.events)].tx = <<t>>
  <2> DEFINE ev == PostState(r, w, t).events
  <2>1. /\ Len(w.events) \in Nat /\ Len(new) \in Nat \ {0, 1}
        /\ Len(ev) = Len(w.events) + Len(new)
        /\ PostState(r, w, t).next_event_id = Len(ev) + 1
        /\ result.tx_id = t /\ result.events_digest = new
        /\ result.first_event_id = Len(w.events) + 1 /\ result.last_event_id = Len(ev)
        /\ \A k \in 1 .. Len(w.events) : ev[k] = w.events[k]
        /\ \A k \in Len(w.events) + 1 .. Len(ev) : ev[k] = new[k - Len(w.events)]
        /\ ev[Len(ev)].tx = <<t>>
    <3>1. RangeFacts(r, w, tip[r], t)  BY <1>1, <1>3, CandidateRange
    <3>2. QED  BY <3>1 DEF RangeFacts
  <2> HIDE DEF w, v, result, new
  <2>2. QED  BY <1>2, <2>1
<1>5. b.header.post_state_digest = v  BY <1>2 DEF Candidate
<1>6. EndBefore(c, n + 1) = Len(w.events)  BY DEF Tiled
<1>7. \A i \in 2 .. n : /\ RangeAt(c, w, i)
                        /\ c[i].execution_results[1].last_event_id \in 1 .. Len(w.events)
  BY DEF Tiled
<1>8. d[n + 1].execution_results[1] = result /\ d[n + 1].header = b.header  BY <1>2
<1> HIDE DEF c, d, n, w, v, b, result, new
<1>9. \A i \in 2 .. n + 1 : EndBefore(d, i) = EndBefore(c, i)
  <2> TAKE i \in 2 .. n + 1
  <2>1. CASE i = 2  BY <2>1 DEF EndBefore
  <2>2. CASE i # 2
    <3>1. i - 1 \in 1 .. n  BY <1>1, <2>2
    <3>2. QED  BY <1>2, <2>2, <3>1 DEF EndBefore
  <2>3. QED  BY <2>1, <2>2
<1>10. ASSUME NEW i \in 2 .. n
       PROVE  RangeAt(d, v, i) /\ d[i].execution_results[1].last_event_id \in 1 .. Len(v.events)
  <2> DEFINE res == c[i].execution_results[1]
             before == EndBefore(c, i)
  <2>1. d[i] = c[i] /\ EndBefore(d, i) = before  BY <1>1, <1>2, <1>9
  <2>2. RangeAt(c, w, i) /\ res.last_event_id \in 1 .. Len(w.events)  BY <1>7
  <2>a. /\ Len(w.events) \in Nat /\ \A k \in 1 .. Len(w.events) : v.events[k] = w.events[k]
        /\ \A k \in 1 .. Len(w.events) : k \in 1 .. Len(v.events)
    BY <1>4
  <2>3. before \in Nat
    <3>1. CASE i = 2  BY <3>1 DEF EndBefore
    <3>2. CASE i # 2
      <4>1. i - 1 \in 2 .. n  BY <1>1, <3>2
      <4>2. c[i - 1].execution_results[1].last_event_id \in 1 .. Len(w.events)  BY <1>7, <4>1
      <4>3. before = c[i - 1].execution_results[1].last_event_id  BY <3>2 DEF EndBefore
      <4> HIDE DEF before
      <4>4. QED  BY <2>a, <4>2, <4>3
    <3>3. QED  BY <3>1, <3>2
  <2>4. /\ res.first_event_id = before + 1
        /\ res.last_event_id = c[i].header.post_state_digest.next_event_id - 1
        /\ \A k \in res.first_event_id .. res.last_event_id :
             w.events[k] = res.events_digest[k - before]
        /\ w.events[res.last_event_id].tx = <<res.tx_id>>
    BY <2>2 DEF RangeAt
  <2>5. d[i].execution_results[1] = res /\ d[i].header = c[i].header  BY <2>1
  <2> HIDE DEF res, before
  <2>6. \A k \in res.first_event_id .. res.last_event_id :
          k \in 1 .. Len(w.events) /\ v.events[k] = res.events_digest[k - before]
    <3> SUFFICES ASSUME NEW k \in res.first_event_id .. res.last_event_id
                 PROVE  k \in 1 .. Len(w.events) /\ v.events[k] = res.events_digest[k - before]
      BY Zenon
    <3>1. /\ Len(w.events) \in Nat /\ res.last_event_id \in 1 .. Len(w.events)
          /\ res.first_event_id = before + 1
      BY <2>a, <2>2, <2>4
    <3>2. k \in 1 .. Len(w.events)  BY <2>3, <3>1
    <3>3. v.events[k] = w.events[k]  BY <2>a, <3>2
    <3>4. QED  BY <2>4, <3>2, <3>3
  <2>7. v.events[res.last_event_id] = w.events[res.last_event_id]  BY <2>a, <2>2
  <2>8. RangeAt(d, v, i)  BY <2>1, <2>4, <2>5, <2>6, <2>7 DEF RangeAt
  <2>9. res.last_event_id \in 1 .. Len(v.events)  BY <2>a, <2>2
  <2>10. QED  BY <2>5, <2>8, <2>9
<1>11. RangeAt(d, v, n + 1) /\ d[n + 1].execution_results[1].last_event_id \in 1 .. Len(v.events)
  <2>1. n + 1 \in 2 .. n + 1  BY <1>1
  <2>2. EndBefore(d, n + 1) = Len(w.events)  BY <1>6, <1>9, <2>1
  <2>3. v.next_event_id - 1 = Len(v.events) /\ Len(v.events) \in 1 .. Len(v.events)  BY <1>4
  <2>4. \A k \in result.first_event_id .. result.last_event_id :
          v.events[k] = result.events_digest[k - Len(w.events)]
    BY <1>4
  <2>5. QED  BY <1>4, <1>5, <1>8, <2>2, <2>3, <2>4 DEF RangeAt
<1>12. EndBefore(d, Len(d) + 1) = Len(v.events)
  <2>1. Len(d) + 1 # 2 /\ (Len(d) + 1) - 1 = n + 1  BY <1>1, <1>2
  <2>2. QED  BY <1>4, <1>8, <2>1 DEF EndBefore
<1>13. \A i \in 2 .. Len(d) :
         /\ RangeAt(d, v, i)
         /\ d[i].execution_results[1].last_event_id \in 1 .. Len(v.events)
  <2> TAKE i \in 2 .. Len(d)
  <2>1. i \in 2 .. n \/ i = n + 1  BY <1>1, <1>2
  <2>2. QED  BY <1>10, <1>11, <2>1
<1>14. QED  BY <1>4, <1>12, <1>13 DEF Tiled, d, v

(* The events of the blocks are the events of the world, range by range    *)
(* and without a gap or an overlap.                                        *)
THEOREM EventRangesAlwaysTile == Spec => []EventRangesTile
<1> DEFINE Inv == \A r \in Replica : Tiled(blocks[r], world[r])
<1>1. Init => Inv
  <2> SUFFICES ASSUME Init, NEW r \in Replica  PROVE Tiled(blocks[r], world[r])  OBVIOUS
  <2>1. blocks[r] = <<GenesisBlock>> /\ world[r] = Genesis  BY DEF Init
  <2>2. Genesis.events = <<>> /\ Genesis.next_event_id = 1  BY DEF Genesis
  <2>3. Len(<<GenesisBlock>>) = 1 /\ Len(<<>>) = 0  OBVIOUS
  <2>4. EndBefore(blocks[r], 1 + 1) = 0  BY DEF EndBefore
  <2>5. \A i \in 2 .. 1 : FALSE  OBVIOUS
  <2>6. QED  BY <2>1, <2>2, <2>3, <2>4, <2>5 DEF Tiled
<1>2. ChainInv /\ Inv /\ [Next]_vars => Inv'
  <2> SUFFICES ASSUME ChainInv, Inv, [Next]_vars, NEW s \in Replica
               PROVE  Tiled(blocks'[s], world'[s])
    OBVIOUS
  <2>1. CASE UNCHANGED <<world, tip, blocks>>  BY <2>1
  <2>2. ASSUME NEW r \in Replica, NEW t, Published(r, t)
        PROVE  Tiled(blocks'[s], world'[s])
    <3>1. CASE s = r  BY <2>2, <3>1, PublishedTiles
    <3>2. CASE s # r
      <4>1. blocks'[s] = blocks[s] /\ world'[s] = world[s]  BY <2>2, <3>2, PublishedChains
      <4>2. QED  BY <4>1
    <3>3. QED  BY <3>1, <3>2
  <2>3. QED  BY <2>1, <2>2, StepPublishes
<1>3. Inv => EventRangesTile  BY DEF Tiled, EventRangesTile
<1>4. QED  BY <1>1, <1>2, <1>3, ChainInvHolds, PTL DEF Spec

----------------------------------------------------------------------------
(* The refinement. *)

(* The log of a chain is a sequence of signed transactions. *)
LEMMA LogFacts ==
  ASSUME ChainInv, NEW r \in Replica
  PROVE  /\ PublishedLog(r) \in Seq(Signed)
         /\ Len(PublishedLog(r)) = Len(blocks[r]) - 1
         /\ \A i \in 1 .. Len(blocks[r]) - 1 : PublishedLog(r)[i] = blocks[r][i + 1].transactions[1]
<1> DEFINE m == Len(blocks[r]) - 1
           l == [i \in 1 .. m |-> blocks[r][i + 1].transactions[1]]
<1>1. m \in Nat  BY ChainEnd
<1>2. \A i \in 1 .. m : i + 1 \in 2 .. Len(blocks[r])  BY ChainEnd
<1>3. l \in [1 .. m -> Signed]  BY <1>2, ReplayedBlock
<1>4. PublishedLog(r) = l  BY DEF PublishedLog
<1>5. \A i \in 1 .. m : l[i] = blocks[r][i + 1].transactions[1]  OBVIOUS
<1> HIDE DEF m, l
<1>6. l \in Seq(Signed) /\ Len(l) = m  BY <1>1, <1>3
<1>7. QED  BY <1>4, <1>5, <1>6 DEF m

(* Publishing a transaction appends it to the log. *)
LEMMA PublishedAppends ==
  ASSUME ChainInv, ChainInv', NEW r \in Replica, NEW t, Published(r, t)
  PROVE  PublishedLog(r)' = Append(PublishedLog(r), t)
<1> DEFINE m == Len(blocks[r]) - 1
           l == PublishedLog(r)
           k == PublishedLog(r)'
           b == Candidate(r, world[r], tip[r], t)
<1>1. m \in Nat /\ Len(blocks[r]) = m + 1  BY ChainEnd
<1>2. /\ Len(blocks'[r]) = (m + 1) + 1 /\ blocks'[r][(m + 1) + 1] = b
      /\ \A i \in 1 .. m + 1 : blocks'[r][i] = blocks[r][i]
  BY <1>1, PublishedChains
<1>3. b.transactions[1] = t /\ t \in Signed  BY ExecutesType DEF Candidate, Published, ChainInv
<1>4. /\ l \in Seq(Signed) /\ Len(l) = m
      /\ \A i \in 1 .. m : l[i] = blocks[r][i + 1].transactions[1]
  BY LogFacts
<1>5. k = [i \in 1 .. Len(blocks'[r]) - 1 |-> blocks'[r][i + 1].transactions[1]]
  BY DEF PublishedLog
<1> HIDE DEF m, l, b, k
<1>6. k = [i \in 1 .. m + 1 |-> blocks'[r][i + 1].transactions[1]]
  BY <1>1, <1>2, <1>5
<1>7. \A i \in 1 .. m + 1 : blocks'[r][i + 1].transactions[1] = IF i = m + 1 THEN t ELSE l[i]
  <2> TAKE i \in 1 .. m + 1
  <2>1. CASE i = m + 1  BY <1>1, <1>2, <1>3, <2>1
  <2>2. CASE i \in 1 .. m
    <3>1. i + 1 \in 1 .. m + 1 /\ i # m + 1  BY <1>1, <2>2
    <3>2. blocks'[r][i + 1] = blocks[r][i + 1]  BY <1>2, <3>1
    <3>3. l[i] = blocks[r][i + 1].transactions[1]  BY <1>4, <2>2
    <3>4. QED  BY <3>1, <3>2, <3>3
  <2>3. QED  BY <1>1, <2>1, <2>2
<1>8. Append(l, t) = [i \in 1 .. m + 1 |-> IF i = m + 1 THEN t ELSE l[i]]
  <2>1. /\ Append(l, t) \in Seq(Signed \cup {t}) /\ Len(Append(l, t)) = m + 1
        /\ Append(l, t)[m + 1] = t /\ \A i \in 1 .. m : Append(l, t)[i] = l[i]
    BY <1>4, AppendFacts
  <2>2. Append(l, t) = [i \in 1 .. m + 1 |-> Append(l, t)[i]]
    <3> DEFINE a == Append(l, t)
    <3>1. a \in Seq(Signed \cup {t}) /\ Len(a) = m + 1  BY <2>1
    <3> HIDE DEF a
    <3>2. a \in [1 .. m + 1 -> Signed \cup {t}]  BY <3>1
    <3>3. a = [i \in 1 .. m + 1 |-> a[i]]  BY <3>2
    <3>4. QED  BY <3>3 DEF a
  <2>3. \A i \in 1 .. m + 1 : Append(l, t)[i] = IF i = m + 1 THEN t ELSE l[i]
    BY <1>1, <2>1
  <2>4. QED  BY <2>2, <2>3
<1>9. QED  BY <1>6, <1>7, <1>8 DEF l, k

(* Every instance is an append-only ledger. *)
THEOREM LedgerKeepsPromise == Spec => KeepsPromise
<1>1. Init => Promise!Init
  <2> SUFFICES ASSUME Init  PROVE Promise!Init  OBVIOUS
  <2>1. \A r \in Replica : Len(blocks[r]) = 1 /\ world[r].nonce = [a \in Account |-> 0]
    BY DEF Init, Genesis
  <2>2. \A r \in Replica : PublishedLog(r) = <<>>
    <3>1. ChainInv  BY InitChain
    <3>2. \A r \in Replica : PublishedLog(r) \in Seq(Signed) /\ Len(PublishedLog(r)) = 1 - 1
      BY <2>1, <3>1, LogFacts
    <3>3. QED  BY <3>2
  <2>3. QED  BY <2>1, <2>2 DEF Promise!Init
<1>2. ChainInv /\ ChainInv' /\ [Next]_vars => [Promise!Next]_(Promise!logVars)
  <2> SUFFICES ASSUME ChainInv, ChainInv', [Next]_vars
               PROVE  [Promise!Next]_(Promise!logVars)
    OBVIOUS
  <2>1. CASE UNCHANGED <<world, tip, blocks>>
    BY <2>1 DEF Promise!logVars, PublishedLog
  <2>2. ASSUME NEW r \in Replica, NEW t, Published(r, t)  PROVE Promise!Next
    <3>1. /\ world[r] \in World /\ Executes(r, world[r], t)
          /\ world'[r] = PostState(r, world[r], t)
          /\ \A s \in Replica \ {r} : world'[s] = world[s] /\ blocks'[s] = blocks[s]
      BY <2>2, PublishedChains DEF Published, ChainInv
    <3>2. t \in Signed /\ t.nonce = world[r].nonce[t.from]  BY <3>1, ExecutesType
    <3>3. PublishedLog(r)' = Append(PublishedLog(r), t)  BY <2>2, PublishedAppends
    <3>4. \A s \in Replica \ {r} : PublishedLog(s)' = PublishedLog(s)
      BY <3>1 DEF PublishedLog
    <3>5. world'[r].nonce = [world[r].nonce EXCEPT ![t.from] = @ + 1]  BY <3>1 DEF PostState
    <3>6. [s \in Replica |-> PublishedLog(s)]'
            = [[s \in Replica |-> PublishedLog(s)] EXCEPT ![r] = Append(@, t)]
      BY <3>3, <3>4
    <3>7. [s \in Replica |-> world[s].nonce]'
            = [[s \in Replica |-> world[s].nonce] EXCEPT ![r][t.from] = @ + 1]
      BY <3>1, <3>5
    <3>8. Promise!Append1(r, t)  BY <3>2, <3>6, <3>7 DEF Promise!Append1
    <3>9. QED  BY <3>2, <3>8 DEF Promise!Next
  <2>3. QED  BY <2>1, <2>2, StepPublishes
<1>3. QED  BY <1>1, <1>2, ChainInvHolds, PTL DEF Spec, KeepsPromise, Promise!Spec

(* So no instance ever publishes a nonce of an account twice, out of order *)
(* or after a gap.                                                         *)
THEOREM PublishedNoncesInOrder == Spec => []Promise!NoncesInOrder
<1>1. Promise!TransactionTyped
  BY GenesisAssumption DEF Promise!TransactionTyped, LedgerTransaction
<1>2. Promise!Spec => []Promise!NoncesInOrder  BY <1>1, Promise!NoncesAlwaysInOrder
<1>3. Spec => Promise!Spec  BY LedgerKeepsPromise DEF KeepsPromise
<1>4. QED  BY <1>2, <1>3, PTL
==================================================================================
