------------------------------ MODULE ClientProofs ------------------------------
(***************************************************************************)
(* Theorems about the signed commands of the web page, for any node world, *)
(* any number of commands, any other clients and any answers lost, late or *)
(* garbled.  The page is one of the clients of Runtime, whose theorems     *)
(* hold of it too.                                                         *)
(***************************************************************************)
EXTENDS SignedClient, RuntimeProofs

ByPage(t) == t.from = Holder /\ t.intent \in PageIntent

(* What the page relies on in the node: its account stays, every nonce     *)
(* used has advanced the head, and only a commit adds receipts.            *)
NodeInv ==
  /\ Idle => tx = <<>>
  /\ receipts = saved.receipts
  /\ Holder \in DOMAIN accounts /\ accounts[Holder].nonce <= head
  /\ Holder \in DOMAIN saved.accounts /\ saved.accounts[Holder].nonce <= saved.head

(* The page's phases and what it knows of the awaited submission.          *)
FollowInv ==
  /\ answer # "none" <=> phase = "submit"
  /\ phase = "submit" => signed # <<>>
  /\ answer = "running" => tx = <<signed[1]>> /\ ~Idle
  /\ answer = "ok" => signed[1] \in DOMAIN saved.receipts
  /\ IF phase = "idle" THEN Len(ended) <= MaxCommands ELSE Len(ended) < MaxCommands
  /\ SuccessIsExecuted

(* Each command is accounted for at most once: by a transaction it has     *)
(* executed, by the one that runs, by a submission under way or still to   *)
(* come, or by its refusal.                                                *)
Running  == IF tx # <<>> /\ ByPage(tx[1]) THEN 1 ELSE 0
Unserved == IF phase = "account" \/ answer \in {"sent", "nonce", "error"} THEN 1 ELSE 0
Refusals == {n \in DOMAIN ended : ended[n] = "refused"}

CountInv ==
  /\ IsFiniteSet(Executions) /\ IsFiniteSet(late)
  /\ Cardinality(Executions) + Running + Cardinality(late) + Unserved + Cardinality(Refusals)
       <= CommandsIssued

ClientInv == ClientTypeOK /\ NodeInv /\ FollowInv /\ CountInv

----------------------------------------------------------------------------
(* What the node's steps do to the page's account and receipts. *)

(* The page's transactions are transactions of the runtime. *)
LEMMA PageTransactionType == PageTransaction \subseteq Transaction /\ Holder \in Account
<1>1. Holder \in Account
  BY ClientAssumption, InitAssumption DEF WorldTyped, AccountsTyped
<1>2. QED  BY <1>1, ClientAssumption DEF PageTransaction, Transaction

(* The page's account stays, with a nonce behind the head, and a receipt   *)
(* once saved stays.                                                       *)
LEMMA NodeInit == Init => NodeInv
BY ClientAssumption DEF Init, NodeInv, Snapshot

LEMMA NodeStep ==
  ASSUME TypeOK, NodeInv, [Next]_vars
  PROVE  /\ NodeInv'
         /\ DOMAIN saved.receipts \subseteq DOMAIN saved'.receipts
<1>1. /\ AccountsTyped(accounts) /\ head \in Nat /\ AccountsTyped(saved.accounts)
      /\ saved.head \in Nat
  BY SnapshotTyped DEF TypeOK, FieldsTyped, WorldTyped
<1>2. /\ accounts[Holder].nonce \in Nat /\ accounts[Holder] \in AccountState
      /\ saved.accounts[Holder].nonce \in Nat
  BY <1>1 DEF NodeInv, AccountsTyped, AccountState
<1>3. CASE Request
  BY <1>3 DEF Request, BeginCommand, BeginTransaction, world, NodeInv, Idle, EntityId, NoEntity
<1>4. CASE HostCall
  <2>1. saved' = saved /\ caller' = caller /\ tx' = tx  BY <1>4, HostCallKeeps
  <2>2. /\ receipts' = receipts /\ DOMAIN accounts' = DOMAIN accounts
        /\ \A a \in DOMAIN accounts : accounts'[a].nonce = accounts[a].nonce
    BY <1>4, HostCallSettles
  <2>3. head' = head \/ head' = head + 1
    BY <1>4 DEF HostCall, MoveActor, TakeItem, DropItem, TransferItem, MoveEntity, SpawnEntity,
                CreateEntity, UpdateEntityName, EmitEvent, AcceptQuest, CompleteQuest,
                CreditBalance
  <2>4. QED  BY <1>1, <1>2, <2>1, <2>2, <2>3 DEF NodeInv, Idle
<1>5. CASE Fail  BY <1>5 DEF Fail, EndRequest, NodeInv
<1>6. CASE Commit
  <2>1. head' = head + 1 /\ SettleTransaction /\ saved' = Snapshot' /\ tx' = <<>>
    BY <1>6 DEF Commit, Save, EndRequest
  <2>2. /\ saved'.accounts = accounts' /\ saved'.receipts = receipts' /\ saved'.head = head'
    BY <2>1 DEF Snapshot
  <2>3. /\ Holder \in DOMAIN accounts' /\ DOMAIN receipts \subseteq DOMAIN receipts'
        /\ accounts'[Holder].nonce \in {accounts[Holder].nonce, accounts[Holder].nonce + 1}
    <3>1. CASE tx = <<>>  BY <2>1, <3>1 DEF SettleTransaction, NodeInv
    <3>2. CASE tx # <<>>
      <4>1. accounts' = [accounts EXCEPT ![tx[1].from].nonce = @ + 1]
        BY <2>1, <3>2 DEF SettleTransaction
      <4>2. DOMAIN receipts' = DOMAIN receipts \cup {tx[1]}
        BY <2>1, <3>2 DEF SettleTransaction
      <4>3. accounts'[Holder].nonce \in {accounts[Holder].nonce, accounts[Holder].nonce + 1}
        BY <1>2, <4>1 DEF NodeInv, AccountState
      <4>4. QED  BY <4>1, <4>2, <4>3 DEF NodeInv
    <3>3. QED  BY <3>1, <3>2
  <2>4. QED  BY <1>1, <1>2, <2>1, <2>2, <2>3 DEF NodeInv
<1>7. CASE AdminRequest
  <2>1. /\ receipts' = receipts /\ tx' = tx /\ caller' = caller /\ saved' = Snapshot'
        /\ head' = head + 1
    BY <1>7 DEF AdminRequest, CreateAccount, Deploy, CreateEntityByAdmin, CreateEntity,
                Admin, request, Save
  <2>2. Holder \in DOMAIN accounts' /\ accounts'[Holder] = accounts[Holder]
    BY <1>7 DEF AdminRequest, CreateAccount, Deploy, CreateEntityByAdmin, CreateEntity, NodeInv
  <2>3. /\ saved'.accounts = accounts' /\ saved'.receipts = receipts' /\ saved'.head = head'
    BY <2>1 DEF Snapshot
  <2>4. QED  BY <1>1, <1>2, <2>1, <2>2, <2>3 DEF NodeInv, Idle
<1>8. CASE UNCHANGED vars  BY <1>8 DEF vars, world, request, NodeInv, Idle
<1>9. QED  BY <1>3, <1>4, <1>5, <1>6, <1>7, <1>8 DEF Next

(* What the page awaits an answer to is a transaction of its own. *)
LEMMA SignedTx ==
  ASSUME ClientTypeOK, FollowInv, phase = "submit"
  PROVE  signed[1] \in PageTransaction
<1>1. signed \in Seq(PageTransaction) /\ signed # <<>>  BY DEF ClientTypeOK, FollowInv
<1>2. QED  BY <1>1

(* Every step of the page or of its node is a step of the runtime, or none *)
(* it takes part in.                                                       *)
LEMMA ClientNextIsNext ==
  ASSUME TypeOK, ClientTypeOK, NodeInv, FollowInv, [ClientNext]_clientVars
  PROVE  [Next]_vars
<1>1. ASSUME NEW t \in PageTransaction, BeginTransaction(t)  PROVE Next
  <2>1. t.nonce = accounts[Holder].nonce /\ head < MaxHead
    BY <1>1 DEF BeginTransaction, NonceMatches, PageTransaction
  <2>2. AccountsTyped(accounts) /\ head \in Nat
    BY SnapshotTyped DEF TypeOK, FieldsTyped
  <2>3. accounts[Holder].nonce \in Nat
    BY <2>2 DEF NodeInv, AccountsTyped, AccountState
  <2>4. t.nonce \in 0 .. MaxHead
    BY <2>1, <2>2, <2>3, ScriptAssumption DEF NodeInv
  <2>5. t \in [from : Account, nonce : 0 .. MaxHead, entity_id : EntityId,
               intent : Intent, signature : {"none", "valid", "invalid"}]
    BY <2>4, PageTransactionType, ClientAssumption DEF PageTransaction
  <2>6. QED  BY <1>1, <2>5 DEF Next, Request
<1>2. CASE ServeAwaited
  <2>1. signed[1] \in PageTransaction  BY <1>2, SignedTx DEF ServeAwaited
  <2>2. QED  BY <1>1, <1>2, <2>1 DEF ServeAwaited
<1>3. ASSUME NEW s \in late, ServeLate(s)  PROVE [Next]_vars
  <2>1. s[2] \in PageTransaction  BY DEF ClientTypeOK
  <2>2. QED  BY <1>1, <1>3, <2>1 DEF ServeLate
<1>4. CASE ServeOther
  <2>1. ASSUME NEW t \in [from : Account, nonce : 0 .. MaxHead, entity_id : EntityId,
                          intent : Intent \ PageIntent, signature : {"none", "valid"}],
               BeginTransaction(t)
        PROVE  Next
    <3>1. t \in [from : Account, nonce : 0 .. MaxHead, entity_id : EntityId,
                 intent : Intent, signature : {"none", "valid", "invalid"}]
      OBVIOUS
    <3>2. QED  BY <2>1, <3>1 DEF Next, Request
  <2>2. QED  BY <1>4, <2>1 DEF ServeOther, Next, Request
<1>5. CASE Conclude  BY <1>5 DEF Conclude, Next
<1>6. CASE UNCHANGED clientVars  BY <1>6 DEF clientVars
<1>7. CASE UNCHANGED vars  BY <1>7
<1>8. QED
  BY <1>2, <1>3, <1>4, <1>5, <1>6, <1>7
     DEF ClientNext, Issue, SignAndSubmit, AnswerGarbled, Resign, Refused, Succeed, Refreshed,
         Timeout, AccountFails, AnswerLost, RefreshFails, Look, Query, ReceiptFound, NoReceipt,
         RefuseAwaited

----------------------------------------------------------------------------
(* The page's own steps, during which the node does nothing.               *)

Ending == {"succeeded", "refused", "unknown", "garbled", "unrefreshed"}

(* The history is a sequence, and the submissions under way are a set.     *)
LEMMA HistoryTyped ==
  ASSUME ClientTypeOK
  PROVE  /\ ended \in Seq(Ending) /\ Len(ended) \in Nat /\ DOMAIN ended = 1 .. Len(ended)
         /\ late \subseteq (1 .. MaxCommands) \X PageTransaction
<1>1. /\ ended \in Seq(Ending)
      /\ late \subseteq (1 .. MaxCommands) \X PageTransaction
  BY Zenon DEF ClientTypeOK, Ending
<1>2. QED  BY <1>1

(* A command that ends adds to the refusals exactly if it was refused.     *)
LEMMA Ends ==
  ASSUME ClientTypeOK, NEW how \in Ending, ended' = Append(ended, how)
  PROVE  /\ ended' \in Seq(Ending) /\ Len(ended') = Len(ended) + 1
         /\ Cardinality(Refusals') = Cardinality(Refusals) + (IF how = "refused" THEN 1 ELSE 0)
<1>1. ended \in Seq(Ending) /\ Len(ended) \in Nat  BY HistoryTyped
<1>2. /\ ended' \in Seq(Ending) /\ Len(ended') = Len(ended) + 1
      /\ DOMAIN ended' = 1 .. Len(ended) + 1 /\ DOMAIN ended = 1 .. Len(ended)
      /\ \A n \in 1 .. Len(ended) : ended'[n] = ended[n]
      /\ ended'[Len(ended) + 1] = how
  BY <1>1
<1>3. IsFiniteSet(Refusals) /\ Len(ended) + 1 \notin Refusals
  <2>1. IsFiniteSet(1 .. Len(ended))  BY <1>1, FS_Interval
  <2>2. Refusals \subseteq 1 .. Len(ended)  BY <1>2 DEF Refusals
  <2>3. IsFiniteSet(Refusals)  BY <2>1, <2>2, FS_Subset
  <2>4. Len(ended) + 1 \notin Refusals  BY <1>1, <2>2
  <2>5. QED  BY <2>3, <2>4
<1>4. Refusals' = Refusals \cup (IF how = "refused" THEN {Len(ended) + 1} ELSE {})
  BY <1>1, <1>2 DEF Refusals
<1>5. Cardinality(Refusals) \in Nat  BY <1>3, FS_CardinalityType
<1>6. Cardinality(Refusals \cup {Len(ended) + 1}) = Cardinality(Refusals) + 1
  BY <1>3, FS_AddElement
<1>7. Cardinality(Refusals') = Cardinality(Refusals) + (IF how = "refused" THEN 1 ELSE 0)
  <2>1. CASE how = "refused"
    <3>1. Refusals' = Refusals \cup {Len(ended) + 1}  BY <1>4, <2>1
    <3>2. QED  BY <1>5, <1>6, <2>1, <3>1
  <2>2. CASE how # "refused"
    <3>1. Refusals' = Refusals  BY <1>4, <2>2
    <3>2. QED  BY <1>5, <2>2, <3>1
  <2>3. QED  BY <2>1, <2>2
<1>8. QED  BY <1>2, <1>7

(* The terms of the count are numbers. *)
LEMMA CountTerms ==
  ASSUME ClientTypeOK, CountInv
  PROVE  /\ Cardinality(Executions) \in Nat /\ Running \in 0 .. 1 /\ Cardinality(late) \in Nat
         /\ Unserved \in 0 .. 1 /\ Cardinality(Refusals) \in Nat
         /\ Len(ended) \in Nat /\ CommandsIssued \in Nat
<1>1. Len(ended) \in Nat  BY HistoryTyped
<1>2. DOMAIN ended = 1 .. Len(ended)  BY HistoryTyped
<1>3. IsFiniteSet(1 .. Len(ended)) /\ Refusals \subseteq 1 .. Len(ended)
  BY <1>1, <1>2, FS_Interval DEF Refusals
<1>4. IsFiniteSet(Refusals)  BY <1>3, FS_Subset
<1>5. QED  BY <1>1, <1>4, FS_CardinalityType DEF CountInv, Running, Unserved, CommandsIssued

(* While the node rests, what was executed and what runs stay. *)
LEMMA NodeRests ==
  ASSUME UNCHANGED vars
  PROVE  /\ Executions' = Executions /\ Running' = Running /\ saved' = saved /\ tx' = tx
         /\ Idle' = Idle
BY DEF vars, request, Executions, Running, ByPage, Idle

(* Giving up a submission leaves one more under way at most, if it had not *)
(* been served.                                                            *)
LEMMA AbandonedCounts ==
  ASSUME ClientTypeOK, FollowInv, CountInv, phase = "submit", Abandoned
  PROVE  /\ late' \subseteq (1 .. MaxCommands) \X PageTransaction
         /\ IsFiniteSet(late')
         /\ Cardinality(late') <= Cardinality(late) + Unserved
<1>1. Cardinality(late) \in Nat /\ Unserved \in 0 .. 1  BY CountTerms
<1>2. CASE answer = "sent"
  <2>1. late' = late \cup {<<Len(ended) + 1, signed[1]>>}  BY <1>2 DEF Abandoned
  <2>2. Len(ended) \in Nat /\ Len(ended) < MaxCommands  BY CountTerms DEF FollowInv
  <2>3. <<Len(ended) + 1, signed[1]>> \in (1 .. MaxCommands) \X PageTransaction
    BY <2>2, SignedTx, ClientAssumption
  <2>4. Unserved = 1  BY <1>2 DEF Unserved
  <2>5. /\ IsFiniteSet(late')
        /\ Cardinality(late') = IF <<Len(ended) + 1, signed[1]>> \in late
                                THEN Cardinality(late) ELSE Cardinality(late) + 1
    BY <2>1, FS_AddElement DEF CountInv
  <2>6. late' \subseteq (1 .. MaxCommands) \X PageTransaction  BY <2>1, <2>3, HistoryTyped
  <2>7. QED  BY <1>1, <2>4, <2>5, <2>6
<1>3. CASE answer # "sent"  BY <1>1, <1>3, HistoryTyped DEF Abandoned, CountInv
<1>4. QED  BY <1>2, <1>3

(* A command that ends leaves the page's part consistent and counted.      *)
LEMMA Ended ==
  ASSUME ClientTypeOK, FollowInv, CountInv, UNCHANGED vars,
         NEW how \in Ending, NEW panel, End(how, panel), phase # "idle",
         late' \subseteq (1 .. MaxCommands) \X PageTransaction, IsFiniteSet(late'),
         IF how = "refused" THEN late' = late /\ Unserved = 1
         ELSE Cardinality(late') <= Cardinality(late) + Unserved
  PROVE  /\ ended' \in Seq(Ending) /\ Len(ended') <= MaxCommands
         /\ phase' = "idle" /\ answer' = "none" /\ shown' = panel
         /\ CountInv'
<1>1. /\ phase' = "idle" /\ answer' = "none" /\ ended' = Append(ended, how) /\ shown' = panel
  BY DEF End
<1>2. /\ ended' \in Seq(Ending) /\ Len(ended') = Len(ended) + 1
      /\ Cardinality(Refusals') = Cardinality(Refusals) + (IF how = "refused" THEN 1 ELSE 0)
  BY <1>1, Ends
<1>3. /\ Cardinality(Executions) \in Nat /\ Running \in 0 .. 1 /\ Cardinality(late) \in Nat
      /\ Unserved \in 0 .. 1 /\ Cardinality(Refusals) \in Nat /\ Len(ended) \in Nat
  BY CountTerms
<1>4. Executions' = Executions /\ Running' = Running  BY NodeRests
<1>5. Unserved' = 0  BY <1>1 DEF Unserved
<1>6. CommandsIssued' = Len(ended) + 1 /\ CommandsIssued = Len(ended) + 1
  BY <1>1, <1>2, <1>3 DEF CommandsIssued
<1>7. Len(ended) + 1 <= MaxCommands
  BY <1>3, ClientAssumption DEF FollowInv
<1>8. Cardinality(late') \in Nat  BY FS_CardinalityType
<1>9. Cardinality(late') + Cardinality(Refusals') <= Cardinality(late) + Unserved + Cardinality(Refusals)
  BY <1>2, <1>3, <1>8
<1>10. CountInv'
  <2>1. Cardinality(Executions) + Running + Cardinality(late) + Unserved + Cardinality(Refusals)
          <= Len(ended) + 1
    BY <1>6 DEF CountInv
  <2>2. Cardinality(Executions) + Running + Cardinality(late') + 0 + Cardinality(Refusals')
          <= Len(ended) + 1
    BY <1>2, <1>3, <1>8, <1>9, <2>1
  <2>3. QED  BY <1>4, <1>5, <1>6, <2>2 DEF CountInv
<1>11. QED  BY <1>1, <1>2, <1>7, <1>10

(* The type of the panel is that of its two fields. *)
PanelTyped(p) == p.status \in {"", "SUCCESS", "FAILED", "UNKNOWN"} /\ p.tx \in Seq(PageTransaction)

LEMMA PanelType ==
  ASSUME NEW status \in {"", "SUCCESS", "FAILED", "UNKNOWN"}, NEW id \in Seq(PageTransaction)
  PROVE  PanelTyped(Panel(status, id))
BY DEF PanelTyped, Panel

(* The page's part of the invariant, without what End settles.             *)
LEMMA EndedInv ==
  ASSUME ClientTypeOK, FollowInv, UNCHANGED <<vars, command, signed, queries>>,
         ended' \in Seq(Ending), Len(ended') <= MaxCommands,
         phase' = "idle", answer' = "none", attempt' = attempt,
         pending' \in Seq(PageTransaction), PanelTyped(shown'),
         late' \subseteq (1 .. MaxCommands) \X PageTransaction,
         shown'.status = "SUCCESS" /\ shown'.tx # <<>> => shown' = shown
  PROVE  ClientTypeOK' /\ FollowInv'
<1>1. ClientTypeOK'
  BY DEF ClientTypeOK, PanelTyped, Ending
<1>2. SuccessIsExecuted'  BY DEF FollowInv, SuccessIsExecuted, vars
<1>3. FollowInv'  BY <1>2 DEF FollowInv
<1>4. QED  BY <1>1, <1>3

(* Every way a command of the page ends. *)
LEMMA EndingStep ==
  ASSUME ClientTypeOK, FollowInv, CountInv,
         AccountFails \/ AnswerLost \/ AnswerGarbled \/ Refused \/ Refreshed \/ RefreshFails
  PROVE  ClientTypeOK' /\ FollowInv' /\ CountInv'
<1>1. /\ <<>> \in Seq(PageTransaction) /\ signed \in Seq(PageTransaction)
      /\ pending \in Seq(PageTransaction) /\ PanelTyped(shown)
  <2>1. /\ signed \in Seq(PageTransaction) /\ pending \in Seq(PageTransaction)
        /\ PanelTyped(shown)
    BY Zenon DEF ClientTypeOK, PanelTyped
  <2>2. QED  BY <2>1
<1>2. PanelTyped(Panel("FAILED", <<>>)) /\ PanelTyped(Panel("SUCCESS", <<>>))
  BY <1>1, PanelType
<1>3. Panel("FAILED", <<>>).status = "FAILED" /\ Panel("SUCCESS", <<>>).tx = <<>>
  BY DEF Panel
<1>4. late \subseteq (1 .. MaxCommands) \X PageTransaction /\ IsFiniteSet(late)
      /\ Cardinality(late) \in Nat /\ Unserved \in 0 .. 1
  BY HistoryTyped, CountTerms DEF CountInv
<1>5. ASSUME NEW how \in Ending, NEW panel, End(how, panel), PanelTyped(panel),
             phase # "idle", UNCHANGED <<vars, command, signed, queries, attempt>>,
             pending' \in Seq(PageTransaction),
             late' \subseteq (1 .. MaxCommands) \X PageTransaction, IsFiniteSet(late'),
             IF how = "refused" THEN late' = late /\ Unserved = 1
             ELSE Cardinality(late') <= Cardinality(late) + Unserved,
             panel.status = "SUCCESS" /\ panel.tx # <<>> => panel = shown
      PROVE  ClientTypeOK' /\ FollowInv' /\ CountInv'
  <2>1. UNCHANGED vars  BY <1>5
  <2>2. /\ ended' \in Seq(Ending) /\ Len(ended') <= MaxCommands
        /\ phase' = "idle" /\ answer' = "none" /\ shown' = panel
        /\ CountInv'
    BY <1>5, <2>1, Ended
  <2>3. QED  BY <1>5, <2>2, EndedInv
<1>6. CASE AccountFails
  <2>1. Unserved = 1 /\ phase # "idle"  BY <1>6 DEF AccountFails, Unserved
  <2>2. QED  BY <1>1, <1>2, <1>3, <1>4, <1>5, <1>6, <2>1 DEF AccountFails, Ending
<1>7. CASE AnswerLost
  <2>1. /\ phase = "submit" /\ phase # "idle" /\ Abandoned /\ End("unknown", UnknownPanel)
        /\ UNCHANGED <<vars, command, signed, queries, attempt>> /\ pending' = pending
    BY <1>7 DEF AnswerLost, Expiring, GivesUp
  <2>2. /\ late' \subseteq (1 .. MaxCommands) \X PageTransaction /\ IsFiniteSet(late')
        /\ Cardinality(late') <= Cardinality(late) + Unserved
    BY <2>1, AbandonedCounts
  <2>3. /\ PanelTyped(UnknownPanel)
        /\ UnknownPanel.status = "SUCCESS" /\ UnknownPanel.tx # <<>> => UnknownPanel = shown
    <3>1. PanelTyped(Panel("UNKNOWN", pending))  BY <1>1, PanelType
    <3>2. QED  BY <1>1, <3>1 DEF UnknownPanel, Panel
  <2>4. QED  BY <1>1, <1>5, <2>1, <2>2, <2>3 DEF Ending
<1>8. CASE AnswerGarbled
  <2>1. /\ phase = "submit" /\ phase # "idle" /\ Abandoned /\ End("garbled", Panel("FAILED", <<>>))
        /\ UNCHANGED <<vars, command, signed, queries, attempt>> /\ pending' = pending
    BY <1>8 DEF AnswerGarbled
  <2>2. /\ late' \subseteq (1 .. MaxCommands) \X PageTransaction /\ IsFiniteSet(late')
        /\ Cardinality(late') <= Cardinality(late) + Unserved
    BY <2>1, AbandonedCounts
  <2>3. QED  BY <1>1, <1>2, <1>3, <1>5, <2>1, <2>2 DEF Ending
<1>9. CASE Refused
  <2>1. Unserved = 1 /\ phase # "idle"  BY <1>9 DEF Refused, Unserved
  <2>2. QED  BY <1>1, <1>2, <1>3, <1>4, <1>5, <1>9, <2>1 DEF Refused, Ending
<1>10. CASE Refreshed
  <2>1. /\ phase # "idle" /\ UNCHANGED <<vars, command, signed, queries, attempt>> /\ late' = late
        /\ \/ End("succeeded", shown) /\ pending' = pending
           \/ End("succeeded", Panel("SUCCESS", <<>>)) /\ pending' = <<>>
    BY <1>10 DEF Refreshed
  <2>2. CASE End("succeeded", shown) /\ pending' = pending
    BY <1>1, <1>4, <1>5, <2>1, <2>2 DEF Ending
  <2>3. CASE End("succeeded", Panel("SUCCESS", <<>>)) /\ pending' = <<>>
    BY <1>1, <1>2, <1>3, <1>4, <1>5, <2>1, <2>3 DEF Ending
  <2>4. QED  BY <2>1, <2>2, <2>3
<1>11. CASE RefreshFails
  <2>1. /\ phase # "idle" /\ UNCHANGED <<vars, command, signed, queries, attempt>> /\ late' = late
        /\ End("unrefreshed", Panel("FAILED", <<>>)) /\ pending' = pending
    BY <1>11 DEF RefreshFails
  <2>2. QED  BY <1>1, <1>2, <1>3, <1>4, <1>5, <2>1 DEF Ending
<1>12. QED  BY <1>6, <1>7, <1>8, <1>9, <1>10, <1>11

(* The steps of a command under way and of the receipt panel.              *)
LEMMA PageStep ==
  ASSUME TypeOK, ClientTypeOK, NodeInv, FollowInv, CountInv,
         \/ \E i \in PageIntent : Issue(i)
         \/ SignAndSubmit \/ Resign \/ Succeed \/ Look \/ Query
         \/ \E t \in queries : ReceiptFound(t) \/ NoReceipt(t)
  PROVE  ClientTypeOK' /\ FollowInv' /\ CountInv'
<1>1. /\ Cardinality(Executions) \in Nat /\ Running \in 0 .. 1 /\ Cardinality(late) \in Nat
      /\ Unserved \in 0 .. 1 /\ Cardinality(Refusals) \in Nat /\ Len(ended) \in Nat
  BY CountTerms
<1>2. /\ <<>> \in Seq(PageTransaction) /\ signed \in Seq(PageTransaction)
      /\ pending \in Seq(PageTransaction) /\ PanelTyped(shown) /\ queries \subseteq PageTransaction
  <2>1. /\ signed \in Seq(PageTransaction) /\ pending \in Seq(PageTransaction)
        /\ PanelTyped(shown) /\ queries \subseteq PageTransaction
    BY Zenon DEF ClientTypeOK, PanelTyped
  <2>2. QED  BY <2>1
<1>3. UNCHANGED <<vars, late, ended>>
  BY DEF Issue, SignAndSubmit, Resign, Succeed, Look, Query, ReceiptFound, NoReceipt
<1>4. /\ Executions' = Executions /\ Running' = Running /\ saved' = saved /\ tx' = tx
      /\ Idle' = Idle /\ late' = late /\ ended' = ended /\ Refusals' = Refusals
  BY <1>3, NodeRests DEF Refusals
<1>5. ASSUME IF phase' = "idle" THEN phase = "idle" ELSE phase # "idle" \/ Unserved' = 1,
             IF phase = "idle" /\ phase' # "idle" THEN Unserved' = 1 /\ Unserved = 0
             ELSE Unserved' <= Unserved,
             Unserved' \in 0 .. 1
      PROVE  CountInv'
  <2>1. CommandsIssued' - Unserved' >= CommandsIssued - Unserved
    BY <1>1, <1>4, <1>5 DEF CommandsIssued
  <2>2. /\ CommandsIssued' \in Nat /\ CommandsIssued \in Nat
    BY <1>1, <1>4 DEF CommandsIssued
  <2>3. Cardinality(Executions) + Running + Cardinality(late) + Unserved + Cardinality(Refusals)
          <= CommandsIssued
    BY DEF CountInv
  <2>4. Unserved' \in 0 .. 1  BY <1>5
  <2>5. Cardinality(Executions) + Running + Cardinality(late) + Unserved' + Cardinality(Refusals)
          <= CommandsIssued'
    <3> DEFINE base == Cardinality(Executions) + Running + Cardinality(late) + Cardinality(Refusals)
    <3>1. base \in Nat  BY <1>1
    <3>2. base + Unserved <= CommandsIssued  BY <1>1, <2>2, <2>3
    <3> HIDE DEF base
    <3>3. PICK unserved \in 0 .. 1, issued \in Nat :
            unserved = Unserved' /\ issued = CommandsIssued'
      BY <2>2, <2>4
    <3>4. issued - unserved >= CommandsIssued - Unserved  BY <2>1, <3>3
    <3>5. base + unserved <= issued  BY <1>1, <2>2, <3>1, <3>2, <3>4
    <3>6. Cardinality(Executions) + Running + Cardinality(late) + unserved + Cardinality(Refusals)
            <= issued
      BY <1>1, <3>5 DEF base
    <3>7. QED  BY <3>3, <3>6
  <2>6. QED  BY <1>4, <2>5 DEF CountInv
<1>6. ASSUME NEW i \in PageIntent, Issue(i)  PROVE ClientTypeOK' /\ FollowInv' /\ CountInv'
  <2>1. /\ phase' = "account" /\ attempt' = 0 /\ command' = i
        /\ UNCHANGED <<signed, pending, answer, late, queries, shown, ended>>
    BY <1>6 DEF Issue
  <2>2. attempt' \in 0 .. 1  BY <2>1
  <2>3. ClientTypeOK'  BY <2>1, <2>2, Zenon DEF ClientTypeOK
  <2>4. FollowInv'  BY <1>4, <1>6 DEF Issue, FollowInv, SuccessIsExecuted
  <2>5. Unserved' = 1 /\ Unserved = 0  BY <1>6 DEF Issue, Unserved, FollowInv
  <2>6. QED  BY <1>5, <1>6, <2>3, <2>4, <2>5 DEF Issue
<1>7. CASE SignAndSubmit
  <2> DEFINE t == [from |-> Holder, nonce |-> saved.accounts[Holder].nonce,
                   entity_id |-> Actor, intent |-> command, signature |-> "valid"]
  <2>1. t \in PageTransaction
    <3>1. AccountsTyped(saved.accounts)  BY DEF TypeOK, WorldTyped
    <3>2. saved.accounts[Holder].nonce \in Nat
      BY <3>1 DEF NodeInv, AccountsTyped, AccountState
    <3>3. command \in PageIntent  BY Zenon DEF ClientTypeOK
    <3>4. QED  BY <3>2, <3>3 DEF PageTransaction
  <2>2. signed' = <<t>> /\ pending' = <<t>>  BY <1>7 DEF SignAndSubmit
  <2> HIDE DEF t
  <2>3. signed' \in Seq(PageTransaction) /\ pending' \in Seq(PageTransaction) /\ signed' # <<>>
    BY <2>1, <2>2
  <2>4. ClientTypeOK'  BY <1>4, <1>7, <2>3 DEF SignAndSubmit, ClientTypeOK
  <2>5. FollowInv'  BY <1>4, <1>7, <2>3 DEF SignAndSubmit, FollowInv, SuccessIsExecuted
  <2>6. Unserved' = 1 /\ Unserved = 1  BY <1>7 DEF SignAndSubmit, Unserved
  <2>7. QED  BY <1>5, <1>7, <2>4, <2>5, <2>6 DEF SignAndSubmit
<1>8. CASE Resign
  <2>1. attempt' \in 0 .. 1  BY <1>8 DEF Resign, Resigns
  <2>2. ClientTypeOK'  BY <1>4, <1>8, <2>1 DEF Resign, ClientTypeOK
  <2>3. FollowInv'  BY <1>4, <1>8 DEF Resign, FollowInv, SuccessIsExecuted
  <2>4. Unserved' = 1 /\ Unserved = 1  BY <1>8 DEF Resign, Resigns, Unserved
  <2>5. QED  BY <1>5, <1>8, <2>2, <2>3, <2>4 DEF Resign
<1>9. CASE Succeed
  <2>1. PanelTyped(shown')  BY <1>2, <1>9, PanelType DEF Succeed
  <2>2. ClientTypeOK'  BY <1>2, <1>4, <1>9, <2>1 DEF Succeed, ClientTypeOK, PanelTyped
  <2>3. SuccessIsExecuted'
    BY <1>4, <1>9 DEF Succeed, SuccessIsExecuted, Panel, FollowInv
  <2>4. FollowInv'  BY <1>4, <1>9, <2>3 DEF Succeed, FollowInv
  <2>5. Unserved' = 0 /\ Unserved = 0  BY <1>9 DEF Succeed, Unserved
  <2>6. QED  BY <1>5, <1>9, <2>2, <2>4, <2>5 DEF Succeed
<1>10. ASSUME UNCHANGED <<phase, attempt, command, signed, answer>>,
              pending' \in Seq(PageTransaction), queries' \subseteq PageTransaction,
              PanelTyped(shown'), SuccessIsExecuted'
       PROVE  ClientTypeOK' /\ FollowInv' /\ CountInv'
  <2>1. ClientTypeOK'  BY <1>4, <1>10 DEF ClientTypeOK, PanelTyped
  <2>2. FollowInv'  BY <1>4, <1>10 DEF FollowInv
  <2>3. Unserved' = Unserved  BY <1>10 DEF Unserved
  <2>4. QED  BY <1>1, <1>5, <1>10, <2>1, <2>2, <2>3
<1>11. CASE Look
  <2>1. PanelTyped(Panel("SUCCESS", <<>>)) /\ PanelTyped(Panel("FAILED", <<>>))
    BY <1>2, PanelType
  <2>2. shown' \in {Panel("SUCCESS", <<>>), Panel("FAILED", <<>>)}
        /\ pending' \in Seq(PageTransaction)
    BY <1>2, <1>11 DEF Look
  <2>3. SuccessIsExecuted'  BY <2>2 DEF SuccessIsExecuted, Panel
  <2>4. UNCHANGED <<phase, attempt, command, signed, answer, queries>>  BY <1>11 DEF Look
  <2>5. QED  BY <1>2, <1>10, <2>1, <2>2, <2>3, <2>4
<1>12. CASE Query
  <2>1. pending[1] \in PageTransaction  BY <1>2, <1>12 DEF Query
  <2>2. SuccessIsExecuted'  BY <1>4, <1>12 DEF Query, SuccessIsExecuted
  <2>3. QED  BY <1>2, <1>10, <1>12, <2>1, <2>2 DEF Query
<1>13. ASSUME NEW t \in queries, ReceiptFound(t)  PROVE ClientTypeOK' /\ FollowInv' /\ CountInv'
  <2>1. <<t>> \in Seq(PageTransaction) /\ <<t>>[1] = t  BY <1>2
  <2>2. PanelTyped(shown')  BY <1>13, <2>1, PanelType DEF ReceiptFound
  <2>3. SuccessIsExecuted'
    BY <1>4, <1>13, <2>1 DEF ReceiptFound, Found, SuccessIsExecuted, Panel
  <2>4. QED  BY <1>2, <1>10, <1>13, <2>2, <2>3 DEF ReceiptFound
<1>14. ASSUME NEW t \in queries, NoReceipt(t)  PROVE ClientTypeOK' /\ FollowInv' /\ CountInv'
  <2>1. SuccessIsExecuted'  BY <1>4, <1>14 DEF NoReceipt, SuccessIsExecuted, FollowInv
  <2>2. QED  BY <1>2, <1>10, <1>14, <2>1 DEF NoReceipt
<1>15. QED  BY <1>6, <1>7, <1>8, <1>9, <1>11, <1>12, <1>13, <1>14

----------------------------------------------------------------------------
(* The steps of the node, with what they mean for the page.                *)

(* A step of the node that leaves the page's variables to themselves.      *)
LEMMA PageRests ==
  ASSUME ClientTypeOK, FollowInv, NodeInv,
         UNCHANGED <<phase, attempt, command, signed, pending, queries, shown, ended>>,
         answer' \in {"none", "sent", "running", "ok", "nonce", "error"},
         answer' # "none" <=> answer # "none",
         late' \subseteq late,
         DOMAIN saved.receipts \subseteq DOMAIN saved'.receipts,
         answer' = "running" => tx' = <<signed[1]>> /\ ~Idle',
         answer' = "ok" => signed[1] \in DOMAIN saved'.receipts
  PROVE  /\ ClientTypeOK' /\ FollowInv'
         /\ Refusals' = Refusals /\ CommandsIssued' = CommandsIssued
<1>1. ClientTypeOK'
  <2>1. late' \subseteq (1 .. MaxCommands) \X PageTransaction  BY HistoryTyped
  <2>2. QED  BY <2>1, Zenon DEF ClientTypeOK
<1>2. SuccessIsExecuted'  BY DEF FollowInv, SuccessIsExecuted
<1>3. FollowInv'  BY <1>2 DEF FollowInv
<1>4. QED  BY <1>1, <1>3 DEF Refusals, CommandsIssued

(* The count after such a step, if it trades one term for another.         *)
LEMMA Traded ==
  ASSUME ClientTypeOK, CountInv,
         Refusals' = Refusals, CommandsIssued' = CommandsIssued,
         IsFiniteSet(Executions'), IsFiniteSet(late'),
         NEW e \in Nat, e = Cardinality(Executions'), NEW r \in 0 .. 1, r = Running',
         NEW l \in Nat, l = Cardinality(late'), NEW u \in 0 .. 1, u = Unserved',
         e + r + l + u <= Cardinality(Executions) + Running + Cardinality(late) + Unserved
  PROVE  CountInv'
<1>1. /\ Cardinality(Executions) \in Nat /\ Running \in 0 .. 1 /\ Cardinality(late) \in Nat
      /\ Unserved \in 0 .. 1 /\ Cardinality(Refusals) \in Nat /\ CommandsIssued \in Nat
  BY CountTerms
<1>2. Cardinality(Executions) + Running + Cardinality(late) + Unserved + Cardinality(Refusals)
        <= CommandsIssued
  BY DEF CountInv
<1>3. e + r + l + u + Cardinality(Refusals) <= CommandsIssued  BY <1>1, <1>2
<1>4. QED  BY <1>3 DEF CountInv

(* What the steps of the runtime do to the page's executions.              *)
LEMMA BeginCounts ==
  ASSUME NodeInv, NEW t, BeginTransaction(t)
  PROVE  /\ Executions' = Executions /\ Running = 0 /\ saved' = saved /\ tx' = <<t>> /\ Idle
         /\ Running' = IF ByPage(t) THEN 1 ELSE 0
<1>1. Idle /\ tx' = <<t>> /\ saved' = saved  BY DEF BeginTransaction
<1>2. tx' # <<>> /\ tx'[1] = t  BY <1>1
<1>3. QED  BY <1>1, <1>2 DEF NodeInv, Executions, Running, ByPage

LEMMA OtherCounts ==
  ASSUME NodeInv, (\E e \in EntityId : BeginCommand(e)) \/ HostCall \/ AdminRequest
  PROVE  Executions' = Executions /\ Running' = Running /\ tx' = tx
<1>1. CASE \E e \in EntityId : BeginCommand(e)
  BY <1>1 DEF BeginCommand, Executions, Running, ByPage
<1>2. CASE HostCall  BY <1>2, HostCallKeeps DEF Executions, Running, ByPage
<1>3. CASE AdminRequest
  <2>1. receipts' = receipts /\ tx' = tx /\ saved' = Snapshot'
    BY <1>3 DEF AdminRequest, CreateAccount, Deploy, CreateEntityByAdmin, CreateEntity,
                Admin, request, Save
  <2>2. saved'.receipts = saved.receipts  BY <2>1 DEF Snapshot, NodeInv
  <2>3. QED  BY <2>1, <2>2 DEF Executions, Running, ByPage
<1>4. QED  BY <1>1, <1>2, <1>3

(* A commit turns the running transaction into an executed one.            *)
LEMMA CommitCounts ==
  ASSUME TypeOK, NodeInv, Commit, IsFiniteSet(Executions)
  PROVE  /\ IsFiniteSet(Executions') /\ Running' = 0
         /\ Cardinality(Executions') <= Cardinality(Executions) + Running
         /\ tx # <<>> => tx[1] \in DOMAIN saved'.receipts
<1>1. SettleTransaction /\ saved' = Snapshot' /\ tx' = <<>>
  BY DEF Commit, Save, EndRequest
<1>2. saved'.receipts = receipts'  BY <1>1 DEF Snapshot
<1>3. Running' = 0  BY <1>1 DEF Running
<1>4. Cardinality(Executions) \in Nat  BY FS_CardinalityType
<1>5. CASE tx = <<>>
  <2>1. Executions' = Executions  BY <1>1, <1>2, <1>5 DEF SettleTransaction, NodeInv, Executions
  <2>2. Running = 0  BY <1>5 DEF Running
  <2>3. QED  BY <1>3, <1>4, <1>5, <2>1, <2>2
<1>6. CASE tx # <<>>
  <2>1. DOMAIN saved'.receipts = DOMAIN saved.receipts \cup {tx[1]}
    BY <1>1, <1>2, <1>6 DEF SettleTransaction, NodeInv
  <2>2. Executions' = Executions \cup (IF ByPage(tx[1]) THEN {tx[1]} ELSE {})
    BY <2>1 DEF Executions, ByPage
  <2>3. CASE ByPage(tx[1])
    <3>1. Executions' = Executions \cup {tx[1]} /\ Running = 1  BY <1>6, <2>2, <2>3 DEF Running
    <3>2. /\ IsFiniteSet(Executions \cup {tx[1]})
          /\ Cardinality(Executions \cup {tx[1]}) <= Cardinality(Executions) + 1
      BY <1>4, FS_AddElement
    <3>3. QED  BY <1>3, <2>1, <3>1, <3>2
  <2>4. CASE ~ByPage(tx[1])
    <3>1. Executions' = Executions /\ Running = 0  BY <1>6, <2>2, <2>4 DEF Running
    <3>2. QED  BY <1>3, <1>4, <2>1, <3>1
  <2>5. QED  BY <2>3, <2>4
<1>7. QED  BY <1>5, <1>6

(* Whatever the node takes up, refuses, loses, commits or undoes, the page *)
(* is told no success that was not committed, and no command counts twice. *)
LEMMA NodeActs ==
  ASSUME TypeOK, ClientTypeOK, NodeInv, FollowInv, CountInv,
         DOMAIN saved.receipts \subseteq DOMAIN saved'.receipts,
         ServeAwaited \/ RefuseAwaited \/ ServeOther \/ Conclude \/ \E s \in late : ServeLate(s)
  PROVE  ClientTypeOK' /\ FollowInv' /\ CountInv'
<1>1. /\ Cardinality(Executions) \in Nat /\ Running \in 0 .. 1 /\ Cardinality(late) \in Nat
      /\ Unserved \in 0 .. 1 /\ IsFiniteSet(Executions) /\ IsFiniteSet(late)
  BY CountTerms DEF CountInv
<1>2. UNCHANGED <<phase, attempt, command, signed, pending, queries, shown, ended>>
  BY DEF ServeAwaited, RefuseAwaited, ServeOther, Conclude, ServeLate, page
<1>3. answer \in {"none", "sent", "running", "ok", "nonce", "error"}  BY Zenon DEF ClientTypeOK
<1>4. ASSUME NEW t \in PageTransaction PROVE ByPage(t) /\ t.entity_id \in EntityId
  BY ClientAssumption DEF PageTransaction, ByPage
<1>5. CASE ServeAwaited
  <2>1. /\ phase = "submit" /\ answer = "sent" /\ BeginTransaction(signed[1])
        /\ answer' = "running" /\ late' = late
    BY <1>5 DEF ServeAwaited
  <2>2. ByPage(signed[1]) /\ signed[1].entity_id \in EntityId  BY <1>4, <2>1, SignedTx
  <2>3. /\ Executions' = Executions /\ Running = 0 /\ Running' = 1 /\ saved' = saved
        /\ tx' = <<signed[1]>>
    BY <2>1, <2>2, BeginCounts
  <2>4. ~Idle'
    BY <2>1, <2>2, BoundAssumption DEF BeginTransaction, Idle, EntityId, NoEntity
  <2>5. ClientTypeOK' /\ FollowInv' /\ Refusals' = Refusals /\ CommandsIssued' = CommandsIssued
    BY <1>2, <2>1, <2>3, <2>4, PageRests
  <2>6. Unserved = 1 /\ Unserved' = 0  BY <1>2, <2>1 DEF Unserved
  <2>7. CountInv'  BY <1>1, <2>1, <2>3, <2>5, <2>6, Traded
  <2>8. QED  BY <2>5, <2>7
<1>6. CASE RefuseAwaited
  <2>1. /\ phase = "submit" /\ answer = "sent" /\ answer' \in {"nonce", "error"}
        /\ UNCHANGED <<vars, late>>
    BY <1>6 DEF RefuseAwaited
  <2>2. /\ Executions' = Executions /\ Running' = Running /\ late' = late
    BY <2>1, NodeRests
  <2>3. ClientTypeOK' /\ FollowInv' /\ Refusals' = Refusals /\ CommandsIssued' = CommandsIssued
    BY <1>2, <2>1, PageRests
  <2>4. Unserved = 1 /\ Unserved' = 1  BY <1>2, <2>1 DEF Unserved
  <2>5. CountInv'  BY <1>1, <2>2, <2>3, <2>4, Traded
  <2>6. QED  BY <2>3, <2>5
<1>7. ASSUME NEW s \in late, ServeLate(s)  PROVE ClientTypeOK' /\ FollowInv' /\ CountInv'
  <2>1. answer' = answer /\ late' = late \ {s} /\ s[2] \in PageTransaction
    BY <1>7, HistoryTyped DEF ServeLate
  <2>2. /\ IsFiniteSet(late') /\ Cardinality(late') = Cardinality(late) - 1
        /\ Cardinality(late') \in Nat
    BY <2>1, <1>1, FS_RemoveElement, FS_CardinalityType
  <2>3. Unserved' = Unserved  BY <1>2, <2>1 DEF Unserved
  <2>4. CASE UNCHANGED vars
    <3>1. /\ Executions' = Executions /\ Running' = Running /\ tx' = tx /\ Idle' = Idle
          /\ saved' = saved
      BY <2>4, NodeRests
    <3>2. ClientTypeOK' /\ FollowInv' /\ Refusals' = Refusals /\ CommandsIssued' = CommandsIssued
      BY <1>2, <1>3, <2>1, <3>1, PageRests DEF FollowInv
    <3>3. CountInv'  BY <1>1, <2>2, <2>3, <3>1, <3>2, Traded
    <3>4. QED  BY <3>2, <3>3
  <2>5. CASE BeginTransaction(s[2])
    <3>1. /\ Executions' = Executions /\ Running = 0 /\ Running' = 1 /\ saved' = saved /\ Idle
      BY <1>4, <2>1, <2>5, BeginCounts
    <3>2. answer # "running" /\ (answer = "ok" => signed[1] \in DOMAIN saved.receipts)
      BY <3>1 DEF FollowInv
    <3>3. ClientTypeOK' /\ FollowInv' /\ Refusals' = Refusals /\ CommandsIssued' = CommandsIssued
      BY <1>2, <1>3, <2>1, <3>1, <3>2, PageRests
    <3>4. CountInv'  BY <1>1, <2>2, <2>3, <3>1, <3>3, Traded
    <3>5. QED  BY <3>3, <3>4
  <2>6. QED  BY <1>7, <2>4, <2>5 DEF ServeLate
<1>8. CASE ServeOther
  <2>1. answer' = answer /\ late' = late  BY <1>8 DEF ServeOther, page
  <2>2. Unserved' = Unserved  BY <1>2, <2>1 DEF Unserved
  <2>3. /\ Executions' = Executions /\ Running' = Running
        /\ answer = "running" => tx' = <<signed[1]>> /\ ~Idle'
    <3>1. CASE (\E e \in EntityId : BeginCommand(e)) \/ HostCall \/ AdminRequest
      <4>1. Executions' = Executions /\ Running' = Running /\ tx' = tx  BY <3>1, OtherCounts
      <4>2. Idle' => Idle
        BY <3>1, HostCallKeeps
           DEF BeginCommand, AdminRequest, CreateAccount, Deploy, CreateEntityByAdmin, Admin, Idle
      <4>3. QED  BY <4>1, <4>2 DEF FollowInv
    <3>2. ASSUME NEW t, t.intent \notin PageIntent, BeginTransaction(t)
          PROVE  /\ Executions' = Executions /\ Running' = Running
                 /\ answer = "running" => tx' = <<signed[1]>> /\ ~Idle'
      <4>1. ~ByPage(t)  BY <3>2 DEF ByPage
      <4>2. Executions' = Executions /\ Running' = 0 /\ Running = 0 /\ Idle
        BY <3>2, <4>1, BeginCounts
      <4>3. QED  BY <4>2 DEF FollowInv
    <3>3. QED  BY <1>8, <3>1, <3>2 DEF ServeOther
  <2>4. ClientTypeOK' /\ FollowInv' /\ Refusals' = Refusals /\ CommandsIssued' = CommandsIssued
    BY <1>2, <1>3, <2>1, <2>3, PageRests DEF FollowInv
  <2>5. CountInv'  BY <1>1, <2>1, <2>2, <2>3, <2>4, Traded
  <2>6. QED  BY <2>4, <2>5
<1>9. CASE Commit /\ late' = late /\ answer' = IF answer = "running" THEN "ok" ELSE answer
  <2>1. late' = late /\ answer' = IF answer = "running" THEN "ok" ELSE answer  BY <1>9
  <2>2. /\ IsFiniteSet(Executions') /\ Running' = 0
        /\ Cardinality(Executions') <= Cardinality(Executions) + Running
        /\ tx # <<>> => tx[1] \in DOMAIN saved'.receipts
    BY <1>1, <1>9, CommitCounts
  <2>3. answer' = "ok" => signed[1] \in DOMAIN saved'.receipts
    <3>1. CASE answer = "running"
      <4>1. tx # <<>> /\ tx[1] = signed[1]  BY <3>1 DEF FollowInv
      <4>2. QED  BY <2>2, <4>1
    <3>2. CASE answer # "running"  BY <2>1, <3>2 DEF FollowInv
    <3>3. QED  BY <3>1, <3>2
  <2>4. ClientTypeOK' /\ FollowInv' /\ Refusals' = Refusals /\ CommandsIssued' = CommandsIssued
    BY <1>2, <1>3, <2>1, <2>3, PageRests
  <2>5. Unserved' = Unserved  BY <1>2, <2>1 DEF Unserved
  <2>6. Cardinality(Executions') \in Nat  BY <2>2, FS_CardinalityType
  <2>7. CountInv'  BY <1>1, <2>1, <2>2, <2>4, <2>5, <2>6, Traded
  <2>8. QED  BY <2>4, <2>7
<1>10. CASE Fail /\ late' = late /\ answer' = IF answer = "running" THEN "error" ELSE answer
  <2>1. late' = late /\ answer' = IF answer = "running" THEN "error" ELSE answer  BY <1>10
  <2>2. saved' = saved /\ tx' = <<>>  BY <1>10 DEF Fail, EndRequest
  <2>3. Executions' = Executions /\ Running' = 0  BY <2>2 DEF Executions, Running
  <2>4. ClientTypeOK' /\ FollowInv' /\ Refusals' = Refusals /\ CommandsIssued' = CommandsIssued
    BY <1>2, <1>3, <2>1, <2>2, PageRests DEF FollowInv
  <2>5. Unserved' \in 0 .. 1 /\ (answer # "running" => Unserved' = Unserved)
    BY <1>2, <2>1 DEF Unserved
  <2>6. answer = "running" => Running = 1
    <3>1. CASE answer = "running"
      <4>1. signed[1] \in PageTransaction /\ tx # <<>> /\ tx[1] = signed[1]
        BY <3>1, SignedTx DEF FollowInv
      <4>2. QED  BY <1>4, <4>1 DEF Running
    <3>2. QED  BY <3>1
  <2>7. PICK u \in 0 .. 1 : u = Unserved'  BY <2>5
  <2>8. u <= Running + Unserved  BY <1>1, <2>5, <2>6, <2>7
  <2>9. CountInv'  BY <1>1, <2>1, <2>3, <2>4, <2>7, <2>8, Traded
  <2>10. QED  BY <2>4, <2>9
<1>11. QED  BY <1>5, <1>6, <1>7, <1>8, <1>9, <1>10 DEF Conclude

----------------------------------------------------------------------------
(* The theorems. *)

(* The invariant holds at first and every step of page or node keeps it.   *)
LEMMA ClientStart == ClientInit => TypeOK /\ ClientInv
<1> SUFFICES ASSUME ClientInit  PROVE TypeOK /\ ClientInv
  OBVIOUS
<1>1. Init  BY DEF ClientInit
<1>2. TypeOK /\ NodeInv  BY <1>1, TypeInit, NodeInit
<1>3. /\ phase = "idle" /\ command \in PageIntent /\ answer = "none" /\ late = {} /\ queries = {}
      /\ signed = <<>> /\ pending = <<>> /\ shown.status = "" /\ shown.tx = <<>>
  BY DEF ClientInit, Panel
<1>4. attempt \in 0 .. 1
  <2>1. attempt = 0  BY DEF ClientInit
  <2>2. QED  BY <2>1
<1>5. ended \in Seq(Ending) /\ Len(ended) = 0 /\ DOMAIN ended = {}
  <2>1. ended = <<>>  BY DEF ClientInit
  <2>2. QED  BY <2>1
<1>6. ClientTypeOK
  <2>1. <<>> \in Seq(PageTransaction)  OBVIOUS
  <2>2. QED  BY <1>3, <1>4, <1>5, <2>1 DEF ClientTypeOK, Ending
<1>7. FollowInv
  <2>1. Len(ended) <= MaxCommands  BY <1>5, ClientAssumption
  <2>2. QED  BY <1>3, <2>1 DEF FollowInv, SuccessIsExecuted
<1>8. CountInv
  <2>1. Executions = {}
    BY <1>1, ClientAssumption DEF Init, Snapshot, Executions
  <2>2. Refusals = {}  BY <1>5 DEF Refusals
  <2>3. Running = 0  BY <1>1 DEF Init, Running
  <2>4. Unserved = 0  BY <1>3 DEF Unserved
  <2>7. CommandsIssued = 0
    <3>1. CommandsIssued = Len(ended) + 0  BY <1>3 DEF CommandsIssued
    <3>2. QED  BY <1>5, <3>1
  <2>5. IsFiniteSet({}) /\ Cardinality({}) = 0  BY FS_EmptySet
  <2>6. Cardinality(Executions) = 0 /\ Cardinality(late) = 0 /\ Cardinality(Refusals) = 0
    BY <1>3, <2>1, <2>2, <2>5
  <2>8. 0 + 0 + 0 + 0 + 0 <= 0  OBVIOUS
  <2>9. Cardinality(Executions) + Running + Cardinality(late) + Unserved + Cardinality(Refusals)
          <= CommandsIssued
    BY <2>3, <2>4, <2>6, <2>7, <2>8, Zenon
  <2>10. IsFiniteSet(Executions) /\ IsFiniteSet(late)  BY <1>3, <2>1, <2>5
  <2>11. QED  BY <2>9, <2>10 DEF CountInv
<1>9. QED  BY <1>2, <1>6, <1>7, <1>8 DEF ClientInv

(* Every step of page or node is one of the runtime and keeps it all.      *)
LEMMA ClientStep ==
  TypeOK /\ ClientInv /\ [ClientNext]_clientVars => TypeOK' /\ ClientInv' /\ [Next]_vars
<1> SUFFICES ASSUME TypeOK, ClientInv, [ClientNext]_clientVars
             PROVE  TypeOK' /\ ClientInv' /\ [Next]_vars
  OBVIOUS
<1>1. ClientTypeOK /\ NodeInv /\ FollowInv /\ CountInv  BY DEF ClientInv
<1>2. [Next]_vars  BY <1>1, ClientNextIsNext
<1>3. TypeOK'  BY <1>2, TypeStep
<1>4. NodeInv' /\ DOMAIN saved.receipts \subseteq DOMAIN saved'.receipts
  BY <1>1, <1>2, NodeStep
<1>5. ClientTypeOK' /\ FollowInv' /\ CountInv'
  <2>1. CASE ServeAwaited \/ RefuseAwaited \/ ServeOther \/ Conclude \/ \E s \in late : ServeLate(s)
    BY <1>1, <1>4, <2>1, NodeActs
  <2>2. CASE \/ \E i \in PageIntent : Issue(i)
             \/ SignAndSubmit \/ Resign \/ Succeed \/ Look \/ Query
             \/ \E t \in queries : ReceiptFound(t) \/ NoReceipt(t)
    BY <1>1, <2>2, PageStep
  <2>3. CASE AccountFails \/ AnswerLost \/ AnswerGarbled \/ Refused \/ Refreshed \/ RefreshFails
    BY <1>1, <2>3, EndingStep
  <2>4. CASE UNCHANGED clientVars
    BY <1>1, <2>4
       DEF clientVars, page, vars, request, ClientTypeOK, FollowInv, SuccessIsExecuted, CountInv,
           Executions, Running, ByPage, Unserved, Refusals, CommandsIssued, Idle
  <2>5. QED  BY <2>1, <2>2, <2>3, <2>4 DEF ClientNext, Timeout
<1>6. QED  BY <1>2, <1>3, <1>4, <1>5 DEF ClientInv

LEMMA ClientAlways == ClientSpec => [](TypeOK /\ ClientInv)
BY ClientStart, ClientStep, PTL DEF ClientSpec

(* The page, its lost and late submissions and its node are one way to use *)
(* the runtime: all that the theorems say of Spec holds of ClientSpec.     *)
THEOREM ClientUsesRuntime == ClientSpec => Spec
<1>1. ClientInit => Init  BY DEF ClientInit
<1>2. QED  BY <1>1, ClientStep, ClientAlways, PTL DEF ClientSpec, Spec

(* What the page remembers, what is under way and what the panel shows are *)
(* of their types: the page signs only with its own account, for its own   *)
(* entity, with a nonce the node has given it.                             *)
THEOREM ClientTypeCorrect == ClientSpec => []ClientTypeOK
<1>1. ClientInv => ClientTypeOK  BY DEF ClientInv
<1>2. QED  BY <1>1, ClientAlways, PTL

(* A transaction the panel shows as a SUCCESS, by the answer or by a       *)
(* receipt query, was committed by the node and stays so.                  *)
THEOREM SuccessAlwaysExecuted == ClientSpec => []SuccessIsExecuted
<1>1. ClientInv => SuccessIsExecuted  BY DEF ClientInv, FollowInv
<1>2. QED  BY <1>1, ClientAlways, PTL

(* However answers are lost, submissions delayed and commands repeated,    *)
(* the node executes at most as many of the page's transactions as the     *)
(* user entered commands that were not refused: none runs twice and a      *)
(* refused one never runs.                                                 *)
THEOREM CommandsExecutedOnce == ClientSpec => []ExecutedAtMostOnce
<1>1. ClientInv => ExecutedAtMostOnce
  <2> SUFFICES ASSUME ClientInv  PROVE ExecutedAtMostOnce
    OBVIOUS
  <2>1. ClientTypeOK /\ CountInv  BY DEF ClientInv
  <2>2. /\ Cardinality(Executions) \in Nat /\ Running \in 0 .. 1 /\ Cardinality(late) \in Nat
        /\ Unserved \in 0 .. 1 /\ Cardinality(Refusals) \in Nat /\ CommandsIssued \in Nat
    BY <2>1, CountTerms
  <2>3. Cardinality(Executions) + Running + Cardinality(late) + Unserved + Cardinality(Refusals)
          <= CommandsIssued
    BY <2>1 DEF CountInv
  <2>4. Cardinality(Executions) <= CommandsIssued - Cardinality(Refusals)  BY <2>2, <2>3
  <2>5. QED  BY <2>4 DEF ExecutedAtMostOnce, Refusals
<1>2. QED  BY <1>1, ClientAlways, PTL

(* With the page's delayed and repeated submissions, too, every nonce of   *)
(* an account is used by exactly one executed transaction.                 *)
THEOREM ClientReceiptsOnce ==
  ASSUME InitWorld.receipts = << >>,
         \A i \in DOMAIN InitWorld.events : InitWorld.events[i].kind # "transaction_executed"
  PROVE  ClientSpec => []OneReceiptPerNonce
<1>1. Spec => []OneReceiptPerNonce  BY TransactionsRunOnce
<1>2. QED  BY <1>1, ClientUsesRuntime, PTL
=================================================================================
