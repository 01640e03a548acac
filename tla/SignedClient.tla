------------------------------ MODULE SignedClient ------------------------------
(***************************************************************************)
(* The signed commands of the web page (src/web/src/main.ts) and the node  *)
(* that serves them.  The page reads its account's nonce, signs, submits,  *)
(* re-signs once after a nonce conflict, and tells the user SUCCESS,       *)
(* FAILED or, when no answer came, UNKNOWN.  A request whose answer the    *)
(* page no longer awaits may still be under way: the node may serve it at  *)
(* any later time, or never.  Other clients, some of them with the same    *)
(* key, use the node meanwhile.                                            *)
(***************************************************************************)
EXTENDS Runtime

CONSTANTS
  Holder,      \* state.account: the account of the page, with its key
  Actor,       \* state.actor: the entity it commands
  PageIntent,  \* the commands of this page; nobody else issues these
  MaxCommands  \* bound: commands the user enters

ASSUME ClientAssumption ==
  /\ Holder \in DOMAIN InitWorld.accounts /\ InitWorld.accounts[Holder].has_key
  /\ Actor \in EntityId
  /\ PageIntent \subseteq Intent
  /\ MaxCommands \in Nat
  \* every nonce used has advanced the head, and the page has sent nothing yet
  /\ InitWorld.accounts[Holder].nonce <= InitWorld.head
  /\ \A t \in DOMAIN InitWorld.receipts : ~(t.from = Holder /\ t.intent \in PageIntent)

VARIABLES
  phase,    \* what the running command awaits; "idle" when state.commanding is false
  attempt,  \* of submitCommand
  command,  \* the running command
  signed,   \* the transaction submitCommand last signed, or <<>>
  pending,  \* state.pendingTxId: <<t>>, or <<>>
  answer,   \* the fate of the awaited submission
  late,     \* submissions still under way whose answer nobody awaits
  queries,  \* receipts asked for by queryPendingReceipt
  shown,    \* the receipt panel: a status and a transaction
  ended     \* history: how each command of the page ended

page == <<phase, attempt, command, signed, pending, answer, late, queries, shown, ended>>
clientVars == <<vars, page>>

PageTransaction ==
  [from : {Holder}, nonce : Nat, entity_id : {Actor}, intent : PageIntent,
   signature : {"valid"}]

ClientTypeOK ==
  /\ phase \in {"idle", "account", "submit", "refresh"}
  /\ attempt \in 0 .. 1
  /\ command \in PageIntent
  /\ pending \in Seq(PageTransaction) /\ signed \in Seq(PageTransaction)
  /\ answer \in {"none", "sent", "running", "ok", "nonce", "error"}
  /\ late \subseteq (1 .. MaxCommands) \X PageTransaction
  /\ queries \subseteq PageTransaction
  /\ shown.status \in {"", "SUCCESS", "FAILED", "UNKNOWN"}
  /\ shown.tx \in Seq(PageTransaction)
  /\ ended \in Seq({"succeeded", "refused", "unknown", "garbled", "unrefreshed"})

Panel(status, id) == [status |-> status, tx |-> id]

ClientInit ==
  /\ Init
  /\ phase = "idle" /\ attempt = 0 /\ command \in PageIntent
  /\ signed = <<>> /\ pending = <<>> /\ answer = "none" /\ late = {} /\ queries = {}
  /\ shown = Panel("", <<>>) /\ ended = <<>>

----------------------------------------------------------------------------
(* The command of the page. *)

Issue(i) ==
  /\ phase = "idle" /\ Len(ended) < MaxCommands
  /\ phase' = "account" /\ attempt' = 0 /\ command' = i
  /\ UNCHANGED <<vars, signed, pending, answer, late, queries, shown, ended>>

End(how, panel) ==
  /\ phase' = "idle" /\ answer' = "none"
  /\ ended' = Append(ended, how)
  /\ shown' = panel

(* aomori_get_account answers; the page signs with its nonce and submits. *)
SignAndSubmit ==
  /\ phase = "account"
  /\ signed' = <<[from |-> Holder, nonce |-> saved.accounts[Holder].nonce,
                  entity_id |-> Actor, intent |-> command, signature |-> "valid"]>>
  /\ pending' = signed'
  /\ phase' = "submit" /\ answer' = "sent"
  /\ UNCHANGED <<vars, attempt, command, late, queries, shown, ended>>

(* aomori_get_account fails or times out: nothing was submitted. *)
AccountFails ==
  /\ phase = "account"
  /\ End("refused", Panel("FAILED", <<>>))
  /\ UNCHANGED <<vars, attempt, command, signed, pending, late, queries>>

(* The page stops awaiting its submission, which the node may not have met. *)
Abandoned ==
  late' = IF answer = "sent" THEN late \cup {<<Len(ended) + 1, signed[1]>>} ELSE late

(***************************************************************************)
(* No answer came: a timeout, a lost connection, HTTP 502 or 503.  The     *)
(* command ends as UNKNOWN with the transaction to ask for, unless a       *)
(* receipt query has cleared pendingTxId meanwhile: then only the log      *)
(* says so.                                                                *)
(***************************************************************************)
UnknownPanel == IF pending # <<>> THEN Panel("UNKNOWN", pending) ELSE shown

RetriesBlindly ==  \* mutant: a lost answer is retried like a nonce conflict
  IF attempt = 0 THEN /\ phase' = "account" /\ attempt' = 1 /\ answer' = "none"
                      /\ UNCHANGED <<ended, shown>>
  ELSE End("unknown", UnknownPanel) /\ UNCHANGED attempt
GivesUp == End("unknown", UnknownPanel) /\ UNCHANGED attempt

AwaitsNode == phase = "submit" /\ answer # "running"  \* mutant: waits for the node to finish
Expiring   == phase = "submit"

AnswerLost ==
  /\ Expiring
  /\ Abandoned /\ GivesUp
  /\ UNCHANGED <<vars, command, signed, pending, queries>>

(* A body that is not JSON, as of HTTP 504: FAILED, whatever the node did. *)
AnswerGarbled ==
  /\ phase = "submit"
  /\ Abandoned /\ End("garbled", Panel("FAILED", <<>>))
  /\ UNCHANGED <<vars, attempt, command, signed, pending, queries>>

ResignsAlways == answer = "nonce"  \* mutant: every nonce conflict is retried
Resigns       == answer = "nonce" /\ attempt = 0

(* submitCommand: one new signature after a nonce conflict. *)
Resign ==
  /\ phase = "submit" /\ Resigns
  /\ phase' = "account" /\ attempt' = attempt + 1 /\ answer' = "none"
  /\ UNCHANGED <<vars, command, signed, pending, late, queries, shown, ended>>

Refused ==
  /\ phase = "submit" /\ answer \in {"nonce", "error"} /\ ~Resigns
  /\ End("refused", Panel("FAILED", <<>>))
  /\ UNCHANGED <<vars, attempt, command, signed, pending, late, queries>>

(* updateReceipt; then the page reads the quests and the inventory. *)
Succeed ==
  /\ phase = "submit" /\ answer = "ok"
  /\ phase' = "refresh" /\ answer' = "none"
  /\ shown' = Panel("SUCCESS", signed) /\ pending' = <<>>
  /\ UNCHANGED <<vars, attempt, command, signed, late, queries, ended>>

(* After some commands the page also looks: a SUCCESS without transaction. *)
Refreshed ==
  /\ phase = "refresh"
  /\ \/ End("succeeded", shown) /\ UNCHANGED pending
     \/ End("succeeded", Panel("SUCCESS", <<>>)) /\ pending' = <<>>
  /\ UNCHANGED <<vars, attempt, command, signed, late, queries>>

(* A failed refresh ends the command as FAILED, although it succeeded. *)
RefreshFails ==
  /\ phase = "refresh"
  /\ End("unrefreshed", Panel("FAILED", <<>>))
  /\ UNCHANGED <<vars, attempt, command, signed, pending, late, queries>>

----------------------------------------------------------------------------
(* The receipt panel: look replaces it, and an UNKNOWN can be asked about. *)

Look ==
  /\ phase = "idle"
  /\ \/ shown' = Panel("SUCCESS", <<>>) /\ pending' = <<>>
     \/ shown' = Panel("FAILED", <<>>) /\ UNCHANGED pending
  /\ UNCHANGED <<vars, phase, attempt, command, signed, answer, late, queries, ended>>

(* The button of an UNKNOWN panel asks for pendingTxId, whatever it shows. *)
Query ==
  /\ shown.status = "UNKNOWN" /\ pending # <<>>
  /\ queries' = queries \cup {pending[1]}
  /\ UNCHANGED <<vars, phase, attempt, command, signed, pending, answer, late, shown, ended>>

Missing(t) == t \in queries  \* mutant: no receipt counts as one
Found(t)   == t \in queries /\ t \in DOMAIN saved.receipts

ReceiptFound(t) ==
  /\ Found(t)
  /\ queries' = queries \ {t}
  /\ shown' = Panel("SUCCESS", <<t>>) /\ pending' = <<>>
  /\ UNCHANGED <<vars, phase, attempt, command, signed, answer, late, ended>>

NoReceipt(t) ==
  /\ t \in queries
  /\ queries' = queries \ {t}
  /\ UNCHANGED <<vars, phase, attempt, command, signed, pending, answer, late, shown, ended>>

----------------------------------------------------------------------------
(* The node. *)

(* It takes up the awaited submission, or refuses it. *)
ServeAwaited ==
  /\ phase = "submit" /\ answer = "sent"
  /\ BeginTransaction(signed[1])
  /\ answer' = "running"
  /\ UNCHANGED <<phase, attempt, command, signed, pending, late, queries, shown, ended>>

(* A stale nonce; or any other error, before or after that check (HTTP 429). *)
RefuseAwaited ==
  /\ phase = "submit" /\ answer = "sent"
  /\ \/ Idle /\ ~NonceMatches(signed[1]) /\ answer' = "nonce"
     \/ answer' = "error"
  /\ UNCHANGED <<vars, phase, attempt, command, signed, pending, late, queries, shown, ended>>

(* It takes up a submission the page has given up, or never gets it. *)
ServeLate(s) ==
  /\ \/ BeginTransaction(s[2])
     \/ UNCHANGED vars
  /\ late' = late \ {s}
  /\ UNCHANGED <<phase, attempt, command, signed, pending, answer, queries, shown, ended>>

ServeOther ==
  /\ \/ \E e \in EntityId : BeginCommand(e)
     \/ \E t \in [from : Account, nonce : 0 .. MaxHead, entity_id : EntityId,
                  intent : Intent \ PageIntent, signature : {"none", "valid"}] :
          BeginTransaction(t)
     \/ HostCall
     \/ AdminRequest
  /\ UNCHANGED page

(* A request ends; if the page awaits it, it will see the outcome. *)
Conclude ==
  /\ \/ Commit /\ answer' = IF answer = "running" THEN "ok" ELSE answer
     \/ Fail   /\ answer' = IF answer = "running" THEN "error" ELSE answer
  /\ UNCHANGED <<phase, attempt, command, signed, pending, late, queries, shown, ended>>

----------------------------------------------------------------------------
(* RPC_TIMEOUT_MS ends every wait. *)
Timeout == AccountFails \/ AnswerLost \/ RefreshFails

ClientNext ==
  \/ \E i \in PageIntent : Issue(i)
  \/ SignAndSubmit \/ AnswerGarbled \/ Resign \/ Refused \/ Succeed \/ Refreshed \/ Timeout
  \/ Look \/ Query \/ \E t \in queries : ReceiptFound(t) \/ NoReceipt(t)
  \/ ServeAwaited \/ RefuseAwaited \/ ServeOther \/ Conclude
  \/ \E s \in late : ServeLate(s)

ClientSpec == ClientInit /\ [][ClientNext]_clientVars /\ WF_clientVars(Timeout)

----------------------------------------------------------------------------
(* Properties. *)

(***************************************************************************)
(* A command the page reports as refused was not executed and never will   *)
(* be, and no command is executed twice, although a lost submission may    *)
(* run after the user has repeated it with the same or a later nonce.      *)
(* (Garbled answers and failed refreshes are reported as FAILED too; these *)
(* the node may have executed, once.)                                      *)
(***************************************************************************)
Executions == {t \in DOMAIN saved.receipts : t.from = Holder /\ t.intent \in PageIntent}

CommandsIssued == Len(ended) + (IF phase = "idle" THEN 0 ELSE 1)

ExecutedAtMostOnce ==
  Cardinality(Executions) <= CommandsIssued - Cardinality({n \in DOMAIN ended : ended[n] = "refused"})

(* A transaction the page shows as a SUCCESS has its receipt at the node. *)
SuccessIsExecuted ==
  shown.status = "SUCCESS" /\ shown.tx # <<>> => shown.tx[1] \in DOMAIN saved.receipts

(* The page is never left busy: every command ends, if only by timeouts. *)
CommandsEnd == phase # "idle" ~> phase = "idle"
=================================================================================
