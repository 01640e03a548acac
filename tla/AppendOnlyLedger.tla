----------------------------- MODULE AppendOnlyLedger -----------------------------
(***************************************************************************)
(* What the instances of the experimental ledger promise their users: each *)
(* keeps a log of signed transactions that only grows, and takes a         *)
(* transaction only if it carries the nonce that is due for its account.   *)
(* MemoryLedger.tla is shown to implement it.                              *)
(***************************************************************************)
EXTENDS Integers, Sequences, TLAPS

CONSTANTS
  Replica,     \* the ledger instances
  Account,     \* the accounts of the genesis world
  Transaction  \* signed transactions; each has a sender and a nonce

TransactionTyped ==
  \A t \in Transaction : t.from \in Account /\ t.nonce \in Nat

VARIABLES
  log,   \* log[r]: the transactions r has published, oldest first
  next   \* next[r][a]: the nonce that is due for account a

logVars == <<log, next>>

Init ==
  /\ log = [r \in Replica |-> <<>>]
  /\ next = [r \in Replica |-> [a \in Account |-> 0]]

Append1(r, t) ==
  /\ t.nonce = next[r][t.from]
  /\ log' = [log EXCEPT ![r] = Append(@, t)]
  /\ next' = [next EXCEPT ![r][t.from] = @ + 1]

Next == \E r \in Replica, t \in Transaction : Append1(r, t)

Spec == Init /\ [][Next]_logVars

(* No nonce of an account is missing, repeated or out of order in a log:   *)
(* the published transactions of an account are its transactions 0, 1, ... *)
(* one after the other, up to the nonce that is due.                       *)
Dense(l, due) ==
  \A a \in Account :
    /\ \A i \in DOMAIN l : l[i].from = a => l[i].nonce < due[a]
    /\ \A i, j \in DOMAIN l :
         i < j /\ l[i].from = a /\ l[j].from = a => l[i].nonce < l[j].nonce
    /\ \A n \in Nat : n < due[a] =>
         \E i \in DOMAIN l : l[i].from = a /\ l[i].nonce = n

NoncesInOrder == \A r \in Replica : Dense(log[r], next[r])

----------------------------------------------------------------------------
(* Proof that a ledger of this kind never skips or repeats a nonce. *)

TypeOK ==
  /\ log \in [Replica -> Seq(Transaction)]
  /\ next \in [Replica -> [Account -> Nat]]

(* The log and the due nonces keep their types. *)
LEMMA LedgerTyped ==
  ASSUME TransactionTyped  PROVE Spec => []TypeOK
<1>1. Init => TypeOK  BY DEF Init, TypeOK
<1>2. TypeOK /\ [Next]_logVars => TypeOK'
  <2> SUFFICES ASSUME TypeOK, [Next]_logVars  PROVE TypeOK'  OBVIOUS
  <2>1. CASE UNCHANGED logVars  BY <2>1 DEF logVars, TypeOK
  <2>2. ASSUME NEW r \in Replica, NEW t \in Transaction, Append1(r, t)  PROVE TypeOK'
    BY <2>2 DEF Append1, TypeOK, TransactionTyped
  <2>3. QED  BY <2>1, <2>2 DEF Next
<1>3. QED  BY <1>1, <1>2, PTL DEF Spec

(* Appending the transaction that is due keeps a log dense. *)
LEMMA AppendKeepsDense ==
  ASSUME TransactionTyped,
         NEW l \in Seq(Transaction), NEW due \in [Account -> Nat], NEW t \in Transaction,
         Dense(l, due), t.nonce = due[t.from]
  PROVE  Dense(Append(l, t), [due EXCEPT ![t.from] = @ + 1])
<1> DEFINE m == Append(l, t)
           nxt == [due EXCEPT ![t.from] = @ + 1]
<1>1. DOMAIN l = 1 .. Len(l) /\ DOMAIN m = 1 .. Len(l) + 1 /\ Len(l) \in Nat  OBVIOUS
<1>2. \A i \in 1 .. Len(l) : m[i] = l[i] /\ l[i] \in Transaction  OBVIOUS
<1>3. m[Len(l) + 1] = t  OBVIOUS
<1>4. t.from \in Account /\ t.nonce \in Nat  BY DEF TransactionTyped
<1>5. \A i \in 1 .. Len(l) : l[i].nonce \in Nat /\ l[i].from \in Account
  BY <1>2 DEF TransactionTyped
<1>6. SUFFICES ASSUME NEW a \in Account
      PROVE  /\ \A i \in DOMAIN m : m[i].from = a => m[i].nonce < nxt[a]
             /\ \A i, j \in DOMAIN m :
                  i < j /\ m[i].from = a /\ m[j].from = a => m[i].nonce < m[j].nonce
             /\ \A n \in Nat : n < nxt[a] => \E i \in DOMAIN m : m[i].from = a /\ m[i].nonce = n
  BY DEF Dense
<1>7. due[a] \in Nat /\ nxt[a] = IF a = t.from THEN due[a] + 1 ELSE due[a]  BY <1>4
<1> HIDE DEF m, nxt
<1>8. \A i \in DOMAIN l : l[i].from = a => l[i].nonce < due[a]  BY DEF Dense
<1>9. \A i \in DOMAIN m : m[i].from = a => m[i].nonce < nxt[a]
  BY <1>1, <1>2, <1>3, <1>4, <1>5, <1>7, <1>8
<1>10. \A i, j \in DOMAIN m :
         i < j /\ m[i].from = a /\ m[j].from = a => m[i].nonce < m[j].nonce
  <2> SUFFICES ASSUME NEW i \in DOMAIN m, NEW j \in DOMAIN m,
                      i < j, m[i].from = a, m[j].from = a
               PROVE  m[i].nonce < m[j].nonce
    OBVIOUS
  <2>1. CASE j = Len(l) + 1  BY <1>1, <1>2, <1>3, <1>8, <2>1
  <2>2. CASE j \in 1 .. Len(l)
    <3>1. i \in DOMAIN l /\ j \in DOMAIN l  BY <1>1, <2>2
    <3>2. QED  BY <1>1, <1>2, <3>1 DEF Dense
  <2>3. QED  BY <1>1, <2>1, <2>2
<1>11. ASSUME NEW n \in Nat, n < nxt[a]
       PROVE  \E i \in DOMAIN m : m[i].from = a /\ m[i].nonce = n
  <2>1. CASE n < due[a]
    <3>1. PICK i \in DOMAIN l : l[i].from = a /\ l[i].nonce = n  BY <2>1 DEF Dense
    <3>2. QED  BY <1>1, <1>2, <3>1
  <2>2. CASE n = due[a]  BY <1>1, <1>3, <1>7, <1>11, <2>2
  <2>3. QED  BY <1>7, <1>11, <2>1, <2>2
<1>12. QED  BY <1>9, <1>10, <1>11

(* For every set of replicas, accounts and transactions, no nonce of an    *)
(* account is missing, repeated or out of order in a log.                  *)
THEOREM NoncesAlwaysInOrder ==
  ASSUME TransactionTyped  PROVE Spec => []NoncesInOrder
<1>1. Init => NoncesInOrder
  BY DEF Init, NoncesInOrder, Dense
<1>2. TypeOK /\ NoncesInOrder /\ [Next]_logVars => NoncesInOrder'
  <2> SUFFICES ASSUME TypeOK, NoncesInOrder, [Next]_logVars  PROVE NoncesInOrder'
    OBVIOUS
  <2>1. CASE UNCHANGED logVars  BY <2>1 DEF logVars, NoncesInOrder, Dense
  <2>2. ASSUME NEW r \in Replica, NEW t \in Transaction, Append1(r, t)
        PROVE  NoncesInOrder'
    <3> SUFFICES ASSUME NEW s \in Replica  PROVE Dense(log'[s], next'[s])
      BY DEF NoncesInOrder
    <3>1. log[r] \in Seq(Transaction) /\ next[r] \in [Account -> Nat]  BY DEF TypeOK
    <3>2. Dense(log[s], next[s])  BY DEF NoncesInOrder
    <3>3. CASE s # r  BY <2>2, <3>2, <3>3 DEF Append1, TypeOK
    <3>4. CASE s = r
      <4>1. /\ log'[s] = Append(log[r], t)
            /\ next'[s] = [next[r] EXCEPT ![t.from] = @ + 1]
        BY <2>2, <3>4 DEF Append1, TypeOK
      <4>2. t.nonce = next[r][t.from]  BY <2>2 DEF Append1
      <4>3. Dense(log[r], next[r])  BY <3>2, <3>4
      <4>4. Dense(Append(log[r], t), [next[r] EXCEPT ![t.from] = @ + 1])
        BY <3>1, <4>2, <4>3, AppendKeepsDense
      <4>5. QED  BY <4>1, <4>4
    <3>5. QED  BY <3>3, <3>4
  <2>3. QED  BY <2>1, <2>2 DEF Next
<1>3. Spec => []TypeOK  BY LedgerTyped
<1>4. QED  BY <1>1, <1>2, <1>3, PTL DEF Spec
==================================================================================
