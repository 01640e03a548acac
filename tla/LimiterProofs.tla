----------------------------- MODULE LimiterProofs -----------------------------
(***************************************************************************)
(* Proofs about the rate limiter: the table keeps its bound, pruning and   *)
(* lazy refill implement permanent buckets, and no client draws more than  *)
(* two of them, for all rates, times and numbers of clients.               *)
(***************************************************************************)
EXTENDS RateLimiter, FiniteSetTheorems, TLAPS

(* Products of the natural numbers the levels are made of. *)
LEMMA ProductStep ==
  ASSUME NEW a \in Nat, NEW r \in Nat
  PROVE  a * r \in Nat /\ (a + 1) * r = a * r + r
  BY SMT

LEMMA ProductMonotone ==
  ASSUME NEW a \in Nat, NEW b \in Nat, NEW r \in Nat, a >= b
  PROVE  a * r >= b * r
  BY SMT

(* RetryAfter is the least number of ticks that refills what is missing. *)
LEMMA RetryExact ==
  ASSUME NEW missing \in 1 .. Second
  PROVE  /\ RetryAfter(missing) \in 1 .. Second
         /\ RetryAfter(missing) * Rate >= missing
         /\ (RetryAfter(missing) - 1) * Rate < missing
  <1> DEFINE q == RetryAfter(missing)
             n == missing + Rate - 1
  <1>1. Rate \in Nat \ {0} /\ Second \in Nat \ {0} BY LimiterAssumption
  <1>2. n \in Nat /\ n >= Rate BY <1>1
  <1>3. q \in Int /\ Rate * q <= n /\ n < Rate * (q + 1) BY <1>1, <1>2 DEF RetryAfter
  <1>4. q >= 1 BY <1>1, <1>2, <1>3
  <1>5. q * Rate >= missing /\ (q - 1) * Rate < missing BY <1>1, <1>3
  <1>6. q <= Second
    <2>1. SUFFICES ASSUME q > Second PROVE FALSE BY <1>1, <1>3
    <2>2. q - 1 \in Nat /\ q - 1 >= missing BY <1>1, <1>3, <1>4, <2>1
    <2>3. (q - 1) * Rate >= missing BY <1>1, <2>2
    <2> QED BY <2>3, <1>1, <1>3, <1>5
  <1> QED BY <1>1, <1>3, <1>4, <1>5, <1>6

--------------------------------------------------------------------------------
(* The table. *)

Levels(table) == [k \in Key |-> LevelOf(table, k)]

(* A table as TypeOK describes it. *)
Table(table) ==
  /\ DOMAIN table \subseteq Key /\ Overflow \in DOMAIN table
  /\ IsFiniteSet(DOMAIN table) /\ Cardinality(DOMAIN table) <= MaxBuckets
  /\ \A k \in DOMAIN table :
       /\ DOMAIN table[k] = {"tokens", "age"}
       /\ table[k].tokens \in 0 .. Capacity /\ table[k].age \in 0 .. BucketTtl

LEMMA CapacityNat == Capacity \in Nat /\ Capacity >= Second /\ Rate <= Capacity
  <1>1. Rate \in Nat \ {0} /\ Second \in Nat \ {0} BY LimiterAssumption
  <1>2. Rate * Second \in Nat /\ Rate * Second = Second * Rate BY <1>1
  <1>3. Rate * Second >= 1 * Second BY <1>1, ProductMonotone
  <1>4. Second * Rate >= 1 * Rate BY <1>1, ProductMonotone
  <1> QED BY <1>1, <1>2, <1>3, <1>4 DEF Capacity

LEMMA LevelBounds ==
  ASSUME NEW table, Table(table), NEW k \in Key
  PROVE  LevelOf(table, k) \in 0 .. Capacity
  <1>1. Capacity \in Nat /\ Rate \in Nat /\ BucketTtl \in Nat BY CapacityNat, LimiterAssumption
  <1>2. CASE k \notin DOMAIN table BY <1>1, <1>2 DEF LevelOf
  <1>3. CASE k \in DOMAIN table
    <2> DEFINE b == table[k]
    <2>1. b.tokens \in 0 .. Capacity /\ b.age \in 0 .. BucketTtl BY <1>3 DEF Table
    <2>2. b.age * Rate \in Nat BY <1>1, <2>1, ProductStep
    <2> QED BY <1>1, <1>3, <2>1, <2>2 DEF LevelOf, Refilled, Least
  <1> QED BY <1>2, <1>3

(* A bucket that is dropped has refilled, so that dropping it changes no level. *)
LEMMA PrunedTable ==
  ASSUME Table(buckets)
  PROVE  Table(Pruned) /\ \A k \in Key : LevelOf(Pruned, k) = LevelOf(buckets, k)
  <1>1. Capacity \in Nat /\ Rate \in Nat \ {0} /\ Second \in Nat \ {0} /\ BucketTtl \in Nat
        /\ BucketTtl >= Second
    BY CapacityNat, LimiterAssumption
  <1>2. CASE pruned < PruneInterval BY <1>2 DEF Pruned
  <1>3. CASE ~(pruned < PruneInterval)
    <2> DEFINE D == {k \in DOMAIN buckets : k = Overflow \/ ~IdleLong(buckets[k])}
    <2>1. Pruned = [k \in D |-> buckets[k]] BY <1>3 DEF Pruned
    <2>2. D \subseteq DOMAIN buckets /\ Overflow \in D BY DEF Table
    <2>3. IsFiniteSet(D) /\ Cardinality(D) <= Cardinality(DOMAIN buckets)
      BY <2>2, FS_Subset DEF Table
    <2>4. Cardinality(D) \in Nat /\ Cardinality(DOMAIN buckets) \in Nat
      BY <2>3, FS_CardinalityType DEF Table
    <2>5. Cardinality(D) <= MaxBuckets BY <2>3, <2>4, LimiterAssumption DEF Table
    <2>6. Table(Pruned) BY <2>1, <2>2, <2>3, <2>5 DEF Table
    <2>7. ASSUME NEW k \in Key PROVE LevelOf(Pruned, k) = LevelOf(buckets, k)
      <3>1. CASE k \in D BY <3>1, <2>1, <2>2 DEF LevelOf
      <3>2. CASE k \notin DOMAIN buckets BY <3>2, <2>1, <2>2 DEF LevelOf
      <3>3. CASE k \in DOMAIN buckets \ D
        <4> DEFINE b == buckets[k]
        <4>1. b.tokens \in 0 .. Capacity /\ b.age \in 0 .. BucketTtl /\ b.age >= BucketTtl
          BY <3>3 DEF Table, IdleLong
        <4>2. b.age * Rate >= Second * Rate BY <1>1, <4>1, ProductMonotone
        <4>3. b.age * Rate \in Nat /\ Second * Rate = Capacity
          BY <1>1, <4>1, ProductStep DEF Capacity
        <4>4. Refilled(b) = Capacity BY <1>1, <4>1, <4>2, <4>3 DEF Refilled, Least
        <4> QED BY <3>3, <2>1, <4>4 DEF LevelOf
      <3> QED BY <3>1, <3>2, <3>3
    <2> QED BY <2>6, <2>7
  <1> QED BY <1>2, <1>3

(* Storing a bucket sets its level and no other; the table stays in bounds. *)
LEMMA StoredTable ==
  ASSUME NEW table, Table(table), NEW c \in Key, NEW tokens \in 0 .. Capacity
  PROVE  LET t == Stored(table, KeyOf(table, c), tokens)
         IN /\ KeyOf(table, c) \in {c, Overflow} /\ KeyOf(table, c) \in Key
            /\ Table(t)
            /\ \A k \in Key : LevelOf(t, k) = IF k = KeyOf(table, c) THEN tokens
                                             ELSE LevelOf(table, k)
  <1> DEFINE key == KeyOf(table, c)
             t == Stored(table, key, tokens)
  <1>1. Capacity \in Nat /\ Rate \in Nat \ {0} /\ BucketTtl \in Nat /\ MaxBuckets \in Nat
    BY CapacityNat, LimiterAssumption
  <1>2. key \in {c, Overflow} /\ key \in Key BY DEF KeyOf, Key
  <1>3. key \in DOMAIN table \/ Room(table) BY DEF KeyOf, Table
  <1>4. IsFiniteSet(DOMAIN table) /\ Cardinality(DOMAIN table) \in Nat
    BY FS_CardinalityType DEF Table
  <1>5. IsFiniteSet(DOMAIN table \cup {key})
        /\ Cardinality(DOMAIN table \cup {key}) =
             IF key \in DOMAIN table THEN Cardinality(DOMAIN table) ELSE Cardinality(DOMAIN table) + 1
    BY <1>4, FS_AddElement
  <1> HIDE DEF key
  <1>6. DOMAIN t = DOMAIN table \cup {key} BY DEF Stored
  <1>7. Cardinality(DOMAIN t) <= MaxBuckets BY <1>1, <1>3, <1>4, <1>5, <1>6 DEF Table, Room
  <1>8. t[key] = [tokens |-> tokens, age |-> 0] /\ \A k \in DOMAIN table \ {key} : t[k] = table[k]
    BY DEF Stored
  <1> HIDE DEF t
  <1>9. ASSUME NEW k \in DOMAIN t
        PROVE  /\ DOMAIN t[k] = {"tokens", "age"}
               /\ t[k].tokens \in 0 .. Capacity /\ t[k].age \in 0 .. BucketTtl
    BY <1>1, <1>6, <1>8 DEF Table
  <1>10. Table(t) BY <1>2, <1>5, <1>6, <1>7, <1>9 DEF Table
  <1>11. Refilled(t[key]) = tokens
    <2>1. 0 * Rate = 0 BY <1>1
    <2> QED BY <1>1, <1>8, <2>1 DEF Refilled, Least
  <1>12. ASSUME NEW k \in Key
         PROVE  LevelOf(t, k) = IF k = key THEN tokens ELSE LevelOf(table, k)
    BY <1>6, <1>8, <1>11 DEF LevelOf
  <1> QED BY <1>2, <1>10, <1>12 DEF t, key

--------------------------------------------------------------------------------
LEMMA TypeIsTable == TypeOK <=> /\ Table(buckets)
                                /\ pruned \in 0 .. PruneInterval
                                /\ burst \in Nat
  BY DEF TypeOK, Table

LEMMA InitFacts ==
  ASSUME Init
  PROVE  TypeOK /\ \A k \in Key : LevelOf(buckets, k) = Capacity
  <1>1. Capacity \in Nat /\ Rate \in Nat \ {0} /\ BucketTtl \in Nat /\ PruneInterval \in Nat
        /\ MaxBuckets \in Nat \ {0}
    BY CapacityNat, LimiterAssumption
  <1>2. DOMAIN buckets = {Overflow} /\ buckets[Overflow] = Full BY DEF Init
  <1>3. IsFiniteSet({Overflow}) /\ Cardinality({Overflow}) = 1 BY FS_Singleton
  <1>4. Table(buckets) BY <1>1, <1>2, <1>3 DEF Table, Key, Full
  <1>5. Refilled(Full) = Capacity
    <2>1. 0 * Rate = 0 BY <1>1
    <2> QED BY <1>1, <2>1 DEF Refilled, Least, Full
  <1> QED BY <1>1, <1>2, <1>4, <1>5, TypeIsTable DEF Init, LevelOf

(* What a request does to the levels, the table being in bounds. *)
LEMMA CheckFacts ==
  ASSUME TypeOK, NEW c \in Key, Check(c)
  PROVE  /\ TypeOK'
         /\ \E k \in {c, Overflow} :
              \/ /\ LevelOf(buckets, k) >= Second
                 /\ \A j \in Key : LevelOf(buckets, j)' =
                      IF j = k THEN LevelOf(buckets, k) - Second ELSE LevelOf(buckets, j)
                 /\ reply' = <<c, k, 0>>
                 /\ burst' = IF c = Watched THEN burst + Second ELSE burst
              \/ /\ LevelOf(buckets, k) < Second
                 /\ \A j \in Key : LevelOf(buckets, j)' = LevelOf(buckets, j)
                 /\ reply' = <<c, k, RetryAfter(Second - LevelOf(buckets, k))>>
                 /\ burst' = burst
  <1> DEFINE key == KeyOf(Pruned, c)
             level == LevelOf(Pruned, key)
  <1>1. Capacity \in Nat /\ Second \in Nat \ {0} /\ PruneInterval \in Nat
    BY CapacityNat, LimiterAssumption
  <1>2. Table(buckets) /\ pruned \in 0 .. PruneInterval /\ burst \in Nat BY TypeIsTable
  <1>3. Table(Pruned) /\ \A k \in Key : LevelOf(Pruned, k) = LevelOf(buckets, k)
    BY <1>2, PrunedTable
  <1>4. key \in {c, Overflow} /\ key \in Key BY <1>3, <1>1, StoredTable
  <1>5. level \in 0 .. Capacity /\ level = LevelOf(buckets, key) BY <1>3, <1>4, LevelBounds
  <1>6. pruned' \in 0 .. PruneInterval BY <1>1, <1>2 DEF Check
  <1>7. CASE /\ level >= Second
             /\ buckets' = Stored(Pruned, key, level - Second)
             /\ reply' = <<c, key, 0>>
             /\ burst' = IF c = Watched THEN burst + Second ELSE burst
    <2>1. level - Second \in 0 .. Capacity BY <1>1, <1>5, <1>7
    <2>2. /\ Table(buckets')
          /\ \A k \in Key : LevelOf(buckets', k) =
               IF k = key THEN level - Second ELSE LevelOf(Pruned, k)
      BY <2>1, <1>3, <1>7, StoredTable
    <2>3. TypeOK' BY <1>1, <1>2, <1>6, <1>7, <2>2 DEF TypeOK, Table
    <2>4. \A j \in Key : LevelOf(buckets, j)' =
             IF j = key THEN LevelOf(buckets, key) - Second ELSE LevelOf(buckets, j)
      BY <2>2, <1>3, <1>5 DEF LevelOf
    <2> QED BY <2>3, <2>4, <1>4, <1>5, <1>7
  <1>8. CASE /\ level < Second
             /\ buckets' = Stored(Pruned, key, level)
             /\ reply' = <<c, key, RetryAfter(Second - level)>>
             /\ UNCHANGED burst
    <2>2. /\ Table(buckets')
          /\ \A k \in Key : LevelOf(buckets', k) =
               IF k = key THEN level ELSE LevelOf(Pruned, k)
      BY <1>3, <1>5, <1>8, StoredTable
    <2>3. TypeOK' BY <1>1, <1>2, <1>6, <1>8, <2>2 DEF TypeOK, Table
    <2>4. \A j \in Key : LevelOf(buckets, j)' = LevelOf(buckets, j)
      BY <2>2, <1>3, <1>5 DEF LevelOf
    <2> QED BY <2>3, <2>4, <1>4, <1>5, <1>8
  <1> QED BY <1>7, <1>8 DEF Check

(* What a tick does to them. *)
LEMMA TickFacts ==
  ASSUME TypeOK, Tick
  PROVE  /\ TypeOK'
         /\ \A k \in Key : LevelOf(buckets, k)' = Least(LevelOf(buckets, k) + Rate, Capacity)
  <1>1. /\ Capacity \in Nat /\ Rate \in Nat \ {0} /\ Second \in Nat \ {0} /\ Rate <= Capacity
        /\ BucketTtl \in Nat /\ BucketTtl >= Second /\ PruneInterval \in Nat
    BY CapacityNat, LimiterAssumption
  <1>2. Table(buckets) /\ pruned \in 0 .. PruneInterval /\ burst \in Nat BY TypeIsTable
  <1>3. DOMAIN buckets' = DOMAIN buckets BY DEF Tick
  <1>4. ASSUME NEW k \in DOMAIN buckets
        PROVE  /\ DOMAIN buckets'[k] = {"tokens", "age"}
               /\ buckets'[k].tokens = buckets[k].tokens
               /\ buckets'[k].age = Least(buckets[k].age + 1, BucketTtl)
    BY <1>2 DEF Tick, Table
  <1>5. ASSUME NEW k \in DOMAIN buckets
        PROVE  buckets'[k].age \in 0 .. BucketTtl
    BY <1>1, <1>2, <1>4 DEF Table, Least
  <1>6. Table(buckets') BY <1>2, <1>3, <1>4, <1>5 DEF Table
  <1>7. pruned' \in 0 .. PruneInterval BY <1>1, <1>2 DEF Tick, Least
  <1>8. burst' \in Nat BY <1>1, <1>2 DEF Tick
  <1>9. TypeOK' BY <1>6, <1>7, <1>8 DEF TypeOK, Table
  <1>10. ASSUME NEW k \in Key
         PROVE  LevelOf(buckets', k) = Least(LevelOf(buckets, k) + Rate, Capacity)
    <2>1. CASE k \notin DOMAIN buckets BY <2>1, <1>1, <1>3 DEF LevelOf, Least
    <2>2. CASE k \in DOMAIN buckets
      <3> DEFINE b == buckets[k]
                 c == buckets'[k]
      <3>1. b.tokens \in 0 .. Capacity /\ b.age \in 0 .. BucketTtl BY <2>2, <1>2 DEF Table
      <3>2. c.tokens = b.tokens /\ c.age = Least(b.age + 1, BucketTtl) BY <2>2, <1>4
      <3>3. b.age * Rate \in Nat /\ (b.age + 1) * Rate = b.age * Rate + Rate
        BY <1>1, <3>1, ProductStep
      <3>4. CASE b.age < BucketTtl
        <4>1. c.age = b.age + 1 BY <3>1, <3>2, <3>4, <1>1 DEF Least
        <4>2. Refilled(c) = Least(b.tokens + b.age * Rate + Rate, Capacity)
          BY <4>1, <3>1, <3>2, <3>3, <1>1 DEF Refilled, Least
        <4>3. Refilled(c) = Least(Refilled(b) + Rate, Capacity)
          BY <4>2, <3>1, <3>3, <1>1 DEF Refilled, Least
        <4> QED BY <4>3, <2>2, <1>3 DEF LevelOf
      <3>5. CASE b.age = BucketTtl
        <4>1. c.age = b.age BY <3>2, <3>5, <1>1 DEF Least
        <4>2. b.age * Rate >= Second * Rate BY <1>1, <3>5, ProductMonotone
        <4>3. Second * Rate = Capacity BY <1>1 DEF Capacity
        <4>4. Refilled(b) = Capacity /\ Refilled(c) = Capacity
          BY <4>1, <4>2, <4>3, <3>1, <3>2, <3>3, <1>1 DEF Refilled, Least
        <4> QED BY <4>4, <2>2, <1>1, <1>3 DEF LevelOf, Least
      <3> QED BY <3>1, <3>4, <3>5, <1>1
    <2> QED BY <2>1, <2>2
  <1>11. \A k \in Key : LevelOf(buckets, k)' = Least(LevelOf(buckets, k) + Rate, Capacity)
    BY <1>10 DEF LevelOf
  <1> QED BY <1>9, <1>11

(***************************************************************************)
(* The table stays within MaxBuckets, always holds the shared bucket, and  *)
(* every bucket is between empty and full (TypeOK).                        *)
(***************************************************************************)
THEOREM TypeCorrect == Spec => []TypeOK
  <1>1. Init => TypeOK BY InitFacts
  <1>2. TypeOK /\ [Next]_vars => TypeOK'
    <2>1. SUFFICES ASSUME TypeOK, [Next]_vars PROVE TypeOK' OBVIOUS
    <2>2. CASE Tick BY <2>1, <2>2, TickFacts
    <2>3. ASSUME NEW c \in Key, Check(c) PROVE TypeOK' BY <2>1, <2>3, CheckFacts
    <2>4. CASE UNCHANGED vars BY <2>1, <2>4 DEF TypeOK, vars
    <2> QED BY <2>1, <2>2, <2>3, <2>4 DEF Next
  <1> QED BY <1>1, <1>2, PTL DEF Spec

--------------------------------------------------------------------------------
(***************************************************************************)
(* The limiter implements permanent, eagerly refilled buckets: neither the *)
(* lazy refill, nor pruning, nor the bounded table can be told from them,  *)
(* and a refusal names the exact delay (KeepsPromise).                     *)
(***************************************************************************)
THEOREM ImplementsIdeal == Spec => KeepsPromise
  <1> DEFINE bar == [k \in Key |-> LevelOf(buckets, k)]
  <1>1. Init => Ideal!Init
    <2>1. SUFFICES ASSUME Init PROVE Ideal!Init OBVIOUS
    <2>2. \A k \in Key : LevelOf(buckets, k) = Capacity BY <2>1, InitFacts
    <2>3. reply = <<>> BY <2>1 DEF Init
    <2> QED BY <2>2, <2>3 DEF Ideal!Init, Ideal!Key, Ideal!Capacity, Key, Capacity
  <1>2. TypeOK /\ [Next]_vars => [Ideal!Next]_<<bar, reply>>
    <2>1. SUFFICES ASSUME TypeOK, [Next]_vars PROVE [Ideal!Next]_<<bar, reply>> OBVIOUS
    <2>2. \A k \in Key : LevelOf(buckets, k) \in 0 .. Capacity BY <2>1, TypeIsTable, LevelBounds
    <2>3. Capacity \in Nat /\ Rate \in Nat \ {0} /\ Second \in Nat \ {0}
      BY CapacityNat, LimiterAssumption
    <2>4. CASE Tick
      <3>1. \A k \in Key : LevelOf(buckets, k)' = Least(LevelOf(buckets, k) + Rate, Capacity)
        BY <2>1, <2>4, TickFacts
      <3>2. bar' = [k \in Key |-> IF bar[k] + Rate <= Capacity THEN bar[k] + Rate ELSE Capacity]
        BY <3>1 DEF Least
      <3>3. reply' = reply BY <2>4 DEF Tick
      <3>4. Ideal!Elapse BY <3>2, <3>3 DEF Ideal!Elapse, Ideal!Key, Ideal!Capacity, Key, Capacity
      <3> QED BY <3>4 DEF Ideal!Next
    <2>5. ASSUME NEW c \in Key, Check(c) PROVE Ideal!Next
      <3>1. PICK k \in {c, Overflow} :
              \/ /\ LevelOf(buckets, k) >= Second
                 /\ \A j \in Key : LevelOf(buckets, j)' =
                      IF j = k THEN LevelOf(buckets, k) - Second ELSE LevelOf(buckets, j)
                 /\ reply' = <<c, k, 0>>
                 /\ burst' = IF c = Watched THEN burst + Second ELSE burst
              \/ /\ LevelOf(buckets, k) < Second
                 /\ \A j \in Key : LevelOf(buckets, j)' = LevelOf(buckets, j)
                 /\ reply' = <<c, k, RetryAfter(Second - LevelOf(buckets, k))>>
                 /\ burst' = burst
        BY <2>1, <2>5, CheckFacts
      <3>2. k \in Key /\ c \in Ideal!Key /\ bar[k] = LevelOf(buckets, k)
        BY <2>5 DEF Key, Ideal!Key
      <3>3. CASE LevelOf(buckets, k) >= Second
        <4>1. ~(LevelOf(buckets, k) < Second) BY <3>2, <3>3, <2>2, <2>3
        <4>2. bar' = [bar EXCEPT ![k] = @ - Second] BY <3>1, <3>2, <4>1
        <4>3. Ideal!Accept(c, k) BY <3>1, <3>2, <3>3, <4>1, <4>2 DEF Ideal!Accept
        <4> QED BY <4>3, <3>2 DEF Ideal!Next
      <3>4. CASE LevelOf(buckets, k) < Second
        <4> DEFINE missing == Second - LevelOf(buckets, k)
                   delay == RetryAfter(missing)
        <4>1. missing \in 1 .. Second BY <3>2, <3>4, <2>2, <2>3
        <4>2. delay \in 1 .. Second /\ delay * Rate >= missing /\ (delay - 1) * Rate < missing
          BY <4>1, RetryExact
        <4>3. delay * Rate \in Int /\ (delay - 1) * Rate \in Int
          <5> HIDE DEF delay
          <5> QED BY <4>2, <2>3
        <4>4. ~(LevelOf(buckets, k) >= Second) BY <3>2, <3>4, <2>2, <2>3
        <4>5. bar' = bar /\ reply' = <<c, k, delay>> BY <3>1, <4>4
        <4>6. bar[k] + delay * Rate >= Second /\ bar[k] + (delay - 1) * Rate < Second
          <5> HIDE DEF delay
          <5> QED BY <4>2, <4>3, <3>2, <2>2, <2>3
        <4>7. Ideal!Refuse(c, k, delay) BY <3>2, <3>4, <4>5, <4>6 DEF Ideal!Refuse
        <4> QED BY <4>2, <4>7, <3>2 DEF Ideal!Next
      <3> QED BY <3>1, <3>3, <3>4
    <2>6. CASE UNCHANGED vars
      <3>1. bar' = bar /\ reply' = reply BY <2>6 DEF vars, LevelOf
      <3> QED BY <3>1
    <2> QED BY <2>1, <2>4, <2>5, <2>6 DEF Next
  <1> QED BY <1>1, <1>2, TypeCorrect, PTL DEF Spec, KeepsPromise, Ideal!Spec
--------------------------------------------------------------------------------
(***************************************************************************)
(* What a client has drawn, less what has refilled meanwhile, is missing   *)
(* from its own bucket and the shared one.                                 *)
(***************************************************************************)
Drawn == burst <= (Capacity - LevelOf(buckets, Watched)) + (Capacity - LevelOf(buckets, Overflow))

(***************************************************************************)
(* However the table changes around it, a client draws at most two buckets *)
(* at once (BurstBounded).                                                 *)
(***************************************************************************)
THEOREM BurstCorrect == Spec => []BurstBounded
  <1> USE LimiterAssumption, CapacityNat
  <1>0. Watched \in Key /\ Overflow \in Key /\ Watched # Overflow BY DEF Key
  <1>1. Init => Drawn BY <1>0, InitFacts DEF Init, Drawn
  <1>2. TypeOK /\ Drawn /\ [Next]_vars => Drawn'
    <2>1. SUFFICES ASSUME TypeOK, Drawn, [Next]_vars PROVE Drawn' OBVIOUS
    <2> DEFINE own == LevelOf(buckets, Watched)
               shared == LevelOf(buckets, Overflow)
    <2>2. own \in 0 .. Capacity /\ shared \in 0 .. Capacity /\ burst \in Nat
      BY <1>0, <2>1, TypeIsTable, LevelBounds
    <2>3. burst <= (Capacity - own) + (Capacity - shared) BY <2>1 DEF Drawn
    <2>4. Rate \in Nat /\ Second \in Nat /\ Capacity \in Nat OBVIOUS
    <2>5. ASSUME burst' <= (Capacity - own') + (Capacity - shared') PROVE Drawn'
      BY <2>5 DEF Drawn, LevelOf, Capacity
    <2>6. CASE Tick
      <3>1. own' = Least(own + Rate, Capacity) /\ shared' = Least(shared + Rate, Capacity)
        BY <1>0, <2>1, <2>6, TickFacts
      <3>2. burst' = IF burst <= 2 * Rate THEN 0 ELSE burst - 2 * Rate BY <2>6 DEF Tick
      <3> HIDE DEF own, shared
      <3>3. burst' <= (Capacity - own') + (Capacity - shared')
        BY <2>2, <2>3, <2>4, <3>1, <3>2 DEF Least
      <3> QED BY <3>3, <2>5
    <2>7. ASSUME NEW c \in Key, Check(c) PROVE Drawn'
      <3>1. PICK k \in {c, Overflow} :
              \/ /\ LevelOf(buckets, k) >= Second
                 /\ \A j \in Key : LevelOf(buckets, j)' =
                      IF j = k THEN LevelOf(buckets, k) - Second ELSE LevelOf(buckets, j)
                 /\ reply' = <<c, k, 0>>
                 /\ burst' = IF c = Watched THEN burst + Second ELSE burst
              \/ /\ LevelOf(buckets, k) < Second
                 /\ \A j \in Key : LevelOf(buckets, j)' = LevelOf(buckets, j)
                 /\ reply' = <<c, k, RetryAfter(Second - LevelOf(buckets, k))>>
                 /\ burst' = burst
        BY <2>1, <2>7, CheckFacts
      <3>2. CASE \A j \in Key : LevelOf(buckets, j)' = LevelOf(buckets, j) /\ burst' = burst
        <4>1. own' = own /\ shared' = shared BY <3>2, <1>0
        <4> QED BY <4>1, <3>2, <1>0, <2>3, <2>5
      <3>3. CASE /\ \A j \in Key : LevelOf(buckets, j)' =
                       IF j = k THEN LevelOf(buckets, k) - Second ELSE LevelOf(buckets, j)
                 /\ burst' = IF c = Watched THEN burst + Second ELSE burst
        <4>1. own' = (IF Watched = k THEN own - Second ELSE own)
              /\ shared' = (IF Overflow = k THEN shared - Second ELSE shared)
          BY <3>3, <1>0
        <4>2. c = Watched => k = Watched \/ k = Overflow BY <3>1
        <4> HIDE DEF own, shared
        <4>3. burst' <= (Capacity - own') + (Capacity - shared')
          BY <1>0, <2>2, <2>3, <2>4, <4>1, <4>2, <3>3
        <4> QED BY <4>3, <2>5
      <3> QED BY <3>1, <3>2, <3>3, <1>0
    <2>8. CASE UNCHANGED vars
      <3>1. own' = own /\ shared' = shared /\ burst' = burst BY <2>8 DEF vars, LevelOf
      <3> QED BY <3>1, <2>3, <2>5
    <2> QED BY <2>1, <2>6, <2>7, <2>8 DEF Next
  <1>3. TypeOK /\ Drawn => BurstBounded
    <2>1. SUFFICES ASSUME TypeOK, Drawn PROVE BurstBounded OBVIOUS
    <2>2. /\ LevelOf(buckets, Watched) \in 0 .. Capacity
          /\ LevelOf(buckets, Overflow) \in 0 .. Capacity
          /\ burst \in Nat
      BY <1>0, <2>1, TypeIsTable, LevelBounds
    <2> QED BY <2>1, <2>2 DEF Drawn, BurstBounded
  <1> QED BY <1>1, <1>2, <1>3, TypeCorrect, PTL DEF Spec
================================================================================
