------------------------------- MODULE RateLimiter -------------------------------
(***************************************************************************)
(* The token buckets of /rpc (RateLimiter of src/rpc.rs): one bucket per   *)
(* client address, refilled when it is next used, dropped when it has been *)
(* idle for long, at most MaxBuckets of them; clients that find no room    *)
(* share the bucket Overflow, which is never dropped.                      *)
(*                                                                         *)
(* Time passes in ticks.  A bucket holds its level in 1/Second tokens, so  *)
(* that a tick refills Rate units, and its age since it was last used, up  *)
(* to BucketTtl, after which nothing changes any more.  (Levels are f64 in *)
(* the code, exact here.)                                                  *)
(***************************************************************************)
EXTENDS Integers, FiniteSets

CONSTANTS
  Client,        \* addresses
  Overflow,      \* the key None
  Rate,          \* requests_per_second
  Second,        \* ticks of a second
  BucketTtl,     \* RATE_LIMIT_BUCKET_TTL, in ticks
  PruneInterval, \* RATE_LIMIT_PRUNE_INTERVAL, in ticks
  MaxBuckets,    \* MAX_RATE_LIMIT_BUCKETS
  Watched        \* the client whose bursts are measured

ASSUME LimiterAssumption ==
  /\ Overflow \notin Client /\ Watched \in Client
  /\ Rate \in Nat \ {0} /\ Second \in Nat \ {0}
  /\ BucketTtl \in Nat /\ BucketTtl >= Second
  /\ PruneInterval \in Nat
  /\ MaxBuckets \in Nat \ {0}

VARIABLES
  buckets,  \* key -> [tokens, age]; age since last_refill and last_seen
  pruned,   \* age of last_pruned, up to PruneInterval
  reply,    \* history: the last client, its bucket and retry_after, 0 if accepted
  burst     \* history: what Watched has drawn, less twice what has refilled since

vars == <<buckets, pruned, reply, burst>>

Key == Client \cup {Overflow}
Capacity == Rate * Second
Full == [tokens |-> Capacity, age |-> 0]

Least(a, b) == IF a <= b THEN a ELSE b

(* The table of buckets never outgrows its bound and always has Overflow. *)
TypeOK ==
  /\ DOMAIN buckets \subseteq Key /\ Overflow \in DOMAIN buckets
  /\ IsFiniteSet(DOMAIN buckets) /\ Cardinality(DOMAIN buckets) <= MaxBuckets
  /\ \A k \in DOMAIN buckets :
       /\ DOMAIN buckets[k] = {"tokens", "age"}
       /\ buckets[k].tokens \in 0 .. Capacity /\ buckets[k].age \in 0 .. BucketTtl
  /\ pruned \in 0 .. PruneInterval
  /\ burst \in Nat

Init ==
  /\ buckets = [k \in {Overflow} |-> Full]
  /\ pruned = 0
  /\ reply = <<>> /\ burst = 0

----------------------------------------------------------------------------
(* Mutant: idle is whoever was not seen since the last but one pruning. *)
IdleTooSoon(b) == b.age >= PruneInterval
IdleLong(b)    == b.age >= BucketTtl

Pruned ==
  IF pruned < PruneInterval THEN buckets
  ELSE [k \in {k \in DOMAIN buckets : k = Overflow \/ ~IdleLong(buckets[k])} |-> buckets[k]]

RoomForOneMore(table) == Cardinality(DOMAIN table) <= MaxBuckets  \* mutant: one too many
Room(table)           == Cardinality(DOMAIN table) < MaxBuckets

KeyOf(table, c) == IF c \in DOMAIN table \/ Room(table) THEN c ELSE Overflow

RefilledUncapped(b) == b.tokens + b.age * Rate  \* mutant: no capacity
Refilled(b)         == Least(b.tokens + b.age * Rate, Capacity)

LevelOf(table, k) == IF k \in DOMAIN table THEN Refilled(table[k]) ELSE Capacity

RetryAfter(missing)  == (missing + Rate - 1) \div Rate

Stored(table, k, tokens) ==
  [j \in DOMAIN table \cup {k} |-> IF j = k THEN [tokens |-> tokens, age |-> 0] ELSE table[j]]

(* check: prune if it is time, choose the bucket, refill it, take a token. *)
Check(c) ==
  LET key   == KeyOf(Pruned, c)
      level == LevelOf(Pruned, key)
  IN /\ pruned' = IF pruned < PruneInterval THEN pruned ELSE 0
     /\ \/ /\ level >= Second
           /\ buckets' = Stored(Pruned, key, level - Second)
           /\ reply' = <<c, key, 0>>
           /\ burst' = IF c = Watched THEN burst + Second ELSE burst
        \/ /\ level < Second
           /\ buckets' = Stored(Pruned, key, level)
           /\ reply' = <<c, key, RetryAfter(Second - level)>>
           /\ UNCHANGED burst

Tick ==
  /\ buckets' = [k \in DOMAIN buckets |->
                   [buckets[k] EXCEPT !.age = Least(@ + 1, BucketTtl)]]
  /\ pruned' = Least(pruned + 1, PruneInterval)
  /\ burst' = IF burst <= 2 * Rate THEN 0 ELSE burst - 2 * Rate
  /\ UNCHANGED reply

Next == (\E c \in Key : Check(c)) \/ Tick

Spec == Init /\ [][Next]_vars

----------------------------------------------------------------------------
(* Properties. *)

(***************************************************************************)
(* Neither the lazy refill nor the pruning nor the bounded table shows:    *)
(* clients are served as by buckets that exist and refill all the time,    *)
(* and retry_after is the exact delay until the next token.                *)
(***************************************************************************)
Ideal == INSTANCE IdealLimiter WITH level <- [k \in Key |-> LevelOf(buckets, k)]

KeepsPromise == Ideal!Spec

(***************************************************************************)
(* A client can use the shared bucket and then, when pruning makes room, a *)
(* full one of its own, but no more than that: whatever the others do, a   *)
(* burst is at most two buckets, and lasting use twice the rate.           *)
(***************************************************************************)
BurstBounded == burst <= 2 * Capacity
==================================================================================
