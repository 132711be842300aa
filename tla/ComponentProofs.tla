---------------------------- MODULE ComponentProofs ----------------------------
(***************************************************************************)
(* TLAPS proofs about three components that stand alone: the rate limiter  *)
(* in front of the server's routes, the search for a broker when the       *)
(* server starts, and the awaitable that pulls from shared queues.         *)
(*                                                                         *)
(* The limiter is a set of token buckets that are never thrown away, for   *)
(* every number of clients, rate, burst and interval that satisfy          *)
(* LimiterAssumption.  The argument follows what a bucket would hold if it *)
(* were refilled now, Level: a second adds to it, an allowed request takes *)
(* from it, and neither a refill nor an eviction changes it.               *)
(***************************************************************************)
EXTENDS RateLimiter, PeerDiscovery, PullOrSteal, TLAPS

Constants ==
    /\ Unit \in Nat \ {0} /\ Rate \in Nat \ {0} /\ Burst \in Nat \ {0}
    /\ kEvictAfter \in Nat \ {0} /\ MaxNow \in Nat
    /\ Unit <= Burst /\ kEvictAfter * Rate >= Burst

(* The assumption on the constants, in the form the proofs use. *)
LEMMA ConstantsHold == Constants
BY LimiterAssumption DEF Constants

(* A bucket is one the code can have made by now, or none. *)
Dated ==
    /\ now \in 0 .. MaxNow
    /\ buckets_ \in [Client -> Bucket \cup {NoBucket}]
    /\ \A c \in Client : buckets_[c] # NoBucket => buckets_[c].last_seen <= now

(* Time adds to a product one factor at a time. *)
LEMMA OneMore == \A n, r \in Nat : (n + 1) * r = n * r + r /\ n * r \in Nat
BY SMT

(* Products grow with their first factor. *)
LEMMA Grows == \A m, n, r \in Nat : m <= n => m * r <= n * r
<1> SUFFICES ASSUME NEW m \in Nat, NEW n \in Nat, NEW r \in Nat, m <= n
             PROVE  m * r <= n * r
  OBVIOUS
<1>1. PICK k \in Nat : n = m + k
  BY SMT
<1>2. n * r = m * r + k * r
  BY <1>1, SMT
<1>3. k * r \in Nat /\ m * r \in Nat
  BY SMT
<1> QED
  BY <1>2, <1>3, SMT

(* A refill leaves a bucket no fuller than the burst. *)
LEMMA LevelType == Dated => \A c \in Client : Level(c) \in 0 .. Burst
<1> SUFFICES ASSUME Dated, NEW c \in Client PROVE Level(c) \in 0 .. Burst
  BY Zenon
<1>1. CASE buckets_[c] = NoBucket
  BY <1>1, ConstantsHold DEF Level, Constants
<1>2. CASE buckets_[c] # NoBucket
  <2>1. buckets_[c] \in Bucket /\ buckets_[c].last_seen <= now
    BY <1>2 DEF Dated
  <2>2. buckets_[c].tokens \in Nat /\ now - buckets_[c].last_seen \in Nat
    BY <2>1 DEF Dated, Bucket
  <2>3. (now - buckets_[c].last_seen) * Rate \in Nat
    BY <2>2, OneMore, ConstantsHold DEF Constants
  <2>4. Level(c) = Least(Burst, buckets_[c].tokens + (now - buckets_[c].last_seen) * Rate)
    BY <1>2 DEF Level, refill
  <2> QED
    BY <2>2, <2>3, <2>4, ConstantsHold DEF Least, Constants
<1> QED
  BY <1>1, <1>2

(* What a bucket holds after n seconds, in terms of its fields. *)
LEMMA LevelOfBucket ==
    ASSUME Dated, NEW c \in Client, buckets_[c] # NoBucket
    PROVE  /\ buckets_[c].tokens \in 0 .. Burst
           /\ now - buckets_[c].last_seen \in Nat
           /\ (now - buckets_[c].last_seen) * Rate \in Nat
           /\ Level(c) = Least(Burst, buckets_[c].tokens
                                      + (now - buckets_[c].last_seen) * Rate)
<1>1. buckets_[c] \in Bucket /\ buckets_[c].last_seen <= now
  BY DEF Dated
<1>2. buckets_[c].tokens \in 0 .. Burst /\ now - buckets_[c].last_seen \in Nat
  BY <1>1 DEF Dated, Bucket
<1>3. (now - buckets_[c].last_seen) * Rate \in Nat
  BY <1>2, OneMore, ConstantsHold DEF Constants
<1>4. Level(c) = Least(Burst, buckets_[c].tokens + (now - buckets_[c].last_seen) * Rate)
  BY DEF Level, refill
<1> QED
  BY <1>2, <1>3, <1>4

(* A second adds Rate to every bucket, up to the burst. *)
LEMMA LevelSecond ==
    ASSUME Dated, Second
    PROVE  Dated' /\ \A c \in Client : Level(c)' = Least(Burst, Level(c) + Rate)
<1>1. Dated'
  <2>1. now' \in 0 .. MaxNow /\ now \in Nat /\ now' = now + 1
    BY ConstantsHold DEF Dated, Second, Constants
  <2>2. buckets_' = buckets_
    BY DEF Second
  <2>3. ASSUME NEW c \in Client, buckets_[c] # NoBucket
        PROVE  buckets_[c].last_seen <= now'
    <3>1. buckets_[c] \in Bucket /\ buckets_[c].last_seen <= now
      BY <2>3 DEF Dated
    <3> QED
      BY <2>1, <3>1 DEF Bucket
  <2> QED
    BY <2>1, <2>2, <2>3 DEF Dated
<1>2. ASSUME NEW c \in Client PROVE Level(c)' = Least(Burst, Level(c) + Rate)
  <2>1. CASE buckets_[c] = NoBucket
    <3>1. Level(c) = Burst /\ Level(c)' = Burst
      BY <2>1 DEF Level, Second
    <3> QED
      BY <3>1, ConstantsHold DEF Least, Constants
  <2>2. CASE buckets_[c] # NoBucket
    <3> DEFINE t == buckets_[c].tokens
               e == now - buckets_[c].last_seen
    <3>1. t \in 0 .. Burst /\ e \in Nat /\ e * Rate \in Nat
          /\ Level(c) = Least(Burst, t + e * Rate)
      BY <2>2, LevelOfBucket
    <3>2. now' - buckets_'[c].last_seen = e + 1
      <4>1. buckets_[c] \in Bucket
        BY <2>2 DEF Dated
      <4> QED
        BY <4>1 DEF Second, Bucket, Dated
    <3>3. Level(c)' = Least(Burst, t + (e + 1) * Rate)
      <4>1. buckets_' = buckets_
        BY DEF Second
      <4>2. Level(c)' = Least(Burst, t + (now' - buckets_'[c].last_seen) * Rate)
        BY <2>2, <4>1 DEF Level, refill
      <4> QED
        BY <3>2, <4>2
    <3>4. (e + 1) * Rate = e * Rate + Rate
      BY <3>1, OneMore, ConstantsHold DEF Constants
    <3> HIDE DEF t, e
    <3> QED
      BY <3>1, <3>3, <3>4, ConstantsHold DEF Least, Constants
  <2> QED
    BY <2>1, <2>2
<1> QED
  BY <1>1, <1>2

(* What allow does to the buckets before it looks for a token. *)
Touched(c) == [buckets_ EXCEPT ![c] = Refreshed(c)]
Check == request_count_since_evict_ + 1 >= kEvictCheckInterval
Kept(c) == IF Check THEN evict_stale(Touched(c)) ELSE Touched(c)

(* A request finds in its own bucket what the bucket would hold now, dated  *)
(* now; it is not evicted by its own request.                               *)
LEMMA OwnBucket ==
    ASSUME Dated, NEW c \in Client
    PROVE  /\ Kept(c) \in [Client -> Bucket \cup {NoBucket}]
           /\ Kept(c)[c] = [tokens |-> Level(c), last_seen |-> now]
           /\ Kept(c)[c] # NoBucket
<1>1. Refreshed(c) = [tokens |-> Level(c), last_seen |-> now]
  BY DEF Refreshed, Level, refill
<1>2. Refreshed(c) \in Bucket
  BY <1>1, LevelType DEF Bucket, Dated
<1>3. Touched(c) \in [Client -> Bucket \cup {NoBucket}] /\ Touched(c)[c] = Refreshed(c)
  BY <1>2 DEF Touched, Dated
<1>4. Refreshed(c) # NoBucket
  <2>1. Refreshed(c).last_seen = now /\ NoBucket.last_seen = MaxNow + 1
    BY <1>1 DEF NoBucket
  <2> QED
    BY <2>1, ConstantsHold DEF Dated, Constants
<1>5. ~(now - Touched(c)[c].last_seen > kEvictAfter)
  <2>1. Touched(c)[c].last_seen = now
    BY <1>1, <1>3
  <2> QED
    BY <2>1, ConstantsHold DEF Dated, Constants
<1>6. Kept(c) \in [Client -> Bucket \cup {NoBucket}]
  BY <1>3 DEF Kept, evict_stale
<1>7. Kept(c)[c] = Touched(c)[c]
  BY <1>5 DEF Kept, evict_stale
<1> QED
  BY <1>1, <1>3, <1>4, <1>6, <1>7

(* The other buckets stay, or they are full and evicted. *)
LEMMA OtherBuckets ==
    ASSUME Dated, NEW c \in Client, NEW d \in Client, d # c
    PROVE  \/ Kept(c)[d] = buckets_[d]
           \/ Kept(c)[d] = NoBucket /\ Level(d) = Burst
<1>1. Touched(c)[d] = buckets_[d]
  BY DEF Touched, Dated
<1>2. CASE /\ Check /\ buckets_[d] # NoBucket
           /\ now - buckets_[d].last_seen > kEvictAfter
  <2> DEFINE t == buckets_[d].tokens
             e == now - buckets_[d].last_seen
  <2>1. Kept(c)[d] = NoBucket
    BY <1>1, <1>2 DEF Kept, evict_stale
  <2>2. t \in 0 .. Burst /\ e \in Nat /\ e * Rate \in Nat
        /\ Level(d) = Least(Burst, t + e * Rate)
    BY <1>2, LevelOfBucket
  <2>3. e > kEvictAfter
    BY <1>2
  <2>4. kEvictAfter * Rate <= e * Rate
    BY <2>2, <2>3, Grows, ConstantsHold DEF Constants
  <2>5. kEvictAfter * Rate \in Nat
    BY OneMore, ConstantsHold DEF Constants
  <2> HIDE DEF t, e
  <2>6. Level(d) = Burst
    BY <2>2, <2>4, <2>5, ConstantsHold DEF Least, Constants
  <2> QED
    BY <2>1, <2>6
<1>3. CASE ~ (/\ Check /\ buckets_[d] # NoBucket
              /\ now - buckets_[d].last_seen > kEvictAfter)
  BY <1>1, <1>3 DEF Kept, evict_stale
<1> QED
  BY <1>2, <1>3

(* A request takes a token from its own bucket if there is one and leaves   *)
(* what every other bucket would hold as it was.                            *)
LEMMA LevelAllow ==
    ASSUME Dated, NEW c \in Client, allow(c)
    PROVE  /\ Dated'
           /\ \A d \in Client \ {c} : Level(d)' = Level(d)
           /\ \/ /\ Level(c) >= Unit /\ Level(c)' = Level(c) - Unit
                 /\ granted' = [granted EXCEPT ![c] = @ + 1]
              \/ /\ Level(c) < Unit /\ Level(c)' = Level(c)
                 /\ granted' = granted
<1> DEFINE ok == Kept(c)[c].tokens >= Unit
<1>1. /\ now' = now
      /\ buckets_' = IF ok THEN [Kept(c) EXCEPT ![c].tokens = @ - Unit] ELSE Kept(c)
      /\ granted' = IF ok THEN [granted EXCEPT ![c] = @ + 1] ELSE granted
  BY DEF allow, Kept, Touched, Check
<1>2. /\ Kept(c) \in [Client -> Bucket \cup {NoBucket}]
      /\ Kept(c)[c] = [tokens |-> Level(c), last_seen |-> now]
      /\ Kept(c)[c] # NoBucket
  BY OwnBucket
<1>3. Level(c) \in 0 .. Burst
  BY LevelType
<1>4. ok <=> Level(c) >= Unit
  BY <1>2
<1> HIDE DEF ok
<1>5. buckets_'[c] = [tokens |-> IF ok THEN Level(c) - Unit ELSE Level(c),
                      last_seen |-> now]
  BY <1>1, <1>2
<1>6. \A d \in Client \ {c} : buckets_'[d] = Kept(c)[d]
  BY <1>1, <1>2
<1>7. buckets_'[c].tokens \in 0 .. Burst /\ buckets_'[c].last_seen = now
  BY <1>3, <1>4, <1>5, ConstantsHold DEF Constants
<1>8. now \in 0 .. MaxNow
  BY DEF Dated
<1>9. buckets_'[c] \in Bucket /\ buckets_'[c] # NoBucket
  <2>1. buckets_'[c] \in Bucket
    BY <1>5, <1>7, <1>8 DEF Bucket
  <2>2. NoBucket.last_seen = MaxNow + 1
    BY DEF NoBucket
  <2>3. buckets_'[c].last_seen # NoBucket.last_seen
    BY <1>7, <1>8, <2>2, ConstantsHold DEF Constants
  <2> QED
    BY <2>1, <2>3
<1>10. buckets_' \in [Client -> Bucket \cup {NoBucket}]
  <2>1. DOMAIN buckets_' = Client /\ buckets_' = [d \in Client |-> buckets_'[d]]
    BY Zenon, <1>1, <1>2
  <2>2. ASSUME NEW d \in Client PROVE buckets_'[d] \in Bucket \cup {NoBucket}
    BY <1>2, <1>6, <1>9
  <2> QED
    BY <2>1, <2>2
<1>11. \A d \in Client : buckets_'[d] # NoBucket => buckets_'[d].last_seen <= now
  <2> SUFFICES ASSUME NEW d \in Client, buckets_'[d] # NoBucket
               PROVE  buckets_'[d].last_seen <= now
    OBVIOUS
  <2>1. CASE d = c
    BY <2>1, <1>7, <1>8
  <2>2. CASE d # c
    BY <2>2, <1>6, OtherBuckets DEF Dated
  <2> QED
    BY <2>1, <2>2
<1>12. Dated'
  BY <1>1, <1>8, <1>10, <1>11 DEF Dated
<1>13. ASSUME NEW d \in Client \ {c} PROVE Level(d)' = Level(d)
  <2>1. CASE Kept(c)[d] = buckets_[d]
    BY <2>1, <1>1, <1>6 DEF Level, refill
  <2>2. CASE Kept(c)[d] = NoBucket /\ Level(d) = Burst
    BY <2>2, <1>6 DEF Level
  <2> QED
    BY <2>1, <2>2, OtherBuckets
<1>14. Level(c)' = buckets_'[c].tokens
  <2>1. Level(c)' = Least(Burst, buckets_'[c].tokens
                                 + (now' - buckets_'[c].last_seen) * Rate)
    BY <1>9 DEF Level, refill
  <2>2. (now' - buckets_'[c].last_seen) * Rate = 0
    <3>1. now' - buckets_'[c].last_seen = 0
      BY <1>1, <1>7, <1>8
    <3> QED
      BY <3>1, ConstantsHold DEF Constants
  <2> QED
    BY <2>1, <2>2, <1>7, ConstantsHold DEF Least, Constants
<1>15. \/ /\ Level(c) >= Unit /\ Level(c)' = Level(c) - Unit
          /\ granted' = [granted EXCEPT ![c] = @ + 1]
       \/ /\ Level(c) < Unit /\ Level(c)' = Level(c)
          /\ granted' = granted
  <2>1. CASE ok
    BY <2>1, <1>1, <1>4, <1>5, <1>14
  <2>2. CASE ~ok
    <3>1. Level(c) < Unit
      BY <2>2, <1>3, <1>4, ConstantsHold DEF Constants
    <3> QED
      BY <2>2, <3>1, <1>1, <1>5, <1>14
  <2> QED
    BY <2>1, <2>2
<1> QED
  BY <1>12, <1>13, <1>15

(* The answer to a refused request leaves the buckets alone. *)
LEMMA LevelSame ==
    ASSUME Dated, UNCHANGED <<buckets_, now>>
    PROVE  Dated' /\ \A c \in Client : Level(c)' = Level(c)
BY DEF Dated, Level, refill

(* In the first state there are no buckets. *)
LEMMA DatedInit == LimiterInit => Dated /\ \A c \in Client : Level(c) = Burst
<1> SUFFICES ASSUME LimiterInit PROVE Dated /\ \A c \in Client : Level(c) = Burst
  OBVIOUS
<1>1. Dated
  BY ConstantsHold DEF LimiterInit, Dated, Constants
<1>2. \A c \in Client : Level(c) = Burst
  BY Zenon DEF LimiterInit, Level
<1> QED
  BY <1>1, <1>2
-----------------------------------------------------------------------------
(* Every step keeps the buckets dated. *)
LEMMA DatedStep == Dated /\ [LimiterNext]_limiterVars => Dated'
<1> SUFFICES ASSUME Dated, [LimiterNext]_limiterVars PROVE Dated'
  OBVIOUS
<1>1. ASSUME NEW c \in Client, allow(c) PROVE Dated'
  BY <1>1, LevelAllow
<1>2. ASSUME NEW c \in Client, TooManyRequests(c) PROVE Dated'
  BY <1>2, LevelSame DEF TooManyRequests
<1>3. CASE Second
  BY <1>3, LevelSecond
<1>4. CASE UNCHANGED limiterVars
  BY <1>4, LevelSame DEF limiterVars
<1> QED
  BY <1>1, <1>2, <1>3, <1>4 DEF LimiterNext

(* Whatever happens to the buckets, a step of the limiter is a step of      *)
(* buckets that are never evicted, or no step at all for them.              *)
LEMMA BucketStep == Dated /\ [LimiterNext]_limiterVars => [Promised!Next]_(Promised!bucketVars)
<1> DEFINE level == [c \in Client |-> Level(c)]
<1> SUFFICES ASSUME Dated, [LimiterNext]_limiterVars
             PROVE  Promised!Next \/ (level' = level /\ granted' = granted)
  BY DEF Promised!bucketVars
<1>1. ASSUME NEW c \in Client, allow(c)
      PROVE  Promised!Next \/ (level' = level /\ granted' = granted)
  <2>1. \A d \in Client \ {c} : Level(d)' = Level(d)
    BY <1>1, LevelAllow
  <2>2. CASE /\ Level(c) >= Unit /\ Level(c)' = Level(c) - Unit
             /\ granted' = [granted EXCEPT ![c] = @ + 1]
    <3>1. level' = [level EXCEPT ![c] = @ - Unit]
      BY Zenon, <2>1, <2>2
    <3>2. level[c] >= Unit
      BY <2>2
    <3>3. Promised!Allow(c)
      BY <2>2, <3>1, <3>2 DEF Promised!Allow
    <3> QED
      BY <3>3 DEF Promised!Next
  <2>3. CASE Level(c)' = Level(c) /\ granted' = granted
    BY <2>1, <2>3
  <2> QED
    BY <1>1, <2>2, <2>3, LevelAllow
<1>2. ASSUME NEW c \in Client, TooManyRequests(c)
      PROVE  level' = level /\ granted' = granted
  BY <1>2, LevelSame DEF TooManyRequests
<1>3. CASE Second
  <2>1. \A c \in Client : Level(c)' = Least(Burst, Level(c) + Rate)
    BY <1>3, LevelSecond
  <2>2. \A c \in Client : Level(c) \in 0 .. Burst
    BY LevelType
  <2>3. \A c \in Client : Least(Burst, Level(c) + Rate) = Promised!Capped(Level(c) + Rate)
    BY <2>2, ConstantsHold DEF Least, Promised!Capped, Constants
  <2>4. level' = [c \in Client |-> Promised!Capped(level[c] + Rate)]
    BY <2>1, <2>3
  <2>5. granted' = granted
    BY <1>3 DEF Second
  <2>6. Promised!Second
    BY <2>4, <2>5 DEF Promised!Second
  <2> QED
    BY <2>6 DEF Promised!Next
<1>4. CASE UNCHANGED limiterVars
  BY <1>4, LevelSame DEF limiterVars
<1> QED
  BY <1>1, <1>2, <1>3, <1>4 DEF LimiterNext

(* rate_limiter.cpp:16-50 implements rate_limiter.hpp:12-14: a client whose *)
(* bucket was evicted is treated as if it had kept it.                      *)
THEOREM EvictionIsInvisible == LimiterSpec => EvictionInvisible
<1>1. LimiterInit => Promised!Init
  <2> SUFFICES ASSUME LimiterInit PROVE Promised!Init
    OBVIOUS
  <2>1. \A c \in Client : Level(c) = Burst
    BY Zenon, DatedInit
  <2> QED
    BY <2>1 DEF Promised!Init, LimiterInit
<1>2. LimiterInit => Dated
  BY DatedInit
<1> QED
  BY <1>1, <1>2, DatedStep, BucketStep, PTL
     DEF LimiterSpec, EvictionInvisible, Promised!Spec
-----------------------------------------------------------------------------
(* What is inductive: the requests allowed so far are paid for. *)
Paid == Dated /\ granted \in [Client -> Nat] /\ Sustained

(* Nothing has been allowed yet. *)
LEMMA PaidInit == LimiterInit => Paid
<1> SUFFICES ASSUME LimiterInit PROVE Paid
  OBVIOUS
<1>1. Dated /\ \A c \in Client : Level(c) = Burst
  BY DatedInit
<1>2. granted \in [Client -> Nat] /\ (\A c \in Client : granted[c] = 0) /\ now = 0
  BY DEF LimiterInit
<1>3. 0 * Unit = 0 /\ 0 * Rate = 0
  BY ConstantsHold DEF Constants
<1>4. ASSUME NEW c \in Client
      PROVE  granted[c] * Unit + Level(c) <= Burst + now * Rate
  <2>1. granted[c] * Unit = 0 /\ now * Rate = 0
    BY <1>2, <1>3
  <2> QED
    BY <2>1, <1>1, ConstantsHold DEF Constants
<1>5. Sustained
  BY Zenon, <1>4 DEF Sustained
<1> QED
  BY <1>1, <1>2, <1>5 DEF Paid

(* An allowed request takes the token it is paid with; a second pays for    *)
(* what it adds.                                                            *)
LEMMA PaidStep == Paid /\ [LimiterNext]_limiterVars => Paid'
<1> SUFFICES ASSUME Paid, [LimiterNext]_limiterVars PROVE Paid'
  OBVIOUS
<1>d. Dated /\ Dated'
  BY DatedStep DEF Paid
<1>n. now \in Nat /\ now * Rate \in Nat
  BY <1>d, OneMore, ConstantsHold DEF Dated, Constants
<1>f. \A c \in Client : /\ granted[c] \in Nat /\ granted[c] * Unit \in Nat
                        /\ Level(c) \in Nat
                        /\ granted[c] * Unit + Level(c) <= Burst + now * Rate
  <2>1. \A c \in Client : granted[c] \in Nat
    BY DEF Paid
  <2> QED
    BY <2>1, <1>d, OneMore, LevelType, ConstantsHold DEF Paid, Sustained, Constants
<1>1. ASSUME NEW c \in Client, allow(c) PROVE Paid'
  <2>1. now' = now /\ \A d \in Client \ {c} : Level(d)' = Level(d)
    BY Zenon, <1>1, <1>d, LevelAllow DEF allow
  <2>2. CASE /\ Level(c) >= Unit /\ Level(c)' = Level(c) - Unit
             /\ granted' = [granted EXCEPT ![c] = @ + 1]
    <3>1. granted' \in [Client -> Nat]
      BY <2>2 DEF Paid
    <3>2. /\ granted'[c] = granted[c] + 1
          /\ \A d \in Client \ {c} : granted'[d] = granted[d]
      BY <2>2 DEF Paid
    <3>3. granted'[c] * Unit = granted[c] * Unit + Unit
      BY <3>2, <1>f, OneMore, ConstantsHold DEF Constants
    <3>4. granted'[c] * Unit + Level(c)' <= Burst + now' * Rate
      BY <3>3, <2>1, <2>2, <1>f, <1>n, ConstantsHold DEF Constants
    <3>5. \A d \in Client \ {c} :
             granted'[d] * Unit + Level(d)' <= Burst + now' * Rate
      BY <3>2, <2>1, <1>f
    <3> QED
      BY <3>1, <3>4, <3>5, <1>d DEF Paid, Sustained
  <2>3. CASE Level(c)' = Level(c) /\ granted' = granted
    BY <2>1, <2>3, <1>d DEF Paid, Sustained
  <2> QED
    BY <1>1, <1>d, <2>2, <2>3, LevelAllow
<1>2. ASSUME NEW c \in Client, TooManyRequests(c) PROVE Paid'
  BY <1>2, <1>d, LevelSame DEF TooManyRequests, Paid, Sustained
<1>3. CASE Second
  <2>1. now' = now + 1 /\ granted' = granted
    BY <1>3 DEF Second
  <2>2. now' * Rate = now * Rate + Rate
    BY <2>1, <1>n, OneMore, ConstantsHold DEF Constants
  <2>3. ASSUME NEW c \in Client
        PROVE  granted'[c] * Unit + Level(c)' <= Burst + now' * Rate
    <3>1. Level(c)' = Least(Burst, Level(c) + Rate)
      BY <1>3, <1>d, LevelSecond
    <3>2. Level(c)' <= Level(c) + Rate /\ Level(c)' \in Nat
      BY <3>1, <1>f, ConstantsHold DEF Least, Constants
    <3>3. granted'[c] * Unit = granted[c] * Unit
      BY <2>1
    <3> QED
      BY <3>2, <3>3, <2>2, <1>f, <1>n, ConstantsHold DEF Constants
  <2> QED
    BY <1>d, <2>1, <2>3 DEF Paid, Sustained
<1>4. CASE UNCHANGED limiterVars
  BY <1>4, <1>d, LevelSame DEF limiterVars, Paid, Sustained
<1> QED
  BY <1>1, <1>2, <1>3, <1>4 DEF LimiterNext

(* rate_limiter.cpp:27-50: no client outruns its burst and the tokens time  *)
(* has added, whatever is evicted in between.                               *)
THEOREM SustainedHolds == LimiterSpec => []Sustained
<1>1. Paid => Sustained
  BY DEF Paid
<1> QED
  BY <1>1, PaidInit, PaidStep, PTL DEF LimiterSpec
-----------------------------------------------------------------------------
(* What is inductive: a client on its way back has its token, or the        *)
(* seconds it still waits will bring it.                                    *)
Awaited(c) ==
    \/ Level(c) >= Unit
    \/ now < due[c] /\ Level(c) + (due[c] - now) * Rate >= Unit

Owed ==
    /\ Dated /\ due \in [Client -> Nat]
    /\ \A c \in Client : due[c] # 0 => Awaited(c)

(* Rounding down and adding one waits long enough. *)
LEMMA RoundedUp == \A a \in Nat, r \in Nat \ {0} : /\ a \div r \in Nat
                                                   /\ (a \div r + 1) * r >= a
BY SMT

(* Every step keeps what is owed. *)
LEMMA OwedStep == Owed /\ [LimiterNext]_limiterVars => Owed'
<1> SUFFICES ASSUME Owed, [LimiterNext]_limiterVars PROVE Owed'
  OBVIOUS
<1>d. Dated /\ Dated' /\ now \in Nat
  BY DatedStep, ConstantsHold DEF Owed, Dated, Constants
<1>f. \A c \in Client : due[c] \in Nat /\ Level(c) \in 0 .. Burst
  BY <1>d, LevelType DEF Owed
<1>1. ASSUME NEW c \in Client, allow(c) PROVE Owed'
  <2>1. now' = now /\ \A d \in Client \ {c} : Level(d)' = Level(d)
    BY Zenon, <1>1, <1>d, LevelAllow DEF allow
  <2>2. due' = [due EXCEPT ![c] = 0]
    BY <1>1 DEF allow
  <2>3. due' \in [Client -> Nat] /\ due'[c] = 0
        /\ \A d \in Client \ {c} : due'[d] = due[d]
    BY <2>2 DEF Owed
  <2>4. ASSUME NEW d \in Client, due'[d] # 0 PROVE Awaited(d)'
    BY <2>1, <2>3, <2>4 DEF Owed, Awaited
  <2> QED
    BY <1>d, <2>3, <2>4 DEF Owed
<1>2. ASSUME NEW c \in Client, TooManyRequests(c) PROVE Owed'
  <2> DEFINE q == retry_after_seconds(c)
  <2>1. now' = now /\ \A d \in Client : Level(d)' = Level(d)
    BY <1>2, <1>d, LevelSame DEF TooManyRequests
  <2>2. due' = [due EXCEPT ![c] = now + q + 1]
    BY <1>2 DEF TooManyRequests
  <2>3. q = IF Level(c) >= Unit THEN 0 ELSE (Unit - Level(c)) \div Rate
    <3>1. CASE buckets_[c] = NoBucket
      <4>1. Level(c) = Burst /\ q = 0
        BY <3>1 DEF Level, retry_after_seconds
      <4> QED
        BY <4>1, ConstantsHold DEF Constants
    <3>2. CASE buckets_[c] # NoBucket
      BY <3>2 DEF Level, retry_after_seconds
    <3> QED
      BY <3>1, <3>2
  <2> HIDE DEF q
  <2>4. q \in Nat /\ (Level(c) >= Unit \/ Level(c) + (q + 1) * Rate >= Unit)
    <3>1. CASE Level(c) >= Unit
      BY <2>3, <3>1
    <3>2. CASE ~(Level(c) >= Unit)
      <4> DEFINE a == Unit - Level(c)
      <4>1. a \in Nat
        BY <3>2, <1>f, ConstantsHold DEF Constants
      <4>2. q = a \div Rate
        BY <2>3, <3>2
      <4>3. q \in Nat /\ (q + 1) * Rate >= a
        BY <4>1, <4>2, RoundedUp, ConstantsHold DEF Constants
      <4>4. (q + 1) * Rate \in Nat
        BY <4>3, OneMore, ConstantsHold DEF Constants
      <4> QED
        BY <4>3, <4>4, <1>f, ConstantsHold DEF Constants
    <3> QED
      BY <3>1, <3>2
  <2>5. due' \in [Client -> Nat] /\ due'[c] = now + q + 1
        /\ \A d \in Client \ {c} : due'[d] = due[d]
    BY <2>2, <2>4, <1>d DEF Owed
  <2>6. Awaited(c)'
    <3>1. now' < due'[c] /\ due'[c] - now' = q + 1
      BY <2>1, <2>4, <2>5, <1>d
    <3> QED
      BY <3>1, <2>1, <2>4 DEF Awaited
  <2>7. ASSUME NEW d \in Client, due'[d] # 0, d # c PROVE Awaited(d)'
    BY <2>1, <2>5, <2>7 DEF Owed, Awaited
  <2> QED
    BY <1>d, <2>5, <2>6, <2>7 DEF Owed
<1>3. CASE Second
  <2>1. now' = now + 1 /\ due' = due
    BY <1>3 DEF Second
  <2>2. ASSUME NEW c \in Client, due[c] # 0 PROVE Awaited(c)'
    <3>1. Level(c)' = Least(Burst, Level(c) + Rate)
      BY <1>3, <1>d, LevelSecond
    <3>2. CASE Level(c) >= Unit
      <4>1. Level(c)' >= Unit
        BY <3>1, <3>2, <1>f, ConstantsHold DEF Least, Constants
      <4> QED
        BY <4>1 DEF Awaited
    <3>3. CASE now < due[c] /\ Level(c) + (due[c] - now) * Rate >= Unit
      <4> DEFINE w == due[c] - now - 1
      <4>1. w \in Nat /\ due[c] - now = w + 1 /\ due'[c] - now' = w
            /\ (w = 0 \/ now' < due'[c])
        BY <2>1, <3>3, <1>d, <1>f
      <4>2. (w + 1) * Rate = w * Rate + Rate /\ w * Rate \in Nat
        BY <4>1, OneMore, ConstantsHold DEF Constants
      <4>3. w = 0 => w * Rate = 0
        BY ConstantsHold DEF Constants
      <4>4. Level(c) + w * Rate + Rate >= Unit
        BY <3>3, <4>1, <4>2, <1>f, ConstantsHold DEF Constants
      <4>5. Level(c)' >= Unit \/ Level(c)' + w * Rate >= Unit
        BY <3>1, <4>2, <4>4, <1>f, ConstantsHold DEF Least, Constants
      <4>6. w = 0 => Level(c)' >= Unit
        <5>1. Level(c)' \in Nat
          BY <3>1, <1>f, ConstantsHold DEF Least, Constants
        <5> QED
          BY <4>3, <4>5, <5>1, ConstantsHold DEF Constants
      <4> HIDE DEF w
      <4> QED
        BY <4>1, <4>5, <4>6 DEF Awaited
    <3> QED
      BY <2>2, <3>2, <3>3 DEF Owed, Awaited
  <2> QED
    BY <1>d, <2>1, <2>2 DEF Owed
<1>4. CASE UNCHANGED limiterVars
  BY <1>4, <1>d, LevelSame DEF limiterVars, Owed, Awaited
<1> QED
  BY <1>1, <1>2, <1>3, <1>4 DEF LimiterNext

(* routes.cpp:258-266: a client that comes back when Retry-After says finds *)
(* a token, although the wait is cut to whole seconds and computed under a  *)
(* lock of its own.                                                         *)
THEOREM RetrySufficesHolds == LimiterSpec => []RetrySuffices
<1>1. LimiterInit => Owed
  BY DatedInit DEF LimiterInit, Owed
<1>2. Owed => RetrySuffices
  <2> SUFFICES ASSUME Owed, NEW c \in Client, due[c] # 0, now >= due[c]
               PROVE  Level(c) >= Unit
    BY DEF RetrySuffices
  <2>1. due[c] \in Nat /\ now \in Nat
    BY ConstantsHold DEF Owed, Dated, Constants
  <2> QED
    BY <2>1 DEF Owed, Awaited
<1> QED
  BY <1>1, <1>2, OwedStep, PTL DEF LimiterSpec
-----------------------------------------------------------------------------
(***************************************************************************)
(* Finding the broker (PeerDiscovery): what each probing thread still has  *)
(* to do stands for what the shared variables do not say yet.  A passed    *)
(* probe is a claim to come until `found` is set, and a set `found` is a   *)
(* write to come until the URL is there.                                   *)
(***************************************************************************)
ProberRecord ==
  [at : {"loop", "fetch", "probe", "claim", "write", "notify", "gone"},
   i : Nat, since : Nat, timeout : Nat, wait : Nat]

DiscoveryTypeOK ==
  /\ found \in BOOLEAN /\ next_idx \in Nat /\ elapsed \in Nat
  /\ main \in {"start", "wait", "asleep", "woken", "join", "returned"}
  /\ thread \in [Prober -> ProberRecord]

(* Every wait of a probe ends in time: each one may be one timeout later    *)
(* than the one before it.                                                  *)
Deadline(t) == t.since + t.timeout
InTime(t) ==
  t.at = "probe" =>
    /\ t.wait \in 1 .. 3 /\ t.timeout <= ProbeTimeout
    /\ t.since <= elapsed /\ elapsed <= Deadline(t)
    /\ t.wait = 1 => Deadline(t) <= TotalBudget
    /\ t.wait = 2 => Deadline(t) <= TotalBudget + ProbeTimeout
    /\ t.wait = 3 => Deadline(t) <= TotalBudget + 2 * ProbeTimeout

BudgetInv == BudgetKept /\ \A w \in Prober : InTime(thread[w])

Somebody(at) == \E w \in Prober : thread[w].at = at
AllGone == \A w \in Prober : thread[w] = Gone
IsPassed(url) == \E ip \in passed : url = Url(ip)

WinnerInv ==
  /\ \A w \in Prober : thread[w].at \in {"claim", "write", "notify"} => matched[thread[w].i] \in passed
  /\ passed # {} => found \/ Somebody("claim")
  /\ found => IsPassed(winning_url) \/ Somebody("write")
  /\ winning_url # << >> => IsPassed(winning_url)
  /\ main = "start" => AllGone /\ passed = {} /\ found = FALSE /\ winning_url = << >>
  /\ main = "returned" => AllGone
  /\ FoundIsReturned

DiscoveryInv == DiscoveryTypeOK /\ BudgetInv /\ WinnerInv

LEMMA ProberFacts ==
  /\ clamped_workers \in Nat \ {0} /\ Prober \subseteq Nat \ {0}
  /\ Fresh \in ProberRecord /\ Gone \in ProberRecord
  /\ Fresh.at = "loop" /\ Gone.at = "gone"
  /\ MaxWorkers \in Nat /\ TotalBudget \in Nat /\ ProbeTimeout \in Nat
<1>1. MaxWorkers \in Nat /\ TotalBudget \in Nat /\ ProbeTimeout \in Nat
  BY DiscoveryAssumption
<1>2. clamped_workers \in Nat \ {0}
  <2>1. Smaller(MaxWorkers, 32) = MaxWorkers \/ Smaller(MaxWorkers, 32) = 32
    BY DEF Smaller
  <2>2. CASE MaxWorkers < 1
    BY <2>2 DEF clamped_workers
  <2>3. CASE ~ (MaxWorkers < 1)
    <3>1. clamped_workers = MaxWorkers \/ clamped_workers = 32
      BY <2>1, <2>3 DEF clamped_workers
    <3> QED BY <1>1, <2>3, <3>1
  <2> QED BY <2>2, <2>3
<1>3. Prober \subseteq Nat \ {0}
  BY <1>2 DEF Prober
<1>4. Fresh \in ProberRecord /\ Fresh.at = "loop"
  BY DEF Fresh, ProberRecord
<1>5. Gone \in ProberRecord /\ Gone.at = "gone"
  BY <1>4 DEF Gone, ProberRecord
<1> QED BY <1>1, <1>2, <1>3, <1>4, <1>5

LEMMA DiscoveryStarts == DiscoveryInit => DiscoveryInv
<1> SUFFICES ASSUME DiscoveryInit PROVE DiscoveryInv
  OBVIOUS
<1>1. DiscoveryTypeOK
  BY Zenon, ProberFacts DEF DiscoveryInit, DiscoveryTypeOK
<1>2. BudgetInv
  BY ProberFacts DEF DiscoveryInit, BudgetInv, BudgetKept, InTime
<1>3. WinnerInv
  BY ProberFacts DEF DiscoveryInit, WinnerInv, AllGone, IsPassed, Somebody, FoundIsReturned
<1> QED BY <1>1, <1>2, <1>3 DEF DiscoveryInv

(* A thread whose next wait is in time keeps the invariant of the budget. *)
LEMMA BudgetMove ==
  ASSUME DiscoveryTypeOK, BudgetInv, NEW w \in Prober, NEW r \in ProberRecord, InTime(r),
         thread' = [thread EXCEPT ![w] = r], elapsed' = elapsed
  PROVE  BudgetInv' /\ thread' \in [Prober -> ProberRecord]
<1>1. thread' \in [Prober -> ProberRecord]
  BY DEF DiscoveryTypeOK
<1>2. ASSUME NEW v \in Prober PROVE InTime(thread[v])'
  <2>1. thread'[v] = IF v = w THEN r ELSE thread[v]
    BY DEF DiscoveryTypeOK
  <2>2. InTime(thread[v])
    BY DEF BudgetInv
  <2>3. CASE v = w
    BY <2>1, <2>3 DEF InTime, Deadline
  <2>4. CASE v # w
    BY <2>1, <2>2, <2>4 DEF InTime, Deadline
  <2> QED BY <2>3, <2>4
<1> QED BY <1>1, <1>2 DEF BudgetInv, BudgetKept

(* While a thread is probing, the caller waits for it. *)
LEMMA CallerWaits ==
  ASSUME DiscoveryInv, NEW w \in Prober, thread[w] # Gone
  PROVE  main \in {"wait", "asleep", "woken", "join"}
BY DEF DiscoveryInv, DiscoveryTypeOK, WinnerInv, AllGone

LEMMA WinnerMove ==
  ASSUME DiscoveryInv, NEW w \in Prober, NEW r \in ProberRecord, thread[w] # Gone,
         thread' = [thread EXCEPT ![w] = r], matched' = matched, passed \subseteq passed',
         main' = main \/ (main = "asleep" /\ main' = "woken"),
         r.at \in {"claim", "write", "notify"} => matched[r.i] \in passed',
         passed' # {} => found' \/ Somebody("claim")',
         found' => IsPassed(winning_url)' \/ Somebody("write")',
         winning_url' # << >> => IsPassed(winning_url)'
  PROVE  WinnerInv'
<1>1. main' \in {"wait", "asleep", "woken", "join"}
  BY CallerWaits
<1>2. ASSUME NEW v \in Prober, thread'[v].at \in {"claim", "write", "notify"}
      PROVE  matched'[thread'[v].i] \in passed'
  <2>1. thread'[v] = IF v = w THEN r ELSE thread[v]
    BY DEF DiscoveryInv, DiscoveryTypeOK
  <2> QED BY <1>2, <2>1 DEF DiscoveryInv, WinnerInv
<1> QED BY <1>1, <1>2 DEF WinnerInv, FoundIsReturned

(* The others stay where they are. *)
LEMMA OthersStay ==
  ASSUME DiscoveryInv, NEW w \in Prober, NEW r \in ProberRecord, NEW at,
         thread' = [thread EXCEPT ![w] = r], Somebody(at), thread[w].at # at \/ r.at = at
  PROVE  Somebody(at)'
<1>1. PICK v \in Prober : thread[v].at = at
  BY DEF Somebody
<1>2. thread'[v].at = at
  BY <1>1 DEF DiscoveryInv, DiscoveryTypeOK
<1> QED BY <1>2 DEF Somebody

(* A step that neither passes a probe nor claims nor writes. *)
LEMMA QuietMove ==
  ASSUME DiscoveryInv, NEW w \in Prober, NEW r \in ProberRecord, thread[w] # Gone, InTime(r),
         thread' = [thread EXCEPT ![w] = r],
         r.at \notin {"claim", "write", "notify"},
         thread[w].at = "claim" => found, thread[w].at # "write",
         main' = main \/ (main = "asleep" /\ main' = "woken"), next_idx' \in Nat,
         UNCHANGED <<matched, found, winning_url, elapsed, passed, nats_url>>
  PROVE  DiscoveryInv'
<1>1. BudgetInv' /\ thread' \in [Prober -> ProberRecord]
  BY Zenon, BudgetMove DEF DiscoveryInv
<1>2. DiscoveryTypeOK'
  BY <1>1 DEF DiscoveryInv, DiscoveryTypeOK
<1>3. passed' # {} => found' \/ Somebody("claim")'
  <2>1. Somebody("claim") /\ ~ found => Somebody("claim")'
    BY Zenon, OthersStay
  <2> QED BY <2>1 DEF DiscoveryInv, WinnerInv
<1>4. found' => IsPassed(winning_url)' \/ Somebody("write")'
  <2>1. Somebody("write") => Somebody("write")'
    BY Zenon, OthersStay
  <2> QED BY <2>1 DEF DiscoveryInv, WinnerInv, IsPassed
<1>5. winning_url' # << >> => IsPassed(winning_url)'
  BY DEF DiscoveryInv, WinnerInv, IsPassed
<1>6. WinnerInv'
  BY Zenon, <1>3, <1>4, <1>5, WinnerMove
<1> QED BY <1>1, <1>2, <1>6 DEF DiscoveryInv

LEMMA NotGone ==
  ASSUME DiscoveryInv, NEW w \in Prober, thread[w].at # "gone"
  PROVE  thread[w] # Gone /\ thread[w] \in ProberRecord
BY ProberFacts DEF DiscoveryInv, DiscoveryTypeOK

LEMMA LoopInv == ASSUME DiscoveryInv, NEW w \in Prober, Loop(w) PROVE DiscoveryInv'
<1>1. thread[w] # Gone /\ thread[w] \in ProberRecord /\ thread[w].at = "loop"
  BY NotGone DEF Loop
<1> DEFINE r == [thread[w] EXCEPT !.at = "fetch"]
<1>2. r \in ProberRecord /\ r.at = "fetch"
  BY <1>1 DEF ProberRecord
<1>3. CASE found
  <2>1. thread' = [thread EXCEPT ![w] = Gone]
    BY <1>3 DEF Loop, Becomes
  <2>2. InTime(Gone)
    BY ProberFacts DEF InTime
  <2> QED BY Zenon, <1>1, <2>1, <2>2, ProberFacts, QuietMove DEF Loop, DiscoveryInv, DiscoveryTypeOK
<1>4. CASE ~ found
  <2>1. thread' = [thread EXCEPT ![w] = r]
    BY <1>4 DEF Loop, Goes, Becomes
  <2> HIDE DEF r
  <2>2. InTime(r)
    BY <1>2 DEF InTime
  <2> QED BY Zenon, <1>1, <1>2, <2>1, <2>2, QuietMove DEF Loop, DiscoveryInv, DiscoveryTypeOK
<1> QED BY <1>3, <1>4

LEMMA FetchIndexInv == ASSUME DiscoveryInv, NEW w \in Prober, FetchIndex(w) PROVE DiscoveryInv'
<1>1. thread[w] # Gone /\ thread[w] \in ProberRecord /\ thread[w].at = "fetch"
  BY NotGone DEF FetchIndex
<1>2. next_idx \in Nat /\ elapsed \in Nat /\ next_idx' \in Nat
  BY DEF FetchIndex, DiscoveryInv, DiscoveryTypeOK
<1> DEFINE r == [at |-> "probe", i |-> next_idx, since |-> elapsed,
                 timeout |-> probe_timeout, wait |-> 1]
<1>3. CASE thread' = [thread EXCEPT ![w] = Gone]
  <2>1. InTime(Gone)
    BY ProberFacts DEF InTime
  <2> QED BY Zenon, <1>1, <1>2, <1>3, <2>1, ProberFacts, QuietMove DEF FetchIndex
<1>4. CASE remaining_ms # 0 /\ thread' = [thread EXCEPT ![w] = r]
  <2>1. /\ probe_timeout \in Nat /\ probe_timeout <= ProbeTimeout
        /\ elapsed + probe_timeout <= TotalBudget
    BY <1>2, <1>4, ProberFacts DEF probe_timeout, remaining_ms, Smaller
  <2>2. r \in ProberRecord
    BY <1>2, <2>1 DEF ProberRecord
  <2>3. InTime(r)
    BY <1>2, <2>1 DEF InTime, Deadline
  <2>4. r.at = "probe"
    OBVIOUS
  <2> HIDE DEF r
  <2> QED BY Zenon, <1>1, <1>2, <1>4, <2>2, <2>3, <2>4, QuietMove DEF FetchIndex
<1> QED BY <1>3, <1>4 DEF FetchIndex, Becomes

(* The second or the third wait begins. *)
LEMMA WaitAgain ==
  ASSUME NEW t \in ProberRecord, NEW e \in Nat
  PROVE  LET r == [t EXCEPT !.wait = @ + 1, !.since = e]
         IN  /\ r \in ProberRecord /\ r.at = t.at /\ r.wait = t.wait + 1
             /\ r.since = e /\ r.timeout = t.timeout
<1> DEFINE q == [t EXCEPT !.wait = t.wait + 1]
           r == [q EXCEPT !.since = e]
<1>1. q \in ProberRecord /\ q.at = t.at /\ q.wait = t.wait + 1 /\ q.timeout = t.timeout
  BY DEF ProberRecord
<1>2. [t EXCEPT !.wait = @ + 1, !.since = e] = r
  OBVIOUS
<1> HIDE DEF q
<1>3. r \in ProberRecord /\ r.at = q.at /\ r.wait = q.wait /\ r.since = e /\ r.timeout = q.timeout
  BY <1>1 DEF ProberRecord
<1> QED BY <1>1, <1>2, <1>3

LEMMA ProbeInv == ASSUME DiscoveryInv, NEW w \in Prober, probe_nats_peer(w) PROVE DiscoveryInv'
<1> DEFINE t == thread[w]
<1>1. t # Gone /\ t \in ProberRecord /\ t.at = "probe"
  BY NotGone DEF probe_nats_peer
<1>2. elapsed \in Nat /\ next_idx' \in Nat /\ InTime(t)
  BY DEF probe_nats_peer, DiscoveryInv, DiscoveryTypeOK, BudgetInv
<1>3. CASE check_nats_monitoring(w)
  <2> DEFINE r == [t EXCEPT !.wait = @ + 1, !.since = elapsed]
  <2>1. /\ r \in ProberRecord /\ r.at = "probe" /\ r.wait = t.wait + 1
        /\ r.since = elapsed /\ r.timeout = t.timeout
    BY Zenon, <1>1, <1>2, WaitAgain
  <2>2. t.wait \in Nat /\ t.timeout \in Nat /\ t.since \in Nat
    BY <1>1 DEF ProberRecord
  <2>3. thread' = [thread EXCEPT ![w] = r] /\ passed' = passed /\ t.wait < 3
    BY <1>3 DEF check_nats_monitoring, Becomes
  <2> HIDE DEF r, t
  <2>4. InTime(r)
    BY <1>1, <1>2, <2>1, <2>2, <2>3, ProberFacts DEF InTime, Deadline
  <2> QED BY Zenon, <1>1, <1>2, <2>1, <2>3, <2>4, QuietMove DEF probe_nats_peer, t
<1>4. CASE tcp_connect_with_timeout(w)
  <2> DEFINE r == [t EXCEPT !.at = "claim"]
  <2>1. r \in ProberRecord /\ r.at = "claim" /\ r.i = t.i
    BY <1>1 DEF ProberRecord
  <2>2. thread' = [thread EXCEPT ![w] = r] /\ passed' = passed \cup {matched[t.i]}
    BY <1>4 DEF tcp_connect_with_timeout, Goes, Becomes
  <2>3. UNCHANGED <<matched, found, next_idx, winning_url, elapsed, main, nats_url>>
    BY DEF probe_nats_peer
  <2> HIDE DEF r, t
  <2>4. InTime(r)
    BY <2>1 DEF InTime
  <2>5. BudgetInv' /\ thread' \in [Prober -> ProberRecord]
    BY Zenon, <2>1, <2>2, <2>3, <2>4, BudgetMove DEF DiscoveryInv
  <2>6. DiscoveryTypeOK'
    BY <1>2, <2>3, <2>5 DEF DiscoveryInv, DiscoveryTypeOK
  <2>7. Somebody("claim")'
    <3>1. thread'[w] = r
      BY <2>2 DEF DiscoveryInv, DiscoveryTypeOK
    <3> QED BY <2>1, <3>1 DEF Somebody
  <2>8. IsPassed(winning_url) => IsPassed(winning_url)'
    BY Zenon, <2>2, <2>3 DEF IsPassed
  <2>9. Somebody("write") => Somebody("write")'
    BY Zenon, <1>1, <2>1, <2>2, OthersStay DEF t
  <2>10. found' => IsPassed(winning_url)' \/ Somebody("write")'
    BY Zenon, <2>3, <2>8, <2>9 DEF DiscoveryInv, WinnerInv
  <2>11. winning_url' # << >> => IsPassed(winning_url)'
    BY <2>3, <2>8 DEF DiscoveryInv, WinnerInv
  <2>12. WinnerInv'
    BY Zenon, <1>1, <2>1, <2>2, <2>3, <2>7, <2>10, <2>11, WinnerMove DEF t
  <2> QED BY <2>5, <2>6, <2>12 DEF DiscoveryInv
<1>5. CASE Becomes(w, Fresh) /\ UNCHANGED passed
  <2>1. InTime(Fresh)
    BY ProberFacts DEF InTime
  <2>2. /\ Fresh \in ProberRecord /\ Fresh.at = "loop"
        /\ thread' = [thread EXCEPT ![w] = Fresh]
        /\ UNCHANGED <<matched, found, next_idx, winning_url, elapsed, main, passed, nats_url>>
    BY <1>5, ProberFacts DEF probe_nats_peer, Becomes
  <2> HIDE DEF t
  <2> QED BY Zenon, <1>1, <1>2, <2>1, <2>2, QuietMove DEF t
<1> QED BY <1>3, <1>4, <1>5 DEF probe_nats_peer

LEMMA ClaimInv == ASSUME DiscoveryInv, NEW w \in Prober, Claim(w) PROVE DiscoveryInv'
<1> DEFINE t == thread[w]
<1>1. t # Gone /\ t \in ProberRecord /\ t.at = "claim"
  BY NotGone DEF Claim
<1>2. CASE found
  <2>1. InTime(Gone) /\ found' = found /\ next_idx' \in Nat
    BY <1>2, ProberFacts DEF InTime, Claim, DiscoveryInv, DiscoveryTypeOK
  <2> QED BY <1>1, <1>2, <2>1, ProberFacts, QuietMove DEF Claim, Becomes
<1>3. CASE ~ found
  <2> DEFINE r == [t EXCEPT !.at = "write"]
  <2>1. r \in ProberRecord /\ r.at = "write" /\ r.i = t.i
    BY <1>1 DEF ProberRecord
  <2>2. /\ thread' = [thread EXCEPT ![w] = r] /\ found' = TRUE
        /\ UNCHANGED <<matched, next_idx, winning_url, elapsed, main, passed, nats_url>>
    BY <1>3 DEF Claim, Goes, Becomes
  <2> HIDE DEF r, t
  <2>3. InTime(r)
    BY <2>1 DEF InTime
  <2>4. BudgetInv' /\ thread' \in [Prober -> ProberRecord]
    BY Zenon, <2>1, <2>2, <2>3, BudgetMove DEF DiscoveryInv
  <2>5. DiscoveryTypeOK'
    BY <2>2, <2>4 DEF DiscoveryInv, DiscoveryTypeOK
  <2>6. Somebody("write")'
    <3>1. thread'[w] = r
      BY <2>2 DEF DiscoveryInv, DiscoveryTypeOK
    <3> QED BY <2>1, <3>1 DEF Somebody
  <2>7. winning_url' # << >> => IsPassed(winning_url)'
    BY <2>2 DEF DiscoveryInv, WinnerInv, IsPassed
  <2>8. matched[t.i] \in passed'
    BY <1>1, <2>2 DEF DiscoveryInv, WinnerInv, t
  <2>9. WinnerInv'
    BY Zenon, <1>1, <2>1, <2>2, <2>6, <2>7, <2>8, WinnerMove DEF t
  <2> QED BY <2>4, <2>5, <2>9 DEF DiscoveryInv
<1> QED BY <1>2, <1>3

LEMMA WriteInv == ASSUME DiscoveryInv, NEW w \in Prober, Write(w) PROVE DiscoveryInv'
<1> DEFINE t == thread[w]
           r == [t EXCEPT !.at = "notify"]
<1>1. t # Gone /\ t \in ProberRecord /\ t.at = "write"
  BY NotGone DEF Write
<1>2. r \in ProberRecord /\ r.at = "notify" /\ r.i = t.i
  BY <1>1 DEF ProberRecord
<1>3. /\ thread' = [thread EXCEPT ![w] = r] /\ winning_url' = Url(matched[t.i])
      /\ UNCHANGED <<matched, found, next_idx, elapsed, main, passed, nats_url>>
  BY DEF Write, Goes, Becomes
<1>4. matched[t.i] \in passed'
  BY <1>1, <1>3 DEF DiscoveryInv, WinnerInv
<1> HIDE DEF r, t
<1>5. InTime(r)
  BY <1>2 DEF InTime
<1>6. BudgetInv' /\ thread' \in [Prober -> ProberRecord]
  BY Zenon, <1>2, <1>3, <1>5, BudgetMove DEF DiscoveryInv
<1>7. DiscoveryTypeOK'
  BY <1>3, <1>6 DEF DiscoveryInv, DiscoveryTypeOK
<1>8. IsPassed(winning_url)'
  BY <1>3, <1>4 DEF IsPassed
<1>9. Somebody("claim") => Somebody("claim")'
  BY Zenon, <1>1, <1>2, <1>3, OthersStay DEF t
<1>10. passed' # {} => found' \/ Somebody("claim")'
  BY <1>3, <1>9 DEF DiscoveryInv, WinnerInv
<1>11. WinnerInv'
  BY Zenon, <1>1, <1>2, <1>3, <1>4, <1>8, <1>10, WinnerMove DEF t
<1> QED BY <1>6, <1>7, <1>11 DEF DiscoveryInv

LEMMA NotifyInv == ASSUME DiscoveryInv, NEW w \in Prober, Notify(w) PROVE DiscoveryInv'
<1>1. thread[w] # Gone /\ thread[w] \in ProberRecord /\ thread[w].at = "notify"
  BY NotGone DEF Notify
<1>2. InTime(Gone) /\ next_idx' \in Nat
  BY ProberFacts DEF InTime, Notify, DiscoveryInv, DiscoveryTypeOK
<1>3. main' = main \/ (main = "asleep" /\ main' = "woken")
  BY DEF Notify
<1> QED BY Zenon, <1>1, <1>2, <1>3, ProberFacts, QuietMove DEF Notify, Becomes

(* The caller's own steps. *)
LEMMA StillInTime ==
  ASSUME BudgetInv, UNCHANGED <<elapsed, thread>>
  PROVE  BudgetInv'
BY DEF BudgetInv, BudgetKept, InTime, Deadline

LEMMA FromEnvironmentInv == ASSUME DiscoveryInv, FromEnvironment PROVE DiscoveryInv'
<1>1. BudgetInv'
  BY StillInTime DEF DiscoveryInv, FromEnvironment
<1>2. DiscoveryTypeOK'
  BY DEF DiscoveryInv, DiscoveryTypeOK, FromEnvironment
<1>3. WinnerInv'
  BY Zenon DEF DiscoveryInv, WinnerInv, FromEnvironment, AllGone, Somebody, IsPassed, FoundIsReturned
<1> QED BY <1>1, <1>2, <1>3 DEF DiscoveryInv

LEMMA DiscoverInv == ASSUME DiscoveryInv, discover_nats_url PROVE DiscoveryInv'
<1> DEFINE n == worker_count(Len(matched'))
<1>1. /\ thread' = [v \in Prober |-> IF v <= n THEN Fresh ELSE Gone]
      /\ UNCHANGED <<found, next_idx, winning_url, elapsed, passed>>
      /\ \/ matched' = << >> /\ main' = "returned" /\ nats_url' = Url("localhost")
         \/ main' = "wait" /\ nats_url' = nats_url
  <2>1. thread' = [v \in Prober |-> IF v <= n THEN Fresh ELSE Gone]
    BY Zenon DEF discover_nats_url
  <2>2. UNCHANGED <<found, next_idx, winning_url, elapsed, passed>>
    BY DEF discover_nats_url
  <2>3. \/ matched' = << >> /\ main' = "returned" /\ nats_url' = Url("localhost")
        \/ main' = "wait" /\ nats_url' = nats_url
    BY DEF discover_nats_url
  <2> QED BY <2>1, <2>2, <2>3
<1>2. passed = {} /\ found = FALSE /\ winning_url = << >>
  BY DEF DiscoveryInv, WinnerInv, discover_nats_url
<1>3. ASSUME matched' = << >> PROVE AllGone'
  <2>1. n = 0
    BY <1>3, ProberFacts DEF worker_count, Smaller
  <2>2. \A v \in Prober : ~ (v <= 0)
    BY ProberFacts
  <2> QED BY <1>1, <2>1, <2>2 DEF AllGone
<1> HIDE DEF n
<1>4. \A v \in Prober : thread'[v] \in {Fresh, Gone}
  BY <1>1
<1>5. thread' \in [Prober -> ProberRecord]
  BY <1>1, ProberFacts
<1>6. DiscoveryTypeOK'
  BY <1>1, <1>5 DEF DiscoveryInv, DiscoveryTypeOK
<1>7. BudgetInv'
  BY Zenon, <1>1, <1>4, ProberFacts DEF DiscoveryInv, BudgetInv, BudgetKept, InTime
<1>8. \A v \in Prober : thread'[v].at \notin {"claim", "write", "notify"}
  BY <1>4, ProberFacts
<1>9. WinnerInv'
  BY <1>1, <1>2, <1>3, <1>8 DEF WinnerInv, FoundIsReturned
<1> QED BY <1>6, <1>7, <1>9 DEF DiscoveryInv

LEMMA WaitUntilInv == ASSUME DiscoveryInv, WaitUntil PROVE DiscoveryInv'
<1>1. main' \in {"join", "asleep"} /\ UNCHANGED <<matched, found, next_idx, winning_url, elapsed, thread, passed, nats_url>>
  BY DEF WaitUntil
<1>2. BudgetInv'
  BY <1>1, StillInTime DEF DiscoveryInv
<1>3. DiscoveryTypeOK'
  BY <1>1 DEF DiscoveryInv, DiscoveryTypeOK
<1>4. WinnerInv'
  BY Zenon, <1>1 DEF DiscoveryInv, WinnerInv, AllGone, Somebody, IsPassed, FoundIsReturned
<1> QED BY <1>2, <1>3, <1>4 DEF DiscoveryInv

LEMMA JoinInv == ASSUME DiscoveryInv, Join PROVE DiscoveryInv'
<1>1. BudgetInv'
  BY StillInTime DEF DiscoveryInv, Join
<1>2. DiscoveryTypeOK'
  BY DEF DiscoveryInv, DiscoveryTypeOK, Join
<1>3. AllGone /\ ~ Somebody("claim") /\ ~ Somebody("write")
  BY ProberFacts DEF Join, AllGone, Somebody
<1>4. FoundIsReturned'
  <2>1. CASE passed = {}
    <3>1. winning_url = << >>
      BY <2>1 DEF DiscoveryInv, WinnerInv, IsPassed
    <3> QED BY <2>1, <3>1 DEF Join, FoundIsReturned
  <2>2. CASE passed # {}
    <3>1. IsPassed(winning_url)
      BY <1>3, <2>2 DEF DiscoveryInv, WinnerInv
    <3>2. winning_url # << >>
      BY <3>1 DEF IsPassed, Url
    <3> QED BY <2>2, <3>1, <3>2 DEF Join, FoundIsReturned, IsPassed
  <2> QED BY <2>1, <2>2
<1>5. WinnerInv'
  BY Zenon, <1>3, <1>4 DEF DiscoveryInv, WinnerInv, AllGone, Somebody, IsPassed, Join
<1> QED BY <1>1, <1>2, <1>5 DEF DiscoveryInv

LEMMA ElapseInv == ASSUME DiscoveryInv, Elapse PROVE DiscoveryInv'
<1>1. /\ elapsed' = elapsed + 1 /\ elapsed \in Nat
      /\ UNCHANGED <<matched, found, next_idx, winning_url, main, thread, passed, nats_url>>
  BY DEF Elapse, DiscoveryInv, DiscoveryTypeOK
<1>2. ASSUME NEW w \in Prober PROVE thread[w] \in ProberRecord /\ InTime(thread[w])
  BY DEF DiscoveryInv, DiscoveryTypeOK, BudgetInv
<1>3. ASSUME NEW w \in Prober PROVE InTime(thread[w])'
  <2> DEFINE t == thread[w]
  <2>1. t.wait \in Nat /\ t.timeout \in Nat /\ t.since \in Nat /\ InTime(t)
    BY <1>2 DEF ProberRecord
  <2>2. t.at # "probe" \/ elapsed < Deadline(t)
    BY ProberFacts DEF Elapse, Waits, Deadline
  <2>3. t' = t
    BY <1>1
  <2> HIDE DEF t
  <2>4. t.at = "probe" => t.since <= elapsed + 1 /\ elapsed + 1 <= Deadline(t)
    BY <1>1, <2>1, <2>2 DEF InTime, Deadline
  <2>5. InTime(t)'
    BY <1>1, <2>1, <2>3, <2>4 DEF InTime, Deadline
  <2> QED BY <2>5 DEF t
<1>4. BudgetKept'
  <2>1. CASE elapsed < TotalBudget
    BY <1>1, <2>1, ProberFacts DEF BudgetKept
  <2>2. CASE \E w \in Prober : thread[w] # Gone
    <3>1. PICK w \in Prober : thread[w] # Gone
      BY <2>2
    <3> DEFINE t == thread[w]
    <3>2. t.at = "probe" /\ elapsed < Deadline(t)
      BY <3>1 DEF Elapse, Waits, Deadline
    <3>3. t.wait \in Nat /\ t.timeout \in Nat /\ t.since \in Nat /\ InTime(t)
      BY <1>2 DEF ProberRecord
    <3> HIDE DEF t
    <3>4. Deadline(t) <= TotalBudget + 2 * ProbeTimeout /\ Deadline(t) \in Nat
      BY <3>2, <3>3, ProberFacts DEF InTime, Deadline
    <3> QED BY <1>1, <3>2, <3>4, ProberFacts DEF BudgetKept
  <2> QED BY <2>1, <2>2 DEF Elapse
<1>5. BudgetInv'
  BY <1>3, <1>4 DEF BudgetInv
<1>6. DiscoveryTypeOK'
  BY <1>1 DEF DiscoveryInv, DiscoveryTypeOK
<1>7. WinnerInv'
  BY Zenon, <1>1 DEF DiscoveryInv, WinnerInv, AllGone, Somebody, IsPassed, FoundIsReturned
<1> QED BY <1>5, <1>6, <1>7 DEF DiscoveryInv

(* peer_discovery.cpp:200-283: the invariant behind the two results below. *)
THEOREM DiscoveryInvariance == DiscoverySpec => []DiscoveryInv
<1>1. DiscoveryInv /\ [DiscoveryNext]_discoveryVars => DiscoveryInv'
  <2> SUFFICES ASSUME DiscoveryInv, [DiscoveryNext]_discoveryVars PROVE DiscoveryInv'
    OBVIOUS
  <2>1. CASE Discover
    BY <2>1, DiscoverInv, FromEnvironmentInv, WaitUntilInv, JoinInv, ElapseInv DEF Discover
  <2>2. ASSUME NEW w \in Prober, Probing(w) PROVE DiscoveryInv'
    BY <2>2, LoopInv, FetchIndexInv, ProbeInv, ClaimInv, WriteInv, NotifyInv DEF Probing
  <2>3. CASE UNCHANGED discoveryVars
    BY Zenon, <2>3 DEF discoveryVars, DiscoveryInv, DiscoveryTypeOK, BudgetInv, BudgetKept, InTime, Deadline,
                WinnerInv, AllGone, Somebody, IsPassed, FoundIsReturned
  <2> QED BY <2>1, <2>2, <2>3 DEF DiscoveryNext
<1> QED BY <1>1, DiscoveryStarts, PTL DEF DiscoverySpec

(* peer_discovery.cpp:229-283, server_main.cpp:95-108: for any list of      *)
(* peers, number of threads, budget and timeout, the server connects to a   *)
(* peer that passed its probe whenever one did, and falls back on its own   *)
(* host only when none did.                                                 *)
THEOREM ProbedPeerReturned == DiscoverySpec => []FoundIsReturned
<1>1. DiscoveryInv => FoundIsReturned
  BY DEF DiscoveryInv, WinnerInv
<1> QED BY <1>1, DiscoveryInvariance, PTL

(* peer_discovery.cpp:225-246: the call never takes more than two timeouts  *)
(* longer than its budget, whatever the two are.                            *)
THEOREM CallInBudget == DiscoverySpec => []BudgetKept
<1>1. DiscoveryInv => BudgetKept
  BY DEF DiscoveryInv, BudgetInv
<1> QED BY <1>1, DiscoveryInvariance, PTL

(***************************************************************************)
(* PullOrSteal.                                                            *)
(***************************************************************************)
Phase == {"loop", "await_ready", "await_suspend", "await_resume", "out"}

PullTypeOK ==
    /\ all_queues_ \in [Puller -> SUBSET Parcel] /\ shutdown_flag_ \in BOOLEAN
    /\ phase \in [Puller -> Phase] /\ victim \in [Puller -> Puller]
    /\ result_ \in [Puller -> Parcel \cup {Nothing}]
    /\ pushed \subseteq Parcel /\ returned \subseteq Parcel
    /\ dropped \in [Puller -> SUBSET Parcel]

(* A puller holds an item only until it resumes, and drops one only on its  *)
(* way out.                                                                 *)
PullHands ==
    \A p \in Puller :
        /\ result_[p] # Nothing => phase[p] = "await_resume"
        /\ dropped[p] # {} => shutdown_flag_ /\ phase[p] \in {"loop", "out"}
        /\ \A x, y \in dropped[p] : x = y

(* What is known of one item. *)
Spot(x) ==
    /\ x \in pushed <=> \/ \E p \in Puller : x \in all_queues_[p]
                        \/ \E p \in Puller : x = result_[p]
                        \/ x \in returned
                        \/ \E p \in Puller : x \in dropped[p]
    /\ \A p, q \in Puller : x \in all_queues_[p] /\ x \in all_queues_[q] => p = q
    /\ \A p, q \in Puller : x = result_[p] /\ x = result_[q] => p = q
    /\ \A p, q \in Puller : x \in dropped[p] /\ x \in dropped[q] => p = q
    /\ \A p, q \in Puller : x \in all_queues_[p] => x # result_[q] /\ x \notin dropped[q]
    /\ \A p, q \in Puller : x = result_[p] => x \notin dropped[q]
    /\ x \in returned => \A p \in Puller : /\ x \notin all_queues_[p] /\ x # result_[p]
                                           /\ x \notin dropped[p]

Spots == \A x \in Parcel : Spot(x)

PullInv == PullTypeOK /\ PullHands /\ Spots

LEMMA PullStarts == PullInit => PullInv
<1> SUFFICES ASSUME PullInit PROVE PullInv
  OBVIOUS
<1>1. NumPullers \in Nat \ {0} /\ 0 \in Puller /\ Nothing \notin Parcel
  BY PullAssumption DEF Puller
<1>2. PullTypeOK
  BY Zenon, <1>1 DEF PullInit, PullTypeOK, Phase
<1>3. PullHands
  BY DEF PullInit, PullHands
<1>4. Spots
  BY <1>1 DEF PullInit, Spots, Spot
<1> QED BY <1>2, <1>3, <1>4 DEF PullInv

LEMMA PullLoss == PullInv => OneLossEach
<1> SUFFICES ASSUME PullInv PROVE OneLossEach
  OBVIOUS
<1> DEFINE waiting == UNION {all_queues_[p] : p \in Puller}
           held == {result_[p] : p \in Puller} \ {Nothing}
           lost == UNION {dropped[p] : p \in Puller}
<1>1. /\ \A x : x \in waiting <=> \E p \in Puller : x \in all_queues_[p]
      /\ \A x : x \in held <=> x # Nothing /\ \E p \in Puller : x = result_[p]
      /\ \A x : x \in lost <=> \E p \in Puller : x \in dropped[p]
  OBVIOUS
<1>2. waiting \subseteq Parcel /\ held \subseteq Parcel /\ lost \subseteq Parcel
  BY DEF PullInv, PullTypeOK
<1>3. /\ returned \subseteq Parcel /\ pushed \subseteq Parcel /\ Nothing \notin Parcel
      /\ \A x \in Parcel : Spot(x)
  BY PullAssumption DEF PullInv, PullTypeOK, Spots
<1> HIDE DEF waiting, held, lost
<1>4. lost # {} => shutdown_flag_
  <2>1. \A p \in Puller : dropped[p] # {} => shutdown_flag_
    BY Zenon DEF PullInv, PullHands
  <2> QED BY Zenon, <1>1, <2>1
<1>5. pushed = waiting \cup held \cup returned \cup lost
  BY <1>1, <1>2, <1>3 DEF Spot
<1>6. waiting \cap held = {} /\ lost \cap (waiting \cup held) = {}
  BY <1>1, <1>2, <1>3 DEF Spot
<1>7. returned \cap (waiting \cup held \cup lost) = {}
  BY <1>1, <1>2, <1>3 DEF Spot
<1>8. ASSUME NEW p \in Puller, NEW q \in Puller, p # q
      PROVE  /\ all_queues_[p] \cap all_queues_[q] = {} /\ dropped[p] \cap dropped[q] = {}
             /\ result_[p] = result_[q] => result_[p] = Nothing
  BY <1>3, <1>8 DEF Spot, PullInv, PullTypeOK
<1>9. \A p \in Puller : \A x, y \in dropped[p] : x = y
  BY DEF PullInv, PullHands
<1> QED BY Zenon, <1>4, <1>5, <1>6, <1>7, <1>8, <1>9 DEF OneLossEach, waiting, held, lost

LEMMA PushSpots == ASSUME PullInv, NEW q \in Puller, NEW item \in Parcel, Push(q, item) PROVE PullInv'
<1>1. /\ pushed' = pushed \cup {item} /\ item \notin pushed
      /\ UNCHANGED <<shutdown_flag_, phase, victim, result_, returned, dropped>>
  BY DEF Push
<1>2. /\ all_queues_' \in [Puller -> SUBSET Parcel] /\ all_queues_'[q] = all_queues_[q] \cup {item}
      /\ \A p \in Puller : p # q => all_queues_'[p] = all_queues_[p]
  BY DEF Push, PullInv, PullTypeOK
<1>3. PullTypeOK'
  BY <1>1, <1>2 DEF PullInv, PullTypeOK
<1>4. PullHands'
  BY Zenon, <1>1 DEF PullInv, PullHands
<1>5. Spots'
  <2> SUFFICES ASSUME NEW x \in Parcel PROVE Spot(x)'
    BY DEF Spots
  <2>1. Spot(x)
    BY DEF PullInv, Spots
  <2>2. CASE x = item
    <3>1. /\ \A p \in Puller : x \notin all_queues_[p] /\ x # result_[p] /\ x \notin dropped[p]
          /\ x \notin returned
      BY Zenon, <1>1, <2>1, <2>2 DEF Spot
    <3>2. \A p \in Puller : x \in all_queues_'[p] <=> p = q
      BY Zenon, <1>2, <2>2, <3>1
    <3> QED BY Zenon, <1>1, <2>2, <3>1, <3>2 DEF Spot
  <2>3. CASE x # item
    <3>1. \A p \in Puller : x \in all_queues_'[p] <=> x \in all_queues_[p]
      BY <1>2, <2>3
    <3> QED BY Zenon, <1>1, <2>1, <2>3, <3>1 DEF Spot
  <2> QED BY <2>2, <2>3
<1> QED BY <1>3, <1>4, <1>5 DEF PullInv

(* An item that a step leaves where it is. *)
LEMMA SpotKept ==
  ASSUME NEW x, Spot(x), x \in pushed' <=> x \in pushed, x \in returned' <=> x \in returned,
         \A p \in Puller : x \in all_queues_'[p] <=> x \in all_queues_[p],
         \A p \in Puller : x = result_'[p] <=> x = result_[p],
         \A p \in Puller : x \in dropped'[p] <=> x \in dropped[p]
  PROVE  Spot(x)'
<1>1. x \in pushed' <=> \/ \E p \in Puller : x \in all_queues_'[p]
                        \/ \E p \in Puller : x = result_'[p]
                        \/ x \in returned'
                        \/ \E p \in Puller : x \in dropped'[p]
  BY Zenon DEF Spot
<1>2. /\ \A p, q \in Puller : x \in all_queues_'[p] /\ x \in all_queues_'[q] => p = q
      /\ \A p, q \in Puller : x = result_'[p] /\ x = result_'[q] => p = q
      /\ \A p, q \in Puller : x \in dropped'[p] /\ x \in dropped'[q] => p = q
  BY Zenon DEF Spot
<1>3. /\ \A p, q \in Puller : x \in all_queues_'[p] => x # result_'[q] /\ x \notin dropped'[q]
      /\ \A p, q \in Puller : x = result_'[p] => x \notin dropped'[q]
      /\ x \in returned' => \A p \in Puller : /\ x \notin all_queues_'[p] /\ x # result_'[p]
                                               /\ x \notin dropped'[p]
  BY Zenon DEF Spot
<1> QED BY Zenon, <1>1, <1>2, <1>3 DEF Spot

(* A step that moves no item. *)
LEMMA PullMove ==
  ASSUME PullInv, PullTypeOK', UNCHANGED <<all_queues_, result_, pushed, returned, dropped>>,
         shutdown_flag_ => shutdown_flag_',
         \A p \in Puller : /\ result_[p] # Nothing => phase'[p] = "await_resume"
                           /\ dropped[p] # {} => phase'[p] \in {"loop", "out"}
  PROVE  PullInv'
<1>1. PullHands'
  BY Zenon DEF PullInv, PullHands
<1>2. Spots'
  <2> SUFFICES ASSUME NEW x \in Parcel PROVE Spot(x)'
    BY Zenon DEF Spots
  <2>1. Spot(x)
    BY Zenon DEF PullInv, Spots
  <2> QED BY Zenon, <2>1, SpotKept
<1> QED BY Zenon, <1>1, <1>2 DEF PullInv

LEMMA RaiseFlagInv == ASSUME PullInv, RaiseFlag PROVE PullInv'
<1>1. PullTypeOK'
  BY DEF PullInv, PullTypeOK, RaiseFlag
<1>2. /\ UNCHANGED <<all_queues_, phase, result_, pushed, returned, dropped>>
      /\ shutdown_flag_ => shutdown_flag_'
  BY DEF RaiseFlag
<1>3. \A p \in Puller : /\ result_[p] # Nothing => phase'[p] = "await_resume"
                        /\ dropped[p] # {} => phase'[p] \in {"loop", "out"}
  BY <1>2 DEF PullInv, PullHands
<1> QED BY Zenon, <1>1, <1>2, <1>3, PullMove

LEMMA AwaitInv == ASSUME PullInv, NEW p \in Puller, Await(p) PROVE PullInv'
<1> DEFINE to == IF shutdown_flag_ THEN "out" ELSE "await_ready"
<1>1. /\ UNCHANGED <<all_queues_, shutdown_flag_, victim, result_, pushed, returned, dropped>>
      /\ phase[p] = "loop" /\ phase' = [phase EXCEPT ![p] = to]
  BY DEF Await
<1>2. /\ phase' \in [Puller -> Phase] /\ phase'[p] = to
      /\ \A q \in Puller : q # p => phase'[q] = phase[q]
  BY <1>1 DEF PullInv, PullTypeOK, Phase
<1>3. PullTypeOK'
  BY Zenon, <1>1, <1>2 DEF PullInv, PullTypeOK
<1>4. ASSUME NEW q \in Puller
      PROVE  /\ result_[q] # Nothing => phase'[q] = "await_resume"
             /\ dropped[q] # {} => phase'[q] \in {"loop", "out"}
  BY <1>1, <1>2 DEF PullInv, PullHands
<1> QED BY <1>1, <1>3, <1>4, PullMove

(* An item goes from a queue into the hand of a puller. *)
LEMMA DequeueInv ==
  ASSUME PullInv, NEW p \in Puller, NEW q \in Puller, NEW item \in all_queues_[q],
         phase[p] \in {"await_ready", "await_suspend"},
         all_queues_' = [all_queues_ EXCEPT ![q] = @ \ {item}],
         result_' = [result_ EXCEPT ![p] = item], victim' = [victim EXCEPT ![p] = 0],
         phase' = [phase EXCEPT ![p] = "await_resume"],
         UNCHANGED <<shutdown_flag_, pushed, returned, dropped>>
  PROVE  PullInv'
<1>0. 0 \in Puller /\ item \in Parcel /\ Nothing \notin Parcel
  BY PullAssumption DEF Puller, PullInv, PullTypeOK
<1>1. /\ all_queues_' \in [Puller -> SUBSET Parcel] /\ all_queues_'[q] = all_queues_[q] \ {item}
      /\ \A o \in Puller : o # q => all_queues_'[o] = all_queues_[o]
  BY DEF PullInv, PullTypeOK
<1>2. /\ result_' \in [Puller -> Parcel \cup {Nothing}] /\ result_'[p] = item
      /\ \A o \in Puller : o # p => result_'[o] = result_[o]
  BY <1>0 DEF PullInv, PullTypeOK
<1>3. /\ phase' \in [Puller -> Phase] /\ phase'[p] = "await_resume"
      /\ \A o \in Puller : o # p => phase'[o] = phase[o]
  BY DEF PullInv, PullTypeOK, Phase
<1>4. victim' \in [Puller -> Puller]
  BY <1>0 DEF PullInv, PullTypeOK
<1>5. PullTypeOK'
  BY Zenon, <1>1, <1>2, <1>3, <1>4 DEF PullInv, PullTypeOK
<1>6. result_[p] = Nothing /\ dropped[p] = {}
  BY Zenon DEF PullInv, PullHands
<1>7. PullHands'
  <2> SUFFICES ASSUME NEW o \in Puller
               PROVE  /\ result_'[o] # Nothing => phase'[o] = "await_resume"
                      /\ dropped'[o] # {} => shutdown_flag_' /\ phase'[o] \in {"loop", "out"}
                      /\ \A x, y \in dropped'[o] : x = y
    BY Zenon DEF PullHands
  <2>1. CASE o = p
    BY <1>3, <1>6, <2>1
  <2>2. CASE o # p
    <3>1. result_'[o] = result_[o] /\ phase'[o] = phase[o] /\ dropped'[o] = dropped[o]
      BY <1>2, <1>3, <2>2
    <3>2. /\ result_[o] # Nothing => phase[o] = "await_resume"
          /\ dropped[o] # {} => shutdown_flag_ /\ phase[o] \in {"loop", "out"}
          /\ \A x, y \in dropped[o] : x = y
      BY Zenon DEF PullInv, PullHands
    <3> QED BY Zenon, <3>1, <3>2
  <2> QED BY Zenon, <2>1, <2>2
<1>8. Spots'
  <2> SUFFICES ASSUME NEW x \in Parcel PROVE Spot(x)'
    BY DEF Spots
  <2>1. Spot(x) /\ x # Nothing
    BY <1>0 DEF PullInv, Spots
  <2>2. CASE x = item
    <3>1. \A o \in Puller : x \notin all_queues_'[o] /\ x \notin dropped[o]
      BY Zenon, <1>1, <2>1, <2>2 DEF Spot
    <3>2. \A o \in Puller : x = result_'[o] <=> o = p
      BY Zenon, <1>2, <2>1, <2>2 DEF Spot
    <3>3. x \in pushed /\ x \notin returned
      BY Zenon, <2>1, <2>2 DEF Spot
    <3> QED BY Zenon, <3>1, <3>2, <3>3 DEF Spot
  <2>3. CASE x # item
    <3>1. \A o \in Puller : x \in all_queues_'[o] <=> x \in all_queues_[o]
      BY <1>1, <2>3
    <3>2. \A o \in Puller : x = result_'[o] <=> x = result_[o]
      BY <1>2, <1>6, <2>1, <2>3
    <3>3. \A o \in Puller : x \in dropped'[o] <=> x \in dropped[o]
      BY Zenon
    <3> QED BY Zenon, <2>1, <3>1, <3>2, <3>3, SpotKept
  <2> QED BY <2>2, <2>3
<1> QED BY <1>5, <1>7, <1>8 DEF PullInv

LEMMA StealInv ==
  ASSUME PullInv, NEW p \in Puller, NEW here \in {"await_ready", "await_suspend"},
         NEW next \in {"await_suspend", "await_resume"}, trySteal(p, here, next)
  PROVE  PullInv'
<1> DEFINE q == (p + victim[p]) % NumPullers
           last == victim[p] + 1 = NumPullers
<1>0. /\ NumPullers \in Nat \ {0} /\ p \in Nat /\ victim[p] \in Nat /\ victim[p] < NumPullers
      /\ \A i : i \in Puller <=> i \in Nat /\ i < NumPullers
  BY PullAssumption DEF Puller, PullInv, PullTypeOK
<1>1. q \in Puller
  <2>1. p + victim[p] \in Nat
    BY <1>0
  <2> QED BY <1>0, <2>1
<1>2. phase[p] = here /\ UNCHANGED <<shutdown_flag_, pushed, returned, dropped>>
  BY DEF trySteal
<1>3. CASE \E item \in all_queues_[q] :
             /\ all_queues_' = [all_queues_ EXCEPT ![q] = @ \ {item}]
             /\ result_' = [result_ EXCEPT ![p] = item] /\ victim' = [victim EXCEPT ![p] = 0]
             /\ phase' = [phase EXCEPT ![p] = "await_resume"]
  <2> HIDE DEF q
  <2> QED BY Zenon, <1>1, <1>2, <1>3, DequeueInv
<1>4. CASE /\ UNCHANGED <<all_queues_, result_>>
           /\ victim' = [victim EXCEPT ![p] = IF last THEN 0 ELSE @ + 1]
           /\ phase' = [phase EXCEPT ![p] = IF last THEN next ELSE here]
  <2>1. (IF last THEN 0 ELSE victim[p] + 1) \in Puller
    BY <1>0
  <2>2. victim' \in [Puller -> Puller]
    BY <1>4, <2>1 DEF PullInv, PullTypeOK
  <2> HIDE DEF last
  <2>3. /\ phase' \in [Puller -> Phase]
        /\ \A o \in Puller : o # p => phase'[o] = phase[o]
    BY <1>4 DEF PullInv, PullTypeOK, Phase
  <2>4. PullTypeOK'
    BY Zenon, <1>2, <1>4, <2>2, <2>3 DEF PullInv, PullTypeOK
  <2>5. ASSUME NEW o \in Puller
        PROVE  /\ result_[o] # Nothing => phase'[o] = "await_resume"
               /\ dropped[o] # {} => phase'[o] \in {"loop", "out"}
    BY Zenon, <1>2, <2>3 DEF PullInv, PullHands
  <2> QED BY Zenon, <1>2, <1>4, <2>4, <2>5, PullMove
<1> QED BY Zenon, <1>3, <1>4 DEF trySteal

LEMMA TimeoutInv ==
  ASSUME PullInv, NEW p \in Puller, phase[p] = "await_suspend",
         phase' = [phase EXCEPT ![p] = "await_resume"],
         UNCHANGED <<all_queues_, shutdown_flag_, victim, result_, pushed, returned, dropped>>
  PROVE  PullInv'
<1>1. /\ phase' \in [Puller -> Phase]
      /\ \A o \in Puller : o # p => phase'[o] = phase[o]
  BY DEF PullInv, PullTypeOK, Phase
<1>2. PullTypeOK'
  BY Zenon, <1>1 DEF PullInv, PullTypeOK
<1>3. ASSUME NEW o \in Puller
      PROVE  /\ result_[o] # Nothing => phase'[o] = "await_resume"
             /\ dropped[o] # {} => phase'[o] \in {"loop", "out"}
  BY Zenon, <1>1 DEF PullInv, PullHands
<1> QED BY Zenon, <1>2, <1>3, PullMove

(* What was dequeued is returned, or dropped for the flag. *)
LEMMA ResumeInv == ASSUME PullInv, NEW p \in Puller, await_resume(p) PROVE PullInv'
<1> DEFINE got == {result_[p]} \ {Nothing}
<1>0. Nothing \notin Parcel /\ got \subseteq Parcel /\ dropped[p] = {} /\ phase[p] = "await_resume"
  BY PullAssumption DEF PullInv, PullTypeOK, PullHands, await_resume
<1>1. /\ phase' \in [Puller -> Phase] /\ phase'[p] = "loop"
      /\ \A o \in Puller : o # p => phase'[o] = phase[o]
  BY DEF PullInv, PullTypeOK, Phase, await_resume
<1>2. /\ result_' \in [Puller -> Parcel \cup {Nothing}] /\ result_'[p] = Nothing
      /\ \A o \in Puller : o # p => result_'[o] = result_[o]
  BY DEF PullInv, PullTypeOK, await_resume
<1>3. UNCHANGED <<all_queues_, shutdown_flag_, victim, pushed>>
  BY DEF await_resume
<1>4. /\ returned' = IF shutdown_flag_ THEN returned ELSE returned \cup got
      /\ dropped' = IF shutdown_flag_ THEN [dropped EXCEPT ![p] = @ \cup got] ELSE dropped
  BY DEF await_resume
<1>5. \A x \in Parcel : x \in got <=> x = result_[p]
  BY Zenon, <1>0
<1>6. \A x, y \in got : x = y
  OBVIOUS
<1> HIDE DEF got
<1>7. /\ dropped' \in [Puller -> SUBSET Parcel]
      /\ dropped'[p] = (IF shutdown_flag_ THEN got ELSE {})
      /\ \A o \in Puller : o # p => dropped'[o] = dropped[o]
  BY <1>0, <1>4 DEF PullInv, PullTypeOK
<1>8. PullTypeOK'
  BY Zenon, <1>0, <1>1, <1>2, <1>3, <1>4, <1>7 DEF PullInv, PullTypeOK
<1>9. PullHands'
  <2> SUFFICES ASSUME NEW o \in Puller
               PROVE  /\ result_'[o] # Nothing => phase'[o] = "await_resume"
                      /\ dropped'[o] # {} => shutdown_flag_' /\ phase'[o] \in {"loop", "out"}
                      /\ \A x, y \in dropped'[o] : x = y
    BY DEF PullHands
  <2>1. CASE o = p
    BY Zenon, <1>1, <1>2, <1>3, <1>6, <1>7, <2>1
  <2>2. CASE o # p
    <3>1. result_'[o] = result_[o] /\ phase'[o] = phase[o] /\ dropped'[o] = dropped[o]
      BY Zenon, <1>1, <1>2, <1>7, <2>2
    <3>2. /\ result_[o] # Nothing => phase[o] = "await_resume"
          /\ dropped[o] # {} => shutdown_flag_ /\ phase[o] \in {"loop", "out"}
          /\ \A x, y \in dropped[o] : x = y
      BY Zenon DEF PullInv, PullHands
    <3> QED BY Zenon, <1>3, <3>1, <3>2
  <2> QED BY Zenon, <2>1, <2>2
<1>10. Spots'
  <2> SUFFICES ASSUME NEW x \in Parcel PROVE Spot(x)'
    BY DEF Spots
  <2>1. Spot(x) /\ x # Nothing
    BY <1>0 DEF PullInv, Spots
  <2>2. CASE x = result_[p]
    <3>1. \A o \in Puller : x \notin all_queues_'[o] /\ x # result_'[o]
      BY Zenon, <1>2, <1>3, <2>1, <2>2 DEF Spot
    <3>2. x \in pushed' /\ x \notin returned /\ \A o \in Puller : x \notin dropped[o]
      BY Zenon, <1>3, <2>1, <2>2 DEF Spot
    <3>3. CASE shutdown_flag_
      <4>1. x \notin returned' /\ \A o \in Puller : x \in dropped'[o] <=> o = p
        BY <1>4, <1>5, <1>7, <2>2, <3>2, <3>3
      <4> QED BY Zenon, <3>1, <3>2, <4>1 DEF Spot
    <3>4. CASE ~ shutdown_flag_
      <4>1. x \in returned' /\ \A o \in Puller : x \notin dropped'[o]
        BY <1>4, <1>5, <2>2, <3>2, <3>4
      <4> QED BY Zenon, <3>1, <3>2, <4>1 DEF Spot
    <3> QED BY <3>3, <3>4
  <2>3. CASE x # result_[p]
    <3>1. \A o \in Puller : x = result_'[o] <=> x = result_[o]
      BY <1>2, <2>1, <2>3
    <3>2. x \in returned' <=> x \in returned
      BY <1>4, <1>5, <2>3
    <3>3. \A o \in Puller : x \in dropped'[o] <=> x \in dropped[o]
      BY Zenon, <1>0, <1>5, <1>7, <2>3
    <3> QED BY Zenon, <1>3, <2>1, <3>1, <3>2, <3>3 DEF Spot
  <2> QED BY <2>2, <2>3
<1> QED BY <1>8, <1>9, <1>10 DEF PullInv

(* pull_or_steal.cpp:15-167: what is known of the queues and of the pullers *)
(* holds in every state, for any number of pullers and parcels.             *)
THEOREM PullInvariance == PullSpec => []PullInv
<1>1. PullInv /\ [PullNext]_pullVars => PullInv'
  <2> SUFFICES ASSUME PullInv, [PullNext]_pullVars PROVE PullInv'
    OBVIOUS
  <2>1. ASSUME NEW q \in Puller, NEW item \in Parcel, Push(q, item) PROVE PullInv'
    BY <2>1, PushSpots
  <2>2. CASE RaiseFlag
    BY <2>2, RaiseFlagInv
  <2>3. ASSUME NEW p \in Puller, Pull(p) PROVE PullInv'
    <3>1. CASE Await(p)
      BY <3>1, AwaitInv
    <3>2. CASE await_ready(p)
      BY <3>2, StealInv DEF await_ready
    <3>3. CASE await_suspend(p)
      <4>1. CASE trySteal(p, "await_suspend", "await_resume")
        BY <4>1, StealInv
      <4>2. CASE ~ trySteal(p, "await_suspend", "await_resume")
        BY <3>3, <4>2, TimeoutInv DEF await_suspend
      <4> QED BY <4>1, <4>2
    <3>4. CASE await_resume(p)
      BY <3>4, ResumeInv
    <3> QED BY <2>3, <3>1, <3>2, <3>3, <3>4 DEF Pull
  <2>4. CASE UNCHANGED pullVars
    <3>1. UNCHANGED <<all_queues_, shutdown_flag_, phase, victim, result_, pushed, returned, dropped>>
      BY Zenon, <2>4 DEF pullVars
    <3>2. PullTypeOK'
      BY Zenon, <3>1 DEF PullInv, PullTypeOK
    <3>3. \A p \in Puller : /\ result_[p] # Nothing => phase'[p] = "await_resume"
                            /\ dropped[p] # {} => phase'[p] \in {"loop", "out"}
      BY Zenon, <3>1 DEF PullInv, PullHands
    <3> QED BY <3>1, <3>2, <3>3, PullMove
  <2> QED BY <2>1, <2>2, <2>3, <2>4 DEF PullNext
<1> QED BY <1>1, PullStarts, PTL DEF PullSpec

(* pull_or_steal.cpp:61-68, 160-166: every item that was pushed is in one   *)
(* queue, in the hands of one puller, returned once, or was dropped by a    *)
(* puller that the flag stopped, and a puller drops at most one.            *)
THEOREM OneLossOnly == PullSpec => []OneLossEach
BY PullInvariance, PullLoss, PTL

=============================================================================
