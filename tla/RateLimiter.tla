----------------------------- MODULE RateLimiter ----------------------------
(***************************************************************************)
(* The per-client token buckets ahead of every route                      *)
(* (src/src/rate_limiter.cpp, src/src/routes.cpp).  Tokens are counted in *)
(* fractions, Unit of them to a token, so that a bucket may hold part of   *)
(* one; the clock counts seconds.                                          *)
(***************************************************************************)
EXTENDS Naturals

CONSTANTS
    Client,               \* remote addresses
    Unit,                 \* fractions in a token
    Rate,                 \* tokens_per_second_, in fractions
    Burst,                \* burst_capacity_, in fractions
    kEvictAfter,          \* seconds
    kEvictCheckInterval,  \* requests between two evictions
    MaxNow                \* bound: seconds that pass

(* The defaults are 60 requests a second, a burst of 120 and five minutes:  *)
(* a bucket is full again long before it is evicted.                        *)
ASSUME LimiterAssumption ==
    /\ {Unit, Rate, Burst, kEvictAfter, kEvictCheckInterval} \subseteq Nat \ {0}
    /\ MaxNow \in Nat
    /\ Unit <= Burst
    /\ kEvictAfter * Rate >= Burst

VARIABLES
    buckets_,                    \* client -> [tokens, last_seen] or NoBucket
    request_count_since_evict_,
    now,                         \* the steady clock
    refused,                     \* clients refused, their Retry-After not computed yet
    due,                         \* history: client -> when it was told to come back, 0 for never
    granted                      \* history: client -> requests allowed

limiterVars ==
    <<buckets_, request_count_since_evict_, now, refused, due, granted>>

Bucket == [tokens : 0 .. Burst, last_seen : 0 .. MaxNow]
NoBucket == [tokens |-> Burst, last_seen |-> MaxNow + 1]

Least(a, b) == IF a < b THEN a ELSE b

\* Mutant of refill: the time of the refill is not kept.
RefillAgain(bucket) ==
    [tokens |-> Least(Burst, bucket.tokens + (now - bucket.last_seen) * Rate),
     last_seen |-> bucket.last_seen]

refill(bucket) ==
    [tokens |-> Least(Burst, bucket.tokens + (now - bucket.last_seen) * Rate),
     last_seen |-> now]

Refreshed(c) ==
    IF buckets_[c] = NoBucket THEN [tokens |-> Burst, last_seen |-> now]
    ELSE refill(buckets_[c])

\* Mutant of evict_stale: every bucket but the request's own is stale.
EvictOthers(b) ==
    [c \in Client |-> IF b[c].last_seen # now THEN NoBucket ELSE b[c]]

evict_stale(b) ==
    [c \in Client |->
        IF b[c] # NoBucket /\ now - b[c].last_seen > kEvictAfter
        THEN NoBucket ELSE b[c]]

LimiterInit ==
    /\ buckets_ = [c \in Client |-> NoBucket]
    /\ request_count_since_evict_ = 0
    /\ now = 0 /\ refused = {}
    /\ due = [c \in Client |-> 0]
    /\ granted = [c \in Client |-> 0]

(* The bucket is made or refilled, every so many requests the stale ones    *)
(* are evicted, and the request takes a token if there is one.              *)
allow(c) ==
    LET fresh == [buckets_ EXCEPT ![c] = Refreshed(c)]
        check == request_count_since_evict_ + 1 >= kEvictCheckInterval
        kept == IF check THEN evict_stale(fresh) ELSE fresh
        ok == kept[c].tokens >= Unit
    IN  /\ request_count_since_evict_' =
              IF check THEN 0 ELSE request_count_since_evict_ + 1
        /\ buckets_' = IF ok THEN [kept EXCEPT ![c].tokens = @ - Unit] ELSE kept
        /\ granted' = IF ok THEN [granted EXCEPT ![c] = @ + 1] ELSE granted
        /\ refused' = IF ok THEN refused ELSE refused \cup {c}
        /\ due' = [due EXCEPT ![c] = 0]
        /\ UNCHANGED now

(* Whole seconds until the next token. *)
retry_after_seconds(c) ==
    IF buckets_[c] = NoBucket \/ refill(buckets_[c]).tokens >= Unit THEN 0
    ELSE (Unit - refill(buckets_[c]).tokens) \div Rate

\* Mutant of TooManyRequests: the wait is rounded down.
TooManyRequestsEarly(c) ==
    /\ c \in refused /\ refused' = refused \ {c}
    /\ due' = [due EXCEPT ![c] = now + retry_after_seconds(c)]
    /\ UNCHANGED <<buckets_, request_count_since_evict_, now, granted>>

(* The 429 answer: its Retry-After is computed under a second lock. *)
TooManyRequests(c) ==
    /\ c \in refused /\ refused' = refused \ {c}
    /\ due' = [due EXCEPT ![c] = now + retry_after_seconds(c) + 1]
    /\ UNCHANGED <<buckets_, request_count_since_evict_, now, granted>>

Second ==
    /\ now < MaxNow /\ now' = now + 1
    /\ UNCHANGED <<buckets_, request_count_since_evict_, refused, due, granted>>

LimiterNext ==
    \/ \E c \in Client : allow(c) \/ TooManyRequests(c)
    \/ Second

LimiterSpec == LimiterInit /\ [][LimiterNext]_limiterVars
-----------------------------------------------------------------------------
(* What a bucket would hold if it were refilled now. *)
Level(c) == IF buckets_[c] = NoBucket THEN Burst ELSE refill(buckets_[c]).tokens

Promised == INSTANCE TokenBucket WITH
    level <- [c \in Client |-> Level(c)]

(* rate_limiter.hpp:12-15: throwing away a bucket that has not been seen    *)
(* for kEvictAfter is invisible; the limiter allows and refuses as if every *)
(* client had kept its bucket from the start.                               *)
EvictionInvisible == Promised!Spec

(* rate_limiter.cpp:27-50: a client's requests never outrun its burst and   *)
(* the tokens that time has added, evictions and refusals notwithstanding.  *)
Sustained == \A c \in Client : granted[c] * Unit + Level(c) <= Burst + now * Rate

(* routes.cpp:258-266: a client that stays away for as long as Retry-After  *)
(* told it to finds a token.                                                *)
RetrySuffices == \A c \in Client : due[c] # 0 /\ now >= due[c] => Level(c) >= Unit
=============================================================================
