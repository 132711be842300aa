----------------------------- MODULE TokenBucket ----------------------------
(***************************************************************************)
(* What include/agamemnon/rate_limiter.hpp:12-14 promises: "Each client IP *)
(* gets its own bucket.  Tokens refill at tokens_per_second up to          *)
(* burst_capacity.  Each allowed request consumes one token."  There is a  *)
(* bucket for every client, it fills as time passes, and none is ever      *)
(* thrown away.                                                            *)
(***************************************************************************)
EXTENDS Naturals

CONSTANTS Client, Unit, Rate, Burst

VARIABLES
    level,    \* client -> what its bucket holds
    granted   \* client -> requests allowed so far

bucketVars == <<level, granted>>

Capped(n) == IF n < Burst THEN n ELSE Burst

Init ==
    /\ level = [c \in Client |-> Burst]
    /\ granted = [c \in Client |-> 0]

Second ==
    /\ level' = [c \in Client |-> Capped(level[c] + Rate)]
    /\ UNCHANGED granted

Allow(c) ==
    /\ level[c] >= Unit
    /\ level' = [level EXCEPT ![c] = @ - Unit]
    /\ granted' = [granted EXCEPT ![c] = @ + 1]

Next == Second \/ \E c \in Client : Allow(c)

Spec == Init /\ [][Next]_bucketVars
=============================================================================
