------------------------------ MODULE MCServer ------------------------------
(***************************************************************************)
(* The server without NATS and the orchestrator's decisions: the           *)
(* collections behind the routes, and the limiter ahead of them.  The      *)
(* limiter shares no state with any collection, so a behaviour exercises   *)
(* one collection or the limiter, as `part` says.                          *)
(***************************************************************************)
EXTENDS Routes, RateLimiter

VARIABLE part

serverVars == <<allVars, limiterVars, part>>

ServerInit ==
    /\ InitAll /\ LimiterInit
    /\ part \in {"collection", "limiter"}
    /\ part = "limiter" => kind = CHOOSE k \in Kind : TRUE

ServerNext ==
    /\ UNCHANGED part
    /\ \/ part = "collection" /\ Next /\ UNCHANGED limiterVars
       \/ part = "limiter" /\ LimiterNext /\ UNCHANGED allVars

ServerSpec ==
    /\ ServerInit /\ [][ServerNext]_serverVars
    /\ part = "collection" => Fairness

(* The behaviours the refinement speaks of; what lies outside is not        *)
(* explored further.                                                        *)
Inside == ~outside
=============================================================================
