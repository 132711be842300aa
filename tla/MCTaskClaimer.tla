---------------------------- MODULE MCTaskClaimer ----------------------------
(***************************************************************************)
(* TaskClaimer for TLC: two teams, one with two tasks.                     *)
(***************************************************************************)
EXTENDS TaskClaimer

CONSTANTS a, b, t1, t2, t3

MCTeamOf == [t \in Task |-> IF t = t3 THEN b ELSE a]
=============================================================================
