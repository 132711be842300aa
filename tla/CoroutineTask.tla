---------------------------- MODULE CoroutineTask ---------------------------
(***************************************************************************)
(* The coroutine type Task<T>                                              *)
(* (src/include/agamemnon_agents/concurrency/task.hpp): a chain of         *)
(* coroutines 1, 2, ..., chain in which each awaits the next one and       *)
(* returns what it returned.  The first one is driven by get() on a thread *)
(* outside the pool ("plain"), by get() on a thread of the pool, as        *)
(* AsyncAgent::receiveMessage does ("worker"), or by the pool alone, to    *)
(* which its handle is submitted ("pool").                                 *)
(*                                                                         *)
(* To resume a coroutine that is not suspended is undefined behaviour; the *)
(* model stops there.                                                      *)
(***************************************************************************)
EXTENDS Naturals, Sequences, TLC

LOCAL INSTANCE SequencesExt

CONSTANTS
    OutsideThread,   \* a thread outside the pool
    PoolThread,      \* the threads of the pool, which have a current scheduler
    MaxChain         \* the longest chain of coroutines

VARIABLES
    chain, driver,
    co,             \* coroutine -> "new", "running", "awaiting" or "done"
    outcome,        \* coroutine -> what its promise holds
    continuation,   \* coroutine -> who awaits it, or 0
    stack,          \* thread -> the calls it is in: [fn, k]
    handles,        \* handles submitted to the scheduler and not yet taken
    undefined

taskVars == <<chain, driver, co, outcome, continuation, stack, handles, undefined>>

Co == 1 .. MaxChain
Call(fn, k) == [fn |-> fn, k |-> k]

TaskInit ==
    /\ chain \in Co /\ driver \in {"plain", "worker", "pool"}
    /\ co = [k \in Co |-> "new"] /\ outcome = [k \in Co |-> "none"]
    /\ continuation = [k \in Co |-> 0] /\ undefined = FALSE
    /\ handles = IF driver = "pool" THEN {1} ELSE {}
    /\ \E t \in {OutsideThread} \cup PoolThread :
         /\ (t = OutsideThread) = (driver # "worker")
         /\ stack = [u \in {OutsideThread} \cup PoolThread |->
                       IF u = t /\ driver # "pool" THEN <<Call("get", 1)>> ELSE << >>]

At(t, fn) == stack[t] # << >> /\ Last(stack[t]).fn = fn
Current(t) == Last(stack[t]).k
Calls(t, s) == stack' = [stack EXCEPT ![t] = s]

(* handle.resume() with `below` on the stack: k goes on where it stopped. *)
Resume(t, below, k) ==
    IF co[k] \in {"new", "awaiting"}
    THEN /\ co' = [co EXCEPT ![k] = "running"]
         /\ Calls(t, Append(below, Call(co[k], k))) /\ UNCHANGED undefined
    ELSE undefined' = TRUE /\ UNCHANGED <<co, stack>>

(* Resume until done. *)
get(t) ==
    /\ At(t, "get")
    /\ IF co[Current(t)] = "done"
       THEN Calls(t, Front(stack[t])) /\ UNCHANGED <<co, undefined>>
       ELSE Resume(t, stack[t], Current(t))
    /\ UNCHANGED <<chain, driver, outcome, continuation, handles>>

(* A thread of the pool executes a submitted handle. *)
ExecuteHandle(t) ==
    /\ stack[t] = << >> /\ t \in PoolThread
    /\ \E k \in handles : handles' = handles \ {k} /\ Resume(t, << >>, k)
    /\ UNCHANGED <<chain, driver, outcome, continuation>>

\* Mutant of Transfer: the awaited coroutine is submitted and resumed as well.
TransferTwice(t, k) ==
    /\ handles' = IF t \in PoolThread THEN handles \cup {k + 1} ELSE handles
    /\ Calls(t, Append(Front(stack[t]), Call("new", k + 1)))
    /\ co' = [co EXCEPT ![k] = "awaiting", ![k + 1] = "running"]

(* What await_suspend returns: the awaited coroutine, or nothing to run     *)
(* where a scheduler will resume it.                                        *)
Transfer(t, k) ==
    IF t \in PoolThread
    THEN /\ handles' = handles \cup {k + 1} /\ Calls(t, Front(stack[t]))
         /\ co' = [co EXCEPT ![k] = "awaiting"]
    ELSE /\ Calls(t, Append(Front(stack[t]), Call("new", k + 1))) /\ UNCHANGED handles
         /\ co' = [co EXCEPT ![k] = "awaiting", ![k + 1] = "running"]

(* The body of a coroutine that awaits the next one. *)
co_await(t) ==
    LET k == Current(t) IN
    /\ At(t, "new") /\ k < chain
    /\ continuation' = [continuation EXCEPT ![k + 1] = k] /\ Transfer(t, k)
    /\ UNCHANGED <<chain, driver, outcome, undefined>>

(* await_resume, which calls get() on the awaited task. *)
AwaitResume(t) ==
    /\ At(t, "awaiting")
    /\ LET k == Current(t)
       IN  Calls(t, Front(stack[t]) \o <<Call("resumed", k), Call("get", k + 1)>>)
    /\ UNCHANGED <<chain, driver, co, outcome, continuation, handles, undefined>>

\* Mutant of Outcomes: an exception of the awaited task is not thrown again.
OutcomesQuiet(k) == IF k = chain THEN {"value", "exception"} ELSE {"value"}

(* The last one returns or throws; get() rethrows what the awaited task     *)
(* threw.                                                                   *)
Outcomes(k) == IF k = chain THEN {"value", "exception"} ELSE {outcome[k + 1]}

co_return(t) ==
    LET k == Current(t) IN
    /\ (At(t, "new") /\ k = chain) \/ At(t, "resumed")
    /\ \E o \in Outcomes(k) : outcome' = [outcome EXCEPT ![k] = o]
    /\ Calls(t, Append(Front(stack[t]), Call("final", k)))
    /\ UNCHANGED <<chain, driver, co, continuation, handles, undefined>>

(* The coroutine is done, and the thread goes on with the one that awaits   *)
(* it.                                                                      *)
final_suspend(t) ==
    LET k == Current(t)
        c == continuation[k]
        below == Front(stack[t])
        awaits == IF c = 0 THEN {} ELSE {c}
    IN  /\ At(t, "final")
        /\ IF \E j \in awaits : co[j] # "awaiting"
           THEN undefined' = TRUE /\ UNCHANGED <<co, stack>>
           ELSE /\ co' = [j \in awaits |-> "running"] @@ [co EXCEPT ![k] = "done"]
                /\ Calls(t, IF c = 0 THEN below ELSE Append(below, Call("awaiting", c)))
                /\ UNCHANGED undefined
        /\ UNCHANGED <<chain, driver, outcome, continuation, handles>>

TaskStep(t) ==
    /\ ~undefined
    /\ \/ get(t) \/ ExecuteHandle(t) \/ co_await(t) \/ AwaitResume(t)
       \/ co_return(t) \/ final_suspend(t)

TaskNext == \E t \in {OutsideThread} \cup PoolThread : TaskStep(t)
-----------------------------------------------------------------------------
(* task.hpp:65-87, 147-169, 191-218: no coroutine is resumed while it runs  *)
(* or after it is done, by get() outside the pool or by the pool.  Only     *)
(* get() on a thread of the pool is out of order, and only when the         *)
(* coroutine it drives awaits another one: get() resumes it again before    *)
(* the pool is done with what it awaits.                                    *)
ResumedSuspended == undefined => driver = "worker" /\ chain > 1

(* task.hpp:65-95, 147-169, 191-218: get() outside the pool returns and a   *)
(* submitted coroutine finishes, however long the chain, with what the last *)
(* coroutine returned or threw, whichever threads they ran on, and nobody   *)
(* is left waiting.                                                         *)
TaskCompletes ==
    <>(undefined \/ /\ \A t \in DOMAIN stack : stack[t] = << >>
                    /\ \A k \in 1 .. chain : co[k] = "done" /\ outcome[k] = outcome[chain])
=============================================================================
