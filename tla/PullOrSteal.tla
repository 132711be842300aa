---------------------------- MODULE PullOrSteal -----------------------------
(***************************************************************************)
(* The awaitables PullOrSteal and PullOrStealWithTimeout                   *)
(* (src/src/concurrency/pull_or_steal.cpp), each awaited in a loop by a    *)
(* thread of its own until the shared flag is raised.  As in WorkStealing, *)
(* a queue is a set.                                                       *)
(***************************************************************************)
EXTENDS Naturals

CONSTANTS
    Parcel,      \* the work items
    Nothing,     \* model value: std::nullopt
    NumPullers,  \* threads, and queues
    Timed        \* the pullers that await PullOrStealWithTimeout

ASSUME PullAssumption == NumPullers \in Nat \ {0} /\ Nothing \notin Parcel

VARIABLES
    all_queues_, shutdown_flag_,
    phase,      \* puller -> where it is
    victim,     \* puller -> how many queues it has found empty
    result_,    \* puller -> what it has dequeued
    pushed,     \* history: items put on a queue
    returned,   \* history: items co_await returned
    dropped     \* history: puller -> items dequeued and not returned

pullVars == <<all_queues_, shutdown_flag_, phase, victim, result_, pushed, returned, dropped>>

Puller == 0 .. NumPullers - 1

PullInit ==
    /\ all_queues_ = [p \in Puller |-> {}] /\ shutdown_flag_ = FALSE
    /\ phase = [p \in Puller |-> "loop"] /\ victim = [p \in Puller |-> 0]
    /\ result_ = [p \in Puller |-> Nothing]
    /\ pushed = {} /\ returned = {} /\ dropped = [p \in Puller |-> {}]

Push(q, item) ==
    /\ item \notin pushed /\ pushed' = pushed \cup {item}
    /\ all_queues_' = [all_queues_ EXCEPT ![q] = @ \cup {item}]
    /\ UNCHANGED <<shutdown_flag_, phase, victim, result_, returned, dropped>>

RaiseFlag ==
    /\ ~shutdown_flag_ /\ shutdown_flag_' = TRUE
    /\ UNCHANGED <<all_queues_, phase, victim, result_, pushed, returned, dropped>>

Await(p) ==
    /\ phase[p] = "loop"
    /\ phase' = [phase EXCEPT ![p] = IF shutdown_flag_ THEN "out" ELSE "await_ready"]
    /\ UNCHANGED <<all_queues_, shutdown_flag_, victim, result_, pushed, returned, dropped>>

(* The own queue, then one other after another; `next` is where a round     *)
(* that finds nothing leads.                                                *)
trySteal(p, here, next) ==
    LET q == (p + victim[p]) % NumPullers
        last == victim[p] + 1 = NumPullers
    IN  /\ phase[p] = here
        /\ \/ /\ \E item \in all_queues_[q] :
                    /\ all_queues_' = [all_queues_ EXCEPT ![q] = @ \ {item}]
                    /\ result_' = [result_ EXCEPT ![p] = item]
              /\ victim' = [victim EXCEPT ![p] = 0]
              /\ phase' = [phase EXCEPT ![p] = "await_resume"]
           \/ /\ all_queues_[q] = {} /\ UNCHANGED <<all_queues_, result_>>
              /\ victim' = [victim EXCEPT ![p] = IF last THEN 0 ELSE @ + 1]
              /\ phase' = [phase EXCEPT ![p] = IF last THEN next ELSE here]
        /\ UNCHANGED <<shutdown_flag_, pushed, returned, dropped>>

await_ready(p) == trySteal(p, "await_ready", "await_suspend")

(* After a nap everything is tried once more, unless the time is up. *)
await_suspend(p) ==
    \/ trySteal(p, "await_suspend", "await_resume")
    \/ /\ p \in Timed /\ phase[p] = "await_suspend" /\ victim[p] = 0
       /\ phase' = [phase EXCEPT ![p] = "await_resume"]
       /\ UNCHANGED <<all_queues_, shutdown_flag_, victim, result_, pushed, returned, dropped>>

\* Mutant of await_resume: what was dequeued is dropped when another puller has work.
ResumeBusy(p) ==
    LET item == {result_[p]} \ {Nothing}
        keep == \A q \in Puller \ {p} : result_[q] = Nothing
    IN  /\ phase[p] = "await_resume"
        /\ phase' = [phase EXCEPT ![p] = "loop"] /\ result_' = [result_ EXCEPT ![p] = Nothing]
        /\ returned' = IF keep THEN returned \cup item ELSE returned
        /\ dropped' = IF keep THEN dropped ELSE [dropped EXCEPT ![p] = @ \cup item]
        /\ UNCHANGED <<all_queues_, shutdown_flag_, victim, pushed>>

await_resume(p) ==
    LET item == {result_[p]} \ {Nothing}
    IN  /\ phase[p] = "await_resume"
        /\ phase' = [phase EXCEPT ![p] = "loop"] /\ result_' = [result_ EXCEPT ![p] = Nothing]
        /\ returned' = IF shutdown_flag_ THEN returned ELSE returned \cup item
        /\ dropped' = IF shutdown_flag_ THEN [dropped EXCEPT ![p] = @ \cup item] ELSE dropped
        /\ UNCHANGED <<all_queues_, shutdown_flag_, victim, pushed>>

Pull(p) == Await(p) \/ await_ready(p) \/ await_suspend(p) \/ await_resume(p)

PullNext ==
    \/ \E q \in Puller, item \in Parcel : Push(q, item)
    \/ RaiseFlag
    \/ \E p \in Puller : Pull(p)

PullSpec == PullInit /\ [][PullNext]_pullVars
-----------------------------------------------------------------------------
(* pull_or_steal.cpp:61-68, 160-166: whatever is dequeued is returned to    *)
(* exactly one awaiter, except that an awaiter for which the flag is raised *)
(* between its dequeue and its resumption gives up the one item it holds.   *)
OneLossEach ==
    LET waiting == UNION {all_queues_[p] : p \in Puller}
        held == {result_[p] : p \in Puller} \ {Nothing}
        lost == UNION {dropped[p] : p \in Puller}
    IN  /\ pushed = waiting \cup held \cup returned \cup lost
        /\ waiting \cap held = {} /\ lost \cap (waiting \cup held) = {}
        /\ returned \cap (waiting \cup held \cup lost) = {}
        /\ \A p, q \in Puller : p # q =>
              /\ all_queues_[p] \cap all_queues_[q] = {} /\ dropped[p] \cap dropped[q] = {}
              /\ result_[p] = result_[q] => result_[p] = Nothing
        /\ lost # {} => shutdown_flag_
        /\ \A p \in Puller : \A x, y \in dropped[p] : x = y

=============================================================================
