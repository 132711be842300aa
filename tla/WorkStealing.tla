---------------------------- MODULE WorkStealing ----------------------------
(***************************************************************************)
(* The work-stealing scheduler (src/src/concurrency/                       *)
(* work_stealing_scheduler.cpp, work_stealing_queue.cpp).  A queue keeps   *)
(* the order of one producer and none between producers, so it is a set:   *)
(* a dequeue yields any of its items.  What an item does when it runs is   *)
(* left to the modules that extend this one; here it may submit others.    *)
(***************************************************************************)
EXTENDS Naturals

CONSTANTS
    Work,        \* the items that may be submitted, each of them once
    Idle,        \* model value: a thread that holds no item
    NumWorkers,  \* num_workers_
    MaxStarts    \* bound: how often start() is called

ASSUME SchedulerAssumption ==
    NumWorkers \in Nat \ {0} /\ MaxStarts \in Nat /\ Idle \notin Work

VARIABLES
    worker_queues_, next_worker_index_, running_, shutdown_requested_,
    starts,    \* calls of start()
    pc,        \* worker -> where its thread is
    probe,     \* worker -> how far tryStealOnce has come
    hand,      \* worker -> the item it holds
    sent,      \* history: items submitted
    executed,  \* history: items whose execution ended
    late       \* history: items put on the queue of a thread that had left

queueVars == <<worker_queues_, next_worker_index_, sent, late>>
schedulerVars ==
    <<queueVars, running_, shutdown_requested_, starts, pc, probe, hand, executed>>

Worker == 0 .. NumWorkers - 1

Step == {"off", "check", "look", "run", "drain", "last", "exit"}

SchedulerInit ==
    /\ worker_queues_ = [w \in Worker |-> {}] /\ next_worker_index_ = 0
    /\ running_ = FALSE /\ shutdown_requested_ = FALSE /\ starts = 0
    /\ pc = [w \in Worker |-> "off"] /\ probe = [w \in Worker |-> 0]
    /\ hand = [w \in Worker |-> Idle]
    /\ sent = {} /\ executed = {} /\ late = {}

start ==
    /\ ~running_ /\ starts < MaxStarts /\ starts' = starts + 1
    /\ running_' = TRUE /\ shutdown_requested_' = FALSE
    /\ pc' = [w \in Worker |-> "check"]
    /\ UNCHANGED <<queueVars, probe, hand, executed>>

push(w, item) == worker_queues_' = [worker_queues_ EXCEPT ![w] = @ \cup {item}]

(* The thread of the queue will not look at it again. *)
Left(w) == pc[w] \in {"exit", "off"} /\ starts > 0

(* The indices the scheduler itself computes are in range; submitTo refuses *)
(* the others with a log line.                                              *)
submitTo(w, item) ==
    /\ push(w, item)
    /\ sent' = sent \cup {item}
    /\ late' = IF Left(w) THEN late \cup {item} ELSE late

getNextWorkerIndex == (next_worker_index_ + 1) % NumWorkers

submit(item) ==
    /\ item \notin sent
    /\ submitTo(next_worker_index_, item)
    /\ next_worker_index_' = getNextWorkerIndex

(* A thread outside the pool. *)
Submit(item) ==
    /\ submit(item)
    /\ UNCHANGED <<running_, shutdown_requested_, starts, pc, probe, hand, executed>>

goto(w, step) == pc' = [pc EXCEPT ![w] = step]

\* Mutant of take: the item is looked at and left on the queue.
TakeCopy(w, q, item, step) ==
    /\ item \in worker_queues_[q]
    /\ hand' = [hand EXCEPT ![w] = item]
    /\ goto(w, step)
    /\ UNCHANGED <<queueVars, running_, shutdown_requested_, starts, executed>>

take(w, q, item, step) ==
    /\ item \in worker_queues_[q]
    /\ worker_queues_' = [worker_queues_ EXCEPT ![q] = @ \ {item}]
    /\ hand' = [hand EXCEPT ![w] = item]
    /\ goto(w, step)
    /\ UNCHANGED <<next_worker_index_, sent, late, running_, shutdown_requested_,
                   starts, executed>>

\* Mutant of Check: the flag is not looked at.
CheckNothing(w) ==
    /\ pc[w] = "check" /\ goto(w, "look")
    /\ UNCHANGED <<queueVars, running_, shutdown_requested_, starts, probe, hand, executed>>

(* The loop's own test and the one that ends a fruitless round of           *)
(* tryStealWithBackoff lead to the same place; spinning, yielding and       *)
(* sleeping only differ in how long the next round takes to begin.          *)
Check(w) ==
    /\ pc[w] = "check"
    /\ goto(w, IF shutdown_requested_ THEN "drain" ELSE "look")
    /\ UNCHANGED <<queueVars, running_, shutdown_requested_, starts, probe, hand, executed>>

\* Mutant of tryStealOnce: a round that finds nothing ends the thread.
GiveUp(w) ==
    LET q == (w + probe[w]) % NumWorkers
    IN  /\ pc[w] = "look"
        /\ \/ /\ \E item \in worker_queues_[q] : take(w, q, item, "run")
              /\ probe' = [probe EXCEPT ![w] = 0]
           \/ /\ worker_queues_[q] = {}
              /\ probe' = [probe EXCEPT ![w] = (@ + 1) % NumWorkers]
              /\ goto(w, IF probe[w] + 1 = NumWorkers THEN "drain" ELSE "look")
              /\ UNCHANGED <<queueVars, running_, shutdown_requested_, starts, hand, executed>>

(* One queue of a round: a thread's own, then those of the others. *)
tryStealOnce(w) ==
    LET q == (w + probe[w]) % NumWorkers
    IN  /\ pc[w] = "look"
        /\ \/ /\ \E item \in worker_queues_[q] : take(w, q, item, "run")
              /\ probe' = [probe EXCEPT ![w] = 0]
           \/ /\ worker_queues_[q] = {}
              /\ probe' = [probe EXCEPT ![w] = (@ + 1) % NumWorkers]
              /\ goto(w, IF probe[w] + 1 = NumWorkers THEN "check" ELSE "look")
              /\ UNCHANGED <<queueVars, running_, shutdown_requested_, starts, hand, executed>>

\* Mutant of drain: the thread leaves without emptying its queue.
DrainNothing(w) ==
    /\ pc[w] = "drain" /\ goto(w, "exit")
    /\ UNCHANGED <<queueVars, running_, shutdown_requested_, starts, probe, hand, executed>>

drain(w) ==
    /\ pc[w] = "drain"
    /\ \/ /\ \E item \in worker_queues_[w] : take(w, w, item, "last")
          /\ UNCHANGED probe
       \/ /\ worker_queues_[w] = {} /\ goto(w, "exit")
          /\ UNCHANGED <<queueVars, running_, shutdown_requested_, starts, probe, hand,
                         executed>>

Running(w) == pc[w] \in {"run", "last"}

(* The end of execute(). *)
Done(w) ==
    /\ Running(w)
    /\ goto(w, IF pc[w] = "run" THEN "check" ELSE "drain")
    /\ executed' = executed \cup {hand[w]}
    /\ hand' = [hand EXCEPT ![w] = Idle]
    /\ UNCHANGED <<running_, shutdown_requested_, starts, probe>>

(* What is submitted while an item runs is submitted by its thread; the     *)
(* last submission may end the item.                                        *)
execute(w) ==
    \/ Done(w) /\ (UNCHANGED queueVars \/ \E item \in Work : submit(item))
    \/ /\ Running(w) /\ \E item \in Work : submit(item)
       /\ UNCHANGED <<running_, shutdown_requested_, starts, pc, probe, hand, executed>>

shutdown ==
    /\ running_ /\ ~shutdown_requested_ /\ shutdown_requested_' = TRUE
    /\ UNCHANGED <<queueVars, running_, starts, pc, probe, hand, executed>>

Joined ==
    /\ running_ /\ shutdown_requested_ /\ \A w \in Worker : pc[w] = "exit"
    /\ running_' = FALSE /\ pc' = [w \in Worker |-> "off"]
    /\ UNCHANGED <<queueVars, shutdown_requested_, starts, probe, hand, executed>>

Seek(w) == Check(w) \/ tryStealOnce(w) \/ drain(w)

SchedulerNext ==
    \/ start \/ shutdown \/ Joined
    \/ \E item \in Work : Submit(item)
    \/ \E w \in Worker : Seek(w) \/ execute(w)

SchedulerSpec == SchedulerInit /\ [][SchedulerNext]_schedulerVars
-----------------------------------------------------------------------------
Queued == UNION {worker_queues_[w] : w \in Worker}

Held == {hand[w] : w \in Worker} \ {Idle}

(* Every variable has its type. *)
SchedulerTypeOK ==
    /\ worker_queues_ \in [Worker -> SUBSET Work] /\ next_worker_index_ \in Worker
    /\ running_ \in BOOLEAN /\ shutdown_requested_ \in BOOLEAN
    /\ starts \in 0 .. MaxStarts
    /\ pc \in [Worker -> Step] /\ probe \in [Worker -> Worker]
    /\ hand \in [Worker -> Work \cup {Idle}]
    /\ sent \subseteq Work /\ executed \subseteq Work /\ late \subseteq Work

(* work_stealing_scheduler.cpp:80-94, 194-212, 285: an item that was        *)
(* submitted is on one queue, or held by one thread, or was executed; it is *)
(* never in two of these places, so that it is neither lost nor executed    *)
(* twice, whoever pops or steals it.                                        *)
Conserved ==
    /\ sent = Queued \cup Held \cup executed
    /\ Queued \cap Held = {} /\ executed \cap (Queued \cup Held) = {}
    /\ \A v, w \in Worker : v # w =>
          /\ worker_queues_[v] \cap worker_queues_[w] = {}
          /\ hand[v] = hand[w] => hand[v] = Idle

(* work_stealing_scheduler.cpp:298-319, "Drain remaining work from own      *)
(* queue before exiting": what a thread leaves behind was submitted after   *)
(* it had looked at its queue for the last time.                            *)
OnlyLateLeft ==
    \A w \in Worker : Left(w) => worker_queues_[w] \subseteq late

(* work_stealing_scheduler.cpp:112-138, 246: shutdown() returns, as long as *)
(* the items that are executed end.                                         *)
ShutdownReturns == shutdown_requested_ ~> ~running_

(* work_stealing_scheduler.cpp:194-251: a running scheduler executes all    *)
(* that was submitted, if it is not shut down and the items do not go on    *)
(* submitting others for ever.                                              *)
Served == (running_ /\ sent # executed) ~> (shutdown_requested_ \/ sent = executed)
=============================================================================
