-------------------------- MODULE SchedulerProofs ---------------------------
(***************************************************************************)
(* TLAPS proofs about the scheduler of the agents (WorkStealing) and the   *)
(* agents on it (LeadAgents).  The scheduler loses and repeats nothing,    *)
(* for any number of threads and items: its properties speak of unions and *)
(* intersections, the induction speaks of one item at a time (Places) and  *)
(* adds what connects the hand of a thread with where it is.  The agents   *)
(* implement the specification of the scheduler, so that what is proved of *)
(* it holds of their messages.                                             *)
(***************************************************************************)
EXTENDS LeadAgents, TLAPS

(***************************************************************************)
(* WorkStealing.                                                           *)
(***************************************************************************)
(* A thread holds an item exactly while it executes one; the threads exist  *)
(* between start() and the join of shutdown().                              *)
Hands ==
    /\ \A w \in Worker : hand[w] # Idle <=> Running(w)
    /\ ~running_ => \A w \in Worker : pc[w] = "off"

(* What is known of one item. *)
Place(x) ==
    /\ x \in sent <=> \/ \E w \in Worker : x \in worker_queues_[w]
                      \/ \E w \in Worker : x = hand[w]
                      \/ x \in executed
    /\ \A v, w \in Worker : x \in worker_queues_[v] => hand[w] # x
    /\ \A v, w \in Worker : x \in worker_queues_[v] /\ x \in worker_queues_[w] => v = w
    /\ \A v, w \in Worker : hand[v] = x /\ hand[w] = x => v = w
    /\ x \in executed => \A w \in Worker : x \notin worker_queues_[w] /\ hand[w] # x

Places == \A x \in Work : Place(x)

SchedulerInv == SchedulerTypeOK /\ Hands /\ Places /\ OnlyLateLeft

USE SchedulerAssumption

LEMMA ModInRange == ASSUME NEW a \in Nat PROVE a % NumWorkers \in Worker
BY DEF Worker

LEMMA InitInv == SchedulerInit => SchedulerInv
<1> SUFFICES ASSUME SchedulerInit PROVE SchedulerInv
  OBVIOUS
<1>0. 0 \in Worker
  BY DEF Worker
<1>1. SchedulerTypeOK
  <2> USE DEF SchedulerInit
  <2>1. worker_queues_ \in [Worker -> SUBSET Work] /\ next_worker_index_ \in Worker
    BY <1>0
  <2>2. running_ \in BOOLEAN /\ shutdown_requested_ \in BOOLEAN
    BY Zenon
  <2>6. starts \in 0 .. MaxStarts
    OBVIOUS
  <2>3. pc \in [Worker -> Step] /\ probe \in [Worker -> Worker]
    BY <1>0 DEF Step
  <2>4. hand \in [Worker -> Work \cup {Idle}]
    OBVIOUS
  <2>5. sent \subseteq Work /\ executed \subseteq Work /\ late \subseteq Work
    OBVIOUS
  <2> QED
    BY <2>1, <2>2, <2>3, <2>4, <2>5, <2>6 DEF SchedulerTypeOK
<1>2. Hands
  BY DEF SchedulerInit, Hands, Running
<1>3. Places
  BY DEF SchedulerInit, Places, Place
<1>4. OnlyLateLeft
  BY DEF SchedulerInit, OnlyLateLeft, Left
<1> QED
  BY <1>1, <1>2, <1>3, <1>4 DEF SchedulerInv

(* An invariant that speaks of places is Conserved. *)
LEMMA InvConserved == SchedulerInv => Conserved
<1> SUFFICES ASSUME SchedulerInv PROVE Conserved
  OBVIOUS
<1> USE DEF SchedulerInv, SchedulerTypeOK
<1>1. Queued \subseteq Work /\ Held \subseteq Work
  BY DEF Queued, Held
<1>2. \A x \in Work : Place(x)
  BY Zenon DEF Places
<1>3. sent = Queued \cup Held \cup executed
  BY <1>1, <1>2 DEF Place, Queued, Held
<1>4. Queued \cap Held = {} /\ executed \cap (Queued \cup Held) = {}
  BY <1>1, <1>2 DEF Place, Queued, Held
<1>5. ASSUME NEW v \in Worker, NEW w \in Worker, v # w
      PROVE  /\ worker_queues_[v] \cap worker_queues_[w] = {}
             /\ hand[v] = hand[w] => hand[v] = Idle
  BY <1>2, <1>5 DEF Place
<1> QED
  BY <1>3, <1>4, <1>5 DEF Conserved

(***************************************************************************)
(* One lemma for each kind of step.                                        *)
(***************************************************************************)

(* start(), shutdown() and its join touch no queue and no hand. *)
LEMMA StartInv == ASSUME SchedulerInv, start \/ shutdown \/ Joined PROVE SchedulerInv'
<1> USE DEF SchedulerInv, SchedulerTypeOK, queueVars
<1>1. UNCHANGED <<worker_queues_, sent, late, hand, executed, next_worker_index_, probe>>
  BY DEF start, shutdown, Joined
<1>2. Places'
  BY <1>1 DEF Places, Place
<1>3. SchedulerTypeOK'
  <2>1. running_' \in BOOLEAN /\ shutdown_requested_' \in BOOLEAN
    BY Zenon DEF start, shutdown, Joined
  <2>2. starts' \in 0 .. MaxStarts
    BY DEF start, shutdown, Joined
  <2>3. pc' \in [Worker -> Step]
    BY DEF start, shutdown, Joined, Step
  <2> QED
    BY <2>1, <2>2, <2>3, <1>1
<1>4. Hands' /\ OnlyLateLeft'
  <2>1. CASE start
    BY <2>1, <1>1 DEF start, Hands, Running, OnlyLateLeft, Left
  <2>2. CASE shutdown
    BY <2>2, <1>1 DEF shutdown, Hands, Running, OnlyLateLeft, Left
  <2>3. CASE Joined
    BY <2>3, <1>1 DEF Joined, Hands, Running, OnlyLateLeft, Left
  <2> QED
    BY <2>1, <2>2, <2>3
<1> QED
  BY <1>2, <1>3, <1>4

(* A thread moves on with empty hands; it leaves only an empty queue. *)
LEMMA MoveInv ==
  ASSUME SchedulerInv, NEW w \in Worker, NEW step \in Step, goto(w, step),
         pc[w] # "off", ~Running(w), step \notin {"off", "run", "last"},
         step = "exit" => worker_queues_[w] = {},
         probe' \in [Worker -> Worker],
         UNCHANGED <<queueVars, running_, shutdown_requested_, starts, hand, executed>>
  PROVE  SchedulerInv'
<1> USE DEF SchedulerInv, SchedulerTypeOK, queueVars
<1>1. UNCHANGED <<worker_queues_, next_worker_index_, sent, late, running_,
                  shutdown_requested_, starts, hand, executed>>
  OBVIOUS
<1>2. /\ pc' \in [Worker -> Step] /\ pc'[w] = step
      /\ \A v \in Worker : v # w => pc'[v] = pc[v]
  BY DEF goto
<1>3. SchedulerTypeOK'
  BY <1>1, <1>2
<1>4. Places'
  BY <1>1 DEF Places, Place
<1>5. Hands'
  BY <1>1, <1>2 DEF Hands, Running
<1>6. OnlyLateLeft'
  BY <1>1, <1>2 DEF OnlyLateLeft, Left
<1> QED
  BY <1>3, <1>4, <1>5, <1>6

(* A thread takes an item from its own queue or from another one. *)
LEMMA TakeInv ==
  ASSUME SchedulerInv, NEW w \in Worker, NEW q \in Worker, NEW item, NEW step \in {"run", "last"},
         take(w, q, item, step), pc[w] # "off", ~Running(w), probe' \in [Worker -> Worker]
  PROVE  SchedulerInv'
<1> USE DEF SchedulerInv, SchedulerTypeOK
<1>1. UNCHANGED <<next_worker_index_, sent, late, running_, shutdown_requested_, starts, executed>>
  BY DEF take
<1>2. /\ pc' \in [Worker -> Step] /\ pc'[w] = step
      /\ \A v \in Worker : v # w => pc'[v] = pc[v]
  BY DEF take, goto, Step
<1>3. item \in Work /\ item \in worker_queues_[q]
  BY DEF take
<1>4. /\ hand' \in [Worker -> Work \cup {Idle}] /\ hand'[w] = item
      /\ \A v \in Worker : v # w => hand'[v] = hand[v]
  BY <1>3 DEF take
<1>5. /\ worker_queues_' \in [Worker -> SUBSET Work]
      /\ worker_queues_'[q] = worker_queues_[q] \ {item}
      /\ \A v \in Worker : v # q => worker_queues_'[v] = worker_queues_[v]
  BY DEF take
<1>6. hand[w] = Idle
  BY DEF Hands
<1>7. SchedulerTypeOK'
  BY <1>1, <1>2, <1>4, <1>5
<1>8. Hands'
  BY <1>1, <1>2, <1>3, <1>4 DEF Hands, Running
<1>9. OnlyLateLeft'
  BY <1>1, <1>2, <1>5 DEF OnlyLateLeft, Left
<1>10. Places'
  <2> SUFFICES ASSUME NEW x \in Work PROVE Place(x)'
    BY DEF Places
  <2>1. Place(x) /\ Place(item) /\ x # Idle
    BY <1>3 DEF Places
  <2>2. CASE x = item
    <3>1. \A v \in Worker : x \notin worker_queues_'[v]
      BY <2>1, <2>2, <1>3, <1>5 DEF Place
    <3>2. \A v \in Worker : hand'[v] = x <=> v = w
      BY <2>1, <2>2, <1>3, <1>4 DEF Place
    <3>3. x \in sent /\ x \notin executed
      BY <2>1, <2>2, <1>3 DEF Place
    <3> QED
      BY <3>1, <3>2, <3>3, <1>1 DEF Place
  <2>3. CASE x # item
    <3>1. \A v \in Worker : x \in worker_queues_'[v] <=> x \in worker_queues_[v]
      BY <2>3, <1>5
    <3>2. \A v \in Worker : hand'[v] = x <=> hand[v] = x
      BY <2>1, <2>3, <1>4, <1>6
    <3> QED
      BY Zenon, <2>1, <3>1, <3>2, <1>1 DEF Place
  <2> QED
    BY <2>2, <2>3
<1> QED
  BY <1>7, <1>8, <1>9, <1>10

(* What submit() does to the queues. *)
LEMMA SubmitQueues ==
  ASSUME SchedulerInv, NEW item \in Work, submit(item)
  PROVE  /\ item \notin sent /\ sent' = sent \cup {item}
         /\ next_worker_index_ \in Worker /\ next_worker_index_' \in Worker
         /\ worker_queues_' \in [Worker -> SUBSET Work]
         /\ worker_queues_'[next_worker_index_] = worker_queues_[next_worker_index_] \cup {item}
         /\ \A v \in Worker : v # next_worker_index_ => worker_queues_'[v] = worker_queues_[v]
         /\ late' \subseteq Work /\ late \subseteq late'
         /\ Left(next_worker_index_) => item \in late'
<1> USE DEF SchedulerInv, SchedulerTypeOK
<1>1. next_worker_index_ \in Worker
  OBVIOUS
<1>2. next_worker_index_' \in Worker
  <2>1. next_worker_index_ + 1 \in Nat
    BY <1>1 DEF Worker
  <2>2. next_worker_index_' = (next_worker_index_ + 1) % NumWorkers
    BY DEF submit, getNextWorkerIndex
  <2> QED
    BY <2>1, <2>2, ModInRange
<1>3. item \notin sent /\ sent' = sent \cup {item}
  BY DEF submit, submitTo
<1>4. late' \subseteq Work /\ late \subseteq late' /\ (Left(next_worker_index_) => item \in late')
  BY DEF submit, submitTo
<1>5. /\ worker_queues_' \in [Worker -> SUBSET Work]
      /\ worker_queues_'[next_worker_index_] = worker_queues_[next_worker_index_] \cup {item}
      /\ \A v \in Worker : v # next_worker_index_ => worker_queues_'[v] = worker_queues_[v]
  BY <1>1 DEF submit, submitTo, push
<1> QED
  BY <1>1, <1>2, <1>3, <1>4, <1>5

(* A submission from outside, or in the middle of an item. *)
LEMMA SubmitInv ==
  ASSUME SchedulerInv, NEW item \in Work, submit(item),
         UNCHANGED <<running_, shutdown_requested_, starts, pc, probe, hand, executed>>
  PROVE  SchedulerInv'
<1> USE DEF SchedulerInv
<1>1. SchedulerTypeOK'
  BY SubmitQueues DEF SchedulerTypeOK
<1>2. Hands'
  BY DEF Hands, Running
<1>3. OnlyLateLeft'
  BY SubmitQueues DEF OnlyLateLeft, Left
<1>4. Places'
  <2> SUFFICES ASSUME NEW x \in Work PROVE Place(x)'
    BY DEF Places
  <2>1. Place(x)
    BY DEF Places
  <2>2. /\ item \notin sent /\ sent' = sent \cup {item}
        /\ next_worker_index_ \in Worker
        /\ worker_queues_'[next_worker_index_] = worker_queues_[next_worker_index_] \cup {item}
        /\ \A v \in Worker : v # next_worker_index_ => worker_queues_'[v] = worker_queues_[v]
    BY SubmitQueues
  <2>3. \A v \in Worker : x \in worker_queues_'[v] <=>
                            x \in worker_queues_[v] \/ (x = item /\ v = next_worker_index_)
    BY <2>2
  <2>4. CASE x = item
    <3>1. x \notin executed /\ \A v \in Worker : x \notin worker_queues_[v] /\ hand[v] # x
      BY <2>1, <2>2, <2>4 DEF Place
    <3> QED
      BY <2>2, <2>3, <2>4, <3>1 DEF Place
  <2>5. CASE x # item
    <3>1. /\ x \in sent' <=> x \in sent
          /\ \A v \in Worker : x \in worker_queues_'[v] <=> x \in worker_queues_[v]
      BY <2>2, <2>3, <2>5
    <3> QED
      BY <2>1, <3>1 DEF Place
  <2> QED
    BY <2>4, <2>5
<1> QED
  BY <1>1, <1>2, <1>3, <1>4

(* What the end of execute() does to the thread. *)
LEMMA DoneThread ==
  ASSUME SchedulerInv, NEW w \in Worker, Done(w)
  PROVE  /\ hand[w] \in Work /\ executed' = executed \cup {hand[w]}
         /\ hand' \in [Worker -> Work \cup {Idle}] /\ hand'[w] = Idle
         /\ \A v \in Worker : v # w => hand'[v] = hand[v]
         /\ pc' \in [Worker -> Step] /\ pc[w] # "off" /\ pc'[w] \in {"check", "drain"}
         /\ \A v \in Worker : v # w => pc'[v] = pc[v]
         /\ UNCHANGED <<running_, shutdown_requested_, starts, probe>>
<1> USE DEF SchedulerInv, SchedulerTypeOK
<1>1. hand[w] \in Work
  BY DEF Done, Hands
<1>2. /\ hand' \in [Worker -> Work \cup {Idle}] /\ hand'[w] = Idle
      /\ \A v \in Worker : v # w => hand'[v] = hand[v]
  BY DEF Done
<1>3. /\ pc' \in [Worker -> Step] /\ pc[w] # "off" /\ pc'[w] \in {"check", "drain"}
      /\ \A v \in Worker : v # w => pc'[v] = pc[v]
  BY DEF Done, goto, Step, Running
<1> QED
  BY <1>1, <1>2, <1>3 DEF Done

(* The conjuncts that speak of threads, whether or not the item submits.    *)
LEMMA DoneHands ==
  ASSUME SchedulerInv, NEW w \in Worker, Done(w) PROVE Hands'
<1> USE DEF SchedulerInv
<1>1. \A v \in Worker : (hand[v] # Idle <=> Running(v))
  BY DEF Hands
<1>2. running_
  BY DoneThread DEF Hands
<1>3. ASSUME NEW v \in Worker PROVE (hand[v] # Idle <=> Running(v))'
  <2>1. CASE v = w
    BY <2>1, DoneThread DEF Running
  <2>2. CASE v # w
    BY <2>2, <1>1, DoneThread DEF Running
  <2> QED
    BY <2>1, <2>2
<1> QED
  BY Zenon, <1>2, <1>3, DoneThread DEF Hands

LEMMA DoneInv ==
  ASSUME SchedulerInv, NEW w \in Worker, Done(w), UNCHANGED queueVars PROVE SchedulerInv'
<1> USE DEF SchedulerInv
<1>1. UNCHANGED <<worker_queues_, next_worker_index_, sent, late>>
  BY DEF queueVars
<1>2. SchedulerTypeOK'
  BY <1>1, DoneThread DEF SchedulerTypeOK
<1>3. OnlyLateLeft'
  BY Zenon, <1>1, DoneThread DEF OnlyLateLeft, Left
<1>4. Places'
  <2> SUFFICES ASSUME NEW x \in Work PROVE Place(x)'
    BY DEF Places
  <2>1. Place(x) /\ x # Idle
    BY DEF Places
  <2>2. /\ executed' = executed \cup {hand[w]} /\ hand'[w] = Idle
        /\ \A v \in Worker : v # w => hand'[v] = hand[v]
    BY DoneThread
  <2>3. \A v \in Worker : hand'[v] = x <=> hand[v] = x /\ v # w
    BY <2>1, <2>2
  <2>4. CASE x = hand[w]
    <3>1. x \in sent /\ x \in executed' /\ \A v \in Worker : hand'[v] # x /\ x \notin worker_queues_[v]
      BY <2>1, <2>2, <2>3, <2>4 DEF Place
    <3> QED
      BY <1>1, <3>1 DEF Place
  <2>5. CASE x # hand[w]
    <3>1. /\ x \in executed' <=> x \in executed
          /\ \A v \in Worker : hand'[v] = x <=> hand[v] = x
      BY <2>2, <2>3, <2>5
    <3> QED
      BY <1>1, <2>1, <3>1 DEF Place
  <2> QED
    BY <2>4, <2>5
<1> QED
  BY <1>2, <1>3, <1>4, DoneHands

LEMMA DoneSubmitInv ==
  ASSUME SchedulerInv, NEW w \in Worker, Done(w), NEW item \in Work, submit(item)
  PROVE  SchedulerInv'
<1> USE DEF SchedulerInv
<1>1. SchedulerTypeOK'
  <2>1. /\ worker_queues_' \in [Worker -> SUBSET Work] /\ next_worker_index_' \in Worker
        /\ sent' = sent \cup {item} /\ late' \subseteq Work
    BY SubmitQueues
  <2>2. /\ hand' \in [Worker -> Work \cup {Idle}] /\ pc' \in [Worker -> Step]
        /\ hand[w] \in Work /\ executed' = executed \cup {hand[w]}
        /\ UNCHANGED <<running_, shutdown_requested_, starts, probe>>
    BY DoneThread
  <2> QED
    BY <2>1, <2>2 DEF SchedulerTypeOK
<1>2. OnlyLateLeft'
  <2>1. /\ \A v \in Worker : v # next_worker_index_ => worker_queues_'[v] = worker_queues_[v]
        /\ worker_queues_'[next_worker_index_] = worker_queues_[next_worker_index_] \cup {item}
        /\ late \subseteq late' /\ (Left(next_worker_index_) => item \in late')
    BY SubmitQueues
  <2>2. UNCHANGED <<running_, shutdown_requested_, starts, probe>>
    BY DoneThread
  <2>3. \A v \in Worker : Left(v)' => Left(v)
    BY <2>2, DoneThread DEF Left
  <2>4. ASSUME NEW v \in Worker, Left(v)' PROVE worker_queues_'[v] \subseteq late'
    <3>1. Left(v) /\ worker_queues_[v] \subseteq late
      BY <2>3, <2>4 DEF OnlyLateLeft
    <3>2. CASE v = next_worker_index_
      BY <2>1, <3>1, <3>2
    <3>3. CASE v # next_worker_index_
      BY <2>1, <3>1, <3>3
    <3> QED
      BY <3>2, <3>3
  <2> QED
    BY <2>4 DEF OnlyLateLeft
<1>3. Places'
  <2> SUFFICES ASSUME NEW x \in Work PROVE Place(x)'
    BY DEF Places
  <2>1. Place(x) /\ Place(item) /\ x # Idle
    BY DEF Places
  <2>2. /\ item \notin sent /\ sent' = sent \cup {item}
        /\ next_worker_index_ \in Worker
        /\ worker_queues_'[next_worker_index_] = worker_queues_[next_worker_index_] \cup {item}
        /\ \A v \in Worker : v # next_worker_index_ => worker_queues_'[v] = worker_queues_[v]
    BY SubmitQueues
  <2>3. /\ executed' = executed \cup {hand[w]} /\ hand'[w] = Idle
        /\ \A v \in Worker : v # w => hand'[v] = hand[v]
    BY DoneThread
  <2>4. item # hand[w]
    BY <2>1, <2>2 DEF Place
  <2>5. \A v \in Worker : x \in worker_queues_'[v] <=>
                            x \in worker_queues_[v] \/ (x = item /\ v = next_worker_index_)
    BY <2>2
  <2>6. \A v \in Worker : hand'[v] = x <=> hand[v] = x /\ v # w
    BY <2>1, <2>3
  <2>7. CASE x = item
    <3>1. x \in sent' /\ x \notin executed'
      <4>1. x \notin executed
        BY Zenon, <2>1, <2>2, <2>7 DEF Place
      <4> QED BY <2>2, <2>3, <2>4, <2>7, <4>1
    <3>2. \A v \in Worker : x \notin worker_queues_[v] /\ hand[v] # x
      BY Zenon, <2>1, <2>2, <2>7 DEF Place
    <3>3. \A v \in Worker : /\ x \in worker_queues_'[v] <=> v = next_worker_index_
                            /\ hand'[v] # x
      BY Zenon, <2>5, <2>6, <2>7, <3>2
    <3> QED
      BY Zenon, <2>2, <3>1, <3>3 DEF Place
  <2>8. CASE x = hand[w]
    <3>1. x \in sent' /\ x \in executed'
      BY Zenon, <2>1, <2>2, <2>3, <2>8 DEF Place
    <3>2. \A v \in Worker : x \notin worker_queues_'[v] /\ hand'[v] # x
      BY Zenon, <2>1, <2>4, <2>5, <2>6, <2>8 DEF Place
    <3> QED
      BY Zenon, <3>1, <3>2 DEF Place
  <2>9. CASE x # item /\ x # hand[w]
    <3>1. (x \in sent' <=> x \in sent) /\ (x \in executed' <=> x \in executed)
      BY <2>2, <2>3, <2>9
    <3>2. \A v \in Worker : /\ x \in worker_queues_'[v] <=> x \in worker_queues_[v]
                            /\ hand'[v] = x <=> hand[v] = x
      BY <2>5, <2>6, <2>9
    <3> QED
      BY <2>1, <3>1, <3>2 DEF Place
  <2> QED
    BY <2>7, <2>8, <2>9
<1> QED
  BY <1>1, <1>2, <1>3, DoneHands

(* A thread that looks for work: Check, tryStealOnce and drain. *)
LEMMA SeekInv == ASSUME SchedulerInv, NEW w \in Worker, Seek(w) PROVE SchedulerInv'
<1> USE DEF SchedulerInv
<1>1. probe \in [Worker -> Worker] /\ pc \in [Worker -> Step]
  BY DEF SchedulerTypeOK
<1>2. CASE Check(w)
  <2>1. PICK step \in {"drain", "look"} : goto(w, step)
    BY <1>2 DEF Check
  <2>2. step \in Step /\ pc[w] # "off" /\ ~Running(w)
    BY <1>2 DEF Check, Step, Running
  <2> QED
    BY <1>1, <1>2, <2>1, <2>2, MoveInv DEF Check
<1>3. CASE tryStealOnce(w)
  <2> DEFINE q == (w + probe[w]) % NumWorkers
  <2> HIDE DEF q
  <2>0. probe[w] \in Worker
    BY <1>1
  <2>1. w + probe[w] \in Nat /\ probe[w] + 1 \in Nat
    BY <2>0 DEF Worker
  <2>2. q \in Worker /\ (probe[w] + 1) % NumWorkers \in Worker
    BY <2>1, ModInRange DEF q
  <2>6. 0 \in Worker
    BY DEF Worker
  <2>3. pc[w] # "off" /\ ~Running(w)
    BY Zenon, <1>3 DEF tryStealOnce, Running
  <2>4. CASE \E item \in worker_queues_[q] :
               take(w, q, item, "run") /\ probe' = [probe EXCEPT ![w] = 0]
    <3>1. PICK item : take(w, q, item, "run") /\ probe' = [probe EXCEPT ![w] = 0]
      BY Zenon, <2>4
    <3>2. probe' \in [Worker -> Worker]
      BY <3>1, <1>1, <2>6
    <3> QED
      BY <3>1, <3>2, <2>2, <2>3, TakeInv
  <2>5. CASE /\ probe' = [probe EXCEPT ![w] = (@ + 1) % NumWorkers]
             /\ goto(w, IF probe[w] + 1 = NumWorkers THEN "check" ELSE "look")
             /\ UNCHANGED <<queueVars, running_, shutdown_requested_, starts, hand, executed>>
    <3>1. probe' \in [Worker -> Worker]
      BY <2>5, <1>1, <2>2
    <3>2. PICK step \in {"check", "look"} : goto(w, step)
      BY <2>5
    <3>3. step \in Step
      BY DEF Step
    <3> QED
      BY Zenon, <3>1, <3>2, <3>3, <2>3, <2>5, MoveInv
  <2> QED
    BY Zenon, <1>3, <2>4, <2>5 DEF tryStealOnce, q
<1>4. CASE drain(w)
  <2>1. pc[w] # "off" /\ ~Running(w)
    BY <1>4 DEF drain, Running
  <2>2. ASSUME NEW item, take(w, w, item, "last"), UNCHANGED probe PROVE SchedulerInv'
    BY <2>1, <2>2, <1>1, TakeInv
  <2>3. CASE /\ worker_queues_[w] = {} /\ goto(w, "exit")
             /\ UNCHANGED <<queueVars, running_, shutdown_requested_, starts, probe, hand, executed>>
    <3>1. "exit" \in Step
      BY DEF Step
    <3> QED
      BY Zenon, <3>1, <2>1, <2>3, <1>1, MoveInv
  <2> QED
    BY Zenon, <1>4, <2>2, <2>3 DEF drain
<1> QED
  BY <1>2, <1>3, <1>4 DEF Seek

LEMMA ExecuteInv == ASSUME SchedulerInv, NEW w \in Worker, execute(w) PROVE SchedulerInv'
<1>1. CASE Done(w) /\ UNCHANGED queueVars
  BY <1>1, DoneInv
<1>2. CASE Done(w) /\ \E item \in Work : submit(item)
  BY <1>2, DoneSubmitInv
<1>3. CASE /\ \E item \in Work : submit(item)
           /\ UNCHANGED <<running_, shutdown_requested_, starts, pc, probe, hand, executed>>
  BY <1>3, SubmitInv
<1> QED
  BY <1>1, <1>2, <1>3 DEF execute

LEMMA StutterInv == ASSUME SchedulerInv, UNCHANGED schedulerVars PROVE SchedulerInv'
<1>1. /\ UNCHANGED <<worker_queues_, next_worker_index_, sent, late>>
      /\ UNCHANGED <<running_, shutdown_requested_, starts, pc, probe, hand, executed>>
  BY DEF schedulerVars, queueVars
<1> QED
  BY <1>1 DEF SchedulerInv, SchedulerTypeOK, Hands, Running, Places, Place, OnlyLateLeft, Left

LEMMA SchedulerStep ==
  ASSUME SchedulerInv, [SchedulerNext]_schedulerVars PROVE SchedulerInv'
<1>1. CASE start \/ shutdown \/ Joined
  BY <1>1, StartInv
<1>2. ASSUME NEW item \in Work, Submit(item) PROVE SchedulerInv'
  BY <1>2, SubmitInv DEF Submit
<1>3. ASSUME NEW w \in Worker, Seek(w) PROVE SchedulerInv'
  BY <1>3, SeekInv
<1>4. ASSUME NEW w \in Worker, execute(w) PROVE SchedulerInv'
  BY <1>4, ExecuteInv
<1>5. CASE UNCHANGED schedulerVars
  BY <1>5, StutterInv
<1> QED
  BY <1>1, <1>2, <1>3, <1>4, <1>5 DEF SchedulerNext

(* SchedulerInv is inductive. *)
THEOREM SchedulerInvariance == SchedulerSpec => []SchedulerInv
<1>1. SchedulerInv /\ [SchedulerNext]_schedulerVars => SchedulerInv'
  BY SchedulerStep
<1> QED
  BY InitInv, <1>1, PTL DEF SchedulerSpec

(* work_stealing_scheduler.cpp:80-94, 194-212, 285: whoever pops or steals  *)
(* it, a submitted item is in exactly one place, on a queue, with a thread  *)
(* or among the executed ones, for any number of threads and items.         *)
THEOREM NothingLostOrRepeated == SchedulerSpec => []Conserved
BY SchedulerInvariance, InvConserved, PTL

(* work_stealing_scheduler.cpp:298-319: what a thread leaves on its queue   *)
(* was submitted after it had looked there for the last time.               *)
THEOREM DrainedBeforeExit == SchedulerSpec => []OnlyLateLeft
<1>1. SchedulerInv => OnlyLateLeft
  BY DEF SchedulerInv
<1> QED
  BY SchedulerInvariance, <1>1, PTL

(***************************************************************************)
(* LeadAgents.                                                             *)
(***************************************************************************)
Doing == {"begin", "initialize", "wait", "delegate", "decide", "error", "synthesize",
          "fail", "tell"}

(* A thread is inside processMessage only while it executes a message; a    *)
(* lead delegates the subtasks its goal has.                                *)
Busy(w) ==
    /\ at[w] # Begin => Running(w)
    /\ at[w].do = "wait" => decomposeGoal(hand[w].to) > 0
    /\ at[w].do = "delegate" => at[w].i \in 1 .. decomposeGoal(hand[w].to)

AgentTypeOK ==
    /\ plan \in Plans /\ asked \in Nat /\ agents_ \subseteq {Chief} \cup Lead \cup Tasker
    /\ requester_id_ \in [Lead -> {"", Chief, Component}] /\ goal \in [Lead -> {0} \cup Goals]
    /\ \A l \in Lead : requester_id_[l] # "" => goal[l] \in Goals
    /\ at \in [Worker -> [do : Doing, i : Nat]]

AgentInv == SchedulerInv /\ AgentTypeOK /\ \A w \in Worker : Busy(w)

(* What is in a message. *)
LEMMA MessageRead ==
  ASSUME NEW m \in Message
  PROVE  /\ m.goal \in Goals
         /\ m.kind = "goal" /\ m.to \in Lead => m.from \in {Chief, Component}
         /\ m.kind = "goal" /\ m.to \in Tasker => m.from \in Module /\ m.sub \in 1 .. MaxSub
         /\ m.kind = "cancel" => m.from = Chief /\ m.sub = 0
<1>1. Lead \cap Tasker = {} /\ Module \cap Tasker = {} /\ Module \subseteq Lead
  BY Zenon, AgentAssumption DEF Lead
<1>2. m.goal \in Goals
  BY DEF Message
<1>3. m.kind = "goal" => \/ m.from = Chief /\ m.to \in Lead
                         \/ m.from = Component /\ m.to \in Module
                         \/ m.from \in Module /\ m.to \in Tasker /\ m.sub \in 1 .. MaxSub
  BY DEF Message
<1>4. m.kind = "cancel" => m.from = Chief /\ m.sub = 0
  BY DEF Message
<1> QED BY <1>1, <1>2, <1>3, <1>4

(* The messages the agents send. *)
LEMMA MessageMade ==
  ASSUME NEW g \in Goals
  PROVE  /\ \A l \in Lead : Msg("goal", Chief, l, g, 0) \in Work
         /\ \A a \in Lead \cup Tasker : Msg("cancel", Chief, a, g, 0) \in Work
         /\ \A l \in Module, i \in 1 .. MaxSub : Msg("goal", Component, l, g, i) \in Work
         /\ \A l \in Module, t \in Tasker, i \in 1 .. MaxSub :
              /\ Msg("goal", l, t, g, i) \in Work
              /\ \A kind \in {"response", "refusal", "failed"} : Msg(kind, t, l, g, i) \in Work
         /\ \A l \in Lead, to \in {Component, Chief}, kind \in {"failed", "module_result"} :
              Msg(kind, l, to, g, 0) \in Work
         /\ \A a \in Lead \cup Tasker, kind \in {"ack", "refusal"} :
              Msg(kind, a, Chief, g, 0) \in Work
<1> USE AgentAssumption DEF Message, Msg
<1>1. \A l \in Lead : Msg("goal", Chief, l, g, 0) \in Work
  BY Zenon
<1>2. \A a \in Lead \cup Tasker : Msg("cancel", Chief, a, g, 0) \in Work
  BY Zenon
<1>3. \A l \in Module, i \in 1 .. MaxSub : Msg("goal", Component, l, g, i) \in Work
  BY Zenon
<1>4. \A l \in Module, t \in Tasker, i \in 1 .. MaxSub :
        /\ Msg("goal", l, t, g, i) \in Work
        /\ \A kind \in {"response", "refusal", "failed"} : Msg(kind, t, l, g, i) \in Work
  BY Zenon
<1>5. \A l \in Lead, to \in {Component, Chief}, kind \in {"failed", "module_result"} :
        Msg(kind, l, to, g, 0) \in Work
  BY Zenon
<1>6. \A a \in Lead \cup Tasker, kind \in {"ack", "refusal"} : Msg(kind, a, Chief, g, 0) \in Work
  BY Zenon
<1> QED BY Zenon, <1>1, <1>2, <1>3, <1>4, <1>5, <1>6

LEMMA MessageInHand ==
  ASSUME AgentInv, NEW w \in Worker, Running(w) PROVE hand[w] \in Message
BY Zenon, AgentAssumption DEF AgentInv, SchedulerInv, SchedulerTypeOK, Hands

(* To send is to submit, or nothing where the receiver is not registered. *)
LEMMA RouteSubmits ==
  ASSUME NEW m, m.to \in agents_ => m \in Work, routeMessage(m)
  PROVE  UNCHANGED queueVars \/ \E item \in Work : submit(item)
BY DEF routeMessage

LEMMA OutsideSubmits ==
  ASSUME NEW m, m.to \in agents_ => m \in Work, routeMessage(m),
         UNCHANGED <<running_, shutdown_requested_, starts, pc, probe, hand, executed>>
  PROVE  [SchedulerNext]_schedulerVars
<1>1. CASE UNCHANGED queueVars
  BY <1>1 DEF schedulerVars
<1>2. CASE \E item \in Work : submit(item)
  BY <1>2 DEF SchedulerNext, Submit
<1> QED BY <1>1, <1>2, RouteSubmits

LEMMA ThreadReturns ==
  ASSUME NEW w \in Worker, Return(w) PROVE [SchedulerNext]_schedulerVars
BY DEF Return, SchedulerNext, execute

LEMMA ThreadReturnsSending ==
  ASSUME NEW w \in Worker, NEW m, m.to \in agents_ => m \in Work, ReturnSending(w, m)
  PROVE  [SchedulerNext]_schedulerVars
<1>1. Done(w) /\ (UNCHANGED queueVars \/ \E item \in Work : submit(item))
  BY RouteSubmits DEF ReturnSending
<1> QED BY Zenon, <1>1 DEF SchedulerNext, execute

(* A step of processMessage, seen from the scheduler. *)
LEMMA MoveAgents ==
  ASSUME AgentInv, NEW w \in Worker, NEW do \in Doing, NEW i \in Nat,
         at' = [at EXCEPT ![w] = [do |-> do, i |-> i]],
         \A v \in Worker : v # w => pc'[v] = pc[v] /\ hand'[v] = hand[v],
         plan' = plan, Busy(w)'
  PROVE  at' \in [Worker -> [do : Doing, i : Nat]] /\ \A v \in Worker : Busy(v)'
<1>1. at \in [Worker -> [do : Doing, i : Nat]]
  BY Zenon DEF AgentInv, AgentTypeOK
<1>2. at' \in [Worker -> [do : Doing, i : Nat]]
  BY <1>1
<1>3. ASSUME NEW v \in Worker, v # w PROVE Busy(v)'
  <2>1. at'[v] = at[v] /\ pc'[v] = pc[v] /\ hand'[v] = hand[v]
    BY Zenon, <1>1, <1>3
  <2> QED BY Zenon, <2>1 DEF AgentInv, Busy, Running, decomposeGoal
<1> QED BY <1>2, <1>3


(* A step of a lead that stays inside processMessage. *)
LEMMA StepWithin ==
  ASSUME AgentInv, NEW w \in Worker, Running(w), NEW do \in Doing, NEW i \in Nat,
         Within(w, do, i), Resting,
         do = "wait" => decomposeGoal(hand[w].to) > 0,
         do = "delegate" => i \in 1 .. decomposeGoal(hand[w].to)
  PROVE  /\ [SchedulerNext]_schedulerVars
         /\ at' \in [Worker -> [do : Doing, i : Nat]] /\ \A v \in Worker : Busy(v)'
<1>1. UNCHANGED schedulerVars /\ UNCHANGED <<pc, hand, plan>>
  BY DEF Within, Resting, schedulerVars
<1>2. at' = [at EXCEPT ![w] = [do |-> do, i |-> i]] /\ at \in [Worker -> [do : Doing, i : Nat]]
  BY Zenon DEF Within, Goto, AgentInv, AgentTypeOK
<1>3. at'[w].do = do /\ at'[w].i = i
  BY <1>2
<1>4. Busy(w)'
  BY <1>1, <1>3 DEF Busy, Running, decomposeGoal
<1> QED BY Zenon, <1>1, <1>2, <1>4, MoveAgents

(* The last step of processMessage. *)
LEMMA StepDone ==
  ASSUME AgentInv, NEW w \in Worker, Done(w), at' = [at EXCEPT ![w] = Begin], plan' = plan
  PROVE  at' \in [Worker -> [do : Doing, i : Nat]] /\ \A v \in Worker : Busy(v)'
<1>1. /\ at \in [Worker -> [do : Doing, i : Nat]]
      /\ pc \in [Worker -> Step] /\ hand \in [Worker -> Work \cup {Idle}]
  BY Zenon DEF AgentInv, AgentTypeOK, SchedulerInv, SchedulerTypeOK
<1>2. \A v \in Worker : v # w => pc'[v] = pc[v] /\ hand'[v] = hand[v]
  BY <1>1 DEF Done, goto
<1>3. "begin" \in Doing /\ 0 \in Nat /\ at'[w] = Begin
  BY <1>1 DEF Doing
<1>4. Busy(w)'
  BY <1>3 DEF Busy, Begin
<1>5. at' = [at EXCEPT ![w] = [do |-> "begin", i |-> 0]]
  BY DEF Begin
<1> QED BY Zenon, <1>2, <1>3, <1>4, <1>5, MoveAgents

LEMMA PartNumbers ==
  ASSUME NEW n \in Nat, NEW most \in Nat, n <= most, NEW i \in 1 .. n
  PROVE  i \in Nat /\ i \in 1 .. most /\ (i # n => i + 1 \in 1 .. n /\ i + 1 \in Nat)
OBVIOUS

LEMMA GoalParts ==
  ASSUME AgentInv, NEW l \in Lead
  PROVE  /\ decomposeGoal(l) \in Nat /\ MaxSub \in Nat /\ decomposeGoal(l) <= MaxSub
         /\ Len(ModuleLeads) \in Nat
         /\ l = Component => decomposeGoal(l) <= Len(ModuleLeads)
<1>1. /\ plan.parts \in 0 .. Len(ModuleLeads) /\ plan.parts <= MaxSub
      /\ plan.tasks \in 0 .. MaxSub
  BY Zenon, AgentAssumption DEF AgentInv, AgentTypeOK
<1>2. ModuleLeads \in Seq(Module)
  BY Zenon, AgentAssumption
<1>3. Len(ModuleLeads) \in Nat
  BY <1>2
<1>4. plan.parts \in Nat /\ plan.tasks \in Nat /\ MaxSub \in Nat /\ plan.tasks <= MaxSub
  BY <1>1, <1>3 DEF MaxSub
<1> QED BY <1>1, <1>3, <1>4 DEF decomposeGoal

(* A lead takes up a goal, and hands its subtasks to its subordinates. *)
LEMMA PlanningSteps ==
  ASSUME AgentInv, NEW w \in Worker, NewGoal(w) \/ Initialize(w) \/ Wait(w)
  PROVE  /\ [SchedulerNext]_schedulerVars
         /\ at' \in [Worker -> [do : Doing, i : Nat]] /\ \A v \in Worker : Busy(v)'
<1> DEFINE l == hand[w].to
<1>0. Running(w) /\ l \in Lead /\ Resting
  BY Zenon DEF NewGoal, Initialize, Wait, Handling
<1>1. CASE NewGoal(w)
  <2>1. "initialize" \in Doing /\ 0 \in Nat /\ Within(w, "initialize", 0)
    BY <1>1 DEF NewGoal, Doing
  <2> QED BY <1>0, <2>1, StepWithin
<1>2. CASE Initialize(w)
  <2>1. CASE Return(w)
    BY Zenon, <1>0, <2>1, ThreadReturns, StepDone DEF Return, Resting
  <2>2. CASE decomposeGoal(l) > 0 /\ Within(w, "wait", 0)
    <3>1. "wait" \in Doing /\ 0 \in Nat
      BY DEF Doing
    <3> QED BY <1>0, <2>2, <3>1, StepWithin
  <2> QED BY <1>2, <2>1, <2>2 DEF Initialize
<1>3. CASE Wait(w)
  <2>1. "delegate" \in Doing /\ 1 \in Nat /\ Within(w, "delegate", 1) /\ at[w].do = "wait"
    BY Zenon, <1>3 DEF Wait, Doing, Handling
  <2>2. decomposeGoal(l) > 0
    BY Zenon, <2>1 DEF AgentInv, Busy
  <2>3. decomposeGoal(l) \in Nat
    BY <1>0, GoalParts
  <2>4. 1 \in 1 .. decomposeGoal(l)
    BY <2>2, <2>3
  <2> QED BY Zenon, <1>0, <2>1, <2>4, StepWithin
<1> QED BY <1>1, <1>2, <1>3

(* The agent the i-th subtask goes to exists. *)
LEMMA RoundRobin ==
  \A m \in Nat : \A i \in 1 .. m : \A n \in Nat \ {0} : ((i - 1) % n) + 1 \in 1 .. n
<1> SUFFICES ASSUME NEW m \in Nat, NEW i \in 1 .. m, NEW n \in Nat \ {0}
             PROVE  ((i - 1) % n) + 1 \in 1 .. n
  OBVIOUS
<1>1. (i - 1) % n \in 0 .. n - 1
  OBVIOUS
<1> QED BY <1>1

LEMMA DelegateSteps ==
  ASSUME AgentInv, NEW w \in Worker, delegateSubtasks(w)
  PROVE  /\ [SchedulerNext]_schedulerVars
         /\ at' \in [Worker -> [do : Doing, i : Nat]] /\ \A v \in Worker : Busy(v)'
<1> DEFINE l == hand[w].to
           i == at[w].i
           m == Msg("goal", l, Subordinate(l, i), hand[w].goal, i)
<1>0. /\ Running(w) /\ l \in Lead /\ Resting /\ at[w].do = "delegate"
      /\ IF i = decomposeGoal(l) THEN ReturnSending(w, m)
         ELSE /\ routeMessage(m) /\ Goto(w, "delegate", i + 1)
              /\ UNCHANGED <<running_, shutdown_requested_, starts, pc, probe, hand, executed>>
  BY Zenon DEF delegateSubtasks, Handling
<1>1. /\ i \in Nat /\ i \in 1 .. decomposeGoal(l) /\ i \in 1 .. MaxSub
      /\ l = Component => i \in 1 .. Len(ModuleLeads)
      /\ i # decomposeGoal(l) => i + 1 \in 1 .. decomposeGoal(l) /\ i + 1 \in Nat
  <2>1. i \in 1 .. decomposeGoal(l)
    BY Zenon, <1>0 DEF AgentInv, Busy
  <2>2. /\ decomposeGoal(l) \in Nat /\ MaxSub \in Nat /\ decomposeGoal(l) <= MaxSub
        /\ Len(ModuleLeads) \in Nat
        /\ l = Component => decomposeGoal(l) <= Len(ModuleLeads)
    BY Zenon, <1>0, GoalParts
  <2> HIDE DEF i, l
  <2> QED BY <2>1, <2>2, PartNumbers
<1>2. hand[w].goal \in Goals
  BY Zenon, <1>0, MessageInHand, MessageRead
<1>3. m \in Work
  <2>1. CASE l = Component
    <3>1. Subordinate(l, i) = ModuleLeads[i] /\ ModuleLeads[i] \in Module
      <4>1. ModuleLeads \in Seq(Module)
        BY Zenon, AgentAssumption
      <4>2. i \in 1 .. Len(ModuleLeads)
        BY <1>1, <2>1
      <4> HIDE DEF i
      <4>3. ModuleLeads[i] \in Module
        BY <4>1, <4>2
      <4> QED BY <2>1, <4>3 DEF Subordinate
    <3> QED BY Zenon, <1>1, <1>2, <2>1, <3>1, MessageMade
  <2>2. CASE l # Component
    <3>1. l \in Module
      BY Zenon, <1>0, <2>2 DEF Lead
    <3>2. TaskAgents \in Seq(Tasker) /\ Len(TaskAgents) \in Nat \ {0}
      <4>1. TaskAgents \in Seq(Tasker) /\ TaskAgents # << >>
        BY Zenon, AgentAssumption
      <4> QED BY <4>1
    <3>3. ((i - 1) % Len(TaskAgents)) + 1 \in 1 .. Len(TaskAgents)
      <4>1. i \in 1 .. MaxSub
        BY Zenon, <1>1
      <4>2. MaxSub \in Nat
        BY Zenon, <1>0, GoalParts
      <4> HIDE DEF i
      <4> QED BY Zenon, <3>2, <4>1, <4>2, RoundRobin
    <3>4. Subordinate(l, i) \in Tasker
      <4> DEFINE k == ((i - 1) % Len(TaskAgents)) + 1
      <4>1. Subordinate(l, i) = TaskAgents[k]
        BY Zenon, <2>2 DEF Subordinate
      <4> HIDE DEF k
      <4>2. TaskAgents[k] \in Tasker
        BY <3>2, <3>3 DEF k
      <4> QED BY Zenon, <4>1, <4>2
    <3> HIDE DEF l, i
    <3> QED BY <1>1, <1>2, <3>1, <3>4, MessageMade
  <2> QED BY Zenon, <2>1, <2>2
<1> HIDE DEF m
<1>4. CASE i = decomposeGoal(l)
  <2>1. ReturnSending(w, m)
    BY Zenon, <1>0, <1>4
  <2> QED BY Zenon, <1>0, <1>3, <2>1, ThreadReturnsSending, StepDone DEF ReturnSending, Resting
<1>5. CASE i # decomposeGoal(l)
  <2>1. /\ routeMessage(m) /\ Goto(w, "delegate", i + 1)
        /\ UNCHANGED <<running_, shutdown_requested_, starts, pc, probe, hand, executed>>
    BY Zenon, <1>0, <1>5
  <2>2. i + 1 \in 1 .. decomposeGoal(l) /\ i + 1 \in Nat /\ "delegate" \in Doing
    BY Zenon, <1>1, <1>5 DEF Doing
  <2>3. /\ at' = [at EXCEPT ![w] = [do |-> "delegate", i |-> i + 1]]
        /\ at \in [Worker -> [do : Doing, i : Nat]]
    BY Zenon, <2>1 DEF Goto, AgentInv, AgentTypeOK
  <2>4. at'[w].do = "delegate" /\ at'[w].i = i + 1
    BY <2>3
  <2>5. UNCHANGED <<pc, hand, plan>>
    BY Zenon, <1>0, <2>1 DEF Resting
  <2>6. Busy(w)'
    BY Zenon, <1>0, <2>2, <2>4, <2>5 DEF Busy, Running, decomposeGoal
  <2> HIDE DEF i
  <2> QED BY Zenon, <1>3, <2>1, <2>2, <2>3, <2>5, <2>6, OutsideSubmits, MoveAgents
<1> QED BY Zenon, <1>4, <1>5

(* A lead is told of a result or of a failure. *)
LEMMA ReportSteps ==
  ASSUME AgentInv, NEW w \in Worker,
         \/ processSubordinateResult(w) \/ Decide(w) \/ Settle(w)
         \/ processSubordinateFailure(w) \/ Fail(w)
  PROVE  /\ [SchedulerNext]_schedulerVars
         /\ at' \in [Worker -> [do : Doing, i : Nat]] /\ \A v \in Worker : Busy(v)'
<1>1. Running(w) /\ Resting
  BY Zenon DEF processSubordinateResult, Decide, Settle, processSubordinateFailure, Fail, Handling
<1>2. Return(w) \/ \E do \in Doing \ {"wait", "delegate"} : Within(w, do, 0)
  <2>1. CASE processSubordinateResult(w)
    BY Zenon, <2>1 DEF processSubordinateResult, Doing
  <2>2. CASE Decide(w)
    BY <2>2 DEF Decide, Doing
  <2>3. CASE Settle(w)
    BY Zenon, <2>3 DEF Settle
  <2>4. CASE processSubordinateFailure(w)
    BY <2>4 DEF processSubordinateFailure, Doing
  <2>5. CASE Fail(w)
    BY <2>5 DEF Fail, Doing
  <2> QED BY <2>1, <2>2, <2>3, <2>4, <2>5
<1>3. CASE Return(w)
  BY Zenon, <1>1, <1>3, ThreadReturns, StepDone DEF Return, Resting
<1>4. ASSUME NEW do \in Doing \ {"wait", "delegate"}, Within(w, do, 0)
      PROVE  /\ [SchedulerNext]_schedulerVars
             /\ at' \in [Worker -> [do : Doing, i : Nat]] /\ \A v \in Worker : Busy(v)'
  BY <1>1, <1>4, StepWithin
<1> QED BY <1>2, <1>3, <1>4

(* What an agent answers. *)
LEMMA AnswerSteps ==
  ASSUME AgentInv, NEW w \in Worker,
         Tell(w) \/ handleCancellation(w) \/ TaskProcess(w) \/ NothingToDo(w)
  PROVE  /\ [SchedulerNext]_schedulerVars
         /\ at' \in [Worker -> [do : Doing, i : Nat]] /\ \A v \in Worker : Busy(v)'
<1> DEFINE m == hand[w]
<1>0. Running(w) /\ Resting /\ m \in Message /\ m.goal \in Goals
  <2>1. Running(w) /\ Resting
    BY Zenon DEF Tell, handleCancellation, TaskProcess, NothingToDo, Handling
  <2> QED BY Zenon, <2>1, MessageInHand, MessageRead
<1>1. ASSUME NEW a, a.to \in agents_ => a \in Work, ReturnSending(w, a)
      PROVE  /\ [SchedulerNext]_schedulerVars
             /\ at' \in [Worker -> [do : Doing, i : Nat]] /\ \A v \in Worker : Busy(v)'
  BY Zenon, <1>0, <1>1, ThreadReturnsSending, StepDone DEF ReturnSending, Resting
<1>2. CASE Tell(w)
  <2> DEFINE l == m.to
             a == Msg("failed", l, requester_id_[l], m.goal, 0)
  <2>1. ReturnSending(w, a) /\ l \in Lead
    BY Zenon, <1>2 DEF Tell, Handling
  <2>2. requester_id_[l] \in {"", Chief, Component} /\ "" \notin agents_
    BY Zenon, <2>1, AgentAssumption DEF AgentInv, AgentTypeOK, Lead, Chief, Component
  <2>3. a.to = requester_id_[l]
    BY DEF Msg
  <2>4. requester_id_[l] \in {Component, Chief} => a \in Work
    BY Zenon, <1>0, <2>1, MessageMade
  <2> HIDE DEF a
  <2> QED BY Zenon, <1>1, <2>1, <2>2, <2>3, <2>4
<1>3. CASE handleCancellation(w)
  <2> DEFINE a == Msg("ack", m.to, m.from, m.goal, m.sub)
  <2>1. ReturnSending(w, a) /\ m.to \in Lead /\ m.kind = "cancel"
    BY Zenon, <1>3 DEF handleCancellation, Handling
  <2>2. m.from = Chief /\ m.sub = 0
    BY Zenon, <1>0, <2>1, MessageRead
  <2>3. a \in Work
    BY Zenon, <1>0, <2>1, <2>2, MessageMade
  <2> HIDE DEF a
  <2> QED BY Zenon, <1>1, <2>1, <2>3
<1>4. CASE TaskProcess(w)
  <2> DEFINE a(kind) == Msg(kind, m.to, m.from, m.goal, m.sub)
  <2>1. m.to \in Tasker /\ m.kind \in {"goal", "cancel"}
    BY Zenon, <1>4 DEF TaskProcess, Handling
  <2>2. executeBash \subseteq {"response", "failed"}
    BY DEF executeBash
  <2>3. PICK kind \in {"response", "refusal", "failed", "ack"} :
          /\ ReturnSending(w, a(kind))
          /\ kind \in {"response", "failed"} => m.kind = "goal"
          /\ kind = "ack" => m.kind = "cancel"
    BY Zenon, <1>4, <2>2 DEF TaskProcess
  <2>4. CASE m.kind = "goal"
    <3>1. m.from \in Module /\ m.sub \in 1 .. MaxSub /\ kind \in {"response", "refusal", "failed"}
      BY Zenon, <1>0, <2>1, <2>3, <2>4, MessageRead
    <3>2. a(kind) \in Work
      BY Zenon, <1>0, <2>1, <3>1, MessageMade
    <3> QED BY Zenon, <1>1, <2>3, <3>2
  <2>5. CASE m.kind = "cancel"
    <3>1. m.from = Chief /\ m.sub = 0 /\ kind \in {"ack", "refusal"}
      BY Zenon, <1>0, <2>3, <2>5, MessageRead
    <3>2. a(kind) \in Work
      BY Zenon, <1>0, <2>1, <3>1, MessageMade
    <3> QED BY Zenon, <1>1, <2>3, <3>2
  <2> QED BY Zenon, <2>1, <2>4, <2>5
<1>5. CASE NothingToDo(w)
  BY Zenon, <1>0, <1>5, ThreadReturns, StepDone DEF NothingToDo, Return, Resting
<1> QED BY <1>2, <1>3, <1>4, <1>5

LEMMA ProcessSteps ==
  ASSUME AgentInv, NEW w \in Worker, processMessage(w)
  PROVE  [SchedulerNext]_schedulerVars /\ AgentTypeOK' /\ \A v \in Worker : Busy(v)'
<1>1. /\ [SchedulerNext]_schedulerVars
      /\ at' \in [Worker -> [do : Doing, i : Nat]] /\ \A v \in Worker : Busy(v)'
  BY PlanningSteps, DelegateSteps, ReportSteps, AnswerSteps DEF processMessage
<1>2. UNCHANGED <<plan, asked, agents_>>
  BY Zenon DEF processMessage, NewGoal, Initialize, Wait, delegateSubtasks, processSubordinateResult,
         Decide, Settle, processSubordinateFailure, Fail, Tell, handleCancellation, TaskProcess,
         NothingToDo, Resting
<1>3. CASE NewGoal(w)
  <2> DEFINE m == hand[w]
  <2>1. /\ Running(w) /\ m.kind = "goal" /\ m.to \in Lead
        /\ requester_id_' = [requester_id_ EXCEPT ![m.to] = m.from]
        /\ goal' = [goal EXCEPT ![m.to] = m.goal]
    BY Zenon, <1>3 DEF NewGoal, Handling
  <2>2. m.from \in {Chief, Component} /\ m.goal \in Goals
    BY Zenon, <2>1, MessageInHand, MessageRead
  <2>3. requester_id_' \in [Lead -> {"", Chief, Component}] /\ goal' \in [Lead -> {0} \cup Goals]
    BY Zenon, <2>1, <2>2 DEF AgentInv, AgentTypeOK
  <2>4. \A l \in Lead : requester_id_'[l] # "" => goal'[l] \in Goals
    BY Zenon, <2>1, <2>2 DEF AgentInv, AgentTypeOK
  <2> QED BY Zenon, <1>1, <1>2, <2>3, <2>4 DEF AgentInv, AgentTypeOK
<1>4. CASE ~ NewGoal(w)
  <2>1. UNCHANGED <<requester_id_, goal>>
    BY Zenon, <1>4 DEF processMessage, Initialize, Wait, delegateSubtasks, processSubordinateResult,
                Decide, Settle, processSubordinateFailure, Fail, Tell, handleCancellation,
                TaskProcess, NothingToDo, recordResult, recordFailure, Count, coordination
  <2> QED BY Zenon, <1>1, <1>2, <2>1 DEF AgentInv, AgentTypeOK
<1> QED BY <1>1, <1>3, <1>4

(* The steps of whoever drives the agents. *)
LEMMA DriverSteps ==
  ASSUME AgentInv, Driver \/ \E a \in Lead \cup Tasker : SendCancel(a)
  PROVE  [SchedulerNext]_schedulerVars /\ AgentTypeOK' /\ \A v \in Worker : Busy(v)'
<1>1. /\ UNCHANGED <<running_, shutdown_requested_, starts, pc, probe, hand, executed, at>>
      /\ UNCHANGED <<plan, agents_, requester_id_, goal>>
      /\ asked' \in Nat
  <2>1. Outside /\ UNCHANGED <<plan, agents_, requester_id_, goal>>
    BY Zenon DEF Driver, SendGoal, synthesizeComponentResult, synthesizeResults, SendCancel,
           coordination, agentVars
  <2>2. asked' = asked \/ asked' = asked + 1
    BY Zenon DEF Driver, SendGoal, synthesizeComponentResult, synthesizeResults, SendCancel, agentVars
  <2>3. asked \in Nat
    BY Zenon DEF AgentInv, AgentTypeOK
  <2> QED BY <2>1, <2>2, <2>3 DEF Outside
<1>2. AgentTypeOK' /\ \A v \in Worker : Busy(v)'
  BY Zenon, <1>1 DEF AgentInv, AgentTypeOK, Busy, Running, decomposeGoal
<1>3. CASE SendGoal
  <2> DEFINE m == Msg("goal", Chief, plan.top, asked + 1, 0)
  <2>1. asked \in Nat /\ plan.top \in Lead /\ plan.goals \in {0} \cup Goals
    BY Zenon, AgentAssumption DEF AgentInv, AgentTypeOK
  <2>2. asked + 1 \in Goals
    <3>1. asked < plan.goals /\ plan.goals \in Goals
      BY <1>3, <2>1 DEF SendGoal, Goals
    <3> QED BY <2>1, <3>1 DEF Goals
  <2>3. m \in Work /\ routeMessage(m)
    BY Zenon, <1>3, <2>1, <2>2, MessageMade DEF SendGoal
  <2> HIDE DEF m
  <2> QED BY <1>1, <1>2, <2>3, OutsideSubmits
<1>4. CASE synthesizeComponentResult
  BY <1>1, <1>2, <1>4 DEF synthesizeComponentResult, schedulerVars
<1>5. ASSUME NEW l \in Module, synthesizeResults(l) PROVE [SchedulerNext]_schedulerVars
  <2> DEFINE m == Msg("module_result", l, requester_id_[l], goal[l], 0)
  <2>1. routeMessage(m) /\ l \in Lead
    BY Zenon, <1>5 DEF synthesizeResults, Lead
  <2>2. /\ requester_id_[l] \in {"", Chief, Component} /\ "" \notin agents_
        /\ requester_id_[l] # "" => goal[l] \in Goals
    BY Zenon, <2>1, AgentAssumption DEF AgentInv, AgentTypeOK, Lead, Chief, Component
  <2>3. m.to = requester_id_[l]
    BY Zenon DEF Msg
  <2>4. requester_id_[l] \in {Component, Chief} /\ requester_id_[l] # "" => m \in Work
    BY Zenon, <2>1, <2>2, MessageMade
  <2> HIDE DEF m
  <2>5. m.to \in agents_ => m \in Work
    BY Zenon, <2>2, <2>3, <2>4
  <2> QED BY <1>1, <2>1, <2>5, OutsideSubmits
<1>6. ASSUME NEW a \in Lead \cup Tasker, SendCancel(a) PROVE [SchedulerNext]_schedulerVars
  <2> DEFINE m == Msg("cancel", Chief, a, 1, 0)
  <2>1. 1 \in Goals
    BY DEF Goals
  <2>2. m \in Work /\ routeMessage(m)
    BY Zenon, <1>6, <2>1, MessageMade DEF SendCancel
  <2> HIDE DEF m
  <2> QED BY <1>1, <2>2, OutsideSubmits
<1> QED BY <1>2, <1>3, <1>4, <1>5, <1>6 DEF Driver

(* The steps of the pool, and of threads between two messages. *)
LEMMA PoolSteps ==
  ASSUME AgentInv, UNCHANGED agentVars, Pool \/ \E w \in Worker : Seek(w)
  PROVE  [SchedulerNext]_schedulerVars /\ AgentTypeOK' /\ \A v \in Worker : Busy(v)'
<1>1. UNCHANGED <<plan, asked, agents_, requester_id_, goal, at>>
  BY DEF agentVars, coordination
<1>2. [SchedulerNext]_schedulerVars
  BY DEF Pool, SchedulerNext
<1>3. ASSUME NEW v \in Worker, at[v] # Begin
      PROVE  pc'[v] = pc[v] /\ hand'[v] = hand[v]
  <2>1. pc[v] \in {"run", "last"} /\ hand \in [Worker -> Work \cup {Idle}] /\ pc \in [Worker -> Step]
    BY <1>3 DEF AgentInv, Busy, Running, SchedulerInv, SchedulerTypeOK
  <2>2. CASE Pool
    <3>1. ~ start
      BY <2>1 DEF start, AgentInv, SchedulerInv, Hands
    <3>2. ~ Joined
      BY <2>1 DEF Joined
    <3> QED BY Zenon, <2>2, <3>1, <3>2 DEF Pool, shutdown
  <2>3. ASSUME NEW w \in Worker, Seek(w) PROVE pc'[v] = pc[v] /\ hand'[v] = hand[v]
    <3>1. pc[w] \in {"check", "look", "drain"}
      BY Zenon, <2>3 DEF Seek, Check, tryStealOnce, drain
    <3>2. v # w
      BY <2>1, <3>1
    <3>3. CASE Check(w)
      BY <2>1, <3>2, <3>3 DEF Check, goto
    <3>4. CASE tryStealOnce(w)
      BY Zenon, <2>1, <3>2, <3>4 DEF tryStealOnce, take, goto
    <3>5. CASE drain(w)
      BY <2>1, <3>2, <3>5 DEF drain, take, goto
    <3> QED BY <2>3, <3>3, <3>4, <3>5 DEF Seek
  <2> QED BY <2>2, <2>3
<1>4. ASSUME NEW v \in Worker PROVE Busy(v)'
  <2>1. CASE at[v] = Begin
    BY <1>1, <2>1 DEF Busy, Begin
  <2>2. CASE at[v] # Begin
    BY Zenon, <1>1, <1>3, <2>2 DEF AgentInv, Busy, Running, decomposeGoal
  <2> QED BY <2>1, <2>2
<1> QED BY Zenon, <1>1, <1>2, <1>4 DEF AgentInv, AgentTypeOK

(* Task agents fail, recover and leave. *)
LEMMA TaskerSteps ==
  ASSUME AgentInv, NEW t \in Tasker, markAsFailed(t) \/ recover(t) \/ unregisterAgent(t)
  PROVE  [SchedulerNext]_schedulerVars /\ AgentTypeOK' /\ \A v \in Worker : Busy(v)'
<1>1. /\ UNCHANGED schedulerVars /\ UNCHANGED <<plan, asked, requester_id_, goal, at>>
      /\ agents_' \subseteq agents_
  BY Zenon DEF markAsFailed, recover, unregisterAgent, coordination
<1>2. UNCHANGED <<pc, hand>>
  BY <1>1 DEF schedulerVars
<1> QED BY Zenon, <1>1, <1>2 DEF AgentInv, AgentTypeOK, Busy, Running, decomposeGoal

LEMMA AgentSteps ==
  ASSUME AgentInv, [AgentNext]_<<schedulerVars, agentVars>>
  PROVE  [SchedulerNext]_schedulerVars /\ AgentInv'
<1>1. [SchedulerNext]_schedulerVars /\ AgentTypeOK' /\ \A v \in Worker : Busy(v)'
  <2>1. CASE Pool /\ UNCHANGED agentVars
    BY <2>1, PoolSteps
  <2>2. ASSUME NEW w \in Worker, WorkerStep(w)
        PROVE  [SchedulerNext]_schedulerVars /\ AgentTypeOK' /\ \A v \in Worker : Busy(v)'
    BY <2>2, PoolSteps, ProcessSteps DEF WorkerStep
  <2>3. CASE Driver \/ \E a \in Lead \cup Tasker : SendCancel(a)
    BY <2>3, DriverSteps
  <2>4. ASSUME NEW t \in Tasker, markAsFailed(t) \/ recover(t) \/ unregisterAgent(t)
        PROVE  [SchedulerNext]_schedulerVars /\ AgentTypeOK' /\ \A v \in Worker : Busy(v)'
    BY <2>4, TaskerSteps
  <2>5. CASE UNCHANGED <<schedulerVars, agentVars>>
    <3>1. UNCHANGED <<plan, asked, agents_, requester_id_, goal, at, pc, hand>>
      BY <2>5 DEF agentVars, coordination, schedulerVars
    <3> QED BY Zenon, <2>5, <3>1 DEF AgentInv, AgentTypeOK, Busy, Running, decomposeGoal
  <2> QED BY <2>1, <2>2, <2>3, <2>4, <2>5 DEF AgentNext
<1>2. SchedulerInv'
  BY <1>1, SchedulerStep DEF AgentInv
<1> QED BY <1>1, <1>2 DEF AgentInv

LEMMA AgentStarts == AgentInit => AgentInv
<1> SUFFICES ASSUME AgentInit PROVE AgentInv
  OBVIOUS
<1>1. SchedulerInv
  BY Zenon, InitInv DEF AgentInit
<1>2. AgentTypeOK
  BY Zenon DEF AgentInit, AgentTypeOK, Begin, Doing
<1>3. \A w \in Worker : Busy(w)
  BY Zenon DEF AgentInit, Busy, Begin
<1> QED BY <1>1, <1>2, <1>3 DEF AgentInv

(* lead_agent_base_impl.hpp:24-92, task_agent.cpp:46-113: the               *)
(* agents and their driver use the scheduler as it is meant to be used:     *)
(* every step of theirs is a step of the scheduler's own specification, or  *)
(* leaves the scheduler alone.                                              *)
THEOREM AgentsUseScheduler == AgentSpec => SchedulerSpec
<1>1. AgentInit => SchedulerInit
  BY Zenon DEF AgentInit
<1>2. AgentInv /\ [AgentNext]_<<schedulerVars, agentVars>> =>
        AgentInv' /\ [SchedulerNext]_schedulerVars
  BY AgentSteps
<1> QED BY <1>1, <1>2, AgentStarts, PTL DEF AgentSpec, SchedulerSpec

(* What the scheduler promises holds for the messages of the agents: none   *)
(* is lost, handled twice or left behind by a thread that could have seen   *)
(* it, whatever the agents do while they handle the others.                 *)
THEOREM MessagesHandledOnce == AgentSpec => [](Conserved /\ OnlyLateLeft)
BY AgentsUseScheduler, NothingLostOrRepeated, DrainedBeforeExit, PTL
=============================================================================
