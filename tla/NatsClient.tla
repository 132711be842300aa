----------------------------- MODULE NatsClient -----------------------------
(***************************************************************************)
(* Publishing to NATS (src/nats_client.cpp): the retry loop of publish and *)
(* publish_log, the circuit breaker in front of it (circuit_breaker.cpp)   *)
(* and the bounded dead-letter queue behind it (dead_letter_queue.cpp).    *)
(*                                                                         *)
(* The breaker is a few atomics that the handler threads load and store    *)
(* one by one, without a lock: every load and every store is a step.  The  *)
(* queue has a lock: a push, a drain and a clear are one step each.        *)
(*                                                                         *)
(* Time is reduced to the one question the breaker asks of it: has         *)
(* probe_interval elapsed since open_since_ms_ was stored (aged)?  Retry   *)
(* delays are left out.                                                    *)
(***************************************************************************)
EXTENDS Naturals, Sequences, FiniteSets, Functions

CONSTANTS
  Thread,             \* threads that publish
  Message,            \* the messages published with publish, each once
  Forbidden,          \* those the broker rejects (not an infra error, no retry)
  Log,                \* any structured log event, published with publish_log
  kMaxRetries, failure_threshold, Capacity,
  MaxOutages,         \* how often the broker may go away
  MaxLostAcks,        \* how often a message is stored but its ack times out
  MaxLogs             \* log events; 0: any number

ASSUME ConstantsAssumption ==
  /\ Forbidden \subseteq Message /\ Log \notin Message
  /\ kMaxRetries \in Nat \ {0} /\ failure_threshold \in Nat \ {0} /\ Capacity \in Nat \ {0}
  /\ MaxOutages \in Nat /\ MaxLostAcks \in Nat /\ MaxLogs \in Nat

VARIABLES
  connected,      \* connect() succeeded at startup; it is not called again
  up, outages,    \* the broker answers; how often it went away
  lost,           \* acks lost so far
  state,          \* the breaker: state_, failure_count_ and the age of open_since_ms_
  failure_count,
  aged,
  dlq,            \* the dead-letter queue, oldest first
  pc, msg, attempt, seen,  \* per thread: location, message, attempt number, count seen
  probing,        \* history: threads admitted as the probe of a half-open circuit
  logs,           \* log events so far (counted only when MaxLogs bounds them)
  result,         \* history, per message: what publish returned
  delivered,      \* history, per message: how often the broker stored it
  letters,        \* history: the messages that were dead-lettered, in order
  taken           \* history: dead letters that a client drained or cleared

breaker == <<state, failure_count, aged>>
broker == <<up, outages, lost>>
locals == <<pc, msg, attempt, seen>>
ledger == <<result, delivered, letters, taken>>
vars == <<connected, broker, breaker, dlq, locals, probing, logs, ledger>>

Init ==
  /\ connected \in BOOLEAN
  /\ up = TRUE /\ outages = 0 /\ lost = 0
  /\ state = "Closed" /\ failure_count = 0 /\ aged = TRUE
  /\ dlq = << >>
  /\ pc = [th \in Thread |-> "idle"]
  /\ msg = [th \in Thread |-> Log]
  /\ attempt = [th \in Thread |-> 0]
  /\ seen = [th \in Thread |-> 0]
  /\ probing = {}
  /\ logs = 0
  /\ result = [m \in Message |-> "none"]
  /\ delivered = [m \in Message |-> 0]
  /\ letters = << >>
  /\ taken = {}

(***************************************************************************)
(* A thread's call.                                                        *)
(***************************************************************************)
Goto(th, at) == pc' = [pc EXCEPT ![th] = at]

\* The call ends: the thread is idle, and what publish returned is noted.
Return(th, r) ==
  /\ Goto(th, "idle")
  /\ msg' = [msg EXCEPT ![th] = Log]
  /\ attempt' = [attempt EXCEPT ![th] = 0]
  /\ seen' = [seen EXCEPT ![th] = 0]
  /\ probing' = probing \ {th}
  /\ result' = IF msg[th] = Log THEN result ELSE [result EXCEPT ![msg[th]] = r]

\* publish: nothing happens when there is no connection.
publish(th, m) ==
  /\ pc[th] = "idle"
  /\ result[m] = "none" /\ \A o \in Thread : pc[o] # "idle" => msg[o] # m
  /\ IF connected
       THEN /\ Goto(th, "allow") /\ msg' = [msg EXCEPT ![th] = m]
            /\ UNCHANGED result
       ELSE /\ result' = [result EXCEPT ![m] = "false"]
            /\ UNCHANGED <<pc, msg>>
  /\ UNCHANGED <<connected, broker, breaker, dlq, attempt, seen, probing, logs, delivered, letters, taken>>

\* publish_log: without a connection the event goes to the dead-letter queue.
publish_log(th) ==
  /\ pc[th] = "idle"
  /\ MaxLogs > 0 => logs < MaxLogs
  /\ logs' = IF MaxLogs > 0 THEN logs + 1 ELSE logs
  /\ Goto(th, IF connected THEN "allow" ELSE "bury")
  /\ UNCHANGED <<connected, broker, breaker, dlq, msg, attempt, seen, probing, ledger>>

(***************************************************************************)
(* CircuitBreaker::allow_attempt: load the state; if it is Open, load      *)
(* open_since_ms_; if the interval has elapsed, store HalfOpen.            *)
(***************************************************************************)
Attempt(th, probe) ==
  /\ Goto(th, "send")
  /\ attempt' = [attempt EXCEPT ![th] = 1]
  /\ probing' = IF probe THEN probing \cup {th} ELSE probing

allow_attempt(th) ==
  /\ pc[th] = "allow"
  /\ \/ state = "Closed" /\ Attempt(th, FALSE)
     \/ state = "HalfOpen" /\ Attempt(th, TRUE)
     \/ state = "Open" /\ Goto(th, "elapsed") /\ UNCHANGED <<attempt, probing>>
  /\ UNCHANGED <<connected, broker, breaker, dlq, msg, seen, logs, ledger>>

Elapsed(th) ==
  /\ pc[th] = "elapsed"
  /\ Goto(th, IF aged THEN "halve" ELSE "bury")
  /\ UNCHANGED <<connected, broker, breaker, dlq, msg, attempt, seen, probing, logs, ledger>>

HalfOpen(th) ==
  /\ pc[th] = "halve"
  /\ state' = "HalfOpen"
  /\ Attempt(th, TRUE)
  /\ UNCHANGED <<connected, broker, failure_count, aged, dlq, msg, seen, logs, ledger>>

(***************************************************************************)
(* The retry loop.  do_publish_once succeeds when the broker is up, unless *)
(* the ack is lost after the message was stored; a rejection is no infra   *)
(* error and is not retried.                                               *)
(***************************************************************************)
Store(m) == delivered' = IF m = Log THEN delivered ELSE [delivered EXCEPT ![m] = @ + 1]

\* Next attempt, or the failure is recorded.
InfraError(th) ==
  IF attempt[th] = kMaxRetries
    THEN Goto(th, "fail") /\ UNCHANGED attempt
    ELSE attempt' = [attempt EXCEPT ![th] = @ + 1] /\ UNCHANGED pc

do_publish_once(th) ==
  /\ pc[th] = "send"
  /\ \/ /\ up /\ msg[th] \notin Forbidden      \* NATS_OK
        /\ Store(msg[th]) /\ Goto(th, "reset")
        /\ UNCHANGED <<attempt, lost>>
     \/ /\ up /\ msg[th] \in Forbidden         \* rejected
        /\ Goto(th, "fail")
        /\ UNCHANGED <<attempt, lost, delivered>>
     \/ /\ up /\ msg[th] \notin Forbidden      \* NATS_TIMEOUT: stored, ack lost
        /\ lost < MaxLostAcks /\ lost' = lost + 1
        /\ Store(msg[th]) /\ InfraError(th)
     \/ /\ ~ up                                \* no server, disconnected, timeout
        /\ InfraError(th)
        /\ UNCHANGED <<lost, delivered>>
  /\ UNCHANGED <<connected, up, outages, breaker, dlq, msg, seen, probing, logs, result, letters, taken>>

(***************************************************************************)
(* record_success: store 0, then store Closed; publish returns true.       *)
(***************************************************************************)
ResetCount(th) ==
  /\ pc[th] = "reset"
  /\ failure_count' = 0
  /\ Goto(th, "close")
  /\ UNCHANGED <<connected, broker, state, aged, dlq, msg, attempt, seen, probing, logs, ledger>>

\* Mutant of Close: record_success forgets to store Closed.
CloseNot(th) ==
  /\ pc[th] = "close"
  /\ Return(th, "true")
  /\ UNCHANGED <<connected, broker, breaker, dlq, logs, delivered, letters, taken>>

Close(th) ==
  /\ pc[th] = "close"
  /\ state' = "Closed"
  /\ Return(th, "true")
  /\ UNCHANGED <<connected, broker, failure_count, aged, dlq, logs, delivered, letters, taken>>

(***************************************************************************)
(* record_failure: increment, load the state, and open the circuit if it   *)
(* was half open, or closed with the threshold reached.  The count         *)
(* saturates at the threshold, past which the code does not look.          *)
(***************************************************************************)
CountFailure(th) ==
  /\ pc[th] = "fail"
  /\ failure_count' = IF failure_count < failure_threshold THEN failure_count + 1 ELSE failure_count
  /\ seen' = [seen EXCEPT ![th] = failure_count']
  /\ Goto(th, "judge")
  /\ UNCHANGED <<connected, broker, state, aged, dlq, msg, attempt, probing, logs, ledger>>

Judge(th) ==
  /\ pc[th] = "judge"
  /\ Goto(th, IF state = "HalfOpen" \/ (state = "Closed" /\ seen[th] >= failure_threshold)
              THEN "stamp" ELSE "bury")
  /\ UNCHANGED <<connected, broker, breaker, dlq, msg, attempt, seen, probing, logs, ledger>>

\* transition_to_open: store open_since_ms_, then store Open.
StampOpen(th) ==
  /\ pc[th] = "stamp"
  /\ aged' = FALSE
  /\ Goto(th, "open")
  /\ UNCHANGED <<connected, broker, state, failure_count, dlq, msg, attempt, seen, probing, logs, ledger>>

Open(th) ==
  /\ pc[th] = "open"
  /\ state' = "Open"
  /\ Goto(th, "bury")
  /\ UNCHANGED <<connected, broker, failure_count, aged, dlq, msg, attempt, seen, probing, logs, ledger>>

(***************************************************************************)
(* DeadLetterQueue.                                                        *)
(***************************************************************************)

\* Mutant of Pushed: the newest entry is evicted.
PushedOverNewest(q, m) == IF Len(q) >= Capacity THEN Append(SubSeq(q, 1, Len(q) - 1), m) ELSE Append(q, m)

\* push evicts the oldest entry when the queue is full.
Pushed(q, m) == IF Len(q) >= Capacity THEN Append(Tail(q), m) ELSE Append(q, m)

\* Mutant of Bury: a message that was never attempted is not dead-lettered.
BuryAttempted(th) ==
  /\ pc[th] = "bury"
  /\ dlq' = IF attempt[th] > 0 THEN Pushed(dlq, msg[th]) ELSE dlq
  /\ letters' = IF msg[th] = Log \/ attempt[th] = 0 THEN letters ELSE Append(letters, msg[th])
  /\ Return(th, "false")
  /\ UNCHANGED <<connected, broker, breaker, logs, delivered, taken>>

Bury(th) ==
  /\ pc[th] = "bury"
  /\ dlq' = Pushed(dlq, msg[th])
  /\ letters' = IF msg[th] = Log THEN letters ELSE Append(letters, msg[th])
  /\ Return(th, "false")
  /\ UNCHANGED <<connected, broker, breaker, logs, delivered, taken>>

\* GET (drain) or DELETE (clear) /v1/dead-letter: the queue is emptied.
Drain ==
  /\ dlq # << >>
  /\ taken' = taken \cup (Range(dlq) \ {Log})
  /\ dlq' = << >>
  /\ UNCHANGED <<connected, broker, breaker, locals, probing, logs, result, delivered, letters>>

(***************************************************************************)
(* Time passes; the broker goes away and comes back.                       *)
(***************************************************************************)
Tick ==
  /\ ~ aged
  /\ aged' = TRUE
  /\ UNCHANGED <<connected, broker, state, failure_count, dlq, locals, probing, logs, ledger>>

GoAway ==
  /\ up /\ outages < MaxOutages
  /\ up' = FALSE /\ outages' = outages + 1
  /\ UNCHANGED <<connected, lost, breaker, dlq, locals, probing, logs, ledger>>

ComeBack ==
  /\ ~ up
  /\ up' = TRUE
  /\ UNCHANGED <<connected, outages, lost, breaker, dlq, locals, probing, logs, ledger>>

Continue(th) ==
  \/ allow_attempt(th) \/ Elapsed(th) \/ HalfOpen(th)
  \/ do_publish_once(th)
  \/ ResetCount(th) \/ Close(th)
  \/ CountFailure(th) \/ Judge(th) \/ StampOpen(th) \/ Open(th)
  \/ Bury(th)

Next ==
  \/ \E th \in Thread :
       \/ \E m \in Message : publish(th, m)
       \/ publish_log(th)
       \/ Continue(th)
  \/ Drain
  \/ Tick \/ GoAway \/ ComeBack

Spec == Init /\ [][Next]_vars

\* Calls go on, time passes, and the server does not stop logging (the breaker is probed by
\* traffic, not by a timer).  The broker owes nothing: it may stay away.
Fairness ==
  /\ \A th \in Thread : WF_vars(Continue(th)) /\ WF_vars(publish_log(th))
  /\ WF_vars(Tick)

FairSpec == Spec /\ Fairness

-----------------------------------------------------------------------------
Location == {"idle", "allow", "elapsed", "halve", "send", "reset", "close",
             "fail", "judge", "stamp", "open", "bury"}

\* Every variable keeps its type; the queue never exceeds its capacity.
TypeOK ==
  /\ connected \in BOOLEAN /\ up \in BOOLEAN
  /\ outages \in 0 .. MaxOutages /\ lost \in 0 .. MaxLostAcks
  /\ state \in {"Closed", "Open", "HalfOpen"}
  /\ failure_count \in 0 .. failure_threshold /\ aged \in BOOLEAN
  /\ dlq \in Seq(Message \cup {Log}) /\ Len(dlq) <= Capacity
  /\ pc \in [Thread -> Location]
  /\ msg \in [Thread -> Message \cup {Log}]
  /\ attempt \in [Thread -> 0 .. kMaxRetries]
  /\ seen \in [Thread -> 0 .. failure_threshold]
  /\ probing \subseteq Thread
  /\ logs \in 0 .. MaxLogs
  /\ result \in [Message -> {"none", "true", "false"}]
  /\ delivered \in [Message -> Nat]
  /\ letters \in Seq(Message)
  /\ taken \subseteq Message

\* Where m is among the dead letters.
Letters(m) == {i \in DOMAIN letters : letters[i] = m}

\* publish loses nothing silently: with a connection, a message is either stored by the
\* broker, and then publish returned true, or it returned false and dead-lettered the
\* message exactly once, whatever the breaker did meanwhile; retries store it at most
\* kMaxRetries times.
Accounted ==
  connected =>
    \A m \in Message :
      /\ result[m] = "true" => delivered[m] > 0 /\ Letters(m) = {}
      /\ result[m] = "false" => \E i \in DOMAIN letters : Letters(m) = {i}
      /\ delivered[m] <= kMaxRetries

\* Dead letters are lost only to newer ones: of two that nobody took, the queue holds the
\* later one if it holds the earlier one (push evicts the oldest).
KeepsNewest ==
  \A i, j \in DOMAIN letters :
    i < j /\ letters[i] \in Range(dlq) /\ letters[j] \notin taken => letters[j] \in Range(dlq)

\* The transitions that the header of CircuitBreaker lists are the only ones.
DocumentedTransitions ==
  [][\/ state = "Closed" /\ state' = "Open"
     \/ state = "Open" /\ state' = "HalfOpen"
     \/ state = "HalfOpen" /\ state' \in {"Closed", "Open"}]_state

\* A half-open circuit admits one probe (allow_attempt).
OneProbe == Cardinality(probing) <= 1

\* If the broker stays up and traffic goes on, the circuit is closed again, whatever the
\* races between threads in allow_attempt, record_success and record_failure left behind.
Recovers == <>[]up => []<>(state = "Closed")

\* Without a connection publish and publish_log do nothing: no dead letter is added.
NoOpWhenNotConnected == [][Len(dlq') >= Len(dlq) => connected]_dlq

=============================================================================
