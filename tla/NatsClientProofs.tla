-------------------------- MODULE NatsClientProofs --------------------------
(***************************************************************************)
(* publish accounts for every message (Accounted), for any number of       *)
(* threads, messages, retries, outages and lost acks, and whatever the     *)
(* breaker's atomics hold: the induction uses nothing of the breaker and   *)
(* nothing of the queue's capacity.  Then: dead letters are evicted oldest *)
(* first (KeepsNewest), by an induction over the queue and its history.    *)
(***************************************************************************)
EXTENDS NatsClient, TLAPS

(* The variables the argument rests on. *)
CallsTypeOK ==
  /\ pc \in [Thread -> Location] /\ msg \in [Thread -> Message \cup {Log}]
  /\ attempt \in [Thread -> 0 .. kMaxRetries]
  /\ result \in [Message -> {"none", "true", "false"}]
  /\ delivered \in [Message -> Nat] /\ letters \in Seq(Message)

(* A thread that has not reached the retry loop has made no attempt. *)
Early == {"idle", "allow", "elapsed", "halve"}

(* What the location of a thread says of its call: the message is its own,  *)
(* it was stored at most once per attempt, not yet in the current one, and  *)
(* at least once where the call is about to return true.                    *)
CallOK(th) ==
  /\ pc[th] = "idle" => msg[th] = Log
  /\ pc[th] \in Early => attempt[th] = 0
  /\ msg[th] # Log =>
       /\ connected /\ result[msg[th]] = "none"
       /\ \A o \in Thread : msg[o] = msg[th] => o = th
       /\ delivered[msg[th]] <= attempt[th]
       /\ pc[th] = "send" => delivered[msg[th]] < attempt[th]
       /\ pc[th] \in {"reset", "close"} => delivered[msg[th]] > 0

Unlettered(m) == \A i \in DOMAIN letters : letters[i] # m

LetteredOnce(m) ==
  \E i \in DOMAIN letters :
    letters[i] = m /\ \A j \in DOMAIN letters : letters[j] = m => j = i

(* What the result of a message says of the broker and of the letters. *)
MessageOK(m) ==
  /\ delivered[m] <= kMaxRetries
  /\ result[m] = "none" => Unlettered(m)
  /\ result[m] = "none" /\ (\A th \in Thread : msg[th] # m) => delivered[m] = 0
  /\ result[m] = "true" => delivered[m] > 0 /\ Unlettered(m)
  /\ result[m] = "false" /\ connected => LetteredOnce(m)

CallsOK == \A th \in Thread : CallOK(th)
MessagesOK == \A m \in Message : MessageOK(m)

LedgerInv == CallsTypeOK /\ CallsOK /\ MessagesOK

USE ConstantsAssumption

LEMMA LedgerInit == Init => LedgerInv
<1> SUFFICES ASSUME Init PROVE LedgerInv
  OBVIOUS
<1>1. CallsTypeOK
  BY DEF Init, CallsTypeOK, Location
<1>2. CallsOK
  BY DEF Init, CallsOK, CallOK
<1>3. MessagesOK
  BY DEF Init, MessagesOK, MessageOK, Unlettered
<1> QED
  BY <1>1, <1>2, <1>3 DEF LedgerInv

LEMMA LedgerAccounted == LedgerInv => Accounted
<1> SUFFICES ASSUME LedgerInv, connected, NEW m \in Message
             PROVE  /\ result[m] = "true" => delivered[m] > 0 /\ Letters(m) = {}
                    /\ result[m] = "false" => \E i \in DOMAIN letters : Letters(m) = {i}
                    /\ delivered[m] <= kMaxRetries
  BY DEF Accounted
<1>1. MessageOK(m)
  BY DEF LedgerInv, MessagesOK
<1>2. ASSUME LetteredOnce(m) PROVE \E i \in DOMAIN letters : Letters(m) = {i}
  <2>1. PICK i \in DOMAIN letters :
               letters[i] = m /\ \A j \in DOMAIN letters : letters[j] = m => j = i
    BY <1>2 DEF LetteredOnce
  <2> QED
    BY <2>1 DEF Letters
<1>3. ASSUME Unlettered(m) PROVE Letters(m) = {}
  BY <1>3 DEF Unlettered, Letters
<1> QED
  BY <1>1, <1>2, <1>3 DEF MessageOK

(***************************************************************************)
(* A step that touches neither the messages nor the ledger: only its       *)
(* thread's location and attempts change.                                  *)
(***************************************************************************)
LEMMA MoveInv ==
  ASSUME LedgerInv, NEW th \in Thread, NEW at \in Location, Goto(th, at),
         attempt' \in [Thread -> 0 .. kMaxRetries],
         \A o \in Thread : o # th => attempt'[o] = attempt[o],
         UNCHANGED <<connected, msg, result, delivered, letters>>,
         at # "idle",
         at \in Early => attempt'[th] = 0,
         at = "send" => attempt'[th] > attempt[th],
         attempt'[th] >= attempt[th],
         at \in {"reset", "close"} => pc[th] \in {"reset", "close"}
  PROVE  LedgerInv'
<1> USE DEF LedgerInv, CallsTypeOK
<1>1. /\ pc' \in [Thread -> Location] /\ pc'[th] = at
      /\ \A o \in Thread : o # th => pc'[o] = pc[o]
  BY DEF Goto
<1>2. CallsTypeOK'
  BY <1>1
<1>3. MessagesOK'
  BY DEF MessagesOK, MessageOK, Unlettered, LetteredOnce
<1>4. ASSUME NEW o \in Thread PROVE CallOK(o)'
  <2>1. CallOK(o)
    BY DEF CallsOK
  <2>2. CASE o # th
    BY <2>1, <2>2, <1>1 DEF CallOK
  <2>3. CASE o = th
    <3>1. msg[th] # Log => msg[th] \in Message /\ delivered[msg[th]] \in Nat
      OBVIOUS
    <3>2. attempt[th] \in Nat /\ attempt'[th] \in Nat
      OBVIOUS
    <3> QED
      BY <2>1, <2>3, <1>1, <3>1, <3>2 DEF CallOK
  <2> QED
    BY <2>2, <2>3
<1> QED
  BY <1>2, <1>3, <1>4 DEF CallsOK

(* Nothing the argument rests on changes: the clients of the queue, time,   *)
(* the broker's comings and goings, and stuttering.                         *)
LEMMA IdleInv ==
  ASSUME LedgerInv, UNCHANGED <<connected, pc, msg, attempt, result, delivered, letters>>
  PROVE  LedgerInv'
BY DEF LedgerInv, CallsTypeOK, CallsOK, CallOK, MessagesOK, MessageOK, Unlettered, LetteredOnce

(***************************************************************************)
(* A call begins.                                                          *)
(***************************************************************************)
LEMMA PublishInv ==
  ASSUME LedgerInv, NEW th \in Thread, NEW m \in Message, publish(th, m) PROVE LedgerInv'
<1> USE DEF LedgerInv, CallsTypeOK
<1>1. /\ UNCHANGED <<connected, attempt, delivered, letters>>
      /\ pc[th] = "idle" /\ result[m] = "none" /\ \A o \in Thread : pc[o] # "idle" => msg[o] # m
  BY DEF publish
<1>2. \A o \in Thread : CallOK(o)
  BY DEF CallsOK
<1>3. MessageOK(m) /\ m # Log
  BY DEF MessagesOK
<1>4. \A o \in Thread : msg[o] # m
  BY <1>1, <1>2, <1>3 DEF CallOK
<1>5. CASE connected
  <2>1. /\ pc' \in [Thread -> Location] /\ pc'[th] = "allow" /\ UNCHANGED result
        /\ \A o \in Thread : o # th => pc'[o] = pc[o]
    BY Zenon, <1>5 DEF publish, Goto, Location
  <2>2. /\ msg' \in [Thread -> Message \cup {Log}] /\ msg'[th] = m
        /\ \A o \in Thread : o # th => msg'[o] = msg[o]
    BY Zenon, <1>5 DEF publish
  <2>3. CallsTypeOK'
    BY <1>1, <2>1, <2>2
  <2>4. ASSUME NEW o \in Thread PROVE CallOK(o)'
    <3>1. CASE o # th
      BY <3>1, <1>1, <1>2, <1>4, <2>1, <2>2 DEF CallOK
    <3>2. CASE o = th
      <4>1. attempt[th] = 0
        BY <1>1, <1>2 DEF CallOK, Early
      <4>2. delivered[m] = 0
        BY <1>1, <1>3, <1>4 DEF MessageOK
      <4> QED
        BY <3>2, <4>1, <4>2, <1>1, <1>3, <1>4, <1>5, <2>1, <2>2 DEF CallOK, Early
    <3> QED
      BY <3>1, <3>2
  <2>5. ASSUME NEW n \in Message PROVE MessageOK(n)'
    <3>1. MessageOK(n)
      BY DEF MessagesOK
    <3>2. (\A o \in Thread : msg'[o] # n) => \A o \in Thread : msg[o] # n
      BY <1>4, <2>2, <1>2, <1>1, <1>3 DEF CallOK
    <3> QED
      BY <3>1, <3>2, <1>1, <2>1 DEF MessageOK, Unlettered, LetteredOnce
  <2> QED
    BY <2>3, <2>4, <2>5 DEF CallsOK, MessagesOK
<1>6. CASE ~connected
  <2>1. /\ UNCHANGED <<pc, msg>> /\ result' \in [Message -> {"none", "true", "false"}]
        /\ result'[m] = "false" /\ \A n \in Message : n # m => result'[n] = result[n]
    BY Zenon, <1>6 DEF publish
  <2>2. CallsTypeOK'
    BY <1>1, <2>1
  <2>3. ASSUME NEW o \in Thread PROVE CallOK(o)'
    BY <1>1, <1>2, <1>6, <2>1 DEF CallOK
  <2>4. ASSUME NEW n \in Message PROVE MessageOK(n)'
    <3>1. MessageOK(n)
      BY DEF MessagesOK
    <3> QED
      BY <3>1, <1>1, <1>6, <2>1 DEF MessageOK, Unlettered
  <2> QED
    BY <2>2, <2>3, <2>4 DEF CallsOK, MessagesOK
<1> QED
  BY <1>5, <1>6

LEMMA PublishLogInv ==
  ASSUME LedgerInv, NEW th \in Thread, publish_log(th) PROVE LedgerInv'
<1>1. pc[th] = "idle" /\ UNCHANGED <<connected, msg, attempt, result, delivered, letters>>
  BY DEF publish_log, ledger
<1>2. CallOK(th)
  BY DEF LedgerInv, CallsOK
<1>3. attempt[th] = 0 /\ attempt \in [Thread -> 0 .. kMaxRetries]
  BY <1>1, <1>2 DEF CallOK, Early, LedgerInv, CallsTypeOK
<1>4. PICK at \in {"allow", "bury"} : Goto(th, at)
  BY DEF publish_log
<1>5. at \in Location /\ at \notin {"idle", "send", "reset", "close"}
  BY DEF Location
<1> QED
  BY <1>1, <1>3, <1>4, <1>5, MoveInv

(***************************************************************************)
(* The breaker is asked, and told.                                         *)
(***************************************************************************)

(* The retry loop is entered. *)
LEMMA AttemptInv ==
  ASSUME LedgerInv, NEW th \in Thread, NEW probe \in BOOLEAN, Attempt(th, probe),
         pc[th] \in {"allow", "halve"},
         UNCHANGED <<connected, msg, result, delivered, letters>>
  PROVE  LedgerInv'
<1>1. CallOK(th)
  BY DEF LedgerInv, CallsOK
<1>2. attempt[th] = 0 /\ attempt \in [Thread -> 0 .. kMaxRetries]
  BY <1>1 DEF CallOK, Early, LedgerInv, CallsTypeOK
<1>3. 1 \in 0 .. kMaxRetries
  OBVIOUS
<1>4. /\ attempt' \in [Thread -> 0 .. kMaxRetries] /\ attempt'[th] = 1
      /\ \A o \in Thread : o # th => attempt'[o] = attempt[o]
  BY <1>2, <1>3 DEF Attempt
<1>5. Goto(th, "send") /\ "send" \in Location /\ "send" \notin Early
  BY DEF Attempt, Location, Early
<1> QED
  BY <1>2, <1>4, <1>5, MoveInv

(* The other steps around the retry loop change only the location. *)
LEMMA StepInv ==
  ASSUME LedgerInv, NEW th \in Thread, NEW at \in Location, Goto(th, at),
         UNCHANGED <<connected, msg, attempt, result, delivered, letters>>,
         at \notin {"idle", "send", "reset"},
         at \in Early => pc[th] \in Early,
         at = "close" => pc[th] = "reset"
  PROVE  LedgerInv'
<1>1. CallOK(th)
  BY DEF LedgerInv, CallsOK
<1>2. attempt \in [Thread -> 0 .. kMaxRetries] /\ (at \in Early => attempt[th] = 0)
  BY <1>1 DEF CallOK, LedgerInv, CallsTypeOK
<1>3. attempt[th] \in Nat
  BY <1>2
<1> QED
  BY <1>2, <1>3, MoveInv

LEMMA BreakerInv ==
  ASSUME LedgerInv, NEW th \in Thread,
         \/ allow_attempt(th) \/ Elapsed(th) \/ HalfOpen(th) \/ ResetCount(th)
         \/ CountFailure(th) \/ Judge(th) \/ StampOpen(th) \/ Open(th)
  PROVE  LedgerInv'
<1> USE DEF ledger, Location, Early
<1>1. UNCHANGED <<connected, msg, result, delivered, letters>>
  BY Zenon DEF allow_attempt, Elapsed, HalfOpen, ResetCount, CountFailure, Judge, StampOpen, Open
<1>2. CASE allow_attempt(th)
  <2>1. pc[th] = "allow"
    BY <1>2 DEF allow_attempt
  <2>2. CASE Attempt(th, FALSE) \/ Attempt(th, TRUE)
    BY Zenon, <2>1, <2>2, <1>1, AttemptInv
  <2>3. CASE Goto(th, "elapsed") /\ UNCHANGED attempt
    BY <2>1, <2>3, <1>1, StepInv
  <2> QED
    BY Zenon, <1>2, <2>2, <2>3 DEF allow_attempt
<1>3. CASE Elapsed(th)
  <2>1. PICK at \in {"halve", "bury"} : Goto(th, at)
    BY <1>3 DEF Elapsed
  <2>2. UNCHANGED attempt /\ pc[th] = "elapsed"
    BY <1>3 DEF Elapsed
  <2> QED
    BY <2>1, <2>2, <1>1, StepInv
<1>4. CASE HalfOpen(th)
  BY Zenon, <1>1, <1>4, AttemptInv DEF HalfOpen
<1>5. CASE ResetCount(th)
  BY <1>1, <1>5, StepInv DEF ResetCount
<1>6. CASE CountFailure(th)
  BY <1>1, <1>6, StepInv DEF CountFailure
<1>7. CASE Judge(th)
  <2>1. PICK at \in {"stamp", "bury"} : Goto(th, at)
    BY <1>7 DEF Judge
  <2>2. UNCHANGED attempt
    BY <1>7 DEF Judge
  <2> QED
    BY <2>1, <2>2, <1>1, StepInv
<1>8. CASE StampOpen(th)
  BY <1>1, <1>8, StepInv DEF StampOpen
<1>9. CASE Open(th)
  BY <1>1, <1>9, StepInv DEF Open
<1> QED
  BY <1>2, <1>3, <1>4, <1>5, <1>6, <1>7, <1>8, <1>9

(***************************************************************************)
(* One attempt.                                                            *)
(***************************************************************************)

(* What becomes of the attempt number and of the location. *)
LEMMA InfraErrorStep ==
  ASSUME LedgerInv, NEW th \in Thread, pc[th] = "send", InfraError(th)
  PROVE  /\ attempt' \in [Thread -> 0 .. kMaxRetries]
         /\ \A o \in Thread : o # th => attempt'[o] = attempt[o]
         /\ \/ Goto(th, "fail") /\ attempt'[th] = attempt[th]
            \/ Goto(th, "send") /\ attempt'[th] = attempt[th] + 1
<1> USE DEF LedgerInv, CallsTypeOK
<1>1. attempt[th] \in 0 .. kMaxRetries
  OBVIOUS
<1>2. CASE attempt[th] = kMaxRetries
  BY <1>2 DEF InfraError
<1>3. CASE attempt[th] # kMaxRetries
  <2>1. attempt' = [attempt EXCEPT ![th] = attempt[th] + 1] /\ UNCHANGED pc
    BY <1>3 DEF InfraError
  <2>2. attempt[th] + 1 \in 0 .. kMaxRetries
    BY <1>1, <1>3
  <2>3. pc' = [pc EXCEPT ![th] = "send"]
    BY <2>1
  <2> QED
    BY <2>1, <2>2, <2>3 DEF Goto
<1> QED
  BY <1>2, <1>3

(* The broker stores the message: the count of this attempt is used up. *)
LEMMA StoreInv ==
  ASSUME LedgerInv, NEW th \in Thread, pc[th] = "send", NEW at \in {"reset", "fail", "send"},
         Goto(th, at), Store(msg[th]),
         attempt' \in [Thread -> 0 .. kMaxRetries],
         \A o \in Thread : o # th => attempt'[o] = attempt[o],
         attempt'[th] = IF at = "send" THEN attempt[th] + 1 ELSE attempt[th],
         UNCHANGED <<connected, msg, result, letters>>
  PROVE  LedgerInv'
<1> USE DEF LedgerInv, CallsTypeOK
<1>1. /\ pc' \in [Thread -> Location] /\ pc'[th] = at
      /\ \A o \in Thread : o # th => pc'[o] = pc[o]
  BY DEF Goto, Location
<1>2. \A o \in Thread : CallOK(o)
  BY DEF CallsOK
<1>3. /\ delivered' \in [Message -> Nat]
      /\ msg[th] # Log => delivered'[msg[th]] = delivered[msg[th]] + 1
      /\ \A n \in Message : n # msg[th] => delivered'[n] = delivered[n]
  BY DEF Store
<1>4. CallsTypeOK'
  BY <1>1, <1>3
<1>5. attempt[th] \in 0 .. kMaxRetries /\ (msg[th] # Log => delivered[msg[th]] \in Nat)
  OBVIOUS
<1>6. ASSUME NEW o \in Thread PROVE CallOK(o)'
  <2>1. CASE o # th
    <3>1. msg[o] # Log => delivered'[msg[o]] = delivered[msg[o]]
      BY <2>1, <1>2, <1>3 DEF CallOK
    <3> QED
      BY <2>1, <3>1, <1>1, <1>2 DEF CallOK
  <2>2. CASE o = th
    <3>1. msg[th] # Log => delivered[msg[th]] < attempt[th]
      BY <1>2 DEF CallOK
    <3> QED
      BY <2>2, <3>1, <1>1, <1>2, <1>3, <1>5 DEF CallOK, Early
  <2> QED
    BY <2>1, <2>2
<1>7. ASSUME NEW n \in Message PROVE MessageOK(n)'
  <2>1. MessageOK(n)
    BY DEF MessagesOK
  <2>2. CASE n # msg[th]
    BY <2>1, <2>2, <1>3 DEF MessageOK, Unlettered, LetteredOnce
  <2>3. CASE n = msg[th]
    <3>1. n # Log /\ delivered[n] \in Nat
      OBVIOUS
    <3>2. delivered'[n] = delivered[n] + 1 /\ delivered'[n] <= kMaxRetries
      BY <2>3, <3>1, <1>2, <1>3, <1>5 DEF CallOK
    <3>3. result[n] = "none"
      BY <2>3, <3>1, <1>2 DEF CallOK
    <3> QED
      BY <2>1, <2>3, <3>2, <3>3 DEF MessageOK, Unlettered
  <2> QED
    BY <2>2, <2>3
<1> QED
  BY <1>4, <1>6, <1>7 DEF CallsOK, MessagesOK

LEMMA PublishOnceInv ==
  ASSUME LedgerInv, NEW th \in Thread, do_publish_once(th) PROVE LedgerInv'
<1>1. pc[th] = "send" /\ UNCHANGED <<connected, msg, result, letters>>
  BY DEF do_publish_once
<1>2. attempt \in [Thread -> 0 .. kMaxRetries] /\ attempt[th] \in Nat
  BY DEF LedgerInv, CallsTypeOK
<1>3. CASE Store(msg[th]) /\ Goto(th, "reset") /\ UNCHANGED attempt
  BY <1>1, <1>2, <1>3, StoreInv
<1>4. CASE Goto(th, "fail") /\ UNCHANGED <<attempt, delivered>>
  <2>1. "fail" \in Location /\ "fail" \notin Early
    BY DEF Location, Early
  <2> QED
    BY <2>1, <1>1, <1>4, StepInv
<1>5. CASE Store(msg[th]) /\ InfraError(th)
  <2>1. CASE Goto(th, "fail") /\ attempt'[th] = attempt[th]
    BY <2>1, <1>1, <1>5, InfraErrorStep, StoreInv
  <2>2. CASE Goto(th, "send") /\ attempt'[th] = attempt[th] + 1
    BY <2>2, <1>1, <1>5, InfraErrorStep, StoreInv
  <2> QED
    BY <2>1, <2>2, <1>1, <1>5, InfraErrorStep
<1>6. CASE InfraError(th) /\ UNCHANGED delivered
  <2>1. {"fail", "send"} \subseteq Location /\ "fail" \notin Early /\ "send" \notin Early
    BY DEF Location, Early
  <2>2. CASE Goto(th, "fail") /\ attempt'[th] = attempt[th]
    BY <2>1, <2>2, <1>1, <1>2, <1>6, InfraErrorStep, MoveInv
  <2>3. CASE Goto(th, "send") /\ attempt'[th] = attempt[th] + 1
    BY <2>1, <2>3, <1>1, <1>2, <1>6, InfraErrorStep, MoveInv
  <2> QED
    BY <2>2, <2>3, <1>1, <1>6, InfraErrorStep
<1> QED
  BY Zenon, <1>3, <1>4, <1>5, <1>6 DEF do_publish_once

(***************************************************************************)
(* A call ends.                                                            *)
(***************************************************************************)

(* The thread and the results after Return. *)
LEMMA ReturnStep ==
  ASSUME LedgerInv, NEW th \in Thread, NEW r \in {"true", "false"}, Return(th, r)
  PROVE  /\ pc' \in [Thread -> Location] /\ pc'[th] = "idle"
         /\ msg' \in [Thread -> Message \cup {Log}] /\ msg'[th] = Log
         /\ attempt' \in [Thread -> 0 .. kMaxRetries] /\ attempt'[th] = 0
         /\ \A o \in Thread :
              o # th => pc'[o] = pc[o] /\ msg'[o] = msg[o] /\ attempt'[o] = attempt[o]
         /\ result' \in [Message -> {"none", "true", "false"}]
         /\ msg[th] # Log => result'[msg[th]] = r
         /\ \A n \in Message : n # msg[th] => result'[n] = result[n]
<1> USE DEF LedgerInv, CallsTypeOK
<1>1. pc' \in [Thread -> Location] /\ pc'[th] = "idle" /\ \A o \in Thread : o # th => pc'[o] = pc[o]
  BY DEF Return, Goto, Location
<1>2. /\ msg' \in [Thread -> Message \cup {Log}] /\ msg'[th] = Log
      /\ \A o \in Thread : o # th => msg'[o] = msg[o]
  BY DEF Return
<1>3. 0 \in 0 .. kMaxRetries
  OBVIOUS
<1>4. /\ attempt' \in [Thread -> 0 .. kMaxRetries] /\ attempt'[th] = 0
      /\ \A o \in Thread : o # th => attempt'[o] = attempt[o]
  BY <1>3 DEF Return
<1>5. /\ result' \in [Message -> {"none", "true", "false"}]
      /\ msg[th] # Log => result'[msg[th]] = r
      /\ \A n \in Message : n # msg[th] => result'[n] = result[n]
  BY DEF Return
<1> QED
  BY <1>1, <1>2, <1>4, <1>5

(* The calls of the other threads are as before, whatever happens to the    *)
(* letters.                                                                 *)
LEMMA ReturnCalls ==
  ASSUME LedgerInv, NEW th \in Thread, NEW r \in {"true", "false"}, Return(th, r),
         UNCHANGED <<connected, delivered>>
  PROVE  CallsOK'
<1> SUFFICES ASSUME NEW o \in Thread PROVE CallOK(o)'
  BY DEF CallsOK
<1>1. CallOK(o)
  BY DEF LedgerInv, CallsOK
<1>2. CASE o = th
  BY <1>2, ReturnStep DEF CallOK
<1>3. CASE o # th
  <2>1. msg[o] # Log => msg[o] # msg[th] /\ msg[o] \in Message
    BY <1>1, <1>3 DEF CallOK, LedgerInv, CallsTypeOK
  <2>2. pc'[o] = pc[o] /\ msg'[o] = msg[o] /\ attempt'[o] = attempt[o]
    BY <1>3, ReturnStep
  <2>3. msg'[th] = Log /\ \A p \in Thread : p # th => msg'[p] = msg[p]
    BY ReturnStep
  <2>4. msg[o] # Log => result'[msg[o]] = result[msg[o]]
    BY <2>1, ReturnStep
  <2>5. msg[o] # Log => \A p \in Thread : msg'[p] = msg[o] => p = o
    BY <1>1, <2>3 DEF CallOK
  <2> QED
    BY <1>1, <2>2, <2>4, <2>5 DEF CallOK
<1> QED
  BY <1>2, <1>3

(* What is known of a message its call leaves alone. *)
LEMMA ReturnOthers ==
  ASSUME LedgerInv, NEW th \in Thread, NEW r \in {"true", "false"}, Return(th, r),
         UNCHANGED <<connected, delivered>>, NEW n \in Message, n # msg[th],
         Unlettered(n) => Unlettered(n)', LetteredOnce(n) => LetteredOnce(n)'
  PROVE  MessageOK(n)'
<1>1. MessageOK(n)
  BY DEF LedgerInv, MessagesOK
<1>2. result'[n] = result[n] /\ \A o \in Thread : o # th => msg'[o] = msg[o]
  <2>1. n \in Message /\ n # msg[th]
    OBVIOUS
  <2> QED BY <2>1, ReturnStep
<1>3. (\A o \in Thread : msg'[o] # n) => \A o \in Thread : msg[o] # n
  BY <1>2
<1> QED
  BY Zenon, <1>1, <1>2, <1>3 DEF MessageOK

LEMMA CloseInv ==
  ASSUME LedgerInv, NEW th \in Thread, Close(th) PROVE LedgerInv'
<1>1. pc[th] = "close" /\ Return(th, "true") /\ UNCHANGED <<connected, delivered, letters>>
  BY DEF Close
<1>2. CallsTypeOK'
  BY <1>1, ReturnStep DEF LedgerInv, CallsTypeOK
<1>3. ASSUME NEW n \in Message PROVE MessageOK(n)'
  <2>1. MessageOK(n) /\ CallOK(th)
    BY DEF LedgerInv, MessagesOK, CallsOK
  <2>2. CASE n # msg[th]
    <3>1. (Unlettered(n) <=> Unlettered(n)') /\ (LetteredOnce(n) <=> LetteredOnce(n)')
      BY <1>1 DEF Unlettered, LetteredOnce
    <3> QED
      BY <1>1, <2>2, <3>1, ReturnOthers
  <2>3. CASE n = msg[th]
    <3>1. n # Log
      OBVIOUS
    <3>2. delivered[n] > 0 /\ Unlettered(n)
      BY Zenon, <1>1, <2>1, <2>3, <3>1 DEF CallOK, MessageOK
    <3>3. result'[n] = "true"
      BY Zenon, <1>1, <2>3, <3>1, ReturnStep
    <3> QED
      BY Zenon, <1>1, <2>1, <3>2, <3>3 DEF MessageOK, Unlettered
  <2> QED
    BY <2>2, <2>3
<1> QED
  BY <1>1, <1>2, <1>3, ReturnCalls DEF LedgerInv, MessagesOK

(* Append, element by element. *)
LEMMA AppendElements ==
  ASSUME NEW m \in Message, letters \in Seq(Message), letters' = Append(letters, m)
  PROVE  /\ letters' \in Seq(Message) /\ Len(letters) \in Nat
         /\ DOMAIN letters = 1 .. Len(letters) /\ DOMAIN letters' = 1 .. Len(letters) + 1
         /\ letters'[Len(letters) + 1] = m
         /\ \A i \in 1 .. Len(letters) : letters'[i] = letters[i]
OBVIOUS

(* One letter more: its message now has one. *)
LEMMA NewLetter ==
  ASSUME NEW m \in Message, letters \in Seq(Message), letters' = Append(letters, m),
         Unlettered(m)
  PROVE  LetteredOnce(m)'
<1>1. Len(letters) + 1 \in DOMAIN letters'
  BY AppendElements
<1>2. \A j \in DOMAIN letters' : letters'[j] = m => j = Len(letters) + 1
  BY AppendElements DEF Unlettered
<1> QED
  BY <1>1, <1>2, AppendElements DEF LetteredOnce

(* The other messages have the letters they had. *)
LEMMA OldLetters ==
  ASSUME NEW m \in Message, letters \in Seq(Message), letters' = Append(letters, m),
         NEW n \in Message, n # m
  PROVE  /\ Unlettered(n) => Unlettered(n)'
         /\ LetteredOnce(n) => LetteredOnce(n)'
<1>1. ASSUME Unlettered(n) PROVE Unlettered(n)'
  BY <1>1, AppendElements DEF Unlettered
<1>2. ASSUME LetteredOnce(n) PROVE LetteredOnce(n)'
  <2>1. PICK i \in DOMAIN letters :
               letters[i] = n /\ \A j \in DOMAIN letters : letters[j] = n => j = i
    BY <1>2 DEF LetteredOnce
  <2>2. i \in DOMAIN letters' /\ letters'[i] = n
    BY <2>1, AppendElements
  <2>3. \A j \in DOMAIN letters' : letters'[j] = n => j = i
    BY <2>1, AppendElements
  <2> QED
    BY <2>2, <2>3 DEF LetteredOnce
<1> QED
  BY <1>1, <1>2

LEMMA BuryInv ==
  ASSUME LedgerInv, NEW th \in Thread, Bury(th) PROVE LedgerInv'
<1>1. /\ Return(th, "false") /\ UNCHANGED <<connected, delivered>>
      /\ letters' = IF msg[th] = Log THEN letters ELSE Append(letters, msg[th])
  BY Zenon DEF Bury
<1>2. letters \in Seq(Message) /\ msg[th] \in Message \cup {Log}
  BY DEF LedgerInv, CallsTypeOK
<1>3. letters' \in Seq(Message)
  BY <1>1, <1>2, AppendElements
<1>4. CallsTypeOK'
  BY Zenon, <1>1, <1>3, ReturnStep DEF LedgerInv, CallsTypeOK
<1>5. ASSUME NEW n \in Message PROVE MessageOK(n)'
  <2>1. MessageOK(n) /\ CallOK(th)
    BY DEF LedgerInv, MessagesOK, CallsOK
  <2>2. CASE msg[th] = Log
    <3>1. n # msg[th] /\ UNCHANGED letters
      BY <1>1, <2>2
    <3>2. (Unlettered(n) <=> Unlettered(n)') /\ (LetteredOnce(n) <=> LetteredOnce(n)')
      BY <3>1 DEF Unlettered, LetteredOnce
    <3> QED
      BY <1>1, <3>1, <3>2, ReturnOthers
  <2>3. CASE msg[th] # Log /\ n # msg[th]
    <3>1. msg[th] \in Message /\ letters' = Append(letters, msg[th])
      BY <1>1, <1>2, <2>3
    <3>2. (Unlettered(n) => Unlettered(n)') /\ (LetteredOnce(n) => LetteredOnce(n)')
      BY <1>2, <2>3, <3>1, OldLetters
    <3> QED
      BY <1>1, <2>3, <3>2, ReturnOthers
  <2>4. CASE msg[th] # Log /\ n = msg[th]
    <3>1. result'[n] = "false"
      BY <1>1, <2>4, ReturnStep
    <3>2. Unlettered(n)
      BY <2>1, <2>4 DEF CallOK, MessageOK
    <3>3. LetteredOnce(n)'
      BY <1>1, <1>2, <2>4, <3>2, NewLetter
    <3> QED
      BY <1>1, <2>1, <3>1, <3>3 DEF MessageOK
  <2> QED
    BY <2>2, <2>3, <2>4
<1> QED
  BY <1>1, <1>4, <1>5, ReturnCalls DEF LedgerInv, MessagesOK

(* LedgerInv is inductive. *)
THEOREM LedgerInvariance == Spec => []LedgerInv
<1>1. LedgerInv /\ [Next]_vars => LedgerInv'
  <2> SUFFICES ASSUME LedgerInv, [Next]_vars PROVE LedgerInv'
    OBVIOUS
  <2>1. ASSUME NEW th \in Thread, NEW m \in Message, publish(th, m) PROVE LedgerInv'
    BY <2>1, PublishInv
  <2>2. ASSUME NEW th \in Thread, publish_log(th) PROVE LedgerInv'
    BY <2>2, PublishLogInv
  <2>3. ASSUME NEW th \in Thread, Continue(th) PROVE LedgerInv'
    BY <2>3, BreakerInv, PublishOnceInv, CloseInv, BuryInv DEF Continue
  <2>4. CASE Drain \/ Tick \/ GoAway \/ ComeBack \/ UNCHANGED vars
    <3>1. UNCHANGED <<connected, pc, msg, attempt, result, delivered, letters>>
      BY <2>4 DEF Drain, Tick, GoAway, ComeBack, vars, locals, ledger
    <3> QED
      BY <3>1, IdleInv
  <2> QED
    BY <2>1, <2>2, <2>3, <2>4 DEF Next
<1> QED
  BY LedgerInit, <1>1, PTL DEF Spec

(* nats_client.cpp:190-230: with a connection, publish returns true only    *)
(* for a message the broker stored and that is no dead letter, and false    *)
(* only for one that was dead-lettered exactly once; no message is stored   *)
(* more than kMaxRetries times.  For any number of threads and messages.    *)
THEOREM EveryPublishAccounted == Spec => []Accounted
BY LedgerInvariance, LedgerAccounted, PTL

-----------------------------------------------------------------------------
(***************************************************************************)
(* The dead-letter queue.  Its entries are dead letters in the order they  *)
(* were buried, so that what push evicts is older than what it keeps.      *)
(***************************************************************************)
InQueue(m) == \E p \in DOMAIN dlq : dlq[p] = m

LettersDiffer == \A i, j \in DOMAIN letters : letters[i] = letters[j] => i = j

QueueInOrder ==
  \A p, q \in DOMAIN dlq : \A i, j \in DOMAIN letters :
    p < q /\ dlq[p] = letters[i] /\ dlq[q] = letters[j] => i < j

NewestIn ==
  \A i, j \in DOMAIN letters :
    i < j /\ InQueue(letters[i]) /\ letters[j] \notin taken => InQueue(letters[j])

(* dead_letter_queue.cpp: the queue never holds more than its capacity. *)
QueueBounded == Len(dlq) <= Capacity

QueueLettered == \A p \in DOMAIN dlq : dlq[p] = Log \/ \E i \in DOMAIN letters : letters[i] = dlq[p]

QueueInv ==
  /\ dlq \in Seq(Message \cup {Log}) /\ QueueBounded
  /\ LettersDiffer /\ QueueLettered /\ QueueInOrder /\ NewestIn

LEMMA QueueInit == Init => QueueInv
BY DEF Init, QueueInv, QueueBounded, LettersDiffer, QueueLettered, QueueInOrder, NewestIn, InQueue

(* A push moves the entries to the front by k and puts m behind them. *)
Shifted(k, m) ==
  /\ k \in Nat /\ dlq' \in Seq(Message \cup {Log})
  /\ \A p \in DOMAIN dlq' : \/ p + k \in DOMAIN dlq /\ dlq'[p] = dlq[p + k]
                            \/ dlq'[p] = m /\ \A q \in DOMAIN dlq' : q <= p
  /\ \A q \in DOMAIN dlq : q > k => q - k \in DOMAIN dlq' /\ dlq'[q - k] = dlq[q]
  /\ k <= 1 /\ \E p \in DOMAIN dlq' : dlq'[p] = m

LEMMA ShiftedBy ==
  ASSUME NEW m \in Message \cup {Log}, NEW k \in 0 .. 1, NEW n \in Nat, k <= n,
         dlq \in Seq(Message \cup {Log}), dlq' \in Seq(Message \cup {Log}),
         Len(dlq) = n, Len(dlq') = n - k + 1,
         \A p \in 1 .. n - k : dlq'[p] = dlq[p + k], dlq'[n - k + 1] = m
  PROVE  Shifted(k, m)
<1>1. DOMAIN dlq = 1 .. n /\ DOMAIN dlq' = 1 .. n - k + 1
  OBVIOUS
<1>2. \A p \in DOMAIN dlq' : \/ p + k \in DOMAIN dlq /\ dlq'[p] = dlq[p + k]
                             \/ dlq'[p] = m /\ \A q \in DOMAIN dlq' : q <= p
  <2> SUFFICES ASSUME NEW p \in DOMAIN dlq'
               PROVE  \/ p + k \in DOMAIN dlq /\ dlq'[p] = dlq[p + k]
                      \/ dlq'[p] = m /\ \A q \in DOMAIN dlq' : q <= p
    OBVIOUS
  <2>1. CASE p \in 1 .. n - k
    <3>1. p + k \in 1 .. n
      BY <2>1
    <3> QED BY <1>1, <2>1, <3>1
  <2>2. CASE p = n - k + 1
    <3>1. \A q \in DOMAIN dlq' : q <= p
      BY <1>1, <2>2
    <3> QED BY <2>2, <3>1
  <2> QED BY <1>1, <2>1, <2>2
<1>3. \A q \in DOMAIN dlq : q > k => q - k \in DOMAIN dlq' /\ dlq'[q - k] = dlq[q]
  <2> SUFFICES ASSUME NEW q \in 1 .. n, q > k
               PROVE  q - k \in 1 .. n - k + 1 /\ dlq'[q - k] = dlq[q]
    BY Zenon, <1>1
  <2>1. q - k \in 1 .. n - k /\ q - k + k = q /\ q - k \in 1 .. n - k + 1
    OBVIOUS
  <2> QED BY <2>1
<1>4. \E p \in DOMAIN dlq' : dlq'[p] = m
  BY <1>1
<1>5. k \in Nat /\ k <= 1
  OBVIOUS
<1> QED BY <1>2, <1>3, <1>4, <1>5 DEF Shifted

LEMMA PushShifts ==
  ASSUME NEW m \in Message \cup {Log}, dlq \in Seq(Message \cup {Log}), QueueBounded,
         dlq' = Pushed(dlq, m)
  PROVE  QueueBounded' /\ \E k \in Nat : Shifted(k, m)
<1> DEFINE S == Message \cup {Log}
           n == Len(dlq)
<1>1. n \in Nat /\ n <= Capacity /\ Capacity \in Nat /\ Capacity > 0 /\ m \in S /\ dlq \in Seq(S)
  BY DEF QueueBounded
<1> HIDE DEF S
<1>2. CASE n >= Capacity
  <2>1. dlq' = Append(Tail(dlq), m) /\ n = Capacity /\ dlq # << >>
    BY <1>1, <1>2 DEF Pushed
  <2>2. /\ Tail(dlq) \in Seq(S) /\ Len(Tail(dlq)) = n - 1
        /\ \A p \in 1 .. n - 1 : Tail(dlq)[p] = dlq[p + 1]
    BY <1>1, <2>1
  <2>3. /\ dlq' \in Seq(S) /\ Len(dlq') = n /\ dlq'[n] = m
        /\ \A p \in 1 .. n - 1 : dlq'[p] = Tail(dlq)[p]
    BY <1>1, <2>1, <2>2
  <2>4. \A p \in 1 .. n - 1 : dlq'[p] = dlq[p + 1]
    BY <2>2, <2>3
  <2>5. 1 <= n /\ n = n - 1 + 1 /\ 1 \in 0 .. 1
    BY <1>1, <2>1
  <2> HIDE DEF n
  <2>6. Shifted(1, m)
    BY <1>1, <2>3, <2>4, <2>5, ShiftedBy DEF S, n
  <2> QED BY <1>1, <2>3, <2>6 DEF QueueBounded
<1>3. CASE n < Capacity
  <2>1. dlq' = Append(dlq, m)
    BY <1>1, <1>3 DEF Pushed
  <2>2. /\ dlq' \in Seq(S) /\ Len(dlq') = n + 1 /\ dlq'[n + 1] = m
        /\ \A p \in 1 .. n : dlq'[p] = dlq[p]
    BY <1>1, <2>1
  <2>3. n + 1 = n - 0 + 1 /\ 0 <= n /\ 0 \in 0 .. 1 /\ \A p \in 1 .. n - 0 : dlq'[p] = dlq[p + 0]
    BY <1>1, <2>2
  <2>4. Shifted(0, m)
    BY <1>1, <2>2, <2>3, ShiftedBy DEF S
  <2> QED BY <1>1, <1>3, <2>2, <2>4 DEF QueueBounded
<1> QED BY <1>1, <1>2, <1>3

(* The letters there were before: whether they stay in the queue, and their *)
(* order.                                                                   *)
LEMMA OldEntries ==
  ASSUME QueueInv, letters \in Seq(Message), NEW m \in Message \cup {Log},
         \A i \in DOMAIN letters : letters[i] # m, NEW k \in Nat, Shifted(k, m)
  PROVE  /\ \A p \in DOMAIN dlq', i \in DOMAIN letters :
              dlq'[p] = letters[i] => p + k \in DOMAIN dlq /\ dlq[p + k] = letters[i]
         /\ \A p, q \in DOMAIN dlq' : \A i, j \in DOMAIN letters :
              p < q /\ dlq'[p] = letters[i] /\ dlq'[q] = letters[j] => i < j
         /\ \A i, j \in DOMAIN letters :
              i < j /\ (\E p \in DOMAIN dlq' : dlq'[p] = letters[i]) /\ letters[j] \notin taken =>
                \E q \in DOMAIN dlq' : dlq'[q] = letters[j]
<1>0. /\ DOMAIN dlq \subseteq Nat \ {0} /\ DOMAIN dlq' \subseteq Nat \ {0}
      /\ DOMAIN letters \subseteq Nat \ {0}
  <2>1. dlq \in Seq(Message \cup {Log}) /\ dlq' \in Seq(Message \cup {Log})
    BY DEF QueueInv, Shifted
  <2>2. DOMAIN dlq = 1 .. Len(dlq) /\ Len(dlq) \in Nat
    BY <2>1
  <2>3. DOMAIN dlq' = 1 .. Len(dlq') /\ Len(dlq') \in Nat
    BY <2>1
  <2>4. DOMAIN letters = 1 .. Len(letters) /\ Len(letters) \in Nat
    OBVIOUS
  <2> QED BY <2>2, <2>3, <2>4
<1>1. ASSUME NEW p \in DOMAIN dlq', NEW i \in DOMAIN letters, dlq'[p] = letters[i]
      PROVE  p + k \in DOMAIN dlq /\ dlq[p + k] = letters[i]
  BY <1>1 DEF Shifted
<1>2. ASSUME NEW p \in DOMAIN dlq', NEW q \in DOMAIN dlq', NEW i \in DOMAIN letters,
             NEW j \in DOMAIN letters, p < q, dlq'[p] = letters[i], dlq'[q] = letters[j]
      PROVE  i < j
  <2>1. p + k \in DOMAIN dlq /\ dlq[p + k] = letters[i]
    BY <1>1, <1>2
  <2>2. q + k \in DOMAIN dlq /\ dlq[q + k] = letters[j]
    BY <1>1, <1>2
  <2>3. p + k < q + k
    BY <1>0, <1>2
  <2> QED BY <2>1, <2>2, <2>3 DEF QueueInv, QueueInOrder
<1>3. ASSUME NEW i \in DOMAIN letters, NEW j \in DOMAIN letters, i < j, letters[j] \notin taken,
             NEW p \in DOMAIN dlq', dlq'[p] = letters[i]
      PROVE  \E q \in DOMAIN dlq' : dlq'[q] = letters[j]
  <2>1. p + k \in DOMAIN dlq /\ dlq[p + k] = letters[i]
    BY <1>1, <1>3
  <2>2. PICK q \in DOMAIN dlq : dlq[q] = letters[j]
    BY Zenon, <1>3, <2>1 DEF QueueInv, NewestIn, InQueue
  <2>3. q > k
    <3>1. ~ (q < p + k)
      BY <1>0, <1>3, <2>1, <2>2 DEF QueueInv, QueueInOrder
    <3>2. p \in Nat \ {0} /\ q \in Nat \ {0}
      BY <1>0, <2>2, Zenon
    <3> QED BY <3>1, <3>2
  <2> QED BY <2>2, <2>3 DEF Shifted
<1> QED BY <1>1, <1>2, <1>3

(* What is buried was never buried before. *)
LEMMA BuriedIsNew ==
  ASSUME LedgerInv, NEW th \in Thread, pc[th] = "bury"
  PROVE  /\ letters \in Seq(Message) /\ msg[th] \in Message \cup {Log}
         /\ \A i \in DOMAIN letters : letters[i] # msg[th]
<1>1. letters \in Seq(Message) /\ msg[th] \in Message \cup {Log} /\ CallOK(th)
  BY DEF LedgerInv, CallsTypeOK, CallsOK
<1>2. CASE msg[th] = Log
  BY <1>1, <1>2, ConstantsAssumption
<1>3. CASE msg[th] \in Message
  <2>1. MessageOK(msg[th])
    BY <1>3 DEF LedgerInv, MessagesOK
  <2>2. Unlettered(msg[th])
    BY <1>1, <1>3, <2>1, ConstantsAssumption DEF CallOK, MessageOK
  <2> QED BY <1>1, <2>2 DEF Unlettered
<1> QED BY <1>1, <1>2, <1>3

LEMMA QueueBury ==
  ASSUME LedgerInv, QueueInv, NEW th \in Thread, Bury(th)
  PROVE  QueueInv'
<1> DEFINE m == msg[th]
           n == Len(letters)
<1>1. /\ letters \in Seq(Message) /\ m \in Message \cup {Log} /\ n \in Nat
      /\ \A i \in DOMAIN letters : letters[i] # m
  <2>1. pc[th] = "bury"
    BY Zenon DEF Bury
  <2>2. /\ letters \in Seq(Message) /\ m \in Message \cup {Log}
        /\ \A i \in DOMAIN letters : letters[i] # m
    BY <2>1, BuriedIsNew
  <2> QED BY <2>2
<1>2. /\ dlq' = Pushed(dlq, m) /\ taken' = taken
      /\ letters' = IF m = Log THEN letters ELSE Append(letters, m)
  BY DEF Bury
<1>3. dlq \in Seq(Message \cup {Log}) /\ QueueBounded
  BY DEF QueueInv
<1> HIDE DEF m
<1>4. QueueBounded'
  BY <1>1, <1>2, <1>3, PushShifts
<1>5. PICK k \in Nat : Shifted(k, m)
  BY <1>1, <1>2, <1>3, PushShifts
<1>6. \A p \in DOMAIN dlq', i \in DOMAIN letters :
        dlq'[p] = letters[i] => p + k \in DOMAIN dlq /\ dlq[p + k] = letters[i]
  BY <1>1, <1>5, OldEntries
<1>7. \A p, q \in DOMAIN dlq' : \A i, j \in DOMAIN letters :
        p < q /\ dlq'[p] = letters[i] /\ dlq'[q] = letters[j] => i < j
  BY <1>1, <1>5, OldEntries
<1>8. \A i, j \in DOMAIN letters :
        i < j /\ (\E p \in DOMAIN dlq' : dlq'[p] = letters[i]) /\ letters[j] \notin taken =>
          \E q \in DOMAIN dlq' : dlq'[q] = letters[j]
  BY <1>1, <1>5, OldEntries
<1>9. /\ dlq' \in Seq(Message \cup {Log}) /\ \E p \in DOMAIN dlq' : dlq'[p] = m
      /\ \A p \in DOMAIN dlq' : \/ p + k \in DOMAIN dlq /\ dlq'[p] = dlq[p + k]
                                \/ dlq'[p] = m /\ \A q \in DOMAIN dlq' : q <= p
      /\ DOMAIN dlq' \subseteq Nat
  BY <1>5 DEF Shifted
<1>10. CASE m = Log
  <2>1. letters' = letters
    BY <1>2, <1>10
  <2>2. LettersDiffer' /\ QueueInOrder' /\ NewestIn'
    <3>1. LettersDiffer'
      BY <2>1 DEF QueueInv, LettersDiffer
    <3>2. QueueInOrder'
      BY <1>7, <2>1, Zenon DEF QueueInOrder
    <3>3. NewestIn'
      <4> SUFFICES ASSUME NEW i \in DOMAIN letters, NEW j \in DOMAIN letters,
                          i < j, InQueue(letters[i])', letters[j] \notin taken
                   PROVE  InQueue(letters[j])'
        BY <1>2, <2>1 DEF NewestIn
      <4>1. InQueue(letters[i])' <=> \E p \in DOMAIN dlq' : dlq'[p] = letters[i]
        BY <2>1 DEF InQueue
      <4> QED BY <1>8, <2>1, <4>1 DEF InQueue
    <3> QED BY <3>1, <3>2, <3>3
  <2>3. QueueLettered'
    BY <1>9, <1>10, <2>1 DEF QueueInv, QueueLettered
  <2> QED BY <1>4, <1>9, <2>2, <2>3 DEF QueueInv
<1>11. CASE m \in Message
  <2>1. letters' = Append(letters, m)
    BY <1>2, <1>11, ConstantsAssumption
  <2>2. /\ DOMAIN letters' = 1 .. n + 1 /\ letters'[n + 1] = m /\ DOMAIN letters = 1 .. n
        /\ \A i \in 1 .. n : letters'[i] = letters[i]
    BY <1>1, <1>11, <2>1
  <2>3. \A i \in DOMAIN letters' : i \in Nat /\ (i \in DOMAIN letters \/ i = n + 1)
    BY <1>1, <2>2
  <2>4. \A i \in DOMAIN letters : i \in DOMAIN letters' /\ i < n + 1 /\ letters'[i] = letters[i] /\ letters[i] # m
    BY <1>1, <2>2
  <2>5. n + 1 \in DOMAIN letters' /\ letters'[n + 1] = m
    BY <1>1, <2>2
  <2> DEFINE L == n + 1
  <2> HIDE DEF L, n
  <2>6. LettersDiffer'
    BY <2>3, <2>4, <2>5 DEF QueueInv, LettersDiffer, L
  <2>7. QueueLettered'
    BY <1>9, <2>3, <2>4, <2>5 DEF QueueInv, QueueLettered, L
  <2>8. QueueInOrder'
    <3> SUFFICES ASSUME NEW p \in DOMAIN dlq', NEW q \in DOMAIN dlq',
                        NEW i \in DOMAIN letters', NEW j \in DOMAIN letters',
                        p < q, dlq'[p] = letters'[i], dlq'[q] = letters'[j]
                 PROVE  i < j
      BY DEF QueueInOrder
    <3>1. CASE i \in DOMAIN letters /\ j \in DOMAIN letters
      BY <1>7, <2>4, <3>1
    <3>2. CASE i \in DOMAIN letters /\ j = n + 1
      BY <2>4, <3>2
    <3>3. CASE i = n + 1
      <4>1. dlq'[p] = m
        BY <2>5, <3>3
      <4>2. ~ (\A r \in DOMAIN dlq' : r <= p)
        BY <1>9
      <4>3. p + k \in DOMAIN dlq /\ dlq[p + k] = m
        BY <1>9, <4>1, <4>2
      <4>4. m # Log
        BY <1>11, ConstantsAssumption
      <4> QED BY <1>1, <4>3, <4>4 DEF QueueInv, QueueLettered
    <3> QED BY <2>3, <3>1, <3>2, <3>3
  <2>9. NewestIn'
    <3> SUFFICES ASSUME NEW i \in DOMAIN letters', NEW j \in DOMAIN letters',
                        i < j, InQueue(letters[i])', letters'[j] \notin taken
                 PROVE  InQueue(letters[j])'
      BY <1>2 DEF NewestIn
    <3>1. CASE j = n + 1
      BY Zenon, <1>9, <2>5, <3>1 DEF InQueue
    <3>2. CASE j \in DOMAIN letters
      <4>1. i \in DOMAIN letters
        BY <2>3, <2>4, <3>2
      <4> QED BY <1>8, <2>4, <3>2, <4>1 DEF InQueue
    <3> QED BY <2>3, <3>1, <3>2
  <2> QED BY <1>4, <1>9, <2>6, <2>7, <2>8, <2>9 DEF QueueInv
<1> QED BY <1>1, <1>10, <1>11

LEMMA QueueStep ==
  ASSUME LedgerInv, QueueInv, [Next]_vars
  PROVE  QueueInv'
<1>1. ASSUME NEW th \in Thread, Bury(th)
      PROVE  QueueInv'
  BY <1>1, QueueBury
<1>2. CASE Drain
  <2>1. dlq' = << >> /\ letters' = letters
    BY <1>2 DEF Drain
  <2>2. /\ dlq' \in Seq(Message \cup {Log}) /\ Len(dlq') = 0 /\ DOMAIN dlq' = {}
        /\ Capacity \in Nat
    BY <2>1, ConstantsAssumption
  <2>3. QueueBounded' /\ LettersDiffer'
    BY <2>1, <2>2 DEF QueueInv, QueueBounded, LettersDiffer
  <2>4. QueueLettered' /\ QueueInOrder' /\ NewestIn'
    BY <2>2 DEF QueueLettered, QueueInOrder, NewestIn, InQueue
  <2> QED BY <2>2, <2>3, <2>4 DEF QueueInv
<1>3. CASE dlq' = dlq /\ letters' = letters /\ taken' = taken
  <2>1. (dlq' \in Seq(Message \cup {Log})) /\ QueueBounded' /\ LettersDiffer' /\ QueueLettered'
    BY <1>3 DEF QueueInv, QueueBounded, LettersDiffer, QueueLettered
  <2>2. QueueInOrder' /\ NewestIn'
    BY <1>3 DEF QueueInv, QueueInOrder, NewestIn, InQueue
  <2> QED BY <2>1, <2>2 DEF QueueInv
<1>4. ASSUME NEW th \in Thread, \E m \in Message : publish(th, m)
      PROVE  dlq' = dlq /\ letters' = letters /\ taken' = taken
  BY <1>4 DEF publish
<1>5. ASSUME NEW th \in Thread, publish_log(th)
      PROVE  dlq' = dlq /\ letters' = letters /\ taken' = taken
  BY <1>5 DEF publish_log, ledger
<1>6. ASSUME NEW th \in Thread, Continue(th), ~ Bury(th)
      PROVE  dlq' = dlq /\ letters' = letters /\ taken' = taken
  <2>1. CASE allow_attempt(th) \/ Elapsed(th) \/ HalfOpen(th)
    BY Zenon, <2>1 DEF allow_attempt, Elapsed, HalfOpen, ledger
  <2>2. CASE do_publish_once(th)
    BY Zenon, <2>2 DEF do_publish_once
  <2>3. CASE ResetCount(th) \/ Close(th)
    BY <2>3 DEF ResetCount, Close, ledger
  <2>4. CASE CountFailure(th) \/ Judge(th) \/ StampOpen(th) \/ Open(th)
    BY Zenon, <2>4 DEF CountFailure, Judge, StampOpen, Open, ledger
  <2> QED BY <1>6, <2>1, <2>2, <2>3, <2>4 DEF Continue
<1>7. CASE Tick \/ GoAway \/ ComeBack \/ UNCHANGED vars
  <2>1. dlq' = dlq /\ letters' = letters /\ taken' = taken
    BY <1>7 DEF Tick, GoAway, ComeBack, vars, ledger
  <2> QED BY <1>3, <2>1
<1> QED BY <1>1, <1>2, <1>3, <1>4, <1>5, <1>6, <1>7 DEF Next

(* dead_letter_queue.cpp: the queue holds dead letters in the order they    *)
(* were buried, each of them once, and never more than its capacity.        *)
THEOREM QueueInvariance == Spec => [](LedgerInv /\ QueueInv)
<1>1. LedgerInv /\ QueueInv /\ [Next]_vars => QueueInv'
  BY QueueStep
<1> QED BY <1>1, QueueInit, LedgerInvariance, PTL DEF Spec

(* dead_letter_queue.cpp:7-15: push evicts the oldest entry, so dead letters *)
(* are lost only to newer ones, for any number of publishing threads and     *)
(* any capacity.                                                             *)
THEOREM NewestKept == Spec => []KeepsNewest
<1>1. QueueInv => KeepsNewest
  BY Zenon DEF QueueInv, NewestIn, InQueue, KeepsNewest, Range
<1> QED BY <1>1, QueueInvariance, PTL
=============================================================================
