-------------------------- MODULE TaskClaimerProofs --------------------------
(***************************************************************************)
(* What the claimer and the shutdown of the daemon guarantee for any teams,*)
(* tasks, calls and faults.                                                *)
(*                                                                         *)
(* OneAtATime counts calls; the induction speaks of one or two calls at a  *)
(* time (Marked) and adds the tasks a call has still to claim (Listed), the*)
(* lock objects (Locked) and where the daemon is (Draining).               *)
(***************************************************************************)
EXTENDS TaskClaimer, FiniteSetTheorems, TLAPS

Lock == Team \X Call

TypeOK ==
  /\ status \in [Task -> {"blocked", "ready", "claimed"}]
  /\ events \subseteq Task
  /\ call \in [Call -> CallRecord \cup {NoCall}]
  /\ cancelled \subseteq Call /\ waiting \subseteq Call
  /\ advancing \subseteq Team
  /\ locks \in [Team -> Lock \cup {NoLock}]
  /\ shutting_down \in BOOLEAN /\ shutdown_event \in BOOLEAN
  /\ daemon \in {"serve", "drain", "stop"}

\* The call is inside its try block.
Inside(c) == call[c] # NoCall /\ call[c].pc \in {"fetch", "claim"}

\* _advancing holds the teams of the calls that are inside, and each is inside once.
Marked ==
  /\ \A c \in Call : Inside(c) => call[c].team \in advancing
  /\ \A c, d \in Call : Inside(c) /\ Inside(d) /\ call[c].team = call[d].team => c = d
  /\ \A m \in advancing : \E c \in Call : Inside(c) /\ call[c].team = m

\* What a call has still to claim is ready, and of its team.
Listed ==
  \A c \in Call : Inside(c) /\ call[c].pc = "claim" =>
    \A t \in call[c].todo : TeamOf[t] = call[c].team /\ status[t] = "ready"

\* A team's lock is its own, and only a call that is inside holds one.
Locked ==
  /\ \A m \in Team : locks[m] # NoLock => locks[m][1] = m
  /\ \A c \in Call : call[c] # NoCall /\ call[c].lock # NoLock =>
       Inside(c) /\ call[c].lock[1] = call[c].team

\* From its drain on, the daemon starts no call, and waits for those it finds.
Draining ==
  /\ shutdown_event => shutting_down
  /\ daemon # "serve" => shutting_down
  /\ daemon = "drain" => \A c \in Call \ waiting : Finished(c)
  /\ daemon = "stop" => \A c \in Call : Finished(c)

Inv == TypeOK /\ Marked /\ Listed /\ Locked /\ Draining

-----------------------------------------------------------------------------
\* A claim is sent only for a task that nobody has claimed (claim_task in
\* TaskClaimer.advance_dag): coalescing makes the list of ready tasks stay true until the
\* call has gone through it.
ClaimedOnce == \A c \in Call : At(c, "claim") => \A t \in call[c].todo : status[t] # "claimed"

\* advance_dag never waits for the lock of a team: the mark in _advancing, tested before,
\* already keeps a second call out, also after cleanup_idle_teams removed the lock.
LockIsFree ==
  \A c \in Call : At(c, "created") /\ call[c].team \notin advancing =>
    LET m == call[c].team IN ~ Held(IF locks[m] = NoLock THEN <<m, c>> ELSE locks[m])

\* When run() is past its drain no call is in flight (daemon.py), whether the drain ended by
\* itself or by its timeout.
QuietAfterStop == daemon = "stop" => \A c \in Call : Finished(c)

-----------------------------------------------------------------------------
USE ConstantsAssumption

LEMMA InitInv == Init => Inv
<1> SUFFICES ASSUME Init PROVE Inv
  OBVIOUS
<1>1. TypeOK
  BY Zenon DEF Init, TypeOK
<1>2. Marked /\ Listed /\ Locked
  BY DEF Init, Marked, Listed, Locked, Inside
<1>3. Draining
  BY DEF Init, Draining, Finished
<1> QED BY <1>1, <1>2, <1>3 DEF Inv

\* All calls but c are left alone.
OthersSame(c) == \A d \in Call \ {c} : call'[d] = call[d]

\* A call that is in flight changes its location, its list or its lock.
LEMMA Moved ==
  ASSUME TypeOK, NEW c \in Call, call[c] # NoCall, NEW r \in CallRecord, r.team = call[c].team,
         call' = [call EXCEPT ![c] = r]
  PROVE  /\ call' \in [Call -> CallRecord \cup {NoCall}]
         /\ call'[c] = r /\ call'[c] # NoCall /\ call[c].team \in Team /\ OthersSame(c)
<1>1. call \in [Call -> CallRecord \cup {NoCall}]
  BY DEF TypeOK
<1>2. call[c].team \in Team
  BY DEF CallRecord
<1> QED BY <1>1, <1>2 DEF OthersSame

\* What the parts of the invariant say of a call whose record stays.
LEMMA SameCall ==
  ASSUME NEW d \in Call, call'[d] = call[d]
  PROVE  (Inside(d)' <=> Inside(d)) /\ (Finished(d)' <=> Finished(d))
BY DEF Inside, Finished

\* A step of the server, of the locks or of the daemon leaves every call where it is.
LEMMA CallsKept ==
  ASSUME Inv, UNCHANGED <<call, advancing>>, status' \in [Task -> {"blocked", "ready", "claimed"}],
         \A t \in Task : status[t] = "ready" => status'[t] = "ready",
         events' \subseteq Task, cancelled' \subseteq Call, waiting' \subseteq Call,
         \A m \in Team : locks'[m] \in {locks[m], NoLock}, locks' \in [Team -> Lock \cup {NoLock}],
         shutting_down' \in BOOLEAN, shutdown_event' \in BOOLEAN,
         daemon' \in {"serve", "drain", "stop"}, Draining'
  PROVE  Inv'
<1>1. TypeOK'
  BY DEF Inv, TypeOK
<1>2. Marked'
  BY DEF Inv, Marked, Inside
<1>3. Listed'
  <2>1. ASSUME NEW c \in Call, Inside(c), call[c].pc = "claim", NEW t \in call[c].todo
        PROVE  TeamOf[t] = call[c].team /\ status'[t] = "ready"
    <3>1. call[c] \in CallRecord
      BY <2>1 DEF Inv, TypeOK, Inside
    <3>2. t \in Task
      BY <3>1 DEF CallRecord
    <3> QED BY <2>1, <3>2 DEF Inv, Listed
  <2> QED BY <2>1, SameCall DEF Listed
<1>4. Locked'
  BY DEF Inv, Locked, Inside
<1> QED BY <1>1, <1>2, <1>3, <1>4 DEF Inv

\* advance_dag_tracked: calls that were not in flight are created, unless the listener stops.
LEMMA CallsCreated ==
  ASSUME Inv, UNCHANGED <<status, cancelled, advancing, locks, shutting_down, shutdown_event, daemon, waiting>>,
         events' \subseteq Task, call' \in [Call -> CallRecord \cup {NoCall}], ~ shutting_down,
         \A d \in Call : call'[d] = call[d] \/ (call[d] = NoCall /\ \E m \in Team : call'[d] = Created(m))
  PROVE  Inv'
<1>1. \A d \in Call : Inside(d)' <=> Inside(d)
  BY DEF Inside, Created
<1>2. \A d \in Call : Inside(d) => call'[d] = call[d]
  BY DEF Inside
<1>3. TypeOK'
  BY DEF Inv, TypeOK
<1>4. Marked'
  BY <1>1, <1>2 DEF Inv, Marked
<1>5. Listed'
  BY <1>1, <1>2 DEF Inv, Listed
<1>6. Locked'
  <2>1. ASSUME NEW d \in Call, call'[d] # NoCall, call'[d].lock # NoLock
        PROVE  Inside(d) /\ call'[d] = call[d]
    <3>1. call'[d] = call[d]
      BY <2>1 DEF Created
    <3> QED BY <2>1, <3>1 DEF Inv, Locked
  <2> QED BY <1>1, <2>1 DEF Inv, Locked
<1>7. Draining'
  BY DEF Inv, Draining
<1> QED BY <1>3, <1>4, <1>5, <1>6, <1>7 DEF Inv

\* The try block is left.
LEMMA Left ==
  ASSUME Inv, NEW c \in Call, Inside(c), Finish(c), UNCHANGED <<status, events, cancelled, locks, process>>
  PROVE  Inv'
<1>0. TypeOK /\ call[c] # NoCall
  BY DEF Inv, Inside
<1>1. /\ call' \in [Call -> CallRecord \cup {NoCall}]
      /\ call'[c] # NoCall /\ call'[c].team = call[c].team /\ call[c].team \in Team
      /\ call'[c].pc = "done" /\ call'[c].lock = NoLock /\ OthersSame(c)
  <2> DEFINE r == [call[c] EXCEPT !.pc = "done", !.todo = {}, !.lock = NoLock]
  <2>1. call[c] \in CallRecord
    BY <1>0 DEF TypeOK
  <2>2. r \in CallRecord /\ r.team = call[c].team /\ r.pc = "done" /\ r.lock = NoLock
    BY Zenon, <2>1 DEF CallRecord
  <2>3. call' = [call EXCEPT ![c] = r]
    BY Zenon DEF Finish
  <2> HIDE DEF r
  <2> QED BY Zenon, <1>0, <2>2, <2>3, Moved
<1>2. advancing' = advancing \ {call[c].team}
  BY DEF Finish
<1>3. ~ Inside(c)' /\ \A d \in Call \ {c} : Inside(d)' <=> Inside(d)
  BY <1>1, SameCall DEF Inside, OthersSame
<1>4. TypeOK'
  BY <1>1, <1>2 DEF Inv, TypeOK, process
<1>5. Marked'
  <2>1. \A d \in Call : Inside(d)' => d # c /\ Inside(d) /\ call'[d] = call[d]
    BY <1>1, <1>3 DEF OthersSame
  <2>2. \A d \in Call : Inside(d)' => call'[d].team \in advancing'
    BY <1>2, <2>1 DEF Inv, Marked
  <2>3. \A d, e \in Call : Inside(d)' /\ Inside(e)' /\ call'[d].team = call'[e].team => d = e
    BY <2>1 DEF Inv, Marked
  <2>4. ASSUME NEW m \in advancing' PROVE \E d \in Call : Inside(d)' /\ call'[d].team = m
    <3>1. PICK d \in Call : Inside(d) /\ call[d].team = m
      BY <1>2 DEF Inv, Marked
    <3>2. d # c
      BY <1>2, <3>1
    <3> QED BY <1>1, <1>3, <3>1, <3>2 DEF OthersSame
  <2> QED BY <2>2, <2>3, <2>4 DEF Marked
<1>6. Listed'
  BY <1>1, <1>3 DEF Inv, Listed, OthersSame
<1>7. Locked'
  BY <1>1, <1>3 DEF Inv, Locked, OthersSame
<1>8. Draining'
  <2>1. \A d \in Call : Finished(d) => Finished(d)'
    BY <1>1, SameCall DEF Finished, OthersSame
  <2> QED BY <2>1 DEF Inv, Draining, process
<1> QED BY <1>4, <1>5, <1>6, <1>7, <1>8 DEF Inv

\* A call that has not taken its first step ends: it was coalesced, or cancelled.
LEMMA Dropped ==
  ASSUME Inv, NEW c \in Call, call[c] # NoCall, call[c].pc = "created",
         call' = [call EXCEPT ![c].pc = "done"], UNCHANGED <<server, cancelled, advancing, locks, process>>
  PROVE  Inv'
<1> DEFINE r == [call[c] EXCEPT !.pc = "done"]
<1>0. TypeOK /\ call[c] \in CallRecord /\ ~ Inside(c)
  BY DEF Inv, TypeOK, Inside
<1>1. r \in CallRecord /\ r.team = call[c].team /\ r.pc = "done" /\ r.lock = call[c].lock
  BY <1>0 DEF CallRecord
<1>2. call' = [call EXCEPT ![c] = r]
  OBVIOUS
<1> HIDE DEF r
<1>3. call' \in [Call -> CallRecord \cup {NoCall}] /\ call'[c] = r /\ r # NoCall /\ OthersSame(c)
  BY Zenon, <1>0, <1>1, <1>2, Moved
<1>4. \A d \in Call : (Inside(d)' <=> Inside(d)) /\ (Inside(d) => d # c /\ call'[d] = call[d])
  BY <1>0, <1>1, <1>3, SameCall DEF Inside, OthersSame
<1>5. TypeOK'
  BY <1>3 DEF Inv, TypeOK, server, process
<1>6. Marked'
  BY <1>4 DEF Inv, Marked
<1>7. Listed'
  BY <1>4 DEF Inv, Listed, server
<1>8. Locked'
  <2>1. call[c].lock = NoLock
    BY <1>0 DEF Inv, Locked
  <2> QED BY <1>1, <1>3, <1>4, <2>1 DEF Inv, Locked, OthersSame
<1>9. Draining'
  <2>1. \A d \in Call : Finished(d) => Finished(d)'
    BY <1>1, <1>3, SameCall DEF Finished, OthersSame
  <2> QED BY <2>1 DEF Inv, Draining, process
<1> QED BY <1>5, <1>6, <1>7, <1>8, <1>9 DEF Inv

LEMMA AdvanceInv == ASSUME Inv, NEW c \in Call, advance_dag(c) PROVE Inv'
<1> DEFINE m == call[c].team
           lock == IF locks[m] = NoLock THEN <<m, c>> ELSE locks[m]
           r == [call[c] EXCEPT !.pc = "fetch", !.lock = lock]
<1>0. TypeOK /\ call[c] # NoCall /\ call[c] \in CallRecord /\ call[c].pc = "created" /\ ~ Inside(c)
  BY DEF Inv, TypeOK, advance_dag, At, Inside
<1>1. CASE m \in advancing
  BY <1>0, <1>1, Dropped DEF advance_dag, server, process
<1>2. CASE m \notin advancing
  <2>1. /\ advancing' = advancing \cup {m} /\ locks' = [locks EXCEPT ![m] = lock]
        /\ call' = [call EXCEPT ![c].pc = "fetch", ![c].lock = lock]
        /\ UNCHANGED <<server, cancelled, process>>
    BY <1>2 DEF advance_dag
  <2>2. m \in Team /\ lock \in Lock /\ lock[1] = m /\ lock # NoLock
    <3>1. m \in Team /\ locks[m] \in Lock \cup {NoLock}
      BY <1>0 DEF CallRecord, TypeOK
    <3>2. <<m, c>> \in Lock /\ <<m, c>>[1] = m
      BY <3>1 DEF Lock
    <3>3. locks[m] # NoLock => locks[m][1] = m
      BY <3>1 DEF Inv, Locked
    <3>4. NoLock \notin Lock
      BY DEF Lock
    <3> QED BY <3>1, <3>2, <3>3, <3>4
  <2> HIDE DEF lock
  <2>3. r \in CallRecord /\ r.team = m /\ r.pc = "fetch" /\ r.lock = lock
    BY Zenon, <1>0, <2>2 DEF CallRecord, Lock
  <2>4. call' = [call EXCEPT ![c] = r]
    BY Zenon, <2>1
  <2> HIDE DEF r
  <2>5. call' \in [Call -> CallRecord \cup {NoCall}] /\ call'[c] = r /\ r # NoCall /\ OthersSame(c)
    BY Zenon, <1>0, <2>3, <2>4, Moved
  <2>6. Inside(c)' /\ \A d \in Call \ {c} : (Inside(d)' <=> Inside(d)) /\ call'[d] = call[d]
    BY <2>3, <2>5, SameCall DEF Inside, OthersSame
  <2>7. TypeOK'
    <3>1. locks' \in [Team -> Lock \cup {NoLock}]
      BY <1>0, <2>1, <2>2 DEF TypeOK
    <3> QED BY <1>0, <2>1, <2>2, <2>5, <3>1 DEF TypeOK, server, process
  <2>8. Marked'
    <3>1. \A d \in Call : Inside(d) => call[d].team # m
      BY <1>2 DEF Inv, Marked
    <3>2. \A d \in Call : Inside(d)' => call'[d].team \in advancing'
      BY <2>1, <2>3, <2>5, <2>6 DEF Inv, Marked
    <3>3. \A d, e \in Call : Inside(d)' /\ Inside(e)' /\ call'[d].team = call'[e].team => d = e
      BY <2>3, <2>5, <2>6, <3>1 DEF Inv, Marked
    <3>4. ASSUME NEW n \in advancing' PROVE \E d \in Call : Inside(d)' /\ call'[d].team = n
      <4>1. CASE n = m
        BY <2>3, <2>5, <2>6, <4>1
      <4>2. CASE n # m
        <5>1. PICK d \in Call : Inside(d) /\ call[d].team = n
          BY <2>1, <4>2 DEF Inv, Marked
        <5> QED BY <1>0, <2>6, <5>1
      <4> QED BY <4>1, <4>2
    <3> QED BY <3>2, <3>3, <3>4 DEF Marked
  <2>9. Listed'
    BY <2>1, <2>3, <2>5, <2>6 DEF Inv, Listed, server
  <2>10. Locked'
    <3>1. \A n \in Team : locks'[n] # NoLock => locks'[n][1] = n
      BY <1>0, <2>1, <2>2 DEF Inv, Locked, TypeOK
    <3>2. \A d \in Call : call'[d] # NoCall /\ call'[d].lock # NoLock =>
            Inside(d)' /\ call'[d].lock[1] = call'[d].team
      BY <2>2, <2>3, <2>5, <2>6 DEF Inv, Locked
    <3> QED BY <3>1, <3>2 DEF Locked
  <2>11. Draining'
    <3>1. ~ Finished(c)
      BY <1>0 DEF Finished
    <3>2. \A d \in Call \ {c} : Finished(d)' <=> Finished(d)
      BY <2>6, SameCall
    <3> QED BY <2>1, <3>1, <3>2 DEF Inv, Draining, process
  <2> QED BY <2>7, <2>8, <2>9, <2>10, <2>11 DEF Inv
<1> QED BY <1>1, <1>2

\* A call inside its try block goes on: it claims tasks of its own team, if any.
LEMMA Progress ==
  ASSUME Inv, NEW c \in Call, Inside(c), NEW r \in CallRecord, r.team = call[c].team, r.pc = "claim",
         r.lock = call[c].lock, call' = [call EXCEPT ![c] = r],
         status' \in [Task -> {"blocked", "ready", "claimed"}],
         \A t \in r.todo : TeamOf[t] = r.team /\ status'[t] = "ready",
         \A t \in Task : TeamOf[t] # r.team => status'[t] = status[t],
         UNCHANGED <<events, cancelled, advancing, locks, process>>
  PROVE  Inv'
<1>0. TypeOK /\ call[c] # NoCall /\ call[c].pc # "done"
  BY DEF Inv, Inside
<1>1. call' \in [Call -> CallRecord \cup {NoCall}] /\ call'[c] = r /\ r # NoCall /\ OthersSame(c)
  BY Zenon, <1>0, Moved
<1>2. \A d \in Call : (Inside(d)' <=> Inside(d)) /\ (d # c => call'[d] = call[d])
  BY <1>1, SameCall DEF Inside, OthersSame
<1>3. TypeOK'
  BY <1>1 DEF Inv, TypeOK, process
<1>4. Marked'
  <2>1. \A d \in Call : Inside(d) => call'[d].team = call[d].team
    BY <1>1, <1>2
  <2> QED BY <1>2, <2>1 DEF Inv, Marked
<1>5. Listed'
  <2>1. SUFFICES ASSUME NEW d \in Call, d # c, Inside(d), call[d].pc = "claim", NEW t \in call[d].todo
                 PROVE  TeamOf[t] = call[d].team /\ status'[t] = "ready"
    BY <1>1, <1>2 DEF Listed
  <2>2. call[d] \in CallRecord
    BY <2>1 DEF Inv, TypeOK, Inside
  <2>3. t \in Task /\ TeamOf[t] = call[d].team /\ status[t] = "ready"
    BY <2>1, <2>2 DEF Inv, Listed, CallRecord
  <2>4. call[d].team # call[c].team
    BY <2>1 DEF Inv, Marked
  <2> QED BY <2>3, <2>4
<1>6. Locked'
  <2>1. call[c].lock # NoLock => call[c].lock[1] = call[c].team
    BY <1>0 DEF Inv, Locked
  <2>2. \A d \in Call : call'[d] # NoCall /\ call'[d].lock # NoLock =>
          Inside(d)' /\ call'[d].lock[1] = call'[d].team
    BY <1>1, <1>2, <2>1 DEF Inv, Locked
  <2> QED BY <2>2 DEF Inv, Locked
<1>7. Draining'
  <2>1. ~ Finished(c)
    BY <1>0 DEF Finished
  <2>2. \A d \in Call \ {c} : Finished(d)' <=> Finished(d)
    BY <1>2, SameCall
  <2> QED BY <2>1, <2>2 DEF Inv, Draining, process
<1> QED BY <1>3, <1>4, <1>5, <1>6, <1>7 DEF Inv

LEMMA FetchInv == ASSUME Inv, NEW c \in Call, get_tasks(c) PROVE Inv'
<1>0. TypeOK /\ call[c] # NoCall /\ call[c] \in CallRecord /\ call[c].pc = "fetch" /\ Inside(c)
  BY DEF Inv, TypeOK, get_tasks, At, Inside
<1> DEFINE ready == {t \in Task : TeamOf[t] = call[c].team /\ status[t] = "ready"}
           r == [call[c] EXCEPT !.pc = "claim", !.todo = ready]
<1>1. CASE call' = [call EXCEPT ![c].pc = "claim", ![c].todo = ready] /\ UNCHANGED <<advancing, faults>>
  <2>1. r \in CallRecord /\ r.team = call[c].team /\ r.pc = "claim" /\ r.lock = call[c].lock /\ r.todo = ready
    BY Zenon, <1>0 DEF CallRecord
  <2>2. call' = [call EXCEPT ![c] = r]
    BY Zenon, <1>1
  <2> HIDE DEF r
  <2>3. UNCHANGED <<status, events, cancelled, locks, process>>
    BY DEF get_tasks
  <2>4. \A t \in r.todo : TeamOf[t] = r.team /\ status'[t] = "ready"
    BY <2>1, <2>3
  <2>5. /\ status' \in [Task -> {"blocked", "ready", "claimed"}]
        /\ \A t \in Task : TeamOf[t] # r.team => status'[t] = status[t]
    BY <1>0, <2>3 DEF TypeOK
  <2>6. UNCHANGED <<events, cancelled, advancing, locks, process>>
    BY <1>1, <2>3
  <2> HIDE <1>1, <2>3
  <2> QED BY Zenon, <1>0, <2>1, <2>2, <2>4, <2>5, <2>6, Progress
<1>2. CASE Finish(c)
  BY <1>0, <1>2, Left DEF get_tasks
<1> QED BY <1>1, <1>2 DEF get_tasks

LEMMA ClaimInv == ASSUME Inv, NEW c \in Call, claim_task(c) PROVE Inv'
<1>0. TypeOK /\ call[c] # NoCall /\ call[c] \in CallRecord /\ call[c].pc = "claim" /\ Inside(c)
  BY DEF Inv, TypeOK, claim_task, At, Inside
<1>1. PICK t \in call[c].todo :
        \/ /\ (status' = [status EXCEPT ![t] = "claimed"]) \/ UNCHANGED status
           /\ call' = [call EXCEPT ![c].todo = @ \ {t}]
           /\ UNCHANGED advancing
        \/ Finish(c) /\ UNCHANGED status
  BY DEF claim_task
<1>2. UNCHANGED <<events, cancelled, locks, process>>
  BY DEF claim_task
<1>3. t \in Task /\ \A u \in call[c].todo : u \in Task /\ TeamOf[u] = call[c].team /\ status[u] = "ready"
  BY <1>0 DEF CallRecord, Inv, Listed
<1> DEFINE r == [call[c] EXCEPT !.todo = @ \ {t}]
<1>4. CASE /\ status' = [status EXCEPT ![t] = "claimed"] \/ UNCHANGED status
           /\ call' = [call EXCEPT ![c].todo = @ \ {t}]
           /\ UNCHANGED advancing
  <2>1. /\ r \in CallRecord /\ r.team = call[c].team /\ r.pc = "claim" /\ r.lock = call[c].lock
        /\ r.todo = call[c].todo \ {t}
    BY <1>0 DEF CallRecord
  <2>2. call' = [call EXCEPT ![c] = r]
    BY <1>4
  <2> HIDE DEF r
  <2>3. status' \in [Task -> {"blocked", "ready", "claimed"}] /\ \A u \in Task \ {t} : status'[u] = status[u]
    BY <1>0, <1>4 DEF TypeOK
  <2>4. \A u \in r.todo : TeamOf[u] = r.team /\ status'[u] = "ready"
    BY <1>3, <2>1, <2>3
  <2>5. \A u \in Task : TeamOf[u] # r.team => status'[u] = status[u]
    BY <1>3, <2>1, <2>3
  <2>6. UNCHANGED <<events, cancelled, advancing, locks, process>>
    BY <1>2, <1>4
  <2> HIDE <1>4
  <2> QED BY Zenon, <1>0, <2>1, <2>2, <2>3, <2>4, <2>5, <2>6, Progress
<1>5. CASE Finish(c) /\ UNCHANGED status
  BY <1>0, <1>2, <1>5, Left
<1> QED BY <1>1, <1>4, <1>5

LEMMA DiscardInv == ASSUME Inv, NEW c \in Call, Discard(c) PROVE Inv'
<1>1. /\ ~ Inside(c) /\ Finished(c) /\ call' = [call EXCEPT ![c] = NoCall]
      /\ call \in [Call -> CallRecord \cup {NoCall}]
      /\ UNCHANGED <<server, advancing, locks, process>> /\ cancelled' \subseteq Call
  BY DEF Inv, TypeOK, Discard, Inside, Finished
<1>2. call' \in [Call -> CallRecord \cup {NoCall}] /\ call'[c] = NoCall /\ OthersSame(c)
  BY <1>1 DEF OthersSame
<1>3. \A d \in Call : (Inside(d)' <=> Inside(d)) /\ (d # c => call'[d] = call[d])
  BY <1>1, <1>2, SameCall DEF Inside, OthersSame
<1>4. TypeOK'
  BY <1>1, <1>2 DEF Inv, TypeOK, server, process
<1>5. Marked' /\ Listed'
  BY <1>1, <1>3 DEF Inv, Marked, Listed, server
<1>6. Locked'
  BY <1>1, <1>2, <1>3 DEF Inv, Locked
<1>7. Draining'
  <2>1. \A d \in Call : Finished(d) => Finished(d)'
    BY <1>1, <1>2, SameCall DEF Finished, OthersSame
  <2> QED BY <1>1, <2>1 DEF Inv, Draining, process
<1> QED BY <1>4, <1>5, <1>6, <1>7 DEF Inv

\* The listener and the scan at startup create calls.
LEMMA ListenInv == ASSUME Inv, NEW t \in Task, on_task_event(t) PROVE Inv'
<1>1. UNCHANGED <<status, cancelled, advancing, locks, process>> /\ events' \subseteq Task /\ TypeOK
  BY DEF on_task_event, Inv, TypeOK
<1>2. CASE UNCHANGED call
  <2>1. Draining'
    BY <1>1, <1>2 DEF Inv, Draining, Finished, process
  <2> QED BY <1>1, <1>2, <2>1, CallsKept DEF TypeOK, process
<1>3. CASE ~ shutting_down /\ \E c \in Call \ in_flight : call' = [call EXCEPT ![c] = Created(TeamOf[t])]
  <2>1. PICK c \in Call : call[c] = NoCall /\ call' = [call EXCEPT ![c] = Created(TeamOf[t])]
    BY Zenon, <1>3 DEF in_flight
  <2>2. TeamOf[t] \in Team /\ Created(TeamOf[t]) \in CallRecord
    BY DEF Created, CallRecord
  <2>3. call' \in [Call -> CallRecord \cup {NoCall}]
    BY <1>1, <2>1, <2>2 DEF TypeOK
  <2>4. call'[c] = Created(TeamOf[t]) /\ \A d \in Call \ {c} : call'[d] = call[d]
    BY <1>1, <2>1 DEF TypeOK
  <2>5. ASSUME NEW d \in Call
        PROVE  call'[d] = call[d] \/ (call[d] = NoCall /\ \E m \in Team : call'[d] = Created(m))
    <3>1. CASE d = c
      <4>1. call[d] = NoCall /\ call'[d] = Created(TeamOf[t])
        BY <2>1, <2>4, <3>1
      <4> QED BY <2>2, <4>1
    <3> QED BY <2>4, <3>1
  <2> QED BY <1>1, <1>3, <2>3, <2>5, CallsCreated DEF process
<1> QED BY <1>2, <1>3 DEF on_task_event

LEMMA ScanInv == ASSUME Inv, startup_scan PROVE Inv'
<1>1. /\ UNCHANGED <<status, events, cancelled, advancing, locks, shutting_down, shutdown_event, daemon, waiting>>
      /\ ~ shutting_down /\ TypeOK
  BY DEF startup_scan, Inv, server
<1>2. PICK f \in [Team -> Call \ in_flight] :
        call' = [c \in Call |-> IF \E m \in Team : f[m] = c
                                  THEN Created(CHOOSE m \in Team : f[m] = c) ELSE call[c]]
  BY DEF startup_scan
<1>3. ASSUME NEW c \in Call
      PROVE  /\ call'[c] = call[c] \/ (call[c] = NoCall /\ \E m \in Team : call'[c] = Created(m))
             /\ call'[c] \in CallRecord \cup {NoCall}
  <2>1. CASE \E m \in Team : f[m] = c
    <3>1. PICK n \in Team : f[n] = c
      BY <2>1
    <3>2. (CHOOSE m \in Team : f[m] = c) \in Team
      BY <2>1
    <3> DEFINE k == CHOOSE m \in Team : f[m] = c
    <3>3. call'[c] = Created(k)
      BY <1>2, <2>1
    <3> HIDE DEF k
    <3>4. k \in Team
      BY <3>2 DEF k
    <3>5. call[c] = NoCall
      BY <3>1 DEF in_flight
    <3>6. Created(k) \in CallRecord
      BY <3>4 DEF Created, CallRecord
    <3> QED BY <3>3, <3>4, <3>5, <3>6
  <2>2. CASE ~ \E m \in Team : f[m] = c
    <3>1. call'[c] = call[c]
      BY <1>2, <2>2
    <3>2. call[c] \in CallRecord \cup {NoCall}
      BY <1>1 DEF TypeOK
    <3> QED BY <3>1, <3>2
  <2> QED BY <2>1, <2>2
<1>4. call' \in [Call -> CallRecord \cup {NoCall}]
  <2>1. call' = [c \in Call |-> call'[c]]
    BY <1>2
  <2> QED BY <1>3, <2>1
<1> QED BY <1>1, <1>3, <1>4, CallsCreated DEF TypeOK

\* The other steps of the loop and of the daemon.
LEMMA LoopInv ==
  ASSUME Inv, NEW c \in Call, EndOfLoop(c) \/ Cancel(c)
  PROVE  Inv'
<1>1. CASE EndOfLoop(c)
  BY <1>1, Left DEF EndOfLoop, At, Inside, server
<1>2. CASE Cancel(c)
  <2>1. call[c] # NoCall /\ call[c] \in CallRecord /\ call[c].pc # "done"
    BY <1>2 DEF Cancel, Inv, TypeOK
  <2>2. CASE call[c].pc = "created"
    <3>1. call' = [call EXCEPT ![c].pc = "done"] /\ UNCHANGED <<server, cancelled, advancing, locks, process>>
      BY <1>2, <2>2 DEF Cancel
    <3> QED BY Zenon, <2>1, <2>2, <3>1, Dropped
  <2>3. CASE call[c].pc # "created"
    <3>1. Inside(c)
      BY <2>1, <2>3 DEF CallRecord, Inside
    <3> QED BY <1>2, <2>3, <3>1, Left DEF Cancel, server
  <2> QED BY <2>2, <2>3
<1> QED BY <1>1, <1>2

LEMMA QuietInv ==
  ASSUME Inv, \/ \E t \in Task : BecomeReady(t)
              \/ cleanup_idle_teams \/ handle_signal \/ drain \/ DrainTimeout \/ stop
  PROVE  Inv'
<1>0. TypeOK /\ UNCHANGED <<call, advancing>>
  BY DEF Inv, BecomeReady, cleanup_idle_teams, handle_signal, drain, DrainTimeout, stop, claimer
<1>1. \A c \in Call : Finished(c)' <=> Finished(c)
  BY <1>0, SameCall
<1>2. ASSUME NEW t \in Task, BecomeReady(t) PROVE Inv'
  <2>1. UNCHANGED <<claimer, process>> /\ status[t] = "blocked" /\ status' = [status EXCEPT ![t] = "ready"]
        /\ events' \subseteq Task
    BY <1>0, <1>2 DEF BecomeReady, TypeOK
  <2>2. status' \in [Task -> {"blocked", "ready", "claimed"}]
    BY <1>0, <2>1 DEF TypeOK
  <2>3. \A u \in Task : status[u] = "ready" => status'[u] = "ready"
    BY <1>0, <2>1 DEF TypeOK
  <2>4. Draining'
    BY <1>1, <2>1 DEF Inv, Draining, process
  <2> QED BY <1>0, <2>1, <2>2, <2>3, <2>4, CallsKept DEF TypeOK, claimer, process
<1>3. CASE cleanup_idle_teams
  <2>1. UNCHANGED <<server, cancelled, process>>
    BY <1>3 DEF cleanup_idle_teams
  <2>2. locks' \in [Team -> Lock \cup {NoLock}] /\ \A m \in Team : locks'[m] \in {locks[m], NoLock}
    BY <1>0, <1>3 DEF cleanup_idle_teams, TypeOK
  <2>3. Draining'
    BY <1>1, <2>1 DEF Inv, Draining, process
  <2> QED BY <1>0, <2>1, <2>2, <2>3, CallsKept DEF TypeOK, server, process
<1>4. CASE handle_signal \/ drain \/ stop
  <2>1. UNCHANGED <<server, claimer, scanned>>
    BY <1>4 DEF handle_signal, drain, stop
  <2>2. shutting_down' \in BOOLEAN /\ shutdown_event' \in BOOLEAN /\ waiting' \subseteq Call
        /\ daemon' \in {"serve", "drain", "stop"}
    BY Zenon, <1>0, <1>4 DEF handle_signal, drain, stop, TypeOK, in_flight
  <2>3. Draining'
    <3>1. CASE handle_signal
      BY <1>1, <3>1 DEF Inv, Draining, handle_signal
    <3>2. CASE drain
      <4>1. \A c \in Call \ in_flight : Finished(c)
        BY DEF in_flight, Finished
      <4> QED BY <1>1, <3>2, <4>1 DEF Inv, Draining, drain
    <3>3. CASE stop
      BY <1>1, <3>3 DEF Inv, Draining, stop
    <3> QED BY <1>4, <3>1, <3>2, <3>3
  <2> QED BY <1>0, <2>1, <2>2, <2>3, CallsKept DEF TypeOK, server, claimer
<1>5. CASE DrainTimeout
  <2>1. UNCHANGED <<server, locks, process>> /\ cancelled' \subseteq Call
    BY <1>0, <1>5 DEF DrainTimeout, TypeOK
  <2>2. Draining'
    BY <1>1, <2>1 DEF Inv, Draining, process
  <2> QED BY <1>0, <2>1, <2>2, CallsKept DEF TypeOK, server, process
<1> QED BY <1>2, <1>3, <1>4, <1>5

-----------------------------------------------------------------------------
\* Every step of the daemon and of the server keeps the invariant.
LEMMA NextInv == Inv /\ [Next]_vars => Inv'
<1> SUFFICES ASSUME Inv, [Next]_vars PROVE Inv'
  OBVIOUS
<1>1. CASE UNCHANGED vars
  <2>1. UNCHANGED <<status, events, call, cancelled, advancing, locks, shutting_down, shutdown_event, daemon, waiting>>
    BY <1>1 DEF vars, server, claimer, process
  <2>2. Draining'
    BY <2>1 DEF Inv, Draining, Finished
  <2> QED BY <2>1, <2>2, CallsKept DEF Inv, TypeOK
<1>2. ASSUME NEW t \in Task, on_task_event(t) PROVE Inv'
  BY <1>2, ListenInv
<1>3. CASE startup_scan
  BY <1>3, ScanInv
<1>4. ASSUME NEW c \in Call, Step(c) PROVE Inv'
  BY <1>4, AdvanceInv, LoopInv, DiscardInv DEF Step
<1>5. ASSUME NEW c \in Call, Answer(c) PROVE Inv'
  BY <1>5, FetchInv, ClaimInv DEF Answer
<1>6. CASE \/ \E t \in Task : BecomeReady(t)
           \/ cleanup_idle_teams \/ handle_signal \/ drain \/ DrainTimeout \/ stop
  BY <1>6, QuietInv
<1> QED BY <1>1, <1>2, <1>3, <1>4, <1>5, <1>6 DEF Next

\* The inductive invariant: TypeOK and Marked, with what the calls have still to claim, the
\* lock objects and the states of the shutdown.
THEOREM ClaimerInvariance == Spec => []Inv
BY InitInv, NextInv, PTL DEF Spec

\* TaskClaimer.advance_dag: for any teams, calls, failures and cancellations, at most one call
\* per team is inside, and _advancing marks exactly the teams that have one.
THEOREM OneCallPerTeam == Spec => []OneAtATime
<1>1. Inv => OneAtATime
  <2> SUFFICES ASSUME Inv, NEW m \in Team
               PROVE  Cardinality(Running(m)) <= 1 /\ (m \in advancing <=> Running(m) # {})
    BY DEF OneAtATime
  <2>1. \A c : c \in Running(m) <=> c \in Call /\ Inside(c) /\ call[c].team = m
    BY DEF Running, in_flight, Inside
  <2>2. m \in advancing <=> Running(m) # {}
    <3>1. ASSUME m \in advancing PROVE Running(m) # {}
      BY <2>1, <3>1 DEF Inv, Marked
    <3>2. ASSUME NEW c \in Running(m) PROVE m \in advancing
      BY <2>1 DEF Inv, Marked
    <3> QED BY <3>1, <3>2
  <2>3. CASE Running(m) = {}
    BY <2>2, <2>3, FS_EmptySet
  <2>4. CASE Running(m) # {}
    <3>1. PICK c : c \in Running(m)
      BY <2>4
    <3>2. \A d \in Running(m) : d = c
      BY <2>1, <3>1 DEF Inv, Marked
    <3>3. Running(m) = {c}
      BY <3>1, <3>2
    <3> QED BY <2>2, <3>3, FS_Singleton
  <2> QED BY <2>3, <2>4
<1> QED BY <1>1, ClaimerInvariance, PTL

\* TaskClaimer.advance_dag: no task is claimed twice, although the list a call works on was
\* fetched before its first claim and other calls claim meanwhile.
THEOREM NoSecondClaim == Spec => []ClaimedOnce
<1>1. Inv => ClaimedOnce
  BY DEF Inv, Listed, ClaimedOnce, At, Inside
<1> QED BY <1>1, ClaimerInvariance, PTL

\* TaskClaimer.advance_dag: the team lock is never contended; the coalescing test alone keeps
\* a second call out, so that cleanup_idle_teams may remove locks at any time.
THEOREM LockNeverAwaited == Spec => []LockIsFree
<1>1. Inv => LockIsFree
  <2> SUFFICES ASSUME Inv, NEW c \in Call, At(c, "created"), call[c].team \notin advancing,
                      NEW d \in in_flight,
                      call[d].lock = IF locks[call[c].team] = NoLock THEN <<call[c].team, c>>
                                     ELSE locks[call[c].team]
               PROVE  FALSE
    BY DEF LockIsFree, Held
  <2>1. call[c] \in CallRecord
    BY DEF At, Inv, TypeOK
  <2>2. call[c].team \in Team
    BY <2>1 DEF CallRecord
  <2>3. call[d].lock # NoLock /\ call[d].lock[1] = call[c].team
    BY <2>2 DEF Inv, Locked
  <2>4. d \in Call /\ call[d] # NoCall
    BY DEF in_flight
  <2>5. Inside(d) /\ call[d].team = call[c].team
    BY <2>3, <2>4 DEF Inv, Locked
  <2> QED BY <2>4, <2>5 DEF Inv, Marked
<1> QED BY <1>1, ClaimerInvariance, PTL

\* daemon.run: once it is past its drain, no call is in flight and none is started.
THEOREM NothingAfterStop == Spec => []QuietAfterStop
<1>1. Inv => QuietAfterStop
  BY DEF Inv, Draining, QuietAfterStop
<1> QED BY <1>1, ClaimerInvariance, PTL
=============================================================================
