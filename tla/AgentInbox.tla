----------------------------- MODULE AgentInbox -----------------------------
(***************************************************************************)
(* The inbox of an agent that has no scheduler                             *)
(* (src/src/agents/agent_core.cpp): three lock-free queues, a limit that   *)
(* is read before a message is put in, and a timer that lets the lower     *)
(* priorities through.  Senders and readers interleave between any two     *)
(* operations on the queues.                                               *)
(***************************************************************************)
EXTENDS Naturals, FiniteSets

CONSTANTS
    Letter,        \* messages, each sent once
    Empty,         \* model value: no message
    Sender, Reader,
    priority,      \* message -> msg.priority
    MaxQueueSize,  \* AGENT_MAX_QUEUE_SIZE
    LowWatermark,  \* the share of it below which the flag is lowered
    Interval,      \* low_priority_check_interval_ns_
    MaxTime        \* bound: how far the clock goes

(* What a sender has read when it has not yet put its message in. *)
SendCall == [msg : Letter, depth : Nat, flag : BOOLEAN]

ASSUME InboxAssumption ==
    /\ {MaxQueueSize, LowWatermark, Interval, MaxTime} \subseteq Nat
    /\ LowWatermark <= MaxQueueSize /\ priority \in [Letter -> {"HIGH", "NORMAL", "LOW"}]
    /\ Empty \notin Letter \cup SendCall
    /\ IsFiniteSet(Sender) /\ Sender # {} /\ IsFiniteSet(Reader)

VARIABLES
    inbox,                  \* priority -> messages
    backpressure_applied_, last_low_priority_check,
    clock,
    sending,                \* sender -> a SendCall or Empty
    reading,                \* reader -> where getMessage is and what it holds
    accepted, read          \* history: messages put in, messages returned

inboxVars == <<inbox, backpressure_applied_, last_low_priority_check, clock,
               sending, reading, accepted, read>>

Calm == [step |-> "out", now |-> 0, last |-> 0, msg |-> Empty, other |-> Empty]

total_depth == Cardinality(inbox["HIGH"]) + Cardinality(inbox["NORMAL"])
               + Cardinality(inbox["LOW"])

InboxInit ==
    /\ inbox = [u \in {"HIGH", "NORMAL", "LOW"} |-> {}]
    /\ backpressure_applied_ = FALSE /\ last_low_priority_check = 0 /\ clock = 1
    /\ sending = [s \in Sender |-> Empty] /\ reading = [r \in Reader |-> Calm]
    /\ accepted = {} /\ read = {}

Accounted == accepted \cup read \cup {sending[s].msg : s \in {t \in Sender : sending[t] # Empty}}

(* receiveMessage up to the test: the depth and the flag are read. *)
receiveMessage(s, m) ==
    /\ sending[s] = Empty /\ m \notin Accounted
    /\ sending' = [sending EXCEPT ![s] =
           [msg |-> m, depth |-> total_depth, flag |-> backpressure_applied_]]
    /\ UNCHANGED <<inbox, backpressure_applied_, last_low_priority_check, clock,
                   reading, accepted, read>>

\* Mutant of Enqueue: the flag is only raised, the message goes in all the same.
EnqueueAnyway(s) ==
    LET it == sending[s]
        full == it # Empty /\ it.depth >= MaxQueueSize
    IN  /\ it # Empty /\ sending' = [sending EXCEPT ![s] = Empty]
        /\ inbox' = [inbox EXCEPT ![priority[it.msg]] = @ \cup {it.msg}]
        /\ accepted' = accepted \cup {it.msg}
        /\ backpressure_applied_' = (full \/ backpressure_applied_)
        /\ UNCHANGED <<last_low_priority_check, clock, reading, read>>

(* A full inbox drops the message; otherwise it goes in, and the flag is    *)
(* lowered if the inbox was seen below the mark.                            *)
Enqueue(s) ==
    LET it == sending[s]
        full == it.depth >= MaxQueueSize
    IN  /\ it # Empty /\ sending' = [sending EXCEPT ![s] = Empty]
        /\ \/ /\ full /\ UNCHANGED <<inbox, accepted>>
              /\ backpressure_applied_' = (backpressure_applied_ \/ ~it.flag)
           \/ /\ ~full
              /\ inbox' = [inbox EXCEPT ![priority[it.msg]] = @ \cup {it.msg}]
              /\ accepted' = accepted \cup {it.msg}
              /\ backpressure_applied_' =
                    (backpressure_applied_ /\ ~(it.flag /\ it.depth < LowWatermark))
        /\ UNCHANGED <<last_low_priority_check, clock, reading, read>>

Reading(r, state) == reading' = [reading EXCEPT ![r] = state]

Kept == UNCHANGED <<backpressure_applied_, clock, sending, accepted>>

getMessage(r) ==
    /\ reading[r] = Calm
    /\ Reading(r, [Calm EXCEPT !.step = "HIGH", !.now = clock, !.last = last_low_priority_check])
    /\ UNCHANGED <<inbox, last_low_priority_check, read>> /\ Kept

\* Mutant of Following: LOW is not tried.
FollowingNormal(step) == IF step = "HIGH" THEN "NORMAL" ELSE "return"

Following(step) ==
    IF step = "HIGH" THEN "NORMAL" ELSE IF step = "NORMAL" THEN "LOW" ELSE "return"

(* try_dequeue of one priority after the other.  A HIGH message in hand     *)
(* when the interval is over lets a NORMAL or LOW one go first.             *)
TryDequeue(r) ==
    LET my == reading[r]
        due == my.last # 0 /\ my.now - my.last >= Interval
    IN  /\ my.step \in {"HIGH", "NORMAL", "LOW"}
        /\ \/ /\ inbox[my.step] = {} /\ Reading(r, [my EXCEPT !.step = Following(my.step)])
              /\ UNCHANGED inbox
           \/ \E m \in inbox[my.step] :
                 /\ inbox' = [inbox EXCEPT ![my.step] = @ \ {m}]
                 /\ Reading(r, IF my.step = "HIGH"
                               THEN [my EXCEPT !.step = IF due THEN "NORMAL" ELSE "return",
                                               !.msg = m]
                               ELSE [my EXCEPT !.step = "return", !.other = m])
        /\ UNCHANGED <<last_low_priority_check, read>> /\ Kept

\* Mutant of PutBack: the HIGH message that gave way is not put back.
PutBackNothing(r) ==
    LET my == reading[r]
    IN  /\ my.step = "return" /\ my.msg # Empty /\ my.other # Empty
        /\ Reading(r, [my EXCEPT !.msg = Empty])
        /\ UNCHANGED <<inbox, last_low_priority_check, read>> /\ Kept

(* The HIGH message that gave way is put back, at the end of its queue. *)
PutBack(r) ==
    LET my == reading[r]
    IN  /\ my.step = "return" /\ my.msg # Empty /\ my.other # Empty
        /\ inbox' = [inbox EXCEPT !["HIGH"] = @ \cup {my.msg}]
        /\ Reading(r, [my EXCEPT !.msg = Empty])
        /\ UNCHANGED <<last_low_priority_check, read>> /\ Kept

GetReturn(r) ==
    LET my == reading[r]
        got == {my.msg, my.other} \ {Empty}
    IN  /\ my.step = "return" /\ (my.msg = Empty \/ my.other = Empty)
        /\ read' = read \cup got /\ Reading(r, Calm)
        /\ last_low_priority_check' = IF got = {} THEN last_low_priority_check ELSE my.now
        /\ UNCHANGED inbox /\ Kept

Tick ==
    /\ clock < MaxTime /\ clock' = clock + 1
    /\ UNCHANGED <<inbox, backpressure_applied_, last_low_priority_check, sending,
                   reading, accepted, read>>

Read(r) == getMessage(r) \/ TryDequeue(r) \/ PutBack(r) \/ GetReturn(r)

InboxNext ==
    \/ \E s \in Sender : Enqueue(s) \/ \E m \in Letter : receiveMessage(s, m)
    \/ \E r \in Reader : Read(r)
    \/ Tick

InboxSpec == InboxInit /\ [][InboxNext]_inboxVars
-----------------------------------------------------------------------------
Hand(r) == {reading[r].msg, reading[r].other} \ {Empty}
InHand == UNION {Hand(r) : r \in Reader}

(* agent_core.cpp:41-45, "a soft limit": the inbox outgrows its limit by at *)
(* most one message for every other sender that had already read the depth, *)
(* and one for every reader that puts a message back.                       *)
SoftLimit == total_depth <= MaxQueueSize + Cardinality(Sender) - 1 + Cardinality(Reader)

(* agent_core.cpp:104-179: a message that was accepted is in the inbox, in  *)
(* the hands of one reader or returned, once, the ones that gave way to     *)
(* lower priorities included.                                               *)
Delivered ==
    /\ accepted = inbox["HIGH"] \cup inbox["NORMAL"] \cup inbox["LOW"] \cup InHand \cup read
    /\ inbox["HIGH"] \cap inbox["NORMAL"] = {} /\ inbox["LOW"] \cap (inbox["HIGH"] \cup inbox["NORMAL"]) = {}
    /\ InHand \cap (inbox["HIGH"] \cup inbox["NORMAL"] \cup inbox["LOW"]) = {}
    /\ read \cap (inbox["HIGH"] \cup inbox["NORMAL"] \cup inbox["LOW"] \cup InHand) = {}
    /\ \A q, r \in Reader : q # r => Hand(q) \cap Hand(r) = {}

(* agent_core.cpp:104-179: a message of any priority is returned in the end *)
(* when no more messages come.                                              *)
EveryLetterRead == <>[](read = accepted)
=============================================================================
