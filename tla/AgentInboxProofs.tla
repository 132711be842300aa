------------------------- MODULE AgentInboxProofs -------------------------
(***************************************************************************)
(* TLAPS proofs about AgentInbox, for every set of messages, senders and   *)
(* readers and every limit: what is accepted is in one place until it is   *)
(* read (Delivered), and the limit is outgrown by a bounded number of      *)
(* messages (SoftLimit).                                                   *)
(***************************************************************************)
EXTENDS AgentInbox, FiniteSetTheorems, TLAPS

Urgency == {"HIGH", "NORMAL", "LOW"}

ReadCall == [step : {"out", "return", "HIGH", "NORMAL", "LOW"}, now : Nat, last : Nat,
             msg : Letter \cup {Empty}, other : Letter \cup {Empty}]

InboxTypeOK ==
    /\ inbox \in [Urgency -> SUBSET Letter] /\ \A u \in Urgency : IsFiniteSet(inbox[u])
    /\ sending \in [Sender -> SendCall \cup {Empty}] /\ reading \in [Reader -> ReadCall]
    /\ backpressure_applied_ \in BOOLEAN /\ last_low_priority_check \in Nat /\ clock \in Nat
    /\ accepted \subseteq Letter /\ read \subseteq Letter

(* What a reader may hold where it is. *)
HandOK(my) ==
    /\ my.step \in {"out", "HIGH"} => my.msg = Empty /\ my.other = Empty
    /\ my.step \in {"NORMAL", "LOW"} => my.other = Empty
    /\ my.msg # Empty => my.msg # my.other

HandsOK == \A r \in Reader : HandOK(reading[r])

Sends(s, x) == sending[s] # Empty /\ sending[s].msg = x

(* What is known of one message. *)
Slip(x) ==
    /\ \A s, t \in Sender : Sends(s, x) /\ Sends(t, x) => s = t
    /\ \A s \in Sender : Sends(s, x) => x \notin accepted
    /\ x \in accepted <=> \/ \E u \in Urgency : x \in inbox[u]
                          \/ \E r \in Reader : x \in Hand(r)
                          \/ x \in read
    /\ \A u, v \in Urgency : x \in inbox[u] /\ x \in inbox[v] => u = v
    /\ \A q, r \in Reader : x \in Hand(q) /\ x \in Hand(r) => q = r
    /\ \A u \in Urgency, r \in Reader : x \in inbox[u] => x \notin Hand(r)
    /\ x \in read => /\ \A u \in Urgency : x \notin inbox[u]
                     /\ \A r \in Reader : x \notin Hand(r)

Slips == \A x \in Letter : Slip(x)

(* Who may still add to the inbox: senders that saw room in it, and readers *)
(* with a HIGH message that may have to go back.                            *)
Betting == {s \in Sender : sending[s] # Empty /\ sending[s].depth < MaxQueueSize}
Holding == {r \in Reader : reading[r].msg # Empty}

Room ==
    total_depth + Cardinality(Betting) + Cardinality(Holding)
        <= MaxQueueSize + Cardinality(Sender) - 1 + Cardinality(Reader)

InboxInv == InboxTypeOK /\ HandsOK /\ Slips /\ Room

LEMMA InboxConstants ==
    /\ MaxQueueSize \in Nat /\ Empty \notin Letter /\ Empty \notin SendCall
    /\ IsFiniteSet(Sender) /\ Cardinality(Sender) \in Nat \ {0}
    /\ IsFiniteSet(Reader) /\ Cardinality(Reader) \in Nat
    /\ priority \in [Letter -> Urgency]
<1>1. Cardinality(Sender) \in Nat /\ Cardinality(Reader) \in Nat
  BY InboxAssumption, FS_CardinalityType
<1>2. Cardinality(Sender) # 0
  BY InboxAssumption, FS_EmptySet
<1> QED BY <1>1, <1>2, InboxAssumption DEF Urgency

(* The depth is a number, and what may still be added is bounded. *)
LEMMA Counts ==
  ASSUME \A u \in Urgency : IsFiniteSet(inbox[u])
  PROVE  /\ total_depth \in Nat
         /\ \A u \in Urgency : Cardinality(inbox[u]) \in Nat
         /\ IsFiniteSet(Betting) /\ Cardinality(Betting) \in Nat /\ Cardinality(Betting) <= Cardinality(Sender)
         /\ IsFiniteSet(Holding) /\ Cardinality(Holding) \in Nat /\ Cardinality(Holding) <= Cardinality(Reader)
<1>1. \A u \in Urgency : Cardinality(inbox[u]) \in Nat
  BY FS_CardinalityType
<1>2. total_depth \in Nat
  BY <1>1 DEF total_depth, Urgency
<1>3. Betting \subseteq Sender /\ Holding \subseteq Reader
  BY DEF Betting, Holding
<1>4. IsFiniteSet(Betting) /\ Cardinality(Betting) <= Cardinality(Sender)
  BY <1>3, InboxConstants, FS_Subset
<1>5. IsFiniteSet(Holding) /\ Cardinality(Holding) <= Cardinality(Reader)
  BY <1>3, InboxConstants, FS_Subset
<1>6. Cardinality(Betting) \in Nat /\ Cardinality(Holding) \in Nat
  BY <1>4, <1>5, FS_CardinalityType
<1> QED BY <1>1, <1>2, <1>4, <1>5, <1>6

LEMMA InboxStarts == InboxInit => InboxInv
<1> SUFFICES ASSUME InboxInit PROVE InboxInv
  OBVIOUS
<1>1. Calm \in ReadCall /\ Calm.step = "out" /\ Calm.msg = Empty /\ Calm.other = Empty
  BY DEF Calm, ReadCall
<1>2. \A u \in Urgency : inbox[u] = {} /\ IsFiniteSet(inbox[u])
  BY FS_EmptySet DEF InboxInit, Urgency
<1>3. InboxTypeOK
  BY Zenon, <1>1, <1>2 DEF InboxInit, InboxTypeOK, Urgency
<1>4. HandsOK /\ \A r \in Reader : Hand(r) = {}
  BY <1>1 DEF InboxInit, HandsOK, HandOK, Hand
<1>5. Slips
  BY <1>2, <1>4 DEF InboxInit, Slips, Slip, Sends
<1>6. Room
  <2>1. Betting = {} /\ Holding = {}
    BY <1>1 DEF InboxInit, Betting, Holding
  <2>2. Cardinality(Betting) = 0 /\ Cardinality(Holding) = 0
    BY <2>1, FS_EmptySet
  <2>3. total_depth = 0
    BY FS_EmptySet DEF InboxInit, total_depth
  <2> QED BY <2>2, <2>3, InboxConstants DEF Room
<1> QED BY <1>3, <1>4, <1>5, <1>6 DEF InboxInv

LEMMA InboxDelivers == InboxInv => Delivered
<1> SUFFICES ASSUME InboxInv PROVE Delivered
  OBVIOUS
<1>1. \A x : x \in InHand <=> \E r \in Reader : x \in Hand(r)
  BY DEF InHand
<1>2. \A x \in Letter : Slip(x)
  BY DEF InboxInv, Slips
<1>3. /\ accepted \subseteq Letter /\ read \subseteq Letter
      /\ \A u \in Urgency : inbox[u] \subseteq Letter
      /\ \A r \in Reader : Hand(r) \subseteq Letter
  BY DEF InboxInv, InboxTypeOK, Hand, ReadCall
<1>4. InHand \subseteq Letter
  BY <1>1, <1>3
<1>5. \A u : u \in Urgency <=> (u = "HIGH" \/ u = "NORMAL" \/ u = "LOW")
  BY DEF Urgency
<1>6. accepted = inbox["HIGH"] \cup inbox["NORMAL"] \cup inbox["LOW"] \cup InHand \cup read
  <2>1. ASSUME NEW x \in Letter
        PROVE  x \in accepted <=> x \in inbox["HIGH"] \cup inbox["NORMAL"] \cup inbox["LOW"] \cup InHand \cup read
    BY <1>1, <1>2, <1>5 DEF Slip
  <2> QED BY <1>3, <1>4, <1>5, <2>1
<1>7. /\ inbox["HIGH"] \cap inbox["NORMAL"] = {}
      /\ inbox["LOW"] \cap (inbox["HIGH"] \cup inbox["NORMAL"]) = {}
  BY <1>2, <1>3, <1>5 DEF Slip
<1>8. InHand \cap (inbox["HIGH"] \cup inbox["NORMAL"] \cup inbox["LOW"]) = {}
  BY <1>1, <1>2, <1>3, <1>5 DEF Slip
<1>9. read \cap (inbox["HIGH"] \cup inbox["NORMAL"] \cup inbox["LOW"] \cup InHand) = {}
  BY <1>1, <1>2, <1>3, <1>5 DEF Slip
<1>10. \A q, r \in Reader : q # r => Hand(q) \cap Hand(r) = {}
  BY <1>2, <1>3 DEF Slip
<1> QED BY <1>6, <1>7, <1>8, <1>9, <1>10 DEF Delivered

LEMMA InboxLimited == InboxInv => SoftLimit
<1> SUFFICES ASSUME InboxInv PROVE SoftLimit
  OBVIOUS
<1>1. \A u \in Urgency : IsFiniteSet(inbox[u])
  BY DEF InboxInv, InboxTypeOK
<1> QED BY <1>1, Counts, InboxConstants DEF InboxInv, Room, SoftLimit

(* One element more or less. *)
LEMMA NearCounts ==
  ASSUME NEW S, IsFiniteSet(S), NEW x
  PROVE  /\ Cardinality(S \ {x}) \in Nat /\ Cardinality(S \ {x}) <= Cardinality(S)
         /\ Cardinality(S \cup {x}) \in Nat /\ Cardinality(S \cup {x}) <= Cardinality(S) + 1
<1>1. Cardinality(S) \in Nat
  BY FS_CardinalityType
<1>2. IsFiniteSet(S \ {x}) /\ IsFiniteSet(S \cup {x})
  BY FS_RemoveElement, FS_AddElement
<1>3. Cardinality(S \ {x}) \in Nat /\ Cardinality(S \cup {x}) \in Nat
  BY <1>2, FS_CardinalityType
<1>4. Cardinality(S \ {x}) = IF x \in S THEN Cardinality(S) - 1 ELSE Cardinality(S)
  BY FS_RemoveElement
<1>5. Cardinality(S \cup {x}) = IF x \in S THEN Cardinality(S) ELSE Cardinality(S) + 1
  BY FS_AddElement
<1> QED BY <1>1, <1>3, <1>4, <1>5

(* One message more or less on a queue. *)
LEMMA OneMore ==
  ASSUME InboxTypeOK, NEW u \in Urgency, NEW x \in Letter,
         inbox' = [inbox EXCEPT ![u] = @ \cup {x}]
  PROVE  /\ inbox' \in [Urgency -> SUBSET Letter]
         /\ \A v \in Urgency : IsFiniteSet(inbox'[v])
         /\ \A v \in Urgency : inbox'[v] = IF v = u THEN inbox[u] \cup {x} ELSE inbox[v]
         /\ total_depth' <= total_depth + 1
<1>1. inbox' \in [Urgency -> SUBSET Letter]
  BY DEF InboxTypeOK
<1>2. \A v \in Urgency : inbox'[v] = IF v = u THEN inbox[u] \cup {x} ELSE inbox[v]
  BY DEF InboxTypeOK
<1>3. /\ IsFiniteSet(inbox[u] \cup {x}) /\ Cardinality(inbox[u]) \in Nat
      /\ Cardinality(inbox[u] \cup {x}) \in Nat
      /\ Cardinality(inbox[u] \cup {x}) <= Cardinality(inbox[u]) + 1
  <2>1. IsFiniteSet(inbox[u])
    BY DEF InboxTypeOK
  <2>2. Cardinality(inbox[u]) \in Nat
    BY <2>1, FS_CardinalityType
  <2>3. IsFiniteSet(inbox[u] \cup {x})
    BY <2>1, FS_AddElement
  <2> QED BY Zenon, <2>1, <2>2, <2>3, NearCounts
<1>4. \A v \in Urgency : IsFiniteSet(inbox'[v])
  BY <1>2, <1>3 DEF InboxTypeOK
<1>5. total_depth' <= total_depth + 1
  <2>1. \A v \in Urgency : Cardinality(inbox[v]) \in Nat
    BY FS_CardinalityType DEF InboxTypeOK
  <2> DEFINE c(v) == Cardinality(inbox[v])
             d(v) == Cardinality(inbox'[v])
  <2>2. /\ c("HIGH") \in Nat /\ c("NORMAL") \in Nat /\ c("LOW") \in Nat
        /\ d(u) \in Nat /\ d(u) <= c(u) + 1 /\ \A v \in Urgency : v # u => d(v) = c(v)
    BY <1>2, <1>3, <2>1 DEF Urgency
  <2>3. total_depth = c("HIGH") + c("NORMAL") + c("LOW")
    BY DEF total_depth
  <2>4. total_depth' = d("HIGH") + d("NORMAL") + d("LOW")
    BY DEF total_depth
  <2> HIDE DEF c, d
  <2>5. CASE u = "HIGH"
    BY <2>2, <2>3, <2>4, <2>5 DEF Urgency
  <2>6. CASE u = "NORMAL"
    BY <2>2, <2>3, <2>4, <2>6 DEF Urgency
  <2>7. CASE u = "LOW"
    BY <2>2, <2>3, <2>4, <2>7 DEF Urgency
  <2> QED BY <2>5, <2>6, <2>7 DEF Urgency
<1> QED BY <1>1, <1>2, <1>4, <1>5

LEMMA OneLess ==
  ASSUME InboxTypeOK, NEW u \in Urgency, NEW x \in inbox[u],
         inbox' = [inbox EXCEPT ![u] = @ \ {x}]
  PROVE  /\ inbox' \in [Urgency -> SUBSET Letter]
         /\ \A v \in Urgency : IsFiniteSet(inbox'[v])
         /\ \A v \in Urgency : inbox'[v] = IF v = u THEN inbox[u] \ {x} ELSE inbox[v]
         /\ total_depth' = total_depth - 1
<1>1. inbox' \in [Urgency -> SUBSET Letter]
  BY DEF InboxTypeOK
<1>2. \A v \in Urgency : inbox'[v] = IF v = u THEN inbox[u] \ {x} ELSE inbox[v]
  BY DEF InboxTypeOK
<1>3. /\ IsFiniteSet(inbox[u] \ {x}) /\ Cardinality(inbox[u]) \in Nat
      /\ Cardinality(inbox[u] \ {x}) = Cardinality(inbox[u]) - 1
  <2>1. IsFiniteSet(inbox[u])
    BY DEF InboxTypeOK
  <2>2. Cardinality(inbox[u]) \in Nat
    BY <2>1, FS_CardinalityType
  <2> QED BY <2>1, <2>2, FS_RemoveElement
<1>4. \A v \in Urgency : IsFiniteSet(inbox'[v])
  BY <1>2, <1>3 DEF InboxTypeOK
<1>5. total_depth' = total_depth - 1
  <2>1. \A v \in Urgency : Cardinality(inbox[v]) \in Nat
    BY FS_CardinalityType DEF InboxTypeOK
  <2> DEFINE c(v) == Cardinality(inbox[v])
             d(v) == Cardinality(inbox'[v])
  <2>2. /\ c("HIGH") \in Nat /\ c("NORMAL") \in Nat /\ c("LOW") \in Nat
        /\ d(u) = c(u) - 1 /\ \A v \in Urgency : v # u => d(v) = c(v)
    BY <1>2, <1>3, <2>1 DEF Urgency
  <2>3. total_depth = c("HIGH") + c("NORMAL") + c("LOW")
    BY DEF total_depth
  <2>4. total_depth' = d("HIGH") + d("NORMAL") + d("LOW")
    BY DEF total_depth
  <2> HIDE DEF c, d
  <2>5. CASE u = "HIGH"
    BY <2>2, <2>3, <2>4, <2>5 DEF Urgency
  <2>6. CASE u = "NORMAL"
    BY <2>2, <2>3, <2>4, <2>6 DEF Urgency
  <2>7. CASE u = "LOW"
    BY <2>2, <2>3, <2>4, <2>7 DEF Urgency
  <2> QED BY <2>5, <2>6, <2>7 DEF Urgency
<1> QED BY <1>1, <1>2, <1>4, <1>5

(***************************************************************************)
(* The senders.                                                            *)
(***************************************************************************)
LEMMA SenderMoves ==
  ASSUME InboxTypeOK, NEW s \in Sender, NEW c \in SendCall \cup {Empty},
         sending' = [sending EXCEPT ![s] = c]
  PROVE  /\ sending' \in [Sender -> SendCall \cup {Empty}] /\ sending'[s] = c
         /\ \A t \in Sender : t # s => sending'[t] = sending[t]
BY DEF InboxTypeOK

LEMMA ReceiveInv ==
  ASSUME InboxInv, NEW s \in Sender, NEW m \in Letter, receiveMessage(s, m)
  PROVE  InboxInv'
<1> DEFINE c == [msg |-> m, depth |-> total_depth, flag |-> backpressure_applied_]
<1>0. InboxTypeOK /\ HandsOK /\ Slips /\ Room
  BY DEF InboxInv
<1>1. /\ sending[s] = Empty /\ sending' = [sending EXCEPT ![s] = c]
      /\ UNCHANGED <<inbox, backpressure_applied_, last_low_priority_check, clock,
                     reading, accepted, read>>
  BY DEF receiveMessage
<1>2. m \notin accepted /\ \A t \in Sender : sending[t] # Empty => sending[t].msg # m
  BY DEF receiveMessage, Accounted
<1>3. /\ total_depth \in Nat /\ Cardinality(Betting) \in Nat
      /\ Cardinality(Holding) \in Nat /\ Cardinality(Holding) <= Cardinality(Reader)
  BY <1>0, Counts DEF InboxTypeOK
<1>4. c \in SendCall /\ c # Empty /\ c.msg = m /\ c.depth = total_depth
  BY <1>0, <1>3, InboxConstants DEF SendCall, InboxTypeOK
<1> HIDE DEF c
<1>5. /\ sending' \in [Sender -> SendCall \cup {Empty}] /\ sending'[s] = c
      /\ \A t \in Sender : t # s => sending'[t] = sending[t]
  BY Zenon, <1>0, <1>1, <1>4, SenderMoves
<1>6. InboxTypeOK'
  BY <1>0, <1>1, <1>5 DEF InboxTypeOK
<1>7. HandsOK' /\ \A r \in Reader : Hand(r)' = Hand(r)
  BY <1>0, <1>1 DEF HandsOK, HandOK, Hand
<1>8. Slips'
  <2> SUFFICES ASSUME NEW x \in Letter PROVE Slip(x)'
    BY DEF Slips
  <2>1. Slip(x)
    BY <1>0 DEF Slips
  <2>2. \A t \in Sender : Sends(t, x)' <=> Sends(t, x) \/ (t = s /\ x = m)
    BY <1>1, <1>4, <1>5 DEF Sends
  <2>3. \A t \in Sender : ~ Sends(t, m)
    BY <1>2 DEF Sends
  <2> QED BY <1>1, <1>2, <1>7, <2>1, <2>2, <2>3 DEF Slip
<1>9. Room'
  <2>1. total_depth' = total_depth /\ Holding' = Holding
    BY <1>1 DEF total_depth, Holding
  <2>2. CASE total_depth < MaxQueueSize
    <3>1. Cardinality(Betting)' <= Cardinality(Sender) /\ Cardinality(Betting)' \in Nat
      <4>1. Betting' \subseteq Sender
        BY DEF Betting
      <4> HIDE DEF Betting
      <4>2. IsFiniteSet(Betting') /\ Cardinality(Betting') <= Cardinality(Sender)
        BY <4>1, InboxConstants, FS_Subset
      <4>3. Cardinality(Betting') \in Nat
        BY <4>2, FS_CardinalityType
      <4> QED BY <4>2, <4>3
    <3> QED BY <1>3, <2>1, <2>2, <3>1, InboxConstants DEF Room
  <2>3. CASE ~ (total_depth < MaxQueueSize)
    <3>1. Betting' = Betting
      BY <1>1, <1>4, <1>5, <2>3 DEF Betting
    <3> QED BY <1>0, <2>1, <3>1 DEF Room
  <2> QED BY <2>2, <2>3
<1> QED BY <1>6, <1>7, <1>8, <1>9 DEF InboxInv

LEMMA EnqueueInv == ASSUME InboxInv, NEW s \in Sender, Enqueue(s) PROVE InboxInv'
<1> DEFINE it == sending[s]
           m == it.msg
<1>0. InboxTypeOK /\ HandsOK /\ Slips /\ Room
  BY DEF InboxInv
<1>1. /\ it # Empty /\ it \in SendCall /\ sending' = [sending EXCEPT ![s] = Empty]
      /\ UNCHANGED <<last_low_priority_check, clock, reading, read>>
  BY <1>0 DEF Enqueue, InboxTypeOK
<1>2. m \in Letter /\ it.depth \in Nat /\ it.flag \in BOOLEAN
  BY <1>1 DEF SendCall
<1>3. /\ sending' \in [Sender -> SendCall \cup {Empty}] /\ sending'[s] = Empty
      /\ \A t \in Sender : t # s => sending'[t] = sending[t]
  BY Zenon, <1>0, <1>1, SenderMoves
<1>4. HandsOK' /\ \A r \in Reader : Hand(r)' = Hand(r)
  BY <1>0, <1>1 DEF HandsOK, HandOK, Hand
<1>5. \A x \in Letter : \A t \in Sender : Sends(t, x)' <=> Sends(t, x) /\ t # s
  BY <1>3 DEF Sends
<1>6. /\ total_depth \in Nat /\ IsFiniteSet(Betting) /\ Cardinality(Betting) \in Nat
      /\ Cardinality(Holding) \in Nat
  BY <1>0, Counts DEF InboxTypeOK
<1>7. Betting' = Betting \ {s} /\ Holding' = Holding
  BY <1>1, <1>3 DEF Betting, Holding
<1>8. CASE it.depth >= MaxQueueSize
  <2>1. UNCHANGED <<inbox, accepted>> /\ backpressure_applied_' \in BOOLEAN
    BY Zenon, <1>0, <1>2, <1>8 DEF Enqueue, InboxTypeOK
  <2> HIDE DEF m, it
  <2>2. InboxTypeOK'
    BY <1>0, <1>1, <1>3, <2>1 DEF InboxTypeOK
  <2>3. Slips'
    <3> SUFFICES ASSUME NEW x \in Letter PROVE Slip(x)'
      BY DEF Slips
    <3>1. Slip(x)
      BY <1>0 DEF Slips
    <3> QED BY <1>1, <1>4, <1>5, <2>1, <3>1 DEF Slip
  <2>4. Room'
    <3>1. total_depth' = total_depth
      BY <2>1 DEF total_depth
    <3>2. Cardinality(Betting') \in Nat /\ Cardinality(Betting') <= Cardinality(Betting)
      BY <1>6, <1>7, FS_RemoveElement, FS_CardinalityType
    <3> QED BY <1>0, <1>6, <1>7, <3>1, <3>2, InboxConstants DEF Room
  <2> QED BY <1>4, <2>2, <2>3, <2>4 DEF InboxInv
<1>9. CASE ~ (it.depth >= MaxQueueSize)
  <2> DEFINE u == priority[m]
  <2>0. u \in Urgency
    BY <1>2, InboxConstants
  <2>1. /\ inbox' = [inbox EXCEPT ![u] = @ \cup {m}] /\ accepted' = accepted \cup {m}
        /\ backpressure_applied_' \in BOOLEAN
    BY Zenon, <1>0, <1>2, <1>9 DEF Enqueue, InboxTypeOK
  <2>2. Sends(s, m) /\ s \in Betting
    BY <1>1, <1>2, <1>9, InboxConstants DEF Sends, Betting
  <2> HIDE DEF m, it, u
  <2>3. /\ inbox' \in [Urgency -> SUBSET Letter]
        /\ \A v \in Urgency : IsFiniteSet(inbox'[v])
        /\ \A v \in Urgency : inbox'[v] = IF v = u THEN inbox[u] \cup {m} ELSE inbox[v]
        /\ total_depth' <= total_depth + 1
    BY Zenon, <1>0, <1>2, <2>0, <2>1, OneMore
  <2>4. InboxTypeOK'
    BY Zenon, <1>0, <1>1, <1>2, <1>3, <2>1, <2>3 DEF InboxTypeOK
  <2>5. Slips'
    <3> SUFFICES ASSUME NEW x \in Letter PROVE Slip(x)'
      BY DEF Slips
    <3>1. Slip(x)
      BY <1>0 DEF Slips
    <3>2. CASE x = m
      <4>1. /\ x \notin accepted /\ \A t \in Sender : Sends(t, x) => t = s
            /\ \A v \in Urgency : x \notin inbox[v]
            /\ \A r \in Reader : x \notin Hand(r)
            /\ x \notin read
        BY <2>2, <3>1, <3>2 DEF Slip
      <4>2. \A v \in Urgency : x \in inbox'[v] <=> v = u
        BY <2>3, <3>2, <4>1
      <4> QED BY <1>1, <1>4, <1>5, <2>0, <2>1, <3>2, <4>1, <4>2 DEF Slip
    <3>3. CASE x # m
      <4>1. \A v \in Urgency : x \in inbox'[v] <=> x \in inbox[v]
        BY <2>3, <3>3
      <4>2. x \in accepted' <=> x \in accepted
        BY <2>1, <3>3
      <4> QED BY <1>1, <1>4, <1>5, <3>1, <4>1, <4>2 DEF Slip
    <3> QED BY <3>2, <3>3
  <2>6. Room'
    <3>1. Cardinality(Betting') = Cardinality(Betting) - 1
      BY <1>6, <1>7, <2>2, FS_RemoveElement
    <3>2. total_depth' \in Nat
      <4>1. \A v \in Urgency : Cardinality(inbox'[v]) \in Nat
        BY <2>3, FS_CardinalityType
      <4> QED BY <4>1 DEF total_depth, Urgency
    <3> QED BY <1>0, <1>6, <1>7, <2>3, <3>1, <3>2, InboxConstants DEF Room
  <2> QED BY <1>4, <2>4, <2>5, <2>6 DEF InboxInv
<1> QED BY <1>8, <1>9

(***************************************************************************)
(* The readers.                                                            *)
(***************************************************************************)
LEMMA ReaderMoves ==
  ASSUME InboxTypeOK, HandsOK, NEW r \in Reader, NEW c \in ReadCall, HandOK(c),
         Reading(r, c)
  PROVE  /\ reading' \in [Reader -> ReadCall] /\ HandsOK'
         /\ Hand(r)' = {c.msg, c.other} \ {Empty}
         /\ \A q \in Reader : q # r => Hand(q)' = Hand(q)
         /\ c.msg = Empty => Holding' = Holding \ {r}
         /\ c.msg # Empty => Holding' = Holding \cup {r}
<1>1. /\ reading' \in [Reader -> ReadCall] /\ reading'[r] = c
      /\ \A q \in Reader : q # r => reading'[q] = reading[q]
  BY DEF InboxTypeOK, Reading
<1> QED BY <1>1 DEF HandsOK, HandOK, Hand, Holding

(* What every step of a reader leaves to show. *)
LEMMA ReaderInv ==
  ASSUME InboxInv, NEW r \in Reader, NEW c \in ReadCall, HandOK(c), Reading(r, c), Kept,
         inbox' \in [Urgency -> SUBSET Letter], \A u \in Urgency : IsFiniteSet(inbox'[u]),
         last_low_priority_check' \in Nat, read' \subseteq Letter, Slips',
         total_depth' + Cardinality(Holding') <= total_depth + Cardinality(Holding)
  PROVE  InboxInv'
<1>1. InboxTypeOK /\ HandsOK /\ Room
  BY DEF InboxInv
<1>2. reading' \in [Reader -> ReadCall] /\ HandsOK'
  BY <1>1, ReaderMoves
<1>3. UNCHANGED <<backpressure_applied_, clock, sending, accepted>>
  BY DEF Kept
<1>4. InboxTypeOK'
  BY <1>1, <1>2, <1>3 DEF InboxTypeOK
<1>5. Betting' = Betting
  BY <1>3 DEF Betting
<1>6. /\ total_depth \in Nat /\ Cardinality(Betting) \in Nat /\ Cardinality(Holding) \in Nat
  BY <1>1, Counts DEF InboxTypeOK
<1>7. total_depth' \in Nat
  <2>1. \A v \in Urgency : Cardinality(inbox'[v]) \in Nat
    BY FS_CardinalityType
  <2> QED BY <2>1 DEF total_depth, Urgency
<1>8. Cardinality(Holding') \in Nat
  <2>1. Holding' \subseteq Reader
    BY DEF Holding
  <2> HIDE DEF Holding
  <2>2. IsFiniteSet(Holding')
    BY <2>1, InboxConstants, FS_Subset
  <2> QED BY <2>2, FS_CardinalityType
<1>9. Room'
  BY <1>1, <1>5, <1>6, <1>7, <1>8, InboxConstants DEF Room
<1> QED BY <1>2, <1>4, <1>9 DEF InboxInv

(* The reader goes on with what it holds. *)
LEMMA SameHandInv ==
  ASSUME InboxInv, NEW r \in Reader, NEW c \in ReadCall, HandOK(c), Reading(r, c), Kept,
         UNCHANGED <<inbox, last_low_priority_check, read>>,
         c.msg = reading[r].msg, c.other = reading[r].other
  PROVE  InboxInv'
<1>1. InboxTypeOK /\ HandsOK /\ Slips
  BY DEF InboxInv
<1>2. \A q \in Reader : Hand(q)' = Hand(q)
  BY <1>1, ReaderMoves DEF Hand
<1>3. UNCHANGED <<sending, accepted>>
  BY DEF Kept
<1>4. Slips'
  BY <1>1, <1>2, <1>3 DEF Slips, Slip, Sends
<1>5. Holding' = Holding /\ total_depth' = total_depth
  <2>1. CASE c.msg = Empty
    <3>1. r \notin Holding /\ Holding' = Holding \ {r}
      BY Zenon, <1>1, <2>1, ReaderMoves DEF Holding
    <3> QED BY <3>1 DEF total_depth
  <2>2. CASE c.msg # Empty
    <3>1. r \in Holding /\ Holding' = Holding \cup {r}
      BY <1>1, <2>2, ReaderMoves DEF Holding
    <3> QED BY <3>1 DEF total_depth
  <2> QED BY <2>1, <2>2
<1>6. total_depth \in Nat /\ Cardinality(Holding) \in Nat
  BY <1>1, Counts DEF InboxTypeOK
<1>7. total_depth' + Cardinality(Holding') <= total_depth + Cardinality(Holding)
  BY <1>5, <1>6
<1>8. /\ inbox' \in [Urgency -> SUBSET Letter] /\ \A u \in Urgency : IsFiniteSet(inbox'[u])
      /\ last_low_priority_check' \in Nat /\ read' \subseteq Letter
  BY <1>1 DEF InboxTypeOK
<1> QED BY <1>4, <1>7, <1>8, ReaderInv

(* A message goes from a queue into the hands of the reader. *)
LEMMA TakeOutInv ==
  ASSUME InboxInv, NEW r \in Reader, NEW c \in ReadCall, HandOK(c), Reading(r, c), Kept,
         UNCHANGED <<last_low_priority_check, read>>,
         NEW u \in Urgency, NEW m \in inbox[u], inbox' = [inbox EXCEPT ![u] = @ \ {m}],
         {c.msg, c.other} \ {Empty} = Hand(r) \cup {m}
  PROVE  InboxInv'
<1>1. InboxTypeOK /\ HandsOK /\ Slips
  BY DEF InboxInv
<1>2. /\ inbox' \in [Urgency -> SUBSET Letter]
      /\ \A v \in Urgency : IsFiniteSet(inbox'[v])
      /\ \A v \in Urgency : inbox'[v] = IF v = u THEN inbox[u] \ {m} ELSE inbox[v]
      /\ total_depth' = total_depth - 1
  BY Zenon, <1>1, OneLess
<1>3. Hand(r)' = Hand(r) \cup {m} /\ \A q \in Reader : q # r => Hand(q)' = Hand(q)
  BY <1>1, ReaderMoves
<1>4. UNCHANGED <<sending, accepted>>
  BY DEF Kept
<1>5. \A s \in Sender, x \in Letter : Sends(s, x)' <=> Sends(s, x)
  BY <1>4 DEF Sends
<1>6. Slips'
  <2> SUFFICES ASSUME NEW x \in Letter PROVE Slip(x)'
    BY DEF Slips
  <2>1. Slip(x)
    BY <1>1 DEF Slips
  <2>2. CASE x = m
    <3>1. /\ x \in accepted /\ \A v \in Urgency : x \in inbox[v] => v = u
          /\ \A q \in Reader : x \notin Hand(q)
          /\ x \notin read
      BY <2>1, <2>2 DEF Slip
    <3>2. \A v \in Urgency : x \notin inbox'[v]
      BY <1>2, <2>2, <3>1
    <3>3. \A q \in Reader : x \in Hand(q)' <=> q = r
      BY <1>3, <2>2, <3>1
    <3> QED BY Zenon, <1>4, <1>5, <2>1, <3>1, <3>2, <3>3 DEF Slip
  <2>3. CASE x # m
    <3>1. \A v \in Urgency : x \in inbox'[v] <=> x \in inbox[v]
      BY <1>2, <2>3
    <3>2. \A q \in Reader : x \in Hand(q)' <=> x \in Hand(q)
      BY <1>3, <2>3
    <3> QED BY Zenon, <1>4, <1>5, <2>1, <3>1, <3>2 DEF Slip
  <2> QED BY <2>2, <2>3
<1>7. /\ total_depth \in Nat /\ IsFiniteSet(Holding) /\ Cardinality(Holding) \in Nat
  BY <1>1, Counts DEF InboxTypeOK
<1>8. Cardinality(Holding') \in Nat /\ Cardinality(Holding') <= Cardinality(Holding) + 1
  <2>1. CASE c.msg = Empty
    <3>1. Holding' = Holding \ {r}
      BY <1>1, <2>1, ReaderMoves
    <3>2. /\ Cardinality(Holding \ {r}) \in Nat
          /\ Cardinality(Holding \ {r}) <= Cardinality(Holding)
      BY Zenon, <1>7, NearCounts
    <3> QED BY <1>7, <3>1, <3>2
  <2>2. CASE c.msg # Empty
    <3>1. Holding' = Holding \cup {r}
      BY <1>1, <2>2, ReaderMoves
    <3>2. /\ Cardinality(Holding \cup {r}) \in Nat
          /\ Cardinality(Holding \cup {r}) <= Cardinality(Holding) + 1
      BY Zenon, <1>7, NearCounts
    <3> QED BY <1>7, <3>1, <3>2
  <2> QED BY <2>1, <2>2
<1>9. total_depth' + Cardinality(Holding') <= total_depth + Cardinality(Holding)
  BY <1>2, <1>7, <1>8
<1>10. last_low_priority_check' \in Nat /\ read' \subseteq Letter
  BY <1>1 DEF InboxTypeOK
<1> QED BY Zenon, <1>2, <1>6, <1>9, <1>10, ReaderInv

(* Two fields of a reader's call change at once. *)
LEMMA StepOf ==
  ASSUME NEW t \in ReadCall, NEW p \in {"NORMAL", "LOW", "return"}
  PROVE  /\ [t EXCEPT !.step = p] \in ReadCall /\ [t EXCEPT !.step = p].step = p
         /\ [t EXCEPT !.step = p].msg = t.msg /\ [t EXCEPT !.step = p].other = t.other
BY DEF ReadCall

LEMMA TakeHigh ==
  ASSUME NEW t \in ReadCall, NEW p \in {"NORMAL", "return"}, NEW x \in Letter
  PROVE  /\ [t EXCEPT !.step = p, !.msg = x] \in ReadCall
         /\ [t EXCEPT !.step = p, !.msg = x].step = p
         /\ [t EXCEPT !.step = p, !.msg = x].msg = x
         /\ [t EXCEPT !.step = p, !.msg = x].other = t.other
BY Zenon DEF ReadCall

LEMMA TakeOther ==
  ASSUME NEW t \in ReadCall, NEW x \in Letter
  PROVE  /\ [t EXCEPT !.step = "return", !.other = x] \in ReadCall
         /\ [t EXCEPT !.step = "return", !.other = x].step = "return"
         /\ [t EXCEPT !.step = "return", !.other = x].msg = t.msg
         /\ [t EXCEPT !.step = "return", !.other = x].other = x
BY Zenon DEF ReadCall

LEMMA LetGo ==
  ASSUME NEW t \in ReadCall
  PROVE  /\ [t EXCEPT !.msg = Empty] \in ReadCall
         /\ [t EXCEPT !.msg = Empty].step = t.step
         /\ [t EXCEPT !.msg = Empty].msg = Empty
         /\ [t EXCEPT !.msg = Empty].other = t.other
BY DEF ReadCall

LEMMA CalmFacts ==
    Calm \in ReadCall /\ Calm.step = "out" /\ Calm.msg = Empty /\ Calm.other = Empty
BY DEF Calm, ReadCall

LEMMA GetMessageInv == ASSUME InboxInv, NEW r \in Reader, getMessage(r) PROVE InboxInv'
<1> DEFINE c == [Calm EXCEPT !.step = "HIGH", !.now = clock, !.last = last_low_priority_check]
<1>1. clock \in Nat /\ last_low_priority_check \in Nat
  BY DEF InboxInv, InboxTypeOK
<1>2. c \in ReadCall /\ c.step = "HIGH" /\ c.msg = Empty /\ c.other = Empty
  BY Zenon, <1>1 DEF Calm, ReadCall
<1>3. /\ reading[r] = Calm /\ Reading(r, c) /\ Kept
      /\ UNCHANGED <<inbox, last_low_priority_check, read>>
  BY DEF getMessage
<1> HIDE DEF c
<1>4. HandOK(c) /\ c.msg = reading[r].msg /\ c.other = reading[r].other
  BY <1>2, <1>3, CalmFacts DEF HandOK
<1> QED BY <1>2, <1>3, <1>4, SameHandInv

LEMMA TryDequeueInv == ASSUME InboxInv, NEW r \in Reader, TryDequeue(r) PROVE InboxInv'
<1> DEFINE my == reading[r]
           u == my.step
<1>1. my \in ReadCall /\ HandOK(my) /\ u \in Urgency /\ Slips
  BY Zenon DEF InboxInv, InboxTypeOK, HandsOK, TryDequeue, Urgency
<1>2. UNCHANGED <<last_low_priority_check, read>> /\ Kept
  BY Zenon DEF TryDequeue
<1>3. my.msg \in Letter \cup {Empty} /\ my.other = Empty /\ Hand(r) = {my.msg} \ {Empty}
  BY <1>1 DEF HandOK, Urgency, ReadCall, Hand
<1>4. CASE inbox[u] = {} /\ Reading(r, [my EXCEPT !.step = Following(u)]) /\ UNCHANGED inbox
  <2> DEFINE p == Following(u)
             c == [my EXCEPT !.step = p]
  <2>1. p \in {"NORMAL", "LOW", "return"}
    BY DEF Following
  <2> HIDE DEF p
  <2>2. c \in ReadCall /\ c.step = p /\ c.msg = my.msg /\ c.other = my.other
    BY Zenon, <1>1, <2>1, StepOf
  <2>3. Reading(r, c)
    BY <1>4 DEF p
  <2> HIDE DEF c
  <2>4. HandOK(c)
    BY <1>3, <2>1, <2>2 DEF HandOK
  <2> QED BY <1>2, <1>4, <2>2, <2>3, <2>4, SameHandInv
<1>5. ASSUME NEW m \in inbox[u], NEW due \in BOOLEAN,
             inbox' = [inbox EXCEPT ![u] = @ \ {m}],
             Reading(r, IF u = "HIGH"
                        THEN [my EXCEPT !.step = IF due THEN "NORMAL" ELSE "return", !.msg = m]
                        ELSE [my EXCEPT !.step = "return", !.other = m])
      PROVE  InboxInv'
  <2>0. m \in Letter /\ m # Empty /\ m \notin Hand(r)
    <3>1. m \in Letter
      BY <1>1 DEF InboxInv, InboxTypeOK
    <3>2. Slip(m)
      BY <1>1, <3>1 DEF Slips
    <3> QED BY <1>1, <3>1, <3>2, InboxConstants DEF Slip
  <2>1. CASE u = "HIGH"
    <3>1. my.msg = Empty
      BY <1>1, <2>1 DEF HandOK
    <3>2. ASSUME NEW p \in {"NORMAL", "return"},
                 Reading(r, [my EXCEPT !.step = p, !.msg = m])
          PROVE  InboxInv'
      <4> DEFINE c == [my EXCEPT !.step = p, !.msg = m]
      <4>1. c \in ReadCall /\ c.step = p /\ c.msg = m /\ c.other = my.other
        <5>1. my \in ReadCall /\ m \in Letter
          BY <1>1, <2>0
        <5> HIDE DEF my
        <5>2. \A t \in ReadCall : /\ [t EXCEPT !.step = p, !.msg = m] \in ReadCall
                                  /\ [t EXCEPT !.step = p, !.msg = m].step = p
                                  /\ [t EXCEPT !.step = p, !.msg = m].msg = m
                                  /\ [t EXCEPT !.step = p, !.msg = m].other = t.other
          BY Zenon, <5>1, <3>2 DEF ReadCall
        <5> QED BY Zenon, <5>1, <5>2
      <4>2. Reading(r, c)
        BY <3>2
      <4> HIDE DEF c
      <4>3. HandOK(c) /\ {c.msg, c.other} \ {Empty} = Hand(r) \cup {m}
        BY <1>3, <2>0, <3>1, <4>1 DEF HandOK
      <4> QED BY Zenon, <1>1, <1>2, <1>5, <4>1, <4>2, <4>3, TakeOutInv
    <3>3. Reading(r, [my EXCEPT !.step = IF due THEN "NORMAL" ELSE "return", !.msg = m])
      BY <1>5, <2>1
    <3>4. CASE due
      BY <3>2, <3>3, <3>4
    <3>5. CASE ~due
      BY <3>2, <3>3, <3>5
    <3> QED BY <3>4, <3>5
  <2>2. CASE u # "HIGH"
    <3> DEFINE c == [my EXCEPT !.step = "return", !.other = m]
    <3>1. Reading(r, c)
      BY <1>5, <2>2
    <3>2. c \in ReadCall /\ c.step = "return" /\ c.msg = my.msg /\ c.other = m
      BY Zenon, <1>1, <2>0, TakeOther
    <3> HIDE DEF c
    <3>3. HandOK(c) /\ {c.msg, c.other} \ {Empty} = Hand(r) \cup {m}
      BY <1>3, <2>0, <3>2 DEF HandOK
    <3> QED BY Zenon, <1>1, <1>2, <1>5, <3>1, <3>2, <3>3, TakeOutInv
  <2> QED BY <2>1, <2>2
<1>6. \/ inbox[u] = {} /\ Reading(r, [my EXCEPT !.step = Following(u)]) /\ UNCHANGED inbox
      \/ \E m \in inbox[u], due \in BOOLEAN :
            /\ inbox' = [inbox EXCEPT ![u] = @ \ {m}]
            /\ Reading(r, IF u = "HIGH"
                          THEN [my EXCEPT !.step = IF due THEN "NORMAL" ELSE "return", !.msg = m]
                          ELSE [my EXCEPT !.step = "return", !.other = m])
  <2> DEFINE d == my.last # 0 /\ my.now - my.last >= Interval
  <2>1. d \in BOOLEAN
    OBVIOUS
  <2>2. \/ inbox[u] = {} /\ Reading(r, [my EXCEPT !.step = Following(u)]) /\ UNCHANGED inbox
        \/ \E m \in inbox[u] :
            /\ inbox' = [inbox EXCEPT ![u] = @ \ {m}]
            /\ Reading(r, IF u = "HIGH"
                          THEN [my EXCEPT !.step = IF d THEN "NORMAL" ELSE "return", !.msg = m]
                          ELSE [my EXCEPT !.step = "return", !.other = m])
    BY Zenon DEF TryDequeue
  <2> HIDE DEF d, u, my
  <2> QED BY Zenon, <2>1, <2>2
<1> QED BY Zenon, <1>4, <1>5, <1>6

LEMMA PutBackInv == ASSUME InboxInv, NEW r \in Reader, PutBack(r) PROVE InboxInv'
<1> DEFINE my == reading[r]
           m == my.msg
           c == [my EXCEPT !.msg = Empty]
<1>1. InboxTypeOK /\ HandsOK /\ Slips /\ my \in ReadCall /\ HandOK(my)
  BY DEF InboxInv, InboxTypeOK, HandsOK
<1>2. /\ my.step = "return" /\ m # Empty /\ my.other # Empty
      /\ inbox' = [inbox EXCEPT !["HIGH"] = @ \cup {m}] /\ Reading(r, c)
      /\ UNCHANGED <<last_low_priority_check, read>> /\ Kept
  BY DEF PutBack
<1>3. /\ m \in Letter /\ my.other \in Letter /\ m # my.other
      /\ Hand(r) = {m, my.other}
  BY <1>1, <1>2 DEF ReadCall, HandOK, Hand
<1>4. c \in ReadCall /\ c.step = "return" /\ c.msg = Empty /\ c.other = my.other
  BY <1>1, <1>2, LetGo
<1>5. r \in Holding
  BY <1>2 DEF Holding
<1> HIDE DEF c, m, my
<1>6. HandOK(c)
  BY <1>4 DEF HandOK
<1>7. /\ Hand(r)' = Hand(r) \ {m} /\ \A q \in Reader : q # r => Hand(q)' = Hand(q)
      /\ Holding' = Holding \ {r}
  <2>1. /\ Hand(r)' = {c.msg, c.other} \ {Empty}
        /\ \A q \in Reader : q # r => Hand(q)' = Hand(q)
        /\ Holding' = Holding \ {r}
    BY <1>1, <1>2, <1>4, <1>6, ReaderMoves
  <2> QED BY <1>2, <1>3, <1>4, <2>1
<1>8. "HIGH" \in Urgency
  BY DEF Urgency
<1>9. /\ inbox' \in [Urgency -> SUBSET Letter]
      /\ \A v \in Urgency : IsFiniteSet(inbox'[v])
      /\ \A v \in Urgency : inbox'[v] = IF v = "HIGH" THEN inbox["HIGH"] \cup {m} ELSE inbox[v]
      /\ total_depth' <= total_depth + 1
  BY Zenon, <1>1, <1>2, <1>3, <1>8, OneMore
<1>10. UNCHANGED <<sending, accepted>> /\ \A s \in Sender, x \in Letter : Sends(s, x)' <=> Sends(s, x)
  BY Zenon, <1>2 DEF Kept, Sends
<1>11. Slips'
  <2> SUFFICES ASSUME NEW x \in Letter PROVE Slip(x)'
    BY DEF Slips
  <2>1. Slip(x)
    BY <1>1 DEF Slips
  <2>2. CASE x = m
    <3>1. /\ x \in accepted /\ \A v \in Urgency : x \notin inbox[v]
          /\ \A q \in Reader : x \in Hand(q) => q = r
          /\ x \notin read
      BY <1>3, <2>1, <2>2 DEF Slip
    <3>2. \A v \in Urgency : x \in inbox'[v] <=> v = "HIGH"
      BY <1>9, <2>2, <3>1
    <3>3. \A q \in Reader : x \notin Hand(q)'
      BY <1>7, <2>2, <3>1
    <3> QED BY <1>2, <1>8, <1>10, <2>1, <3>1, <3>2, <3>3 DEF Slip
  <2>3. CASE x # m
    <3>1. \A v \in Urgency : x \in inbox'[v] <=> x \in inbox[v]
      BY <1>9, <2>3
    <3>2. \A q \in Reader : x \in Hand(q)' <=> x \in Hand(q)
      BY <1>7, <2>3
    <3> QED BY <1>2, <1>10, <2>1, <3>1, <3>2 DEF Slip
  <2> QED BY <2>2, <2>3
<1>12. /\ total_depth \in Nat /\ IsFiniteSet(Holding) /\ Cardinality(Holding) \in Nat
  BY <1>1, Counts DEF InboxTypeOK
<1>13. Cardinality(Holding') = Cardinality(Holding) - 1
  BY <1>5, <1>7, <1>12, FS_RemoveElement
<1>14. total_depth' \in Nat
  <2>1. \A v \in Urgency : Cardinality(inbox'[v]) \in Nat
    BY <1>9, FS_CardinalityType
  <2> QED BY <2>1 DEF total_depth, Urgency
<1>15. total_depth' + Cardinality(Holding') <= total_depth + Cardinality(Holding)
  BY <1>9, <1>12, <1>13, <1>14
<1>16. last_low_priority_check' \in Nat /\ read' \subseteq Letter
  BY <1>1, <1>2 DEF InboxTypeOK
<1> QED BY <1>2, <1>4, <1>6, <1>9, <1>11, <1>15, <1>16, ReaderInv

LEMMA GetReturnInv == ASSUME InboxInv, NEW r \in Reader, GetReturn(r) PROVE InboxInv'
<1> DEFINE my == reading[r]
<1>1. InboxTypeOK /\ HandsOK /\ Slips /\ my \in ReadCall
  BY DEF InboxInv, InboxTypeOK
<1>2. /\ read' = read \cup Hand(r) /\ Reading(r, Calm) /\ UNCHANGED inbox /\ Kept
      /\ last_low_priority_check' \in {last_low_priority_check, my.now}
  BY DEF GetReturn, Hand
<1>3. HandOK(Calm)
  BY CalmFacts DEF HandOK
<1>4. /\ Hand(r)' = {} /\ \A q \in Reader : q # r => Hand(q)' = Hand(q)
      /\ Holding' = Holding \ {r}
  <2>1. /\ Hand(r)' = {Calm.msg, Calm.other} \ {Empty}
        /\ \A q \in Reader : q # r => Hand(q)' = Hand(q)
        /\ Calm.msg = Empty => Holding' = Holding \ {r}
    BY <1>1, <1>2, <1>3, CalmFacts, ReaderMoves
  <2> QED BY <2>1, CalmFacts
<1>5. UNCHANGED <<sending, accepted>> /\ \A s \in Sender, x \in Letter : Sends(s, x)' <=> Sends(s, x)
  BY <1>2 DEF Kept, Sends
<1>6. Slips'
  <2> SUFFICES ASSUME NEW x \in Letter PROVE Slip(x)'
    BY DEF Slips
  <2>1. Slip(x)
    BY <1>1 DEF Slips
  <2>2. CASE x \in Hand(r)
    <3>1. /\ x \in accepted /\ \A v \in Urgency : x \notin inbox[v]
          /\ \A q \in Reader : x \in Hand(q) => q = r
      BY Zenon, <2>1, <2>2 DEF Slip
    <3>2. \A q \in Reader : x \notin Hand(q)'
      BY <1>4, <3>1
    <3>3. x \in read' /\ \A v \in Urgency : x \notin inbox'[v]
      BY <1>2, <2>2, <3>1
    <3> QED BY Zenon, <1>5, <2>1, <3>1, <3>2, <3>3 DEF Slip
  <2>3. CASE x \notin Hand(r)
    <3>1. \A q \in Reader : x \in Hand(q)' <=> x \in Hand(q)
      BY <1>4, <2>3
    <3>2. (x \in read' <=> x \in read) /\ \A v \in Urgency : x \in inbox'[v] <=> x \in inbox[v]
      BY <1>2, <2>3
    <3> QED BY Zenon, <1>5, <2>1, <3>1, <3>2 DEF Slip
  <2> QED BY <2>2, <2>3
<1>7. /\ total_depth \in Nat /\ IsFiniteSet(Holding) /\ Cardinality(Holding) \in Nat
      /\ total_depth' = total_depth
  BY <1>1, <1>2, Counts DEF InboxTypeOK, total_depth
<1>8. Cardinality(Holding') \in Nat /\ Cardinality(Holding') <= Cardinality(Holding)
  <2>1. /\ Cardinality(Holding \ {r}) \in Nat
        /\ Cardinality(Holding \ {r}) <= Cardinality(Holding)
    BY <1>7, NearCounts
  <2> QED BY <1>4, <2>1
<1>9. total_depth' + Cardinality(Holding') <= total_depth + Cardinality(Holding)
  BY <1>7, <1>8
<1>10. /\ inbox' \in [Urgency -> SUBSET Letter] /\ \A u \in Urgency : IsFiniteSet(inbox'[u])
       /\ last_low_priority_check' \in Nat /\ read' \subseteq Letter
  BY <1>1, <1>2 DEF InboxTypeOK, ReadCall, Hand
<1> QED BY <1>2, <1>3, <1>6, <1>9, <1>10, CalmFacts, ReaderInv

LEMMA StillInboxInv ==
  ASSUME InboxInv, clock' \in Nat,
         UNCHANGED <<inbox, backpressure_applied_, last_low_priority_check, sending,
                     reading, accepted, read>>
  PROVE  InboxInv'
<1>1. InboxTypeOK' /\ HandsOK'
  BY DEF InboxInv, InboxTypeOK, HandsOK, HandOK
<1>2. Slips'
  BY Zenon DEF InboxInv, Slips, Slip, Sends, Hand
<1>3. Room'
  BY DEF InboxInv, Room, total_depth, Betting, Holding
<1> QED BY <1>1, <1>2, <1>3 DEF InboxInv

(* agent_core.cpp:38-179: what is known of the inbox holds in every state:  *)
(* the senders and the readers are where their calls can be, every message  *)
(* is in one place, and what is in the inbox together with what may still   *)
(* be added to it stays within the limit.                                   *)
THEOREM InboxInvariance == InboxSpec => []InboxInv
<1>1. ASSUME InboxInv, [InboxNext]_inboxVars PROVE InboxInv'
  <2>1. ASSUME NEW s \in Sender, Enqueue(s) PROVE InboxInv'
    BY <1>1, <2>1, EnqueueInv
  <2>2. ASSUME NEW s \in Sender, NEW m \in Letter, receiveMessage(s, m) PROVE InboxInv'
    BY <1>1, <2>2, ReceiveInv
  <2>3. ASSUME NEW r \in Reader, Read(r) PROVE InboxInv'
    BY <1>1, <2>3, GetMessageInv, TryDequeueInv, PutBackInv, GetReturnInv DEF Read
  <2>4. CASE Tick
    BY <1>1, <2>4, StillInboxInv DEF Tick, InboxInv, InboxTypeOK
  <2>5. CASE UNCHANGED inboxVars
    BY <1>1, <2>5, StillInboxInv DEF inboxVars, InboxInv, InboxTypeOK
  <2> QED BY <1>1, <2>1, <2>2, <2>3, <2>4, <2>5 DEF InboxNext
<1> QED BY <1>1, InboxStarts, PTL DEF InboxSpec

(* agent_core.cpp:104-179: a message that was accepted is in the inbox, in  *)
(* the hands of one reader or returned, once, however many agents send and  *)
(* however many threads read, the ones that gave way to lower priorities    *)
(* included.                                                                *)
THEOREM EveryLetterInOnePlace == InboxSpec => []Delivered
BY InboxInvariance, InboxDelivers, PTL

(* agent_core.cpp:38-102: the limit of the inbox is outgrown by at most one  *)
(* message for every other sender and one for every reader.                 *)
THEOREM SoftLimitHolds == InboxSpec => []SoftLimit
BY InboxInvariance, InboxLimited, PTL
=============================================================================
