-------------------------- MODULE DeliveryRefinement --------------------------
(* The transport layer implements ReliableDelivery: from the inductive         *)
(* invariant of DeliveryProofs, every step of Delivery is a step of the        *)
(* abstract specification, or leaves its variables alone.                      *)
EXTENDS DeliveryProofs

USE MessagesAssumption, MaxAttemptsAssumption

LEMMA AbstractPackets ==
    /\ Abstract!Packets = Packets
    /\ \A m \in Messages : PacketsOf(m) = {m} \X (1..Total[m])
  BY DEF Abstract!Packets, Packets, PacketsOf

LEMMA InitRefines == Init => Abstract!Init
<1> SUFFICES ASSUME Init PROVE Abstract!Init
  OBVIOUS
<1> USE DEF Init, TransportInit, HandlerInit
<1>1. \A p \in Packets : Phase(p) = "unsent" /\ tries[p] = 0
  BY PacketFacts, EntryFacts DEF Phase, Entry
<1>2. \A p \in Packets : ~Arrived(p)
  BY PacketFacts DEF Arrived
<1>3. \A m \in Messages : m \notin delivered[Target[m]]
  OBVIOUS
<1>4. QED
  BY <1>1, <1>2, <1>3, AbstractPackets DEF Abstract!Init

------------------------------------------------------------------------------
(* The sending side.                                                           *)

\* What a step of a transport thread may do to the entry of one packet: nothing, or drop
\* it; make it with the first datagram; or count one more.
Sending(p) ==
    \/ tries'[p] = tries[p] /\ (Open(Entry(p))' => Open(Entry(p)))
    \/ tries[p] = 0 /\ tries'[p] = 1 /\ Open(Entry(p))'
    \/ Open(Entry(p)) /\ Open(Entry(p))' /\ tries'[p] = tries[p] + 1

LEMMA OpenWasSent ==
    ASSUME TypeOK, OutboxInv, NEW p \in Packets
    PROVE  tries[p] \in Nat /\ (Open(Entry(p)) => tries[p] > 0)
<1>1. tries[p] \in Nat
  BY DEF TypeOK, TransportTypeOK
<1>2. Entry(p) = Absent \/ tries[p] > 0
  BY PacketFacts DEF OutboxInv, Entry
<1>3. QED
  BY <1>1, <1>2, EntryFacts

\* Such steps are those of the abstract senders.
LEMMA SendersStep ==
    ASSUME IInv, IInv', UNCHANGED handlerVars, \A p \in Packets : Sending(p)
    PROVE  Abstract!Senders
<1>1. \A p \in Packets : Arrived(p)' = Arrived(p)
  BY DEF Arrived, handlerVars
<1>2. ASSUME NEW p \in Packets
      PROVE  /\ \/ Phase(p)' = Phase(p) /\ tries'[p] = tries[p]
                \/ Phase(p) = "unsent" /\ Phase(p)' = "open" /\ tries'[p] = 1
                \/ /\ Phase(p) = "open" /\ Phase(p)' = "open"
                   /\ tries[p] < MaxAttempts /\ tries'[p] = tries[p] + 1
                \/ /\ Phase(p) = "open" /\ Phase(p)' = "closed"
                   /\ Arrived(p) \/ tries[p] = MaxAttempts
                   /\ tries'[p] = tries[p]
             /\ Phase(p)' \in {"unsent", "open", "closed"}
             /\ tries'[p] \in 0..MaxAttempts
  <2>1. tries[p] \in Nat /\ tries'[p] \in Nat /\ (Open(Entry(p)) => tries[p] > 0)
    BY OpenWasSent DEF IInv, DeliveryInv, TypeOK, TransportTypeOK
  <2>2. /\ tries'[p] <= MaxAttempts
        /\ tries'[p] > 0 /\ ~Open(Entry(p))' => Arrived(p) \/ tries'[p] = MaxAttempts
    BY <1>1 DEF IInv, DeliveryInv, CountInv
  <2>3. /\ Phase(p) = IF Open(Entry(p)) THEN "open"
                      ELSE IF tries[p] = 0 THEN "unsent" ELSE "closed"
        /\ Phase(p)' = IF Open(Entry(p))' THEN "open"
                       ELSE IF tries'[p] = 0 THEN "unsent" ELSE "closed"
    BY DEF Phase
  <2>4. CASE tries'[p] = tries[p] /\ (Open(Entry(p))' => Open(Entry(p)))
    BY <2>1, <2>2, <2>3, <2>4
  <2>5. CASE tries[p] = 0 /\ tries'[p] = 1 /\ Open(Entry(p))'
    BY <2>1, <2>2, <2>3, <2>5
  <2>6. CASE Open(Entry(p)) /\ Open(Entry(p))' /\ tries'[p] = tries[p] + 1
    <3>1. Phase(p) = "open" /\ Phase(p)' = "open"
      BY <2>3, <2>6
    <3>2. tries'[p] = tries[p] + 1 /\ tries[p] < MaxAttempts /\ tries'[p] \in 0..MaxAttempts
      BY <2>1, <2>2, <2>6
    <3>3. QED
      BY <3>1, <3>2
  <2>7. QED
    BY <2>4, <2>5, <2>6 DEF Sending
<1>3. /\ [p \in Packets |-> Phase(p)]' \in [Packets -> {"unsent", "open", "closed"}]
      /\ tries' \in [Packets -> 0..MaxAttempts]
  BY <1>2 DEF IInv, TypeOK, TransportTypeOK
<1>4. /\ {p \in Packets : Arrived(p)}' = {p \in Packets : Arrived(p)}
      /\ {m \in Messages : m \in delivered[Target[m]]}'
           = {m \in Messages : m \in delivered[Target[m]]}
  BY <1>1 DEF handlerVars
<1>5. ASSUME NEW p \in Packets
      PROVE  Abstract!Wait(p) \/ Abstract!FirstSend(p)
               \/ Abstract!SendAgain(p) \/ Abstract!Forget(p)
  BY <1>2 DEF Abstract!Wait, Abstract!FirstSend, Abstract!SendAgain, Abstract!Forget
<1>6. QED
  BY <1>3, <1>4, <1>5, AbstractPackets DEF Abstract!Senders

LEMMA SendMessageRefines ==
    ASSUME IInv, IInv', NEW n \in Nodes, SendMessage(n), UNCHANGED handlerVars
    PROVE  Abstract!Senders
<1> USE DEF IInv, DeliveryInv
<1> DEFINE item == Head(om[n])
           m == item.msg.id
           peer == Route(n, item.to)
<1>1. /\ om[n] # <<>> /\ item.msg.head # "Ack"
      /\ outbox' = [outbox EXCEPT ![n] =
                      [p \in Packets |-> IF p \in PacketsOf(m)
                                         THEN SendReliable(outbox[n][p], peer)
                                         ELSE outbox[n][p]]]
      /\ tries' = [p \in Packets |-> IF p \in PacketsOf(m) THEN tries[p] + 1 ELSE tries[p]]
      /\ outbox \in [Nodes -> [Packets -> Entries]] /\ tries \in [Packets -> Nat]
  BY DEF SendMessage, TypeOK, TransportTypeOK
<1>2. item \in Outgoing /\ ItemOK(n, item)
  <2>1. item = om[n][1] /\ 1 \in 1..Len(om[n]) /\ item \in Outgoing
    BY <1>1, TailFacts DEF TypeOK, WireTypeOK
  <2>2. QED
    BY <2>1 DEF QueueInv
<1>3. m \in Messages /\ n = Origin[m] /\ \A p \in PacketsOf(m) : tries[p] = 0
  BY <1>1, <1>2, OutgoingFacts DEF ItemOK
<1> HIDE DEF item, m, peer
<1>4. ASSUME NEW p \in PacketsOf(m)
      PROVE  tries[p] = 0 /\ tries'[p] = 1 /\ Open(Entry(p))'
  <2>1. p \in Packets /\ n = Sender(p)
    BY <1>3, PacketFacts DEF Sender
  <2>2. outbox'[n][p] = SendReliable(outbox[n][p], peer) /\ tries'[p] = tries[p] + 1
    BY <1>1, <2>1
  <2>3. outbox'[n][p].attempts = outbox[n][p].attempts + 1 /\ outbox[n][p].attempts \in Nat
    BY <1>1, <2>1, <2>2 DEF SendReliable, Entries
  <2>4. QED
    BY <1>3, <2>1, <2>2, <2>3 DEF Open, Entry
<1>5. ASSUME NEW p \in Packets, p \notin PacketsOf(m)
      PROVE  tries'[p] = tries[p] /\ Entry(p)' = Entry(p)
  <2>1. \A c \in Nodes : outbox'[c][p] = outbox[c][p]
    BY <1>1, <1>5
  <2>2. QED
    BY <1>1, <1>5, <2>1, PacketFacts DEF Entry
<1>6. \A p \in Packets : Sending(p)
  BY <1>4, <1>5 DEF Sending
<1>7. QED
  BY <1>6, SendersStep

LEMMA MaintainRefines ==
    ASSUME IInv, IInv', NEW n \in Nodes, Maintain(n), UNCHANGED handlerVars
    PROVE  Abstract!Senders
<1> USE DEF IInv, DeliveryInv
<1>1. ASSUME NEW p \in Packets
      PROVE  /\ tries'[p] = tries[p] + Cardinality(Peers(Retain(outbox[n][p])))
             /\ outbox'[n][p] = Resend(Retain(outbox[n][p]))
             /\ \A c \in Nodes \ {n} : outbox'[c][p] = outbox[c][p]
             /\ tries[p] \in Nat
  BY DEF Maintain, TypeOK, TransportTypeOK
<1>2. ASSUME NEW p \in Packets
      PROVE  Sending(p)
  <2> DEFINE e == outbox[n][p]
  <2>1. CASE Retain(e) = Absent /\ Resend(Retain(e)) = Absent
             /\ Cardinality(Peers(Retain(e))) = 0
    <3>1. tries'[p] = tries[p] /\ outbox'[n][p] = Absent
      BY <1>1, <2>1
    <3>2. Entry(p)' = Absent \/ Entry(p)' = Entry(p)
      BY <1>1, <3>1, PacketFacts DEF Entry
    <3>3. QED
      BY <3>1, <3>2, EntryFacts DEF Sending
  <2>2. CASE /\ n = Sender(p) /\ Retain(e) = e
             /\ e.attempts = tries[p] /\ tries[p] > 0 /\ Cardinality(Peers(e)) = 1
             /\ Resend(e) = [sent |-> {Dest(p)}, acked |-> e.acked,
                             attempts |-> e.attempts + 1]
    <3>1. tries'[p] = tries[p] + 1 /\ outbox'[n][p].attempts = tries[p] + 1
      BY <1>1, <2>2
    <3>2. Open(Entry(p)) /\ Open(Entry(p))'
      BY <1>1, <2>2, <3>1 DEF Open, Entry
    <3>3. QED
      BY <3>1, <3>2 DEF Sending
  <2>3. QED
    BY <2>1, <2>2, KeptFacts, ZenonT(60)
<1>3. QED
  BY <1>2, SendersStep

LEMMA IncomingAckRefines ==
    ASSUME IInv, IInv', NEW n \in Nodes, IncomingAck(n), UNCHANGED handlerVars
    PROVE  Abstract!Senders
<1> USE DEF IInv, DeliveryInv
<1> DEFINE ack == Head(ia[n])
<1>1. /\ outbox' = [outbox EXCEPT ![n] = ProcessAck(outbox[n], ack)] /\ tries' = tries
      /\ outbox \in [Nodes -> [Packets -> Entries]]
  BY DEF IncomingAck, TypeOK, TransportTypeOK
<1>2. ASSUME NEW p \in Packets, NEW c \in Nodes
      PROVE  outbox'[c][p].attempts = outbox[c][p].attempts
  <2>1. ProcessAck(outbox[n], ack)[p].attempts = outbox[n][p].attempts
    BY <1>1 DEF ProcessAck, Acknowledge
  <2>2. QED
    BY <1>1, <2>1
<1>3. \A p \in Packets : Sending(p)
  BY <1>1, <1>2, PacketFacts DEF Sending, Open, Entry
<1>4. QED
  BY <1>3, SendersStep

------------------------------------------------------------------------------
(* The receiving side.                                                         *)

\* A step that leaves alone what the abstract variables are made of.
LEMMA Unseen ==
    ASSUME UNCHANGED transportVars,
           \A p \in Packets : Arrived(p)' <=> Arrived(p),
           UNCHANGED delivered
    PROVE  UNCHANGED Abstract!vars
<1>1. /\ [p \in Packets |-> Phase(p)]' = [p \in Packets |-> Phase(p)]
      /\ tries' = tries
  BY DEF transportVars, Phase, Entry
<1>2. /\ {p \in Packets : Arrived(p)}' = {p \in Packets : Arrived(p)}
      /\ {m \in Messages : m \in delivered[Target[m]]}'
           = {m \in Messages : m \in delivered[Target[m]]}
  OBVIOUS
<1>3. QED
  BY <1>1, <1>2 DEF Abstract!vars

\* A datagram read off the wire makes its packet arrive, if it carries one.
LEMMA RecvMsgRefines ==
    ASSUME IInv, NEW n \in Nodes, NEW d \in net, RecvMsg(n, d), UNCHANGED transportVars
    PROVE  Abstract!Next \/ UNCHANGED Abstract!vars
<1> USE DEF IInv, DeliveryInv
<1>1. /\ holding[n] = Nothing /\ holding' = [holding EXCEPT ![n] = d]
      /\ UNCHANGED <<pending, delivered>> /\ d.to.port = n
      /\ d \in Datagrams /\ DatagramOK(d) /\ holding \in [Nodes -> Datagrams \cup {Nothing}]
  BY DEF RecvMsg, TypeOK, WireTypeOK, HandlerTypeOK, InFlightInv
<1>2. CASE d.msg.head = "Ack"
  <2>1. ASSUME NEW p \in Packets
        PROVE  Arrived(p)' = Arrived(p)
    <3>1. d.msg # DataMessage(p)
      BY <1>2, DataFacts
    <3>2. QED
      BY <1>1, <3>1, PacketFacts DEF Arrived
  <2>2. QED
    BY <1>1, <2>1, Unseen
<1>3. CASE d.msg.head = "Data"
  <2> DEFINE q == d.msg.packet
  <2>1. q \in Packets /\ d.msg = DataMessage(q) /\ tries[q] > 0 /\ n = Receiver(q)
    <3>1. q \in Packets /\ d.msg = DataMessage(q) /\ tries[q] > 0 /\ d.to = Dest(q)
      BY <1>1, <1>3, DatagramFacts DEF DatagramOK
    <3>2. QED
      BY <1>1, <3>1, PacketFacts, AddressFacts DEF Dest
  <2>2. ASSUME NEW p \in Packets
        PROVE  Arrived(p)' <=> Arrived(p) \/ p = q
    <3>1. d.msg = DataMessage(p) <=> p = q
      BY <2>1, DataFacts
    <3>2. CASE Receiver(p) = n
      BY <1>1, <2>1, <3>1, <3>2, NothingAssumption DEF Arrived
    <3>3. CASE Receiver(p) # n
      BY <1>1, <2>1, <3>3, PacketFacts DEF Arrived
    <3>4. QED
      BY <3>2, <3>3
  <2>3. {p \in Packets : Arrived(p)}' = {p \in Packets : Arrived(p)} \cup {q}
    BY <2>1, <2>2
  <2>4. /\ [p \in Packets |-> Phase(p)]' = [p \in Packets |-> Phase(p)] /\ tries' = tries
        /\ {m \in Messages : m \in delivered[Target[m]]}'
             = {m \in Messages : m \in delivered[Target[m]]}
    BY <1>1 DEF transportVars, Phase, Entry
  <2>5. Abstract!Arrive
    BY <2>1, <2>3, <2>4, AbstractPackets DEF Abstract!Arrive
  <2>6. QED
    BY <2>5 DEF Abstract!Next
<1>4. QED
  BY <1>1, <1>2, <1>3, DatagramFacts

\* Filing a packet changes nothing but that it may complete its message, all packets of
\* which have then arrived.
LEMMA InsertPacketRefines ==
    ASSUME IInv, NEW n \in Nodes, InsertPacket(n), UNCHANGED <<transportVars, accepted>>
    PROVE  Abstract!Next \/ UNCHANGED Abstract!vars
<1> USE DEF IInv, DeliveryInv
<1> DEFINE q == holding[n].msg.packet
           m == q[1]
           k == q[2]
           old == pending[n][m]
<1>1. /\ holding[n] # Nothing /\ holding[n].msg.head = "Data"
      /\ holding' = [holding EXCEPT ![n] = Nothing]
      /\ pending' = [pending EXCEPT ![n][m] = Filed(old, m, k)]
      /\ delivered' = IF Completes(old, m, k)
                      THEN [delivered EXCEPT ![n] = delivered[n] \cup {m}]
                      ELSE delivered
      /\ holding \in [Nodes -> Datagrams \cup {Nothing}]
      /\ pending \in [Nodes -> [Messages -> SUBSET Nat]]
      /\ delivered \in [Nodes -> SUBSET Messages]
  BY DEF InsertPacket, TypeOK, HandlerTypeOK
<1>2. /\ q \in Packets /\ m \in Messages /\ k \in 1..Total[m] /\ n = Target[m]
      /\ q = <<m, k>> /\ Arrived(q)
  <2>1. holding[n] \in Datagrams /\ DatagramOK(holding[n]) /\ holding[n].to.port = n
    BY <1>1 DEF InFlightInv
  <2>2. /\ q \in Packets /\ holding[n].to = Dest(q) /\ holding[n].msg = DataMessage(q)
    BY <1>1, <2>1, DatagramFacts DEF DatagramOK
  <2>3. Dest(q).port = Receiver(q)
    BY <2>2, PacketFacts, AddressFacts DEF Dest
  <2>4. n = Receiver(q)
    BY <2>1, <2>2, <2>3
  <2>5. Arrived(q)
    BY <1>1, <2>2, <2>4 DEF Arrived
  <2>6. QED
    BY <2>2, <2>4, <2>5, PacketFacts DEF Receiver
<1>3. old \subseteq 1..Total[m] /\ Total[m] \in Nat \ {0}
  <2>1. \A c \in Nodes, x \in Messages : pending[c][x] \subseteq 1..Total[x]
    BY DEF TypeOK, HandlerTypeOK
  <2>2. m \in Messages
    BY <1>2
  <2> HIDE DEF m
  <2>3. QED
    BY <2>1, <2>2
<1>4. \A p \in Packets : Arrived(p) => Arrived(p)'
  BY HandlerGrows DEF HandlerStep, Grows
<1>5. \A i \in 1..Total[m] : i \in old => Arrived(<<m, i>>)
  BY <1>2, PacketFacts DEF Arrived, Receiver
<1> HIDE DEF q, m, k, old
<1>6. \A c \in Nodes, x \in Messages :
        pending'[c][x] = IF c = n /\ x = m THEN Filed(old, m, k) ELSE pending[c][x]
  BY <1>1, <1>2
<1>7. Completes(old, m, k) => \A i \in 1..Total[m] : Arrived(<<m, i>>)
  <2>1. CASE Total[m] = 1
    BY <1>2, <2>1
  <2>2. CASE old # {} /\ Cardinality(old \cup {k}) = Total[m]
    <3>1. old \cup {k} \subseteq 1..Total[m]
      BY <1>2, <1>3
    <3>2. IsFiniteSet(1..Total[m]) /\ Cardinality(1..Total[m]) = Total[m]
      BY <1>3, FS_Interval
    <3>3. old \cup {k} = 1..Total[m]
      BY <2>2, <3>1, <3>2, FS_Subset
    <3>4. QED
      BY <1>2, <1>5, <3>3
  <2>3. QED
    BY <2>1, <2>2 DEF Completes
<1>8. ASSUME NEW p \in Packets, Arrived(p)'
      PROVE  Arrived(p)
  <2>1. Receiver(p) \in Nodes /\ p[1] \in Messages /\ p = <<p[1], p[2]>> /\ p[2] \in 1..Total[p[1]]
        /\ Receiver(p) = Target[p[1]]
    BY PacketFacts DEF Receiver
  <2>2. CASE holding'[Receiver(p)] # Nothing /\ holding'[Receiver(p)].msg = DataMessage(p)
    BY <1>1, <2>1, <2>2 DEF Arrived
  <2>3. CASE p[2] \in pending'[Receiver(p)][p[1]]
    <3>1. CASE p[1] = m
      <4>1. p[2] \in old \/ p[2] = k
        BY <1>2, <1>6, <2>1, <2>3, <3>1 DEF Filed
      <4>2. QED
        BY <1>2, <1>5, <2>1, <3>1, <4>1
    <3>2. CASE p[1] # m
      BY <1>6, <2>1, <2>3, <3>2 DEF Arrived
    <3>3. QED
      BY <3>1, <3>2
  <2>4. CASE p[1] \in delivered'[Receiver(p)]
    <3>1. CASE p[1] \in delivered[Receiver(p)]
      BY <3>1 DEF Arrived
    <3>2. CASE p[1] \notin delivered[Receiver(p)]
      <4>1. p[1] = m /\ Completes(old, m, k)
        BY <1>1, <1>2, <2>1, <2>4, <3>2
      <4>2. QED
        BY <1>7, <2>1, <4>1
    <3>3. QED
      BY <3>1, <3>2
  <2>5. QED
    BY <1>8, <2>2, <2>3, <2>4 DEF Arrived
<1>9. {p \in Packets : Arrived(p)}' = {p \in Packets : Arrived(p)}
  BY <1>4, <1>8
<1>10. CASE Completes(old, m, k)
  <2>1. {x \in Messages : x \in delivered[Target[x]]}'
          = {x \in Messages : x \in delivered[Target[x]]} \cup {m}
    <3>1. \A x \in Messages : x \in delivered'[Target[x]]
                                <=> x \in delivered[Target[x]] \/ x = m
      BY <1>1, <1>2, <1>10
    <3>2. QED
      BY <1>2, <3>1
  <2>2. {m} \X (1..Total[m]) \subseteq {p \in Packets : Arrived(p)}
    BY <1>2, <1>7, <1>10, <1>3 DEF Packets
  <2>3. [p \in Packets |-> Phase(p)]' = [p \in Packets |-> Phase(p)] /\ tries' = tries
    BY DEF transportVars, Phase, Entry
  <2>4. Abstract!HandOn
    BY <1>2, <1>9, <2>1, <2>2, <2>3 DEF Abstract!HandOn
  <2>5. QED
    BY <2>4 DEF Abstract!Next
<1>11. CASE ~Completes(old, m, k)
  <2>1. \A p \in Packets : Arrived(p)' <=> Arrived(p)
    BY <1>4, <1>8
  <2>2. UNCHANGED delivered
    BY <1>1, <1>11
  <2>3. QED
    BY <2>1, <2>2, Unseen
<1>12. QED
  BY <1>10, <1>11

LEMMA InsertAckRefines ==
    ASSUME IInv, NEW n \in Nodes, InsertAck(n), UNCHANGED transportVars
    PROVE  UNCHANGED Abstract!vars
<1>1. /\ holding[n].msg.head = "Ack" /\ holding' = [holding EXCEPT ![n] = Nothing]
      /\ UNCHANGED <<pending, delivered>> /\ holding \in [Nodes -> Datagrams \cup {Nothing}]
  BY DEF InsertAck, IInv, TypeOK, HandlerTypeOK
<1>2. ASSUME NEW p \in Packets
      PROVE  Arrived(p)' = Arrived(p)
  <2>1. holding[n].msg # DataMessage(p)
    BY <1>1, DataFacts
  <2>2. QED
    BY <1>1, <2>1, PacketFacts DEF Arrived
<1>3. QED
  BY <1>1, <1>2, Unseen

------------------------------------------------------------------------------
\* A step that the two sides of the transport layer do not take part in.
LEMMA OtherRefines ==
    ASSUME UNCHANGED <<transportVars, handlerVars>>
    PROVE  UNCHANGED Abstract!vars
<1>1. UNCHANGED transportVars /\ UNCHANGED delivered
  BY DEF handlerVars
<1>2. \A p \in Packets : Arrived(p)' = Arrived(p)
  BY DEF Arrived, handlerVars
<1>3. QED
  BY <1>1, <1>2, Unseen

LEMMA StepRefines ==
    ASSUME IInv, IInv', [Next]_vars
    PROVE  [Abstract!Next]_(Abstract!vars)
<1>1. ASSUME NEW n \in Nodes, TransportStep(n), UNCHANGED <<handlerVars, accepted>>
      PROVE  Abstract!Next \/ UNCHANGED Abstract!vars
  <2>1. UNCHANGED handlerVars
    BY <1>1
  <2>2. CASE SendAck(n)
    BY <2>1, <2>2, OtherRefines DEF SendAck, transportVars
  <2>3. CASE IncomingAck(n) \/ SendMessage(n) \/ Maintain(n)
    BY <2>1, <2>3, IncomingAckRefines, SendMessageRefines, MaintainRefines DEF Abstract!Next
  <2>4. QED
    BY <1>1, <2>2, <2>3 DEF TransportStep
<1>2. ASSUME NEW n \in Nodes, HandlerStep(n), UNCHANGED <<transportVars, accepted>>
      PROVE  Abstract!Next \/ UNCHANGED Abstract!vars
  <2>1. UNCHANGED transportVars
    BY <1>2
  <2>2. QED
    BY <1>2, <2>1, RecvMsgRefines, InsertAckRefines, InsertPacketRefines DEF HandlerStep
<1>3. ASSUME Next
      PROVE  \/ UNCHANGED <<transportVars, handlerVars>>
             \/ \E n \in Nodes : TransportStep(n) /\ UNCHANGED <<handlerVars, accepted>>
             \/ \E n \in Nodes : HandlerStep(n) /\ UNCHANGED <<transportVars, accepted>>
  BY <1>3 DEF Next, Publish
<1>4. UNCHANGED vars => UNCHANGED <<transportVars, handlerVars>>
  BY DEF vars
<1>5. QED
  BY <1>1, <1>2, <1>3, <1>4, OtherRefines

\* The threads, channels, acknowledgements, rewritten addresses, losses, copies and crashes
\* of the transport layer together implement ReliableDelivery, for any nodes, placement of
\* nodes on hosts, messages, sizes and bounds.
THEOREM Refines == Spec => ImplementsReliableDelivery
<1>1. Spec => []IInv
  BY InitOK, StepOK, PTL DEF Spec
<1>2. IInv /\ IInv' /\ [Next]_vars => [Abstract!Next]_(Abstract!vars)
  BY StepRefines
<1>3. QED
  BY <1>1, <1>2, InitRefines, PTL DEF Spec, ImplementsReliableDelivery, Abstract!Spec
=============================================================================
