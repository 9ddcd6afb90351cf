---------------------------- MODULE DeliveryProofs ----------------------------
(* Proofs about Delivery: its type invariant, its inductive invariant and the  *)
(* safety properties that follow, for any nodes, messages and bounds.          *)
EXTENDS Delivery, TLAPS, FiniteSetTheorems, SequenceTheorems

USE MessagesAssumption, MaxAttemptsAssumption, QueueBoundAssumption, NothingAssumption

------------------------------------------------------------------------------
(* Packets and addresses.                                                      *)

LEMMA PacketFacts ==
    /\ \A p \in Packets : /\ p = <<p[1], p[2]>>
                          /\ p[1] \in Messages
                          /\ p[2] \in 1..Total[p[1]]
                          /\ p \in PacketsOf(p[1])
                          /\ Sender(p) \in Nodes /\ Receiver(p) \in Nodes
    /\ \A m \in Messages : PacketsOf(m) \subseteq Packets
    /\ \A m \in Messages : \A k \in 1..Total[m] : <<m, k>> \in PacketsOf(m)
    /\ \A m \in Messages : \A p \in PacketsOf(m) : p[1] = m
  BY DEF Packets, PacketsOf, Sender, Receiver

LEMMA AddressFacts ==
    /\ \A n \in Nodes : Public(n) \in Addresses /\ Public(n).port = n
    /\ \A n \in Nodes, a \in Addresses :
         /\ Route(n, a) \in Addresses /\ Route(n, a).port = a.port
         /\ SeenFrom(n, a) \in Addresses /\ SeenFrom(n, a).port = n
    /\ \A a \in Addresses : a.port \in Nodes
  BY DEF Public, Addresses, Route, SeenFrom

LEMMA DestFacts == \A p \in Packets : Dest(p) \in Addresses
  BY PacketFacts, AddressFacts DEF Dest

LEMMA AckFacts ==
    \A p \in Packets, a \in Addresses :
        /\ AckMessage(p, a) \in Acks
        /\ AckMessage(p, a).head = "Ack"
        /\ AckMessage(p, a).packet = p /\ AckMessage(p, a).src = a
  BY DEF AckMessage, Acks

LEMMA DataFacts ==
    \A p \in Packets : DataMessage(p).head = "Data" /\ DataMessage(p).packet = p
  BY DEF DataMessage

\* The two shapes of a datagram.
LEMMA DatagramFacts ==
    \A d \in Datagrams :
        /\ d.to \in Addresses /\ d.from \in Addresses
        /\ d.msg.head \in {"Data", "Ack"}
        /\ d.msg.packet \in Packets
        /\ d.msg.head = "Data" => d.msg = DataMessage(d.msg.packet)
        /\ d.msg.head = "Ack" => d.msg \in Acks /\ d.msg.src \in Addresses
  BY DEF Datagrams, AckMessage, DataMessage, Acks

LEMMA DatagramMade ==
    \A n \in Nodes, a \in Addresses, p \in Packets :
        /\ Datagram(n, a, DataMessage(p)) \in Datagrams
        /\ \A b \in Addresses : Datagram(n, a, AckMessage(p, b)) \in Datagrams
  BY AddressFacts DEF Datagram, Datagrams

LEMMA AckShape ==
    \A k \in Acks : /\ k.head = "Ack" /\ k.packet \in Packets /\ k.src \in Addresses
                    /\ k = AckMessage(k.packet, k.src)
  BY DEF Acks, AckMessage

LEMMA OutgoingFacts ==
    \A o \in Outgoing :
        /\ o.to \in Addresses
        /\ o.msg.head = "Ack" => o.msg \in Acks
        /\ o.msg.head # "Ack" => o.msg = [head |-> "Data", id |-> o.msg.id]
                                 /\ o.msg.id \in Messages
  BY DEF Outgoing, Acks, AckMessage

LEMMA EntryFacts ==
    /\ Absent \in Entries /\ ~Open(Absent)
    /\ \A e \in Entries : Retain(e) \in Entries
    /\ \A e \in Entries, a \in Addresses : SendReliable(e, a) \in Entries
<1>1. Absent \in Entries /\ ~Open(Absent)
  BY DEF Absent, Entries, Open
<1>2. \A e \in Entries : Retain(e) \in Entries
  BY <1>1 DEF Retain
<1>3. \A e \in Entries, a \in Addresses : SendReliable(e, a) \in Entries
  BY DEF SendReliable, Entries
<1>4. QED
  BY <1>1, <1>2, <1>3

\* Once send_reliable has put one address in an entry and that address has not
\* acknowledged it, the second loop of maintain sends to it, once.
LEMMA ResendFacts ==
    ASSUME NEW e \in Entries, NEW a \in Addresses, e.sent = {a}, a \notin e.acked,
           e.attempts < MaxAttempts
    PROVE  /\ Peers(e) = {a} /\ Cardinality(Peers(e)) = 1
           /\ Resend(e) = [sent |-> {a}, acked |-> e.acked, attempts |-> e.attempts + 1]
<1>1. Peers(e) = {a} /\ Cardinality(Peers(e)) = 1
  <2>1. Peers(e) = {a}
    BY DEF Peers, Unacked
  <2>2. QED
    BY <2>1, FS_Singleton
<1>2. QED
  BY <1>1 DEF Resend

LEMMA ResendAbsent ==
    Resend(Absent) = Absent /\ Peers(Absent) = {} /\ Cardinality(Peers(Absent)) = 0
<1>1. Peers(Absent) = {}
  BY DEF Peers, Unacked, Absent
<1>2. Cardinality(Peers(Absent)) = 0
  BY <1>1, FS_EmptySet
<1>3. QED
  BY <1>1, <1>2 DEF Resend, Absent

------------------------------------------------------------------------------
(* Channels.                                                                   *)

LEMMA TailFacts ==
    ASSUME NEW S, NEW s \in Seq(S), s # <<>>
    PROVE  /\ Tail(s) \in Seq(S) /\ Head(s) \in S
           /\ Head(s) = s[1] /\ 1 \in 1..Len(s)
           /\ \A i \in 1..Len(Tail(s)) : i + 1 \in 1..Len(s) /\ Tail(s)[i] = s[i + 1]
  BY HeadTailProperties

LEMMA AppendFacts ==
    ASSUME NEW S, NEW s \in Seq(S), NEW e \in S
    PROVE  /\ Append(s, e) \in Seq(S)
           /\ \A i \in 1..Len(Append(s, e)) :
                \/ i \in 1..Len(s) /\ Append(s, e)[i] = s[i]
                \/ i = Len(s) + 1 /\ Append(s, e)[i] = e
  BY AppendProperties

------------------------------------------------------------------------------
(* What maintain keeps.                                                        *)

\* An entry maintain keeps is sent again, once, to its destination; an entry it drops
\* was settled or out of attempts.
LEMMA KeptFacts ==
    ASSUME TypeOK, OutboxInv, NEW n \in Nodes, NEW p \in Packets
    PROVE  LET e == outbox[n][p] IN
           \/ /\ Retain(e) = Absent /\ Resend(Retain(e)) = Absent
              /\ Peers(Retain(e)) = {} /\ Cardinality(Peers(Retain(e))) = 0
              /\ Open(e) => e.acked # {} \/ e.attempts >= MaxAttempts
           \/ /\ n = Sender(p) /\ Retain(e) = e
              /\ e.attempts = tries[p] /\ tries[p] > 0 /\ tries[p] < MaxAttempts
              /\ e.acked \subseteq {Public(Receiver(p))}
              /\ e.acked # {} => Arrived(p)
              /\ Peers(e) = {Dest(p)} /\ Cardinality(Peers(e)) = 1
              /\ Resend(e) = [sent |-> {Dest(p)}, acked |-> e.acked,
                              attempts |-> e.attempts + 1]
<1> DEFINE e == outbox[n][p]
<1>1. e \in Entries /\ tries[p] \in Nat
  BY DEF TypeOK, TransportTypeOK
<1>2. CASE Retain(e) = Absent
  <2>1. Open(e) => e.sent # {}
    <3>1. CASE e = Absent
      BY <3>1, EntryFacts
    <3>2. CASE e # Absent
      <4>1. e.sent = {Dest(p)}
        BY <3>2 DEF OutboxInv
      <4>2. QED
        BY <4>1
    <3>3. QED
      BY <3>1, <3>2
  <2>2. Open(e) => e.sent = e.acked \/ ~(e.attempts < MaxAttempts)
    BY <1>2 DEF Retain, Open, Absent
  <2>3. QED
    BY <1>1, <1>2, <2>1, <2>2, ResendAbsent, EntryFacts DEF Entries
<1>3. CASE Retain(e) # Absent
  <2>1. e.sent # e.acked /\ e.attempts < MaxAttempts /\ Retain(e) = e
    BY <1>3 DEF Retain
  <2>2. e # Absent
    BY <1>3, <2>1
  <2>3. /\ n = Sender(p) /\ e.sent = {Dest(p)}
        /\ e.attempts = tries[p] /\ tries[p] > 0
        /\ e.acked \subseteq {Public(Receiver(p))}
        /\ e.acked # {} => Arrived(p)
    BY <2>2 DEF OutboxInv
  <2>4. Dest(p) \notin e.acked
    BY <2>1, <2>3
  <2>5. /\ Peers(e) = {Dest(p)} /\ Cardinality(Peers(e)) = 1
        /\ Resend(e) = [sent |-> {Dest(p)}, acked |-> e.acked, attempts |-> e.attempts + 1]
    BY <1>1, <2>1, <2>3, <2>4, DestFacts, ResendFacts
  <2>6. QED
    BY <2>1, <2>3, <2>5
<1>4. QED
  BY <1>2, <1>3

------------------------------------------------------------------------------
(* What has arrived stays arrived, what was sent stays sent.                   *)

Grows ==
    /\ \A p \in Packets : Arrived(p) => Arrived(p)'
    /\ \A p \in Packets : tries[p] > 0 => tries'[p] > 0

LEMMA TransportGrows ==
    ASSUME TypeOK, OutboxInv, NEW n \in Nodes, TransportStep(n), UNCHANGED <<handlerVars, accepted>>
    PROVE  Grows
<1>1. \A p \in Packets : Arrived(p) => Arrived(p)'
  BY DEF Arrived, handlerVars
<1>2. ASSUME NEW p \in Packets, tries[p] > 0
      PROVE  tries'[p] > 0
  <2>1. tries[p] \in Nat
    BY DEF TypeOK, TransportTypeOK
  <2>2. CASE IncomingAck(n) \/ SendAck(n)
    BY <1>2, <2>2 DEF IncomingAck, SendAck
  <2>3. CASE SendMessage(n)
    BY <1>2, <2>1, <2>3 DEF SendMessage
  <2>4. CASE Maintain(n)
    <3>1. tries'[p] = tries[p] + Cardinality(Peers(Retain(outbox[n][p])))
      BY <2>4 DEF Maintain
    <3> DEFINE e == outbox[n][p]
    <3>2. \/ Cardinality(Peers(Retain(e))) = 0
          \/ Retain(e) = e /\ Cardinality(Peers(e)) = 1
      BY KeptFacts
    <3>3. Cardinality(Peers(Retain(e))) \in {0, 1}
      <4>1. CASE Retain(e) = e /\ Cardinality(Peers(e)) = 1
        BY <4>1
      <4>2. QED
        BY <3>2, <4>1
    <3>4. QED
      BY <1>2, <2>1, <3>1, <3>3
  <2>5. QED
    BY <2>2, <2>3, <2>4 DEF TransportStep
<1>3. QED
  BY <1>1, <1>2 DEF Grows

LEMMA HandlerGrows ==
    ASSUME TypeOK, NEW n \in Nodes, HandlerStep(n), UNCHANGED <<transportVars, accepted>>
    PROVE  Grows
<1>1. ASSUME NEW p \in Packets, Arrived(p)
      PROVE  Arrived(p)'
  <2>1. Receiver(p) \in Nodes /\ p[1] \in Messages /\ p = <<p[1], p[2]>>
    BY PacketFacts
  <2>2. ASSUME NEW d \in net, RecvMsg(n, d)
        PROVE  Arrived(p)'
    BY <1>1, <2>1, <2>2 DEF RecvMsg, Arrived, TypeOK, HandlerTypeOK
  <2>3. CASE InsertAck(n)
    BY <1>1, <2>1, <2>3 DEF InsertAck, Arrived, TypeOK, HandlerTypeOK, DataMessage
  <2>4. CASE InsertPacket(n)
    <3> DEFINE m == holding[n].msg.packet[1]
               k == holding[n].msg.packet[2]
    <3>1. holding[n] \in Datagrams /\ m \in Messages
      BY <2>4, DatagramFacts, PacketFacts DEF InsertPacket, TypeOK, HandlerTypeOK
    <3>2. /\ pending' = [pending EXCEPT ![n][m] = Filed(@, m, k)]
          /\ delivered' = IF Completes(pending[n][m], m, k)
                          THEN [delivered EXCEPT ![n] = @ \cup {m}] ELSE delivered
          /\ holding' = [holding EXCEPT ![n] = Nothing]
      BY <2>4 DEF InsertPacket
    <3>3. p[1] \in delivered[Receiver(p)] => p[1] \in delivered'[Receiver(p)]
      BY <2>1, <3>1, <3>2 DEF TypeOK, HandlerTypeOK
    <3>4. p[2] \in pending[Receiver(p)][p[1]] => p[2] \in pending'[Receiver(p)][p[1]]
      BY <2>1, <3>1, <3>2 DEF Filed, TypeOK, HandlerTypeOK
    <3>5. CASE holding[Receiver(p)] # Nothing /\ holding[Receiver(p)].msg = DataMessage(p)
      <4>1. CASE Receiver(p) # n
        BY <2>1, <3>2, <3>5, <4>1 DEF Arrived, TypeOK, HandlerTypeOK
      <4>2. CASE Receiver(p) = n
        <5>1. m = p[1] /\ k = p[2]
          BY <3>5, <4>2, DataFacts
        <5>2. CASE pending[n][m] = {} /\ Total[m] = 1
          BY <2>1, <3>1, <3>2, <4>2, <5>1, <5>2 DEF Completes, Arrived, TypeOK, HandlerTypeOK
        <5>3. CASE ~(pending[n][m] = {} /\ Total[m] = 1)
          BY <2>1, <3>1, <3>2, <4>2, <5>1, <5>3 DEF Filed, Arrived, TypeOK, HandlerTypeOK
        <5>4. QED
          BY <5>2, <5>3
      <4>3. QED
        BY <4>1, <4>2
    <3>6. QED
      BY <1>1, <3>3, <3>4, <3>5 DEF Arrived
  <2>5. QED
    BY <2>2, <2>3, <2>4 DEF HandlerStep
<1>2. \A p \in Packets : tries[p] > 0 => tries'[p] > 0
  BY DEF transportVars
<1>3. QED
  BY <1>1, <1>2 DEF Grows

\* What is true of a datagram, an acknowledgement or an item of om stays true.
Carried ==
    /\ \A d \in Datagrams : DatagramOK(d) => DatagramOK(d)'
    /\ \A n \in Nodes, k \in Acks : AckOK(n, k) => AckOK(n, k)'

LEMMA GrowsCarries == Grows => Carried
<1> SUFFICES ASSUME Grows PROVE Carried
  OBVIOUS
<1>1. \A n \in Nodes, k \in Acks : AckOK(n, k) => AckOK(n, k)'
  BY AckShape DEF AckOK, Grows
<1>2. ASSUME NEW d \in Datagrams, DatagramOK(d)
      PROVE  DatagramOK(d)'
  <2>1. CASE d.msg.head = "Data"
    BY <1>2, <2>1, DatagramFacts DEF DatagramOK, Grows
  <2>2. CASE d.msg.head # "Data"
    BY <1>1, <1>2, <2>2, DatagramFacts, AddressFacts DEF DatagramOK
  <2>3. QED
    BY <2>1, <2>2
<1>3. QED
  BY <1>1, <1>2 DEF Carried

------------------------------------------------------------------------------
(* Each action preserves the type invariant and the inductive invariant.       *)

IInv == TypeOK /\ DeliveryInv

LEMMA InitOK == Init => IInv
<1> SUFFICES ASSUME Init PROVE IInv
  OBVIOUS
<1> USE DEF Init, WireInit, TransportInit, HandlerInit
<1>1. TypeOK
  BY EntryFacts DEF TypeOK, WireTypeOK, TransportTypeOK, HandlerTypeOK
<1>2. InFlightInv
  BY DEF InFlightInv
<1>3. QueueInv
  BY PacketFacts DEF QueueInv
<1>4. OutboxInv
  BY DEF OutboxInv
<1>5. CountInv
  BY DEF CountInv
<1>6. FiledInv
  <2>1. \A m \in Messages : Total[m] > 1 => 1 \in 1..Total[m]
    BY MessagesAssumption
  <2> QED
    BY <2>1 DEF FiledInv
<1>7. QED
  BY <1>1, <1>2, <1>3, <1>4, <1>5, <1>6 DEF IInv, DeliveryInv

LEMMA FiledCarried ==
    ASSUME IInv, UNCHANGED <<pending, delivered>>,
           \A m \in Messages : \A k \in 1..Total[m] : tries[<<m, k>>] > 0 => tries'[<<m, k>>] > 0
    PROVE  FiledInv'
<1>1. ASSUME NEW n \in Nodes, NEW m \in Messages
      PROVE  /\ \A k \in pending'[n][m] : n = Target[m] /\ tries'[<<m, k>>] > 0
             /\ Total[m] = 1 => pending'[n][m] = {}
             /\ m \in delivered'[n] =>
                  IF Total[m] = 1 THEN n = Target[m] /\ tries'[<<m, 1>>] > 0
                                  ELSE pending'[n][m] = 1..Total[m]
             /\ Total[m] > 1 /\ pending'[n][m] = 1..Total[m] => m \in delivered'[n]
  <2>1. /\ \A k \in pending[n][m] : n = Target[m] /\ tries[<<m, k>>] > 0
        /\ Total[m] = 1 => pending[n][m] = {}
        /\ m \in delivered[n] =>
             IF Total[m] = 1 THEN n = Target[m] /\ tries[<<m, 1>>] > 0
                             ELSE pending[n][m] = 1..Total[m]
        /\ Total[m] > 1 /\ pending[n][m] = 1..Total[m] => m \in delivered[n]
    BY DEF IInv, DeliveryInv, FiledInv
  <2>2. pending[n][m] \subseteq 1..Total[m] /\ Total[m] \in Nat
    BY MessagesAssumption DEF IInv, TypeOK, HandlerTypeOK
  <2>3. \A k \in pending'[n][m] : n = Target[m] /\ tries'[<<m, k>>] > 0
    BY <2>1, <2>2
  <2>4. Total[m] = 1 => 1 \in 1..Total[m]
    BY <2>2
  <2> QED
    BY <2>1, <2>3, <2>4
<1>2. QED
  BY <1>1, Zenon DEF FiledInv

LEMMA PublishOK ==
    ASSUME IInv, NEW m \in Messages, Publish(m)
    PROVE  IInv'
<1> USE DEF IInv, DeliveryInv
<1> DEFINE o == Origin[m]
           item == [to |-> Public(Target[m]), msg |-> [head |-> "Data", id |-> m]]
<1>1. o \in Nodes /\ item \in Outgoing
  BY AddressFacts DEF Outgoing
<1>2. /\ om \in [Nodes -> Seq(Outgoing)]
      /\ om' = [om EXCEPT ![o] = Append(om[o], item)]
      /\ m \notin accepted /\ accepted' = accepted \cup {m}
  BY DEF Publish, TypeOK, WireTypeOK
<1>3. UNCHANGED <<ia, net, up, outbox, tries, holding, pending, delivered>>
  BY DEF Publish, transportVars, handlerVars
<1>4. TypeOK'
  BY <1>1, <1>2, <1>3, AppendFacts DEF TypeOK, WireTypeOK, TransportTypeOK, HandlerTypeOK
<1>5. InFlightInv' /\ OutboxInv' /\ CountInv' /\ FiledInv'
  <2>1. \A p \in Packets : Arrived(p)' = Arrived(p)
    BY <1>3 DEF Arrived
  <2>2. InFlightInv'
    <3>1. /\ \A d \in net : DatagramOK(d)
          /\ \A n \in Nodes : holding[n] # Nothing => DatagramOK(holding[n]) /\ holding[n].to.port = n
          /\ \A n \in Nodes : \A i \in 1..Len(ia[n]) : AckOK(n, ia[n][i])
      BY DEF InFlightInv
    <3>2. \A d \in net : DatagramOK(d)'
      BY <1>3, <3>1 DEF DatagramOK, AckOK, Arrived
    <3>3. \A n \in Nodes : holding[n] # Nothing => DatagramOK(holding[n])' /\ holding[n].to.port = n
      BY <1>3, <3>1 DEF DatagramOK, AckOK, Arrived
    <3>4. \A n \in Nodes : \A i \in 1..Len(ia[n]) : AckOK(n, ia[n][i])'
      BY <1>3, <3>1 DEF AckOK, Arrived
    <3>5. QED
      BY <1>3, <3>2, <3>3, <3>4 DEF InFlightInv
  <2>3. OutboxInv'
    BY <1>3, <2>1 DEF OutboxInv, Arrived
  <2>4. CountInv'
    BY <1>3, <2>1 DEF CountInv, Entry, Arrived
  <2>5. FiledInv'
    BY <1>3, FiledCarried
  <2>6. QED
    BY <2>2, <2>3, <2>4, <2>5
<1>6. QueueInv'
  <2>1. ASSUME NEW n \in Nodes, NEW x \in Outgoing, ItemOK(n, x)
        PROVE  ItemOK(n, x)'
    BY <1>2, <1>3, <2>1 DEF ItemOK, AckOK, Arrived
  <2>2. ItemOK(o, item)'
    BY <1>2, <1>3 DEF ItemOK, QueueInv
  <2>3. ASSUME NEW n \in Nodes, NEW i \in 1..Len(om'[n])
        PROVE  ItemOK(n, om[n][i])'
    <3>1. CASE i \in 1..Len(om[n]) /\ om'[n][i] = om[n][i]
      <4>1. ItemOK(n, om[n][i]) /\ om[n][i] \in Outgoing
        BY <1>2, <3>1 DEF QueueInv
      <4>2. QED
        BY <2>1, <3>1, <4>1
    <3>2. CASE n = o /\ om'[n][i] = item
      BY <2>2, <3>2
    <3>3. QED
      BY <1>1, <1>2, <3>1, <3>2, AppendFacts
  <2>4. ASSUME NEW n \in Nodes, NEW i \in 1..Len(om[n])
        PROVE  om[n][i].msg.head = "Ack" \/ om[n][i].msg.id # m
    BY <1>2 DEF QueueInv, ItemOK
  <2>5. ASSUME NEW n \in Nodes, NEW i \in 1..Len(om'[n]), NEW j \in 1..Len(om'[n]),
               SameMessage(om'[n][i], om'[n][j])
        PROVE  i = j
    BY <1>1, <1>2, <2>4, <2>5, AppendFacts DEF QueueInv, SameMessage
  <2>6. \A x \in Messages \ accepted' : \A p \in PacketsOf(x) : tries'[p] = 0
    BY <1>2, <1>3 DEF QueueInv
  <2>7. QED
    BY <2>3, <2>5, <2>6 DEF QueueInv
<1>7. QED
  BY <1>4, <1>5, <1>6

\* What an action leaves alone in flight or in the channels stays right.
LEMMA FlightCarried ==
    ASSUME IInv, Carried
    PROVE  /\ \A d \in net : DatagramOK(d)'
           /\ \A n \in Nodes : holding[n] # Nothing /\ holding'[n] = holding[n]
                => DatagramOK(holding[n])' /\ holding'[n].to.port = n
           /\ \A n \in Nodes : ia'[n] = ia[n] => \A i \in 1..Len(ia[n]) : AckOK(n, ia[n][i])'
<1> USE DEF IInv, DeliveryInv
<1>1. \A d \in net : DatagramOK(d)'
  BY DEF InFlightInv, Carried, TypeOK, WireTypeOK
<1>2. ASSUME NEW n \in Nodes, holding[n] # Nothing, holding'[n] = holding[n]
      PROVE  DatagramOK(holding[n])' /\ holding'[n].to.port = n
  <2>1. holding[n] \in Datagrams /\ DatagramOK(holding[n]) /\ holding[n].to.port = n
    BY <1>2 DEF InFlightInv, TypeOK, HandlerTypeOK
  <2>2. ASSUME NEW d \in Datagrams, DatagramOK(d), holding'[n] = d
        PROVE  DatagramOK(holding[n])'
    BY <2>2 DEF Carried, DatagramOK, AckOK
  <2>3. QED
    BY <1>2, <2>1, <2>2
<1>3. ASSUME NEW n \in Nodes, ia'[n] = ia[n], NEW i \in 1..Len(ia[n])
      PROVE  AckOK(n, ia[n][i])'
  <2>1. ia[n][i] \in Acks /\ AckOK(n, ia[n][i])
    BY <1>3 DEF InFlightInv, TypeOK, WireTypeOK
  <2>2. ASSUME NEW k \in Acks, AckOK(n, k), ia'[n][i] = k
        PROVE  AckOK(n, ia[n][i])'
    BY <2>2 DEF Carried, AckOK
  <2>3. QED
    BY <1>3, <2>1, <2>2
<1>4. QED
  BY <1>1, <1>2, <1>3

LEMMA QueueCarried ==
    ASSUME IInv, Carried, UNCHANGED <<om, accepted, tries>>
    PROVE  QueueInv'
<1> USE DEF IInv, DeliveryInv
<1>1. ASSUME NEW n \in Nodes, NEW i \in 1..Len(om[n])
      PROVE  ItemOK(n, om[n][i])'
  <2>1. om[n][i] \in Outgoing /\ ItemOK(n, om[n][i])
    BY DEF QueueInv, TypeOK, WireTypeOK
  <2>2. ASSUME NEW x \in Outgoing, ItemOK(n, x), om'[n][i] = x
        PROVE  ItemOK(n, om[n][i])'
    <3>1. CASE x.msg.head = "Ack"
      BY <2>2, <3>1, OutgoingFacts, AddressFacts DEF ItemOK, Carried, AckOK
    <3>2. CASE x.msg.head # "Ack"
      BY <2>2, <3>2 DEF ItemOK
    <3>3. QED
      BY <3>1, <3>2
  <2>3. QED
    BY <2>1, <2>2
<1>2. QED
  BY <1>1 DEF QueueInv, SameMessage

\* Taking the first item off a channel of acknowledgements or of items.
LEMMA TakeItem ==
    ASSUME IInv, Carried, NEW n \in Nodes, om[n] # <<>>,
           om' = [om EXCEPT ![n] = Tail(om[n])], accepted' = accepted,
           \A i \in 2..Len(om[n]) :
             \A p \in Packets : om[n][i].msg.head # "Ack" /\ p[1] = om[n][i].msg.id
                                 => tries'[p] = tries[p],
           \A c \in Nodes \ {n} : \A i \in 1..Len(om[c]) :
             \A p \in Packets : om[c][i].msg.head # "Ack" /\ p[1] = om[c][i].msg.id
                                 => tries'[p] = tries[p],
           \A p \in Packets : p[1] \notin accepted => tries'[p] = tries[p]
    PROVE  om' \in [Nodes -> Seq(Outgoing)] /\ QueueInv'
<1> USE DEF IInv, DeliveryInv
<1>1. om \in [Nodes -> Seq(Outgoing)]
  BY DEF TypeOK, WireTypeOK
<1>2. om' \in [Nodes -> Seq(Outgoing)]
  BY <1>1, TailFacts
<1>3. ASSUME NEW c \in Nodes, NEW x \in Outgoing, ItemOK(c, x),
             \A p \in Packets : x.msg.head # "Ack" /\ p[1] = x.msg.id => tries'[p] = tries[p]
      PROVE  ItemOK(c, x)'
  <2>1. CASE x.msg.head = "Ack"
    BY <1>3, <2>1, OutgoingFacts, AddressFacts DEF ItemOK, Carried
  <2>2. CASE x.msg.head # "Ack"
    BY <1>3, <2>2, OutgoingFacts, PacketFacts DEF ItemOK
  <2>3. QED
    BY <2>1, <2>2
<1>4. ASSUME NEW c \in Nodes, NEW i \in 1..Len(om'[c])
      PROVE  ItemOK(c, om[c][i])'
  <2>1. CASE c = n
    <3>1. i + 1 \in 1..Len(om[n]) /\ i + 1 \in 2..Len(om[n]) /\ om'[n][i] = om[n][i + 1]
      BY <1>1, <1>4, <2>1, TailFacts
    <3>2. ItemOK(n, om[n][i + 1]) /\ om[n][i + 1] \in Outgoing
      BY <1>1, <3>1 DEF QueueInv
    <3>3. QED
      BY <1>3, <2>1, <3>1, <3>2
  <2>2. CASE c # n
    <3>1. i \in 1..Len(om[c]) /\ om'[c][i] = om[c][i]
      BY <1>1, <1>4, <2>2
    <3>2. ItemOK(c, om[c][i]) /\ om[c][i] \in Outgoing
      BY <1>1, <3>1 DEF QueueInv
    <3>3. QED
      BY <1>3, <2>2, <3>1, <3>2, SMTT(60)
  <2>3. QED
    BY <2>1, <2>2
<1>5. ASSUME NEW c \in Nodes, NEW i \in 1..Len(om'[c]), NEW j \in 1..Len(om'[c]),
             SameMessage(om'[c][i], om'[c][j])
      PROVE  i = j
  <2>1. CASE c = n
    <3>1. /\ i + 1 \in 1..Len(om[n]) /\ om'[n][i] = om[n][i + 1]
          /\ j + 1 \in 1..Len(om[n]) /\ om'[n][j] = om[n][j + 1]
      BY <1>1, <1>5, <2>1, TailFacts
    <3>2. i + 1 = j + 1
      BY <1>5, <2>1, <3>1 DEF QueueInv
    <3>3. i \in Nat /\ j \in Nat
      BY <1>2, <1>5
    <3>4. QED
      BY <3>2, <3>3
  <2>2. CASE c # n
    BY <1>1, <1>5, <2>2 DEF QueueInv
  <2>3. QED
    BY <2>1, <2>2
<1>6. \A m \in Messages \ accepted' : \A p \in PacketsOf(m) : tries'[p] = 0
  BY PacketFacts, SMTT(60) DEF QueueInv
<1>7. QED
  BY <1>2, <1>4, <1>5, <1>6 DEF QueueInv

LEMMA IncomingAckOK ==
    ASSUME IInv, NEW n \in Nodes, IncomingAck(n), UNCHANGED <<handlerVars, accepted>>
    PROVE  IInv'
<1> USE DEF IInv, DeliveryInv
<1> DEFINE k == Head(ia[n])
           p0 == k.packet
<1>1. Carried /\ Grows
  BY TransportGrows, GrowsCarries DEF TransportStep
<1>2. /\ ia \in [Nodes -> Seq(Acks)] /\ ia[n] # <<>>
      /\ ia' = [ia EXCEPT ![n] = Tail(ia[n])]
      /\ outbox \in [Nodes -> [Packets -> Entries]]
      /\ outbox' = [outbox EXCEPT ![n] = ProcessAck(outbox[n], k)]
  BY DEF IncomingAck, TypeOK, WireTypeOK, TransportTypeOK
<1>3. UNCHANGED <<om, net, up, tries, holding, pending, delivered, accepted>>
  BY DEF IncomingAck, handlerVars
<1>4. k \in Acks /\ AckOK(n, k) /\ p0 \in Packets /\ k.src \in Addresses
  <2>1. k = ia[n][1] /\ 1 \in 1..Len(ia[n]) /\ k \in Acks
    BY <1>2, TailFacts
  <2>2. QED
    BY <2>1, AckShape DEF InFlightInv
<1>5. \A p \in Packets : Arrived(p)' = Arrived(p)
  BY <1>3 DEF Arrived
<1>6. \A c \in Nodes, p \in Packets :
        IF c = n /\ p = p0 /\ Open(outbox[n][p0])
        THEN outbox'[c][p] = Acknowledge(outbox[n][p0], k.src)
        ELSE outbox'[c][p] = outbox[c][p]
  BY <1>2, <1>4 DEF ProcessAck
<1>7. TypeOK'
  <2>1. ia' \in [Nodes -> Seq(Acks)]
    BY <1>2, TailFacts
  <2>2. Acknowledge(outbox[n][p0], k.src) \in Entries
    BY <1>2, <1>4 DEF Acknowledge, Entries
  <2>3. outbox' \in [Nodes -> [Packets -> Entries]]
    BY <1>2, <1>4, <2>2 DEF ProcessAck
  <2>4. QED
    BY <1>3, <2>1, <2>3 DEF TypeOK, WireTypeOK, TransportTypeOK, HandlerTypeOK
<1>8. InFlightInv'
  <2>1. \A d \in net' : DatagramOK(d)'
    BY <1>1, <1>3, FlightCarried
  <2>2. \A c \in Nodes : holding'[c] # Nothing => DatagramOK(holding[c])' /\ holding'[c].to.port = c
    BY <1>1, <1>3, FlightCarried
  <2>3. ASSUME NEW c \in Nodes, NEW i \in 1..Len(ia'[c])
        PROVE  AckOK(c, ia[c][i])'
    <3>1. PICK j \in 1..Len(ia[c]) : ia'[c][i] = ia[c][j]
      BY <1>2, TailFacts
    <3>2. AckOK(c, ia[c][j]) /\ ia[c][j] \in Acks
      BY <1>2 DEF InFlightInv
    <3>3. QED
      BY <1>1, <3>1, <3>2 DEF Carried
  <2>4. QED
    BY <2>1, <2>2, <2>3 DEF InFlightInv
<1>9. QueueInv'
  BY <1>1, <1>3, QueueCarried
<1>10. OutboxInv'
  <2>1. ASSUME NEW c \in Nodes, NEW p \in Packets
        PROVE  \/ outbox'[c][p] = Absent
               \/ /\ c = Sender(p)
                  /\ outbox'[c][p].sent = {Dest(p)}
                  /\ outbox'[c][p].attempts = tries'[p] /\ tries'[p] > 0
                  /\ outbox'[c][p].acked \subseteq {Public(Receiver(p))}
                  /\ outbox'[c][p].acked # {} => Arrived(p)'
    <3>1. CASE c = n /\ p = p0 /\ Open(outbox[n][p0])
      <4>1. outbox[n][p0] # Absent
        BY <3>1, EntryFacts
      <4>2. outbox'[c][p] = Acknowledge(outbox[n][p0], k.src)
        BY <1>6, <3>1
      <4>3. k.src = Public(Receiver(p)) /\ Arrived(p)
        BY <1>4, <3>1 DEF AckOK
      <4>4. /\ outbox'[c][p].sent = outbox[n][p0].sent
            /\ outbox'[c][p].attempts = outbox[n][p0].attempts
            /\ outbox'[c][p].acked = outbox[n][p0].acked \cup {k.src}
        BY <4>2 DEF Acknowledge
      <4>5. QED
        BY <1>3, <1>5, <3>1, <4>1, <4>3, <4>4 DEF OutboxInv
    <3>2. CASE ~(c = n /\ p = p0 /\ Open(outbox[n][p0]))
      BY <1>3, <1>5, <1>6, <3>2 DEF OutboxInv
    <3>3. QED
      BY <3>1, <3>2
  <2>2. QED
    BY <2>1 DEF OutboxInv
<1>11. CountInv'
  <2>1. ASSUME NEW c \in Nodes, NEW p \in Packets, Open(outbox[c][p])
        PROVE  Open(outbox'[c][p])
    <3>1. CASE outbox'[c][p] = outbox[c][p]
      BY <2>1, <3>1
    <3>2. CASE p = p0 /\ c = n /\ outbox'[c][p] = Acknowledge(outbox[n][p0], k.src)
      BY <2>1, <3>2 DEF Open, Acknowledge
    <3>3. QED
      BY <1>6, <3>1, <3>2
  <2>2. QED
    BY <1>3, <1>5, <2>1, PacketFacts DEF CountInv, Entry
<1>12. FiledInv'
  BY <1>3, FiledCarried
<1>13. QED
  BY <1>7, <1>8, <1>9, <1>10, <1>11, <1>12

LEMMA SendAckOK ==
    ASSUME IInv, NEW n \in Nodes, SendAck(n), UNCHANGED <<handlerVars, accepted>>
    PROVE  IInv'
<1> USE DEF IInv, DeliveryInv
<1> DEFINE item == Head(om[n])
           sent == Datagram(n, item.to, item.msg)
<1>1. Carried
  BY TransportGrows, GrowsCarries DEF TransportStep
<1>2. /\ om[n] # <<>> /\ om' = [om EXCEPT ![n] = Tail(om[n])]
      /\ item.msg.head = "Ack" /\ net' = net \cup {sent}
  BY DEF SendAck
<1>3. UNCHANGED <<ia, up, outbox, tries, holding, pending, delivered, accepted>>
  BY DEF SendAck, handlerVars
<1>4. item \in Outgoing /\ ItemOK(n, item)
  <2>1. item = om[n][1] /\ 1 \in 1..Len(om[n]) /\ item \in Outgoing
    BY <1>2, TailFacts DEF TypeOK, WireTypeOK
  <2>2. QED
    BY <2>1 DEF QueueInv
<1>5. item.msg \in Acks /\ item.to.port \in Nodes /\ AckOK(item.to.port, item.msg)
  BY <1>2, <1>4, OutgoingFacts, AddressFacts DEF ItemOK
<1>6. sent \in Datagrams /\ sent.msg = item.msg /\ sent.to = item.to
  BY <1>4, <1>5, AckShape, DatagramMade, OutgoingFacts DEF Datagram
<1>7. DatagramOK(sent)
  BY <1>2, <1>5, <1>6 DEF DatagramOK
<1>8. om' \in [Nodes -> Seq(Outgoing)] /\ QueueInv'
  BY <1>1, <1>2, <1>3, TakeItem
<1>9. TypeOK'
  BY <1>2, <1>3, <1>6, <1>8 DEF TypeOK, WireTypeOK, TransportTypeOK, HandlerTypeOK
<1>10. InFlightInv'
  <2>1. ASSUME NEW d \in net'
        PROVE  DatagramOK(d)'
    <3>1. CASE d \in net
      BY <1>1, <3>1, FlightCarried
    <3>2. CASE d = sent
      <4>1. d \in Datagrams /\ DatagramOK(d)
        BY <1>6, <1>7, <3>2
      <4>2. QED
        BY <1>1, <4>1 DEF Carried
    <3>3. QED
      BY <1>2, <3>1, <3>2
  <2>2. QED
    BY <1>1, <1>3, <2>1, FlightCarried DEF InFlightInv
<1>11. OutboxInv' /\ CountInv' /\ FiledInv'
  <2>1. \A p \in Packets : Arrived(p)' = Arrived(p)
    BY <1>3 DEF Arrived
  <2>2. QED
    BY <1>3, <2>1 DEF OutboxInv, CountInv, FiledInv, Entry
<1>12. QED
  BY <1>8, <1>9, <1>10, <1>11

LEMMA SendMessageOK ==
    ASSUME IInv, NEW n \in Nodes, SendMessage(n), UNCHANGED <<handlerVars, accepted>>
    PROVE  IInv'
<1> USE DEF IInv, DeliveryInv
<1> DEFINE item == Head(om[n])
           m == item.msg.id
           peer == Route(n, item.to)
<1>1. Carried
  BY TransportGrows, GrowsCarries DEF TransportStep
<1>2. /\ om[n] # <<>> /\ om' = [om EXCEPT ![n] = Tail(om[n])]
      /\ item.msg.head # "Ack"
      /\ outbox' = [outbox EXCEPT ![n] =
                      [p \in Packets |-> IF p \in PacketsOf(m)
                                         THEN SendReliable(outbox[n][p], peer)
                                         ELSE outbox[n][p]]]
      /\ net' = net \cup {Datagram(n, peer, DataMessage(p)) : p \in PacketsOf(m)}
      /\ tries' = [p \in Packets |-> IF p \in PacketsOf(m) THEN tries[p] + 1 ELSE tries[p]]
      /\ outbox \in [Nodes -> [Packets -> Entries]] /\ tries \in [Packets -> Nat]
  BY DEF SendMessage, TypeOK, TransportTypeOK
<1>3. UNCHANGED <<ia, up, holding, pending, delivered, accepted>>
  BY DEF SendMessage, handlerVars
<1>4. item = om[n][1] /\ 1 \in 1..Len(om[n]) /\ item \in Outgoing /\ ItemOK(n, item)
  <2>1. item = om[n][1] /\ 1 \in 1..Len(om[n]) /\ item \in Outgoing
    BY <1>2, TailFacts DEF TypeOK, WireTypeOK
  <2>2. QED
    BY <2>1 DEF QueueInv
<1>5. /\ m \in Messages /\ n = Origin[m] /\ item.to = Public(Target[m])
      /\ m \in accepted /\ \A p \in PacketsOf(m) : tries[p] = 0
      /\ om[n][1].msg.head # "Ack" /\ om[n][1].msg.id = m
  BY <1>2, <1>4, OutgoingFacts DEF ItemOK
<1>6. \A p \in PacketsOf(m) : p \in Packets /\ n = Sender(p) /\ peer = Dest(p)
  BY <1>5, PacketFacts DEF Sender, Receiver, Dest
<1>7. peer \in Addresses /\ peer.port = Target[m]
  BY <1>5, AddressFacts
<1>8. \A p \in PacketsOf(m) : outbox[n][p] = Absent
  BY <1>5, <1>6 DEF OutboxInv
<1> HIDE DEF item, m, peer
<1>9. ASSUME NEW p \in PacketsOf(m)
      PROVE  /\ outbox'[n][p] = [sent |-> {Dest(p)}, acked |-> {}, attempts |-> 1]
             /\ tries'[p] = 1
  <2>1. outbox'[n][p] = SendReliable(Absent, Dest(p)) /\ tries'[p] = 0 + 1
    BY <1>2, <1>5, <1>6, <1>8
  <2>2. SendReliable(Absent, Dest(p)) = [sent |-> {Dest(p)}, acked |-> {}, attempts |-> 1]
    BY DEF SendReliable, Absent
  <2>3. QED
    BY <2>1, <2>2
<1>10. \A c \in Nodes, p \in Packets :
         c # n \/ p \notin PacketsOf(m) => outbox'[c][p] = outbox[c][p]
  BY <1>2
<1>11. \A p \in Packets : p \notin PacketsOf(m) => tries'[p] = tries[p]
  BY <1>2
<1>12. \A p \in Packets : Arrived(p)' = Arrived(p)
  BY <1>3 DEF Arrived
<1>13. om' \in [Nodes -> Seq(Outgoing)] /\ QueueInv'
  <2>1. \A p \in Packets : p[1] # m => tries'[p] = tries[p]
    BY <1>5, <1>11, PacketFacts
  <2>2. ASSUME NEW i \in 2..Len(om[n]), om[n][i].msg.head # "Ack"
        PROVE  om[n][i].msg.id # m
    <3>1. i \in 1..Len(om[n]) /\ i # 1
      BY DEF TypeOK, WireTypeOK
    <3>2. QED
      BY <1>4, <1>5, <2>2, <3>1 DEF QueueInv, SameMessage
  <2>3. ASSUME NEW c \in Nodes \ {n}, NEW i \in 1..Len(om[c]), om[c][i].msg.head # "Ack"
        PROVE  om[c][i].msg.id # m
    BY <1>5, <2>3 DEF QueueInv, ItemOK
  <2>4. \A p \in Packets : p[1] \notin accepted => tries'[p] = tries[p]
    BY <1>5, <2>1
  <2>5. QED
    BY <1>1, <1>2, <1>3, <2>1, <2>2, <2>3, <2>4, TakeItem
<1>14. TypeOK'
  <2>1. \A p \in PacketsOf(m) : Datagram(n, peer, DataMessage(p)) \in Datagrams
    BY <1>6, <1>7, DatagramMade
  <2>2. outbox' \in [Nodes -> [Packets -> Entries]]
    BY <1>2, <1>7, EntryFacts
  <2>3. tries' \in [Packets -> Nat]
    BY <1>2
  <2>4. QED
    BY <1>2, <1>3, <1>13, <2>1, <2>2, <2>3 DEF TypeOK, WireTypeOK, TransportTypeOK, HandlerTypeOK
<1>15. InFlightInv'
  <2>1. ASSUME NEW d \in net'
        PROVE  DatagramOK(d)'
    <3>1. CASE d \in net
      BY <1>1, <3>1, FlightCarried
    <3>2. ASSUME NEW p \in PacketsOf(m), d = Datagram(n, peer, DataMessage(p))
          PROVE  DatagramOK(d)'
      <4>1. d.to = peer /\ d.from.port = n /\ d.msg = DataMessage(p)
        BY <1>7, <3>2, AddressFacts DEF Datagram
      <4>2. d.msg.head = "Data" /\ d.msg.packet = p
        BY <1>6, <4>1, DataFacts
      <4>3. d.to = Dest(p) /\ d.from.port = Sender(p) /\ tries'[p] > 0
        <5>1. tries'[p] = 1
          BY <1>9
        <5>2. QED
          BY <1>6, <4>1, <5>1
      <4>4. QED
        BY <4>2, <4>3 DEF DatagramOK
    <3>3. QED
      BY <1>2, <3>1, <3>2
  <2>2. QED
    BY <1>1, <1>3, <2>1, FlightCarried DEF InFlightInv
<1>16. OutboxInv'
  <2>1. ASSUME NEW c \in Nodes, NEW p \in Packets
        PROVE  \/ outbox'[c][p] = Absent
               \/ /\ c = Sender(p)
                  /\ outbox'[c][p].sent = {Dest(p)}
                  /\ outbox'[c][p].attempts = tries'[p] /\ tries'[p] > 0
                  /\ outbox'[c][p].acked \subseteq {Public(Receiver(p))}
                  /\ outbox'[c][p].acked # {} => Arrived(p)'
    <3>1. CASE c = n /\ p \in PacketsOf(m)
      <4>1. c = Sender(p) /\ tries'[p] = 1
            /\ outbox'[c][p] = [sent |-> {Dest(p)}, acked |-> {}, attempts |-> 1]
        BY <1>6, <1>9, <3>1
      <4>2. QED
        BY <4>1
    <3>2. CASE c # n /\ p \in PacketsOf(m)
      BY <1>6, <1>10, <3>2 DEF OutboxInv
    <3>3. CASE p \notin PacketsOf(m)
      BY <1>10, <1>11, <1>12, <3>3 DEF OutboxInv
    <3>4. QED
      BY <3>1, <3>2, <3>3
  <2>2. QED
    BY <2>1 DEF OutboxInv
<1>17. CountInv'
  <2>1. ASSUME NEW p \in PacketsOf(m)
        PROVE  tries'[p] <= MaxAttempts /\ Open(Entry(p))'
    <3>1. n = Sender(p) /\ outbox'[n][p].attempts = 1 /\ tries'[p] = 1
      <4>1. outbox'[n][p] = [sent |-> {Dest(p)}, acked |-> {}, attempts |-> 1] /\ tries'[p] = 1
        BY <1>9
      <4>2. QED
        BY <1>6, <4>1
    <3>2. QED
      BY <3>1 DEF Open, Entry
  <2>2. ASSUME NEW p \in Packets, p \notin PacketsOf(m)
        PROVE  tries'[p] = tries[p] /\ Entry(p)' = Entry(p)
    BY <1>10, <1>11, <2>2, PacketFacts DEF Entry
  <2>3. QED
    BY <1>12, <2>1, <2>2 DEF CountInv
<1>18. FiledInv'
  <2>1. ASSUME NEW x \in Messages, NEW k \in 1..Total[x], tries[<<x, k>>] > 0
        PROVE  tries'[<<x, k>>] > 0
    BY <1>2, <2>1, PacketFacts
  <2>2. QED
    BY <1>3, <2>1, FiledCarried
<1>19. QED
  BY <1>13, <1>14, <1>15, <1>16, <1>17, <1>18

LEMMA MaintainOK ==
    ASSUME IInv, NEW n \in Nodes, Maintain(n), UNCHANGED <<handlerVars, accepted>>
    PROVE  IInv'
<1> USE DEF IInv, DeliveryInv
<1> DEFINE old(p) == outbox[n][p]
           kept(p) == Retain(outbox[n][p])
           Dropped(p) == /\ outbox'[n][p] = Absent /\ tries'[p] = tries[p]
                         /\ Peers(kept(p)) = {}
                         /\ Open(old(p)) => old(p).acked # {} \/ old(p).attempts >= MaxAttempts
           Resent(p) == /\ n = Sender(p) /\ Peers(kept(p)) = {Dest(p)}
                        /\ outbox'[n][p] = [sent |-> {Dest(p)}, acked |-> old(p).acked,
                                            attempts |-> tries[p] + 1]
                        /\ tries'[p] = tries[p] + 1 /\ tries[p] > 0 /\ tries[p] < MaxAttempts
                        /\ old(p).acked \subseteq {Public(Receiver(p))}
                        /\ old(p).acked # {} => Arrived(p)
<1>1. Carried
  BY TransportGrows, GrowsCarries DEF TransportStep
<1>2. UNCHANGED <<om, ia, up, holding, pending, delivered, accepted>>
  BY DEF Maintain, handlerVars
<1>3. /\ outbox \in [Nodes -> [Packets -> Entries]] /\ tries \in [Packets -> Nat]
      /\ outbox' = [outbox EXCEPT ![n] = [p \in Packets |-> Resend(kept(p))]]
      /\ tries' = [p \in Packets |-> tries[p] + Cardinality(Peers(kept(p)))]
      /\ \A d \in net' : \/ d \in net
                         \/ \E p \in Packets : \E peer \in Peers(kept(p)) :
                              d = Datagram(n, peer, DataMessage(p))
  <2> DEFINE K == [p \in Packets |-> Retain(outbox[n][p])]
  <2>1. /\ outbox' = [outbox EXCEPT ![n] = [p \in Packets |-> Resend(K[p])]]
        /\ net' = net \cup UNION {{Datagram(n, peer, DataMessage(p)) :
                                     peer \in Peers(K[p])} : p \in Packets}
        /\ tries' = [p \in Packets |-> tries[p] + Cardinality(Peers(K[p]))]
    BY DEF Maintain
  <2>2. \A p \in Packets : K[p] = kept(p)
    OBVIOUS
  <2> HIDE DEF K, kept
  <2>3. /\ outbox' = [outbox EXCEPT ![n] = [p \in Packets |-> Resend(kept(p))]]
        /\ tries' = [p \in Packets |-> tries[p] + Cardinality(Peers(kept(p)))]
    BY <2>1, <2>2
  <2>4. ASSUME NEW d \in net', d \notin net
        PROVE  \E p \in Packets : \E peer \in Peers(kept(p)) :
                 d = Datagram(n, peer, DataMessage(p))
    BY <2>1, <2>2, <2>4
  <2>5. QED
    BY <2>3, <2>4 DEF TypeOK, TransportTypeOK
<1>4. ASSUME NEW p \in Packets
      PROVE  Dropped(p) \/ Resent(p)
  <2>1. /\ outbox'[n][p] = Resend(kept(p))
        /\ tries'[p] = tries[p] + Cardinality(Peers(kept(p)))
        /\ tries[p] \in Nat
    BY <1>3
  <2>2. CASE /\ kept(p) = Absent /\ Resend(kept(p)) = Absent
             /\ Peers(kept(p)) = {} /\ Cardinality(Peers(kept(p))) = 0
             /\ Open(old(p)) => old(p).acked # {} \/ old(p).attempts >= MaxAttempts
    BY <2>1, <2>2
  <2>3. CASE /\ n = Sender(p) /\ kept(p) = old(p)
             /\ old(p).attempts = tries[p] /\ tries[p] > 0 /\ tries[p] < MaxAttempts
             /\ old(p).acked \subseteq {Public(Receiver(p))}
             /\ old(p).acked # {} => Arrived(p)
             /\ Peers(old(p)) = {Dest(p)} /\ Cardinality(Peers(old(p))) = 1
             /\ Resend(old(p)) = [sent |-> {Dest(p)}, acked |-> old(p).acked,
                                  attempts |-> old(p).attempts + 1]
    BY <2>1, <2>3
  <2>4. QED
    BY <2>2, <2>3, KeptFacts, ZenonT(60)
<1>5. \A c \in Nodes \ {n} : outbox'[c] = outbox[c]
  BY <1>3
<1>6. \A p \in Packets : Arrived(p)' = Arrived(p)
  BY <1>2 DEF Arrived
<1>7. ASSUME NEW d \in net', d \notin net
      PROVE  \E p \in Packets : Resent(p) /\ d = Datagram(n, Dest(p), DataMessage(p))
  <2>1. PICK p \in Packets : \E peer \in Peers(kept(p)) : d = Datagram(n, peer, DataMessage(p))
    BY <1>3, <1>7
  <2>2. Resent(p)
    BY <1>4, <2>1
  <2>3. QED
    BY <2>1, <2>2
<1> HIDE DEF kept, Dropped, Resent
<1>8. \A p \in Packets : tries'[p] \in Nat /\ outbox'[n][p] \in Entries
  <2>1. ASSUME NEW p \in Packets
        PROVE  tries'[p] \in Nat /\ outbox'[n][p] \in Entries
    <3>1. tries[p] \in Nat /\ old(p).acked \subseteq Addresses
      BY <1>3 DEF Entries
    <3>2. CASE Dropped(p)
      BY <3>1, <3>2, EntryFacts DEF Dropped
    <3>3. CASE Resent(p)
      BY <3>1, <3>3, DestFacts DEF Resent, Entries
    <3>4. QED
      BY <1>4, <3>2, <3>3
  <2>2. QED
    BY <2>1
<1>9. TypeOK'
  <2>1. outbox' \in [Nodes -> [Packets -> Entries]] /\ tries' \in [Packets -> Nat]
    BY <1>3, <1>8
  <2>2. \A p \in Packets : Resent(p) => Datagram(n, Dest(p), DataMessage(p)) \in Datagrams
    BY DatagramMade, DestFacts
  <2>3. net' \subseteq Datagrams
    BY <1>7, <2>2 DEF TypeOK, WireTypeOK
  <2>4. QED
    BY <1>2, <2>1, <2>3 DEF TypeOK, WireTypeOK, TransportTypeOK, HandlerTypeOK
<1>10. InFlightInv'
  <2>1. ASSUME NEW d \in net'
        PROVE  DatagramOK(d)'
    <3>1. CASE d \in net
      BY <1>1, <3>1, FlightCarried
    <3>2. CASE d \notin net
      <4>1. PICK p \in Packets : Resent(p) /\ d = Datagram(n, Dest(p), DataMessage(p))
        BY <1>7, <3>2
      <4>2. d.to = Dest(p) /\ d.from.port = n /\ d.msg = DataMessage(p)
        BY <4>1, DestFacts, AddressFacts DEF Datagram
      <4>3. n = Sender(p) /\ tries'[p] > 0
        <5>1. tries[p] \in Nat
          BY <1>3
        <5>2. QED
          BY <4>1, <5>1 DEF Resent
      <4>4. d.msg.head = "Data" /\ d.msg.packet = p
        BY <4>2, DataFacts
      <4>5. QED
        BY <4>2, <4>3, <4>4 DEF DatagramOK
    <3>3. QED
      BY <3>1, <3>2
  <2>2. QED
    BY <1>1, <1>2, <2>1, FlightCarried DEF InFlightInv
<1>11. QueueInv'
  <2>1. ASSUME NEW p \in Packets, tries[p] = 0
        PROVE  tries'[p] = 0
    <3>1. ~Resent(p)
      <4>1. Resent(p) => tries[p] > 0
        BY DEF Resent
      <4>2. QED
        BY <2>1, <4>1
    <3>2. Dropped(p) => tries'[p] = tries[p]
      BY DEF Dropped
    <3>3. QED
      BY <1>4, <2>1, <3>1, <3>2
  <2>2. ASSUME NEW c \in Nodes, NEW i \in 1..Len(om[c])
        PROVE  ItemOK(c, om[c][i])'
    <3>1. om[c][i] \in Outgoing /\ ItemOK(c, om[c][i])
      BY DEF QueueInv, TypeOK, WireTypeOK
    <3>2. CASE om[c][i].msg.head = "Ack"
      BY <1>2, <1>6, <3>1, <3>2 DEF ItemOK, AckOK, Arrived
    <3>3. CASE om[c][i].msg.head # "Ack"
      BY <1>2, <2>1, <3>1, <3>3, OutgoingFacts, PacketFacts DEF ItemOK
    <3>4. QED
      BY <3>2, <3>3
  <2>3. \A m \in Messages \ accepted' : \A p \in PacketsOf(m) : tries'[p] = 0
    BY <1>2, <2>1, PacketFacts DEF QueueInv
  <2>4. QED
    BY <1>2, <2>2, <2>3 DEF QueueInv, SameMessage
<1>12. OutboxInv'
  <2>1. ASSUME NEW c \in Nodes, NEW p \in Packets
        PROVE  \/ outbox'[c][p] = Absent
               \/ /\ c = Sender(p)
                  /\ outbox'[c][p].sent = {Dest(p)}
                  /\ outbox'[c][p].attempts = tries'[p] /\ tries'[p] > 0
                  /\ outbox'[c][p].acked \subseteq {Public(Receiver(p))}
                  /\ outbox'[c][p].acked # {} => Arrived(p)'
    <3>1. tries[p] \in Nat
      BY <1>3
    <3>2. CASE c = n
      <4>1. CASE Dropped(p)
        BY <3>2, <4>1 DEF Dropped
      <4>2. CASE Resent(p)
        <5>1. /\ outbox'[c][p].sent = {Dest(p)} /\ outbox'[c][p].acked = old(p).acked
              /\ outbox'[c][p].attempts = tries[p] + 1 /\ tries'[p] = tries[p] + 1
          BY <3>2, <4>2 DEF Resent
        <5>2. QED
          BY <1>6, <3>1, <3>2, <4>2, <5>1 DEF Resent
      <4>3. QED
        BY <1>4, <4>1, <4>2
    <3>3. CASE c # n
      <4>1. CASE Resent(p)
        BY <1>5, <3>3, <4>1 DEF Resent, OutboxInv
      <4>2. CASE Dropped(p)
        BY <1>5, <1>6, <3>3, <4>2 DEF Dropped, OutboxInv
      <4>3. QED
        BY <1>4, <4>1, <4>2
    <3>4. QED
      BY <3>2, <3>3
  <2>2. QED
    BY <2>1 DEF OutboxInv
<1>13. CountInv'
  <2>1. ASSUME NEW p \in Packets
        PROVE  /\ tries'[p] <= MaxAttempts
               /\ tries'[p] > 0 /\ ~Open(Entry(p))' => Arrived(p)' \/ tries'[p] = MaxAttempts
    <3>1. /\ tries[p] \in Nat /\ tries[p] <= MaxAttempts
          /\ tries[p] > 0 /\ ~Open(Entry(p)) => Arrived(p) \/ tries[p] = MaxAttempts
      BY <1>3 DEF CountInv
    <3>2. CASE Resent(p)
      <4>1. Entry(p)' = outbox'[n][p] /\ outbox'[n][p].attempts > 0
        BY <3>1, <3>2 DEF Resent, Entry
      <4>2. QED
        BY <3>1, <3>2, <4>1 DEF Resent, Open
    <3>3. CASE Dropped(p) /\ n = Sender(p)
      <4>1. CASE Open(old(p))
        <5>1. old(p) # Absent
          BY <4>1, EntryFacts
        <5>2. old(p).acked # {} \/ old(p).attempts >= MaxAttempts
          BY <3>3, <4>1 DEF Dropped
        <5>3. Arrived(p) \/ tries[p] >= MaxAttempts
          BY <5>1, <5>2 DEF OutboxInv
        <5>4. QED
          BY <1>6, <3>1, <3>3, <5>3 DEF Dropped
      <4>2. CASE ~Open(old(p))
        BY <1>6, <3>1, <3>3, <4>2 DEF Dropped, Entry
      <4>3. QED
        BY <4>1, <4>2
    <3>4. CASE Dropped(p) /\ n # Sender(p)
      <4>1. Entry(p)' = Entry(p)
        BY <1>5, <3>4, PacketFacts DEF Entry
      <4>2. QED
        BY <1>6, <3>1, <3>4, <4>1 DEF Dropped
    <3>5. QED
      BY <1>4, <3>2, <3>3, <3>4
  <2>2. QED
    BY <2>1 DEF CountInv
<1>14. FiledInv'
  <2>1. ASSUME NEW p \in Packets, tries[p] > 0
        PROVE  tries'[p] > 0
    BY <1>3, <1>4, <2>1 DEF Dropped, Resent
  <2>2. QED
    BY <1>2, <2>1, FiledCarried, PacketFacts
<1>15. QED
  BY <1>9, <1>10, <1>11, <1>12, <1>13, <1>14

\* What no action of the receiving thread, no crash and no loss disturbs.
LEMMA SenderSideKept ==
    ASSUME IInv, Grows, UNCHANGED transportVars
    PROVE  OutboxInv' /\ CountInv'
<1> USE DEF IInv, DeliveryInv
<1>1. UNCHANGED <<outbox, tries>>
  BY DEF transportVars
<1>2. OutboxInv'
  BY <1>1 DEF OutboxInv, Grows
<1>3. CountInv'
  BY <1>1 DEF CountInv, Entry, Grows
<1>4. QED
  BY <1>2, <1>3

LEMMA RecvMsgOK ==
    ASSUME IInv, NEW n \in Nodes, NEW d \in net, RecvMsg(n, d), UNCHANGED <<transportVars, accepted>>
    PROVE  IInv'
<1> USE DEF IInv, DeliveryInv
<1> DEFINE receipt == ReturnReceipt(n, d)
<1>1. Grows /\ Carried
  BY HandlerGrows, GrowsCarries DEF HandlerStep
<1>2. /\ holding[n] = Nothing /\ d.to.port = n
      /\ net' \subseteq net
      /\ holding' = [holding EXCEPT ![n] = d]
      /\ om' = IF d.msg.head = "Data" THEN [om EXCEPT ![n] = Append(om[n], receipt)] ELSE om
      /\ d \in Datagrams /\ DatagramOK(d) /\ om \in [Nodes -> Seq(Outgoing)]
  BY DEF RecvMsg, TypeOK, WireTypeOK, InFlightInv
<1>3. UNCHANGED <<ia, up, pending, delivered, outbox, tries, accepted>>
  BY DEF RecvMsg, transportVars
<1>4. ASSUME d.msg.head = "Data"
      PROVE  /\ receipt \in Outgoing
             /\ receipt.msg.head = "Ack"
             /\ receipt.to.port = Sender(d.msg.packet)
             /\ receipt.msg.packet = d.msg.packet
             /\ receipt.msg.src = Public(Receiver(d.msg.packet))
  <2> DEFINE p == d.msg.packet
  <2>1. d.from \in Addresses /\ p \in Packets /\ Public(n) \in Addresses
    BY <1>2, DatagramFacts, AddressFacts
  <2>2. d.from.port = Sender(p) /\ d.to = Dest(p)
    BY <1>2, <1>4 DEF DatagramOK
  <2>3. Dest(p).port = Receiver(p)
    BY <2>1, PacketFacts, AddressFacts DEF Dest
  <2>4. n = Receiver(p)
    BY <1>2, <2>2, <2>3
  <2>5. receipt.to = d.from /\ receipt.msg = AckMessage(p, Public(n))
    BY DEF ReturnReceipt
  <2>6. receipt = [to |-> d.from, msg |-> AckMessage(p, Public(n))] /\ receipt \in Outgoing
    BY <2>1 DEF ReturnReceipt, Outgoing
  <2>7. QED
    BY <2>1, <2>2, <2>4, <2>5, <2>6, AckFacts
<1>5. ASSUME d.msg.head = "Data"
      PROVE  Arrived(d.msg.packet)' /\ Receiver(d.msg.packet) = n
  <2> DEFINE p == d.msg.packet
  <2>1. p \in Packets /\ d.msg = DataMessage(p) /\ d.to = Dest(p)
    BY <1>2, <1>5, DatagramFacts DEF DatagramOK
  <2>2. Receiver(p) = n
    <3>1. Dest(p).port = Receiver(p)
      BY <2>1, PacketFacts, AddressFacts DEF Dest
    <3>2. QED
      BY <1>2, <2>1, <3>1
  <2>3. holding'[n] = d /\ d # Nothing
    BY <1>2 DEF TypeOK, HandlerTypeOK
  <2>4. QED
    BY <2>1, <2>2, <2>3 DEF Arrived
<1> HIDE DEF receipt
<1>6. om' \in [Nodes -> Seq(Outgoing)]
  BY <1>2, <1>4, AppendFacts
<1>7. TypeOK'
  BY <1>2, <1>3, <1>6 DEF TypeOK, WireTypeOK, TransportTypeOK, HandlerTypeOK
<1>8. InFlightInv'
  <2>1. DatagramOK(d)'
    BY <1>1, <1>2 DEF Carried
  <2>2. ASSUME NEW c \in Nodes, holding'[c] # Nothing
        PROVE  DatagramOK(holding[c])' /\ holding'[c].to.port = c
    <3>1. CASE c = n
      <4>1. holding'[c] = d
        BY <1>2, <3>1 DEF TypeOK, HandlerTypeOK
      <4>2. QED
        BY <1>2, <2>1, <3>1, <4>1 DEF DatagramOK, AckOK
    <3>2. CASE c # n
      BY <1>1, <1>2, <2>2, <3>2, FlightCarried DEF TypeOK, HandlerTypeOK
    <3>3. QED
      BY <3>1, <3>2
  <2>3. QED
    BY <1>1, <1>2, <1>3, <2>2, FlightCarried DEF InFlightInv
<1>9. QueueInv'
  <2>1. ASSUME NEW c \in Nodes, NEW x \in Outgoing, NEW i, ItemOK(c, x), om'[c][i] = x
        PROVE  ItemOK(c, om[c][i])'
    <3>1. CASE x.msg.head = "Ack"
      BY <1>1, <2>1, <3>1, OutgoingFacts, AddressFacts DEF ItemOK, Carried, AckOK
    <3>2. CASE x.msg.head # "Ack"
      BY <1>3, <2>1, <3>2 DEF ItemOK
    <3>3. QED
      BY <3>1, <3>2
  <2>2. ASSUME d.msg.head = "Data", NEW i, om'[n][i] = receipt
        PROVE  ItemOK(n, om[n][i])'
    BY <1>4, <1>5, <2>2 DEF ItemOK, AckOK
  <2>3. ASSUME NEW c \in Nodes, NEW i \in 1..Len(om'[c])
        PROVE  \/ i \in 1..Len(om[c]) /\ om'[c][i] = om[c][i]
               \/ c = n /\ d.msg.head = "Data" /\ om'[c][i] = receipt
    <3>1. CASE d.msg.head = "Data" /\ c = n
      BY <1>2, <1>4, <2>3, <3>1, AppendFacts
    <3>2. CASE ~(d.msg.head = "Data" /\ c = n)
      BY <1>2, <2>3, <3>2
    <3>3. QED
      BY <3>1, <3>2
  <2>4. ASSUME NEW c \in Nodes, NEW i \in 1..Len(om'[c])
        PROVE  ItemOK(c, om[c][i])'
    <3>1. CASE i \in 1..Len(om[c]) /\ om'[c][i] = om[c][i]
      <4>1. om[c][i] \in Outgoing /\ ItemOK(c, om[c][i])
        BY <1>2, <3>1 DEF QueueInv
      <4>2. QED
        BY <2>1, <3>1, <4>1
    <3>2. QED
      BY <2>2, <2>3, <3>1
  <2>5. ASSUME NEW c \in Nodes, NEW i \in 1..Len(om'[c]), NEW j \in 1..Len(om'[c]),
               SameMessage(om'[c][i], om'[c][j])
        PROVE  i = j
    <3>1. om'[c][i].msg.head # "Ack" /\ om'[c][j].msg.head # "Ack"
      BY <2>5 DEF SameMessage
    <3>2. /\ i \in 1..Len(om[c]) /\ om'[c][i] = om[c][i]
          /\ j \in 1..Len(om[c]) /\ om'[c][j] = om[c][j]
      BY <1>4, <2>3, <3>1
    <3>3. QED
      BY <2>5, <3>2 DEF QueueInv
  <2>6. \A m \in Messages \ accepted' : \A p \in PacketsOf(m) : tries'[p] = 0
    BY <1>3 DEF QueueInv
  <2>7. QED
    BY <2>4, <2>5, <2>6 DEF QueueInv
<1>10. FiledInv'
  BY <1>3, FiledCarried
<1>11. QED
  BY <1>1, <1>7, <1>8, <1>9, <1>10, SenderSideKept

LEMMA InsertAckOK ==
    ASSUME IInv, NEW n \in Nodes, InsertAck(n), UNCHANGED <<transportVars, accepted>>
    PROVE  IInv'
<1> USE DEF IInv, DeliveryInv
<1> DEFINE k == holding[n].msg
<1>1. Grows /\ Carried
  BY HandlerGrows, GrowsCarries DEF HandlerStep
<1>2. /\ holding[n] # Nothing /\ k.head = "Ack"
      /\ holding' = [holding EXCEPT ![n] = Nothing]
      /\ ia' = [ia EXCEPT ![n] = Append(ia[n], k)]
      /\ ia \in [Nodes -> Seq(Acks)]
      /\ holding \in [Nodes -> Datagrams \cup {Nothing}]
  BY DEF InsertAck, TypeOK, WireTypeOK, HandlerTypeOK
<1>3. UNCHANGED <<om, net, up, pending, delivered, outbox, tries, accepted>>
  BY DEF InsertAck, transportVars
<1>4. k \in Acks /\ AckOK(n, k)
  <2>1. holding[n] \in Datagrams /\ DatagramOK(holding[n]) /\ holding[n].to.port = n
    BY <1>2 DEF InFlightInv
  <2>2. QED
    BY <1>2, <2>1, DatagramFacts DEF DatagramOK
<1>5. ia' \in [Nodes -> Seq(Acks)]
  BY <1>2, <1>4, AppendFacts
<1>6. TypeOK'
  BY <1>2, <1>3, <1>5 DEF TypeOK, WireTypeOK, TransportTypeOK, HandlerTypeOK
<1>7. InFlightInv'
  <2>1. ASSUME NEW c \in Nodes, NEW i \in 1..Len(ia'[c])
        PROVE  AckOK(c, ia[c][i])'
    <3>1. \E x \in Acks : ia'[c][i] = x /\ AckOK(c, x)
      <4>1. CASE c = n
        BY <1>2, <1>4, <2>1, <4>1, AppendFacts DEF InFlightInv
      <4>2. CASE c # n
        BY <1>2, <2>1, <4>2 DEF InFlightInv
      <4>3. QED
        BY <4>1, <4>2
    <3>2. PICK x \in Acks : ia'[c][i] = x /\ AckOK(c, x)
      BY <3>1
    <3>3. AckOK(c, x)'
      BY <1>1, <3>2 DEF Carried
    <3>4. QED
      BY <3>2, <3>3 DEF AckOK
  <2>2. \A c \in Nodes : holding'[c] # Nothing => holding'[c] = holding[c]
    BY <1>2
  <2>3. QED
    BY <1>1, <1>3, <2>1, <2>2, FlightCarried DEF InFlightInv
<1>8. QED
  BY <1>1, <1>3, <1>6, <1>7, QueueCarried, FiledCarried, SenderSideKept

\* A message has as many packet numbers as packets.
LEMMA NumberFacts ==
    ASSUME NEW t \in Nat
    PROVE  IsFiniteSet(1..t) /\ Cardinality(1..t) = t
  BY FS_Interval

LEMMA InsertPacketOK ==
    ASSUME IInv, NEW n \in Nodes, InsertPacket(n), UNCHANGED <<transportVars, accepted>>
    PROVE  IInv'
<1> USE DEF IInv, DeliveryInv
<1> DEFINE p == holding[n].msg.packet
           m == p[1]
           k == p[2]
           old == pending[n][m]
<1>1. Grows /\ Carried
  BY HandlerGrows, GrowsCarries DEF HandlerStep
<1>2. /\ holding[n] # Nothing /\ holding[n].msg.head = "Data"
      /\ holding' = [holding EXCEPT ![n] = Nothing]
      /\ pending' = [pending EXCEPT ![n][m] = Filed(old, m, k)]
      /\ delivered' = IF Completes(old, m, k)
                      THEN [delivered EXCEPT ![n] = delivered[n] \cup {m}]
                      ELSE delivered
      /\ holding \in [Nodes -> Datagrams \cup {Nothing}]
      /\ pending \in [Nodes -> [Messages -> SUBSET Nat]]
      /\ delivered \in [Nodes -> SUBSET Messages]
  BY DEF InsertPacket, TypeOK, HandlerTypeOK
<1>3. UNCHANGED <<om, ia, net, up, outbox, tries, accepted>>
  BY DEF InsertPacket, transportVars
<1>4. /\ m \in Messages /\ k \in 1..Total[m] /\ n = Target[m] /\ tries[<<m, k>>] > 0
  <2>1. holding[n] \in Datagrams /\ DatagramOK(holding[n]) /\ holding[n].to.port = n
    BY <1>2 DEF InFlightInv
  <2>2. p \in Packets /\ holding[n].to = Dest(p) /\ tries[p] > 0
    BY <1>2, <2>1, DatagramFacts DEF DatagramOK
  <2>3. Dest(p).port = Receiver(p)
    BY <2>2, PacketFacts, AddressFacts DEF Dest
  <2>4. QED
    BY <2>1, <2>2, <2>3, PacketFacts DEF Receiver
<1>5. old \subseteq 1..Total[m] /\ Total[m] \in Nat \ {0}
      /\ (Total[m] = 1 => old = {})
  BY <1>4 DEF TypeOK, HandlerTypeOK, FiledInv
<1> HIDE DEF p, m, k, old
<1>6. Filed(old, m, k) \subseteq 1..Total[m]
  BY <1>4, <1>5 DEF Filed
<1>7. \A c \in Nodes, x \in Messages :
        pending'[c][x] = IF c = n /\ x = m THEN Filed(old, m, k) ELSE pending[c][x]
  BY <1>2, <1>4
<1>8. TypeOK'
  <2>1. pending' \in [Nodes -> [Messages -> SUBSET Nat]]
    BY <1>2, <1>4, <1>6
  <2>2. \A c \in Nodes, x \in Messages : pending'[c][x] \subseteq 1..Total[x]
    BY <1>6, <1>7 DEF TypeOK, HandlerTypeOK
  <2>3. delivered' \in [Nodes -> SUBSET Messages] /\ holding' \in [Nodes -> Datagrams \cup {Nothing}]
    BY <1>2, <1>4
  <2>4. QED
    BY <1>3, <2>1, <2>2, <2>3 DEF TypeOK, WireTypeOK, TransportTypeOK, HandlerTypeOK
<1>9. InFlightInv'
  <2>1. \A c \in Nodes : holding'[c] # Nothing => holding'[c] = holding[c]
    BY <1>2
  <2>2. QED
    BY <1>1, <1>3, <2>1, FlightCarried DEF InFlightInv
<1>10. Completes(old, m, k) => Total[m] = 1 \/ Filed(old, m, k) = 1..Total[m]
  <2>1. SUFFICES ASSUME old # {}, Total[m] # 1, Cardinality(old \cup {k}) = Total[m]
                 PROVE  Filed(old, m, k) = 1..Total[m]
    BY <1>5 DEF Completes
  <2>2. old \cup {k} \subseteq 1..Total[m]
    BY <1>4, <1>5
  <2>3. IsFiniteSet(1..Total[m]) /\ Cardinality(1..Total[m]) = Total[m]
    BY <1>5, FS_Interval
  <2>4. old \cup {k} = 1..Total[m]
    BY <2>1, <2>2, <2>3, FS_Subset
  <2>5. QED
    BY <2>1, <2>4 DEF Filed
<1>11. FiledInv'
  <2>1. ASSUME NEW c \in Nodes, NEW x \in Messages, NEW i \in pending'[c][x]
        PROVE  c = Target[x] /\ tries'[<<x, i>>] > 0
    <3>1. CASE i \in pending[c][x]
      BY <1>3, <3>1 DEF FiledInv
    <3>2. CASE i \notin pending[c][x]
      <4>1. c = n /\ x = m /\ i \in Filed(old, m, k) /\ i \notin old
        BY <1>7, <2>1, <3>2 DEF old
      <4>2. i = k
        BY <4>1 DEF Filed
      <4>3. QED
        BY <1>3, <1>4, <4>1, <4>2
    <3>3. QED
      BY <3>1, <3>2
  <2>2. ASSUME NEW c \in Nodes, NEW x \in Messages, Total[x] = 1
        PROVE  pending'[c][x] = {}
    <3>1. CASE c = n /\ x = m
      BY <1>5, <1>7, <2>2, <3>1 DEF Filed
    <3>2. CASE ~(c = n /\ x = m)
      <4>1. pending[c][x] = {}
        BY <2>2 DEF FiledInv
      <4> QED
        BY <1>7, <3>2, <4>1
    <3>3. QED
      BY <3>1, <3>2
  <2>3. ASSUME NEW c \in Nodes, NEW x \in Messages, x \in delivered'[c]
        PROVE  IF Total[x] = 1 THEN c = Target[x] /\ tries'[<<x, 1>>] > 0
                               ELSE pending'[c][x] = 1..Total[x]
    <3>1. CASE x \in delivered[c]
      <4>1. CASE Total[x] = 1
        BY <1>3, <3>1, <4>1 DEF FiledInv
      <4>2. CASE Total[x] # 1
        <5>1. pending[c][x] = 1..Total[x]
          BY <3>1, <4>2 DEF FiledInv
        <5>2. CASE c = n /\ x = m
          <6>1. old = 1..Total[m]
            BY <5>1, <5>2 DEF old
          <6>2. pending'[c][x] = old \cup {k}
            BY <1>7, <4>2, <5>2 DEF Filed
          <6>3. QED
            BY <1>4, <4>2, <5>2, <6>1, <6>2
        <5>3. CASE ~(c = n /\ x = m)
          BY <1>7, <4>2, <5>1, <5>3
        <5>4. QED
          BY <5>2, <5>3
      <4>3. QED
        BY <4>1, <4>2
    <3>2. CASE x \notin delivered[c]
      <4>1. c = n /\ x = m /\ Completes(old, m, k)
        BY <1>2, <2>3, <3>2
      <4>2. CASE Total[x] = 1
        BY <1>3, <1>4, <4>1, <4>2
      <4>3. CASE Total[x] # 1
        BY <1>7, <1>10, <4>1, <4>3
      <4>4. QED
        BY <4>2, <4>3
    <3>3. QED
      BY <3>1, <3>2
  <2>4. ASSUME NEW c \in Nodes, NEW x \in Messages, Total[x] > 1, pending'[c][x] = 1..Total[x]
        PROVE  x \in delivered'[c]
    <3>1. CASE c = n /\ x = m
      <4>1. pending'[c][x] = old \cup {k}
        <5>1. pending'[c][x] = Filed(old, m, k) /\ Total[m] # 1
          BY <1>7, <2>4, <3>1
        <5> QED
          BY <5>1 DEF Filed
      <4>2. IsFiniteSet(1..Total[m]) /\ Cardinality(1..Total[m]) = Total[m]
        BY <1>5, NumberFacts
      <4>3. old \cup {k} = 1..Total[m]
        BY <2>4, <3>1, <4>1
      <4>4. 1 \in 1..Total[m] /\ 2 \in 1..Total[m]
        BY <1>5, <2>4, <3>1
      <4>5. old # {}
        BY <4>3, <4>4
      <4>6. Completes(old, m, k)
        BY <4>2, <4>3, <4>5 DEF Completes
      <4> QED
        BY <1>2, <1>4, <3>1, <4>6
    <3>2. CASE ~(c = n /\ x = m)
      <4>1. pending[c][x] = 1..Total[x]
        BY <1>7, <2>4, <3>2
      <4>2. x \in delivered[c]
        BY <2>4, <4>1 DEF FiledInv
      <4> QED
        BY <1>2, <4>2
    <3> QED
      BY <3>1, <3>2
  <2>5. ASSUME NEW c \in Nodes, NEW x \in Messages
        PROVE  /\ \A i \in pending'[c][x] : c = Target[x] /\ tries'[<<x, i>>] > 0
               /\ Total[x] = 1 => pending'[c][x] = {}
               /\ x \in delivered'[c] =>
                    IF Total[x] = 1 THEN c = Target[x] /\ tries'[<<x, 1>>] > 0
                                    ELSE pending'[c][x] = 1..Total[x]
               /\ Total[x] > 1 /\ pending'[c][x] = 1..Total[x] => x \in delivered'[c]
    BY <2>1, <2>2, <2>3, <2>4
  <2>6. QED
    BY <2>5, Zenon DEF FiledInv
<1>12. QED
  BY <1>1, <1>3, <1>8, <1>9, <1>11, QueueCarried, SenderSideKept

LEMMA CrashOK ==
    ASSUME IInv, NEW n \in Nodes, Crash(n), UNCHANGED <<transportVars, handlerVars, accepted>>
    PROVE  IInv'
<1> USE DEF IInv, DeliveryInv
<1>1. UNCHANGED <<om, ia, net, outbox, tries, holding, pending, delivered, accepted>>
  BY DEF Crash, transportVars, handlerVars
<1>2. TypeOK'
  BY <1>1 DEF Crash, TypeOK, WireTypeOK, TransportTypeOK, HandlerTypeOK
<1>3. Grows /\ Carried
  BY <1>1, GrowsCarries DEF Grows, Arrived
<1>4. InFlightInv'
  BY <1>1, <1>3, FlightCarried DEF InFlightInv
<1>5. QED
  BY <1>1, <1>2, <1>3, <1>4, QueueCarried, FiledCarried, SenderSideKept

LEMMA LoseOK ==
    ASSUME IInv, NEW d \in net, Lose(d), UNCHANGED <<transportVars, handlerVars, accepted>>
    PROVE  IInv'
<1> USE DEF IInv, DeliveryInv
<1>1. /\ UNCHANGED <<om, ia, up, outbox, tries, holding, pending, delivered, accepted>>
      /\ net' \subseteq net
  BY DEF Lose, transportVars, handlerVars
<1>2. TypeOK'
  BY <1>1 DEF TypeOK, WireTypeOK, TransportTypeOK, HandlerTypeOK
<1>3. Grows /\ Carried
  BY <1>1, GrowsCarries DEF Grows, Arrived
<1>4. InFlightInv'
  BY <1>1, <1>3, FlightCarried DEF InFlightInv
<1>5. QED
  BY <1>1, <1>2, <1>3, <1>4, QueueCarried, FiledCarried, SenderSideKept

LEMMA StutterOK == IInv /\ UNCHANGED vars => IInv'
<1> SUFFICES ASSUME IInv, UNCHANGED vars PROVE IInv'
  OBVIOUS
<1> USE DEF IInv, DeliveryInv
<1>1. UNCHANGED <<om, ia, net, up, outbox, tries, holding, pending, delivered, accepted>>
  BY DEF vars, wireVars, transportVars, handlerVars
<1>2. TypeOK'
  BY <1>1 DEF TypeOK, WireTypeOK, TransportTypeOK, HandlerTypeOK
<1>3. Grows /\ Carried
  BY <1>1, GrowsCarries DEF Grows, Arrived
<1>4. InFlightInv'
  BY <1>1, <1>3, FlightCarried DEF InFlightInv
<1>5. QED
  BY <1>1, <1>2, <1>3, <1>4, QueueCarried, FiledCarried, SenderSideKept DEF transportVars

LEMMA StepOK == IInv /\ [Next]_vars => IInv'
<1> SUFFICES ASSUME IInv, Next PROVE IInv'
  BY StutterOK
<1>1. CASE \E m \in Messages : Publish(m)
  BY <1>1, PublishOK
<1>2. ASSUME NEW n \in Nodes, TransportStep(n), UNCHANGED <<handlerVars, accepted>>
      PROVE  IInv'
  BY <1>2, IncomingAckOK, SendAckOK, SendMessageOK, MaintainOK DEF TransportStep
<1>3. ASSUME NEW n \in Nodes, HandlerStep(n), UNCHANGED <<transportVars, accepted>>
      PROVE  IInv'
  BY <1>3, RecvMsgOK, InsertAckOK, InsertPacketOK DEF HandlerStep
<1>4. ASSUME NEW n \in Nodes, Crash(n), UNCHANGED <<transportVars, handlerVars, accepted>>
      PROVE  IInv'
  BY <1>4, CrashOK
<1>5. ASSUME NEW d \in net, Lose(d), UNCHANGED <<transportVars, handlerVars, accepted>>
      PROVE  IInv'
  BY <1>5, LoseOK
<1>6. QED
  BY <1>1, <1>2, <1>3, <1>4, <1>5 DEF Next

------------------------------------------------------------------------------
(* The theorems.                                                               *)

\* The type invariant and the inductive invariant hold in every reachable state, for any
\* nodes, placement of nodes on hosts, messages, sizes and bounds.
THEOREM Invariance == Spec => [](TypeOK /\ DeliveryInv)
<1>1. Spec => []IInv
  BY InitOK, StepOK, PTL DEF Spec
<1>2. IInv => TypeOK /\ DeliveryInv
  BY DEF IInv
<1>3. QED
  BY <1>1, <1>2, PTL

\* Every variable of the threads, the channels and the network has its type.
THEOREM TypeCorrect == Spec => []TypeOK
  BY Invariance, PTL

\* An acknowledgement the transport thread has processed is never wrong.
THEOREM AcksAreTrue == Spec => []AckedHasArrived
<1>1. ASSUME TypeOK, DeliveryInv
      PROVE  AckedHasArrived
  <2>1. \A p \in Packets : outbox[Sender(p)][p].acked # {} => Arrived(p)
    BY <1>1, PacketFacts DEF DeliveryInv, OutboxInv, Absent
  <2>2. QED
    BY <2>1 DEF AckedHasArrived, Entry
<1>2. QED
  BY <1>1, Invariance, PTL

\* maintain forgets a packet only when it has arrived or was sent MaxAttempts times.
THEOREM NeverGivesUpEarly == Spec => []ClosedHasArrivedOrExhausted
<1>1. TypeOK /\ DeliveryInv => ClosedHasArrivedOrExhausted
  BY DEF DeliveryInv, CountInv, ClosedHasArrivedOrExhausted
<1>2. QED
  BY <1>1, Invariance, PTL

\* No packet is put on the wire more than MaxAttempts times, and the attempts of a kept
\* entry count its datagrams.
THEOREM BoundedRetries == Spec => []RetryBudget
<1>1. ASSUME TypeOK, DeliveryInv
      PROVE  RetryBudget
  <2>1. \A p \in Packets : Open(Entry(p)) => Entry(p).attempts = tries[p]
    BY <1>1, PacketFacts, EntryFacts DEF DeliveryInv, OutboxInv, Entry
  <2>2. QED
    BY <1>1, <2>1 DEF DeliveryInv, CountInv, RetryBudget
<1>2. QED
  BY <1>1, Invariance, PTL

\* An entry that maintain keeps always has a peer it sends to again.
THEOREM KeptIsResent == Spec => []KeptHasUnacked
<1>1. ASSUME TypeOK, DeliveryInv, NEW p \in Packets, Entry(p).sent # Entry(p).acked
      PROVE  Unacked(Entry(p)) # {}
  <2>1. CASE Entry(p) = Absent
    BY <1>1, <2>1 DEF Absent
  <2>2. CASE Entry(p) # Absent
    <3>1. Entry(p).sent = {Dest(p)} /\ Entry(p).acked \subseteq {Public(Receiver(p))}
      BY <1>1, <2>2, PacketFacts DEF DeliveryInv, OutboxInv, Entry
    <3>2. QED
      BY <1>1, <3>1 DEF Unacked
  <2>3. QED
    BY <2>1, <2>2
<1>2. TypeOK /\ DeliveryInv => KeptHasUnacked
  BY <1>1 DEF KeptHasUnacked
<1>3. QED
  BY <1>2, Invariance, PTL

\* A message is handed on only at its destination, after all of its packets were sent and
\* filed.
THEOREM OnlyCompleteMessages == Spec => []DeliveredIsComplete
<1>1. ASSUME TypeOK, DeliveryInv, NEW n \in Nodes, NEW m \in delivered[n]
      PROVE  /\ n = Target[m]
             /\ \A p \in PacketsOf(m) : tries[p] > 0
             /\ Total[m] > 1 => pending[n][m] = 1..Total[m]
  <2>1. m \in Messages /\ Total[m] \in Nat \ {0}
    BY <1>1 DEF TypeOK, HandlerTypeOK
  <2>2. CASE Total[m] = 1
    <3>1. n = Target[m] /\ tries[<<m, 1>>] > 0
      BY <1>1, <2>1, <2>2 DEF DeliveryInv, FiledInv
    <3>2. \A p \in PacketsOf(m) : p = <<m, 1>>
      BY <2>2 DEF PacketsOf
    <3>3. QED
      BY <2>2, <3>1, <3>2
  <2>3. CASE Total[m] # 1
    <3>1. pending[n][m] = 1..Total[m]
      BY <1>1, <2>1, <2>3 DEF DeliveryInv, FiledInv
    <3>2. \A k \in 1..Total[m] : n = Target[m] /\ tries[<<m, k>>] > 0
      BY <1>1, <2>1, <3>1 DEF DeliveryInv, FiledInv
    <3>3. n = Target[m]
      <4>1. 1 \in 1..Total[m]
        BY <2>1
      <4>2. QED
        BY <3>2, <4>1
    <3>4. \A p \in PacketsOf(m) : tries[p] > 0
      BY <3>2 DEF PacketsOf
    <3>5. QED
      BY <3>1, <3>3, <3>4
  <2>4. QED
    BY <2>2, <2>3
<1>2. TypeOK /\ DeliveryInv => DeliveredIsComplete
  BY <1>1 DEF DeliveredIsComplete
<1>3. QED
  BY <1>2, Invariance, PTL

\* End to end: process_ack and maintain close a packet before its last attempt only when it
\* has arrived, and insert_packet hands a message on with the last of its packets, so that a
\* sender that is done with all of a message early is never wrong about it.
THEOREM SettledIsHandedOnAlways == Spec => []SettledIsHandedOn
<1>1. TypeOK /\ DeliveryInv => SettledIsHandedOn
  <2> SUFFICES ASSUME TypeOK, DeliveryInv, NEW m \in Messages,
                      \A p \in PacketsOf(m) : Settled(p),
                      ~\E p \in PacketsOf(m) :
                         holding[Target[m]] # Nothing /\ holding[Target[m]].msg = DataMessage(p)
               PROVE  m \in delivered[Target[m]]
    BY DEF SettledIsHandedOn
  <2>1. /\ Target[m] \in Nodes /\ Total[m] \in Nat \ {0}
        /\ pending[Target[m]][m] \subseteq 1..Total[m]
    BY MessagesAssumption DEF TypeOK, HandlerTypeOK
  <2>2. ASSUME NEW k \in 1..Total[m]
        PROVE  k \in pending[Target[m]][m] \/ m \in delivered[Target[m]]
    <3> DEFINE p == <<m, k>>
    <3>1. p \in PacketsOf(m) /\ p \in Packets /\ p[1] = m /\ p[2] = k
      BY DEF PacketsOf, Packets
    <3>2. Sender(p) \in Nodes /\ Receiver(p) = Target[m]
      BY <3>1, MessagesAssumption DEF Sender, Receiver
    <3> HIDE DEF p
    <3>3. Entry(p).acked # {} => Arrived(p)
      <4>1. Absent.acked = {}
        BY DEF Absent
      <4> QED
        BY <3>1, <3>2, <4>1 DEF DeliveryInv, OutboxInv, Entry
    <3>4. tries[p] > 0 /\ ~Open(Entry(p)) /\ tries[p] < MaxAttempts => Arrived(p)
      BY <3>1, MaxAttemptsAssumption DEF DeliveryInv, CountInv, TypeOK, TransportTypeOK
    <3>5. Arrived(p)
      BY <3>1, <3>3, <3>4 DEF Settled
    <3> QED
      BY <3>1, <3>2, <3>5 DEF Arrived
  <2>3. CASE Total[m] = 1
    <3>1. pending[Target[m]][m] = {}
      BY <2>1, <2>3 DEF DeliveryInv, FiledInv
    <3>2. 1 \in 1..Total[m]
      BY <2>1
    <3> QED
      BY <2>2, <3>1, <3>2
  <2>4. CASE Total[m] # 1
    <3>1. Total[m] > 1
      BY <2>1, <2>4
    <3>2. pending[Target[m]][m] = 1..Total[m] => m \in delivered[Target[m]]
      BY <2>1, <3>1 DEF DeliveryInv, FiledInv
    <3> QED
      BY <2>1, <2>2, <3>2
  <2> QED
    BY <2>3, <2>4
<1> QED
  BY <1>1, Invariance, PTL

\* A packet whose acknowledgement was processed is never sent again, when no message is
\* between two processes of one host: maintain then drops its entry.
THEOREM NoResendAcrossHosts ==
    ASSUME \A m \in Messages : Host[Origin[m]] # Host[Target[m]]
    PROVE  Spec => AckStopsResend
<1>1. ASSUME IInv, [Next]_vars, NEW p \in Packets, Entry(p).acked # {}
      PROVE  tries'[p] = tries[p]
  <2>1. Entry(p) # Absent
    BY <1>1 DEF Absent
  <2>2. /\ Entry(p).sent = {Dest(p)} /\ tries[p] > 0
        /\ Entry(p).acked = {Public(Receiver(p))}
    BY <1>1, <2>1, PacketFacts DEF IInv, DeliveryInv, OutboxInv, Entry
  <2>3. Dest(p) = Public(Receiver(p))
    BY PacketFacts DEF Dest, Route, Public, Sender, Receiver
  <2>4. Retain(outbox[Sender(p)][p]) = Absent
    BY <2>2, <2>3 DEF Retain, Entry
  <2>5. tries \in [Packets -> Nat]
    BY <1>1 DEF IInv, TypeOK, TransportTypeOK
  <2>6. ASSUME NEW n \in Nodes, SendMessage(n)
        PROVE  tries'[p] = tries[p]
    <3>1. Head(om[n]) = om[n][1] /\ 1 \in 1..Len(om[n]) /\ Head(om[n]).msg.head # "Ack"
      BY <1>1, <2>6, TailFacts DEF SendMessage, IInv, TypeOK, WireTypeOK
    <3>2. \A q \in PacketsOf(Head(om[n]).msg.id) : tries[q] = 0
      BY <1>1, <3>1 DEF IInv, DeliveryInv, QueueInv, ItemOK
    <3>3. p \notin PacketsOf(Head(om[n]).msg.id)
      BY <2>2, <2>5, <3>2
    <3>4. QED
      BY <2>6, <3>3 DEF SendMessage
  <2>7. ASSUME NEW n \in Nodes, Maintain(n)
        PROVE  tries'[p] = tries[p]
    <3>1. tries'[p] = tries[p] + Cardinality(Peers(Retain(outbox[n][p])))
      BY <2>7 DEF Maintain
    <3>2. CASE n = Sender(p)
      BY <2>4, <2>5, <3>1, <3>2, ResendAbsent
    <3>3. CASE n # Sender(p)
      <4>1. outbox[n][p] = Absent
        BY <1>1, <3>3 DEF IInv, DeliveryInv, OutboxInv
      <4>2. Retain(outbox[n][p]) = Absent
        BY <4>1 DEF Retain
      <4>3. QED
        BY <2>5, <3>1, <4>2, ResendAbsent
    <3>4. QED
      BY <3>2, <3>3
  <2>8. CASE UNCHANGED tries
    BY <2>8
  <2>9. ASSUME Next, tries' # tries
        PROVE  \E n \in Nodes : SendMessage(n) \/ Maintain(n)
    BY <2>9 DEF Next, Publish, TransportStep, IncomingAck, SendAck, Lose, Crash, transportVars
  <2>10. UNCHANGED vars => UNCHANGED tries
    BY DEF vars, transportVars
  <2>11. QED
    BY <1>1, <2>6, <2>7, <2>8, <2>9, <2>10
<1>2. IInv /\ [Next]_vars => [\A p \in Packets : Entry(p).acked # {} => tries'[p] = tries[p]]_vars
  BY <1>1
<1>3. Spec => []IInv
  BY InitOK, StepOK, PTL DEF Spec
<1>4. QED
  BY <1>2, <1>3, PTL DEF Spec, AckStopsResend

\* When the outbox has nothing left of a message that was sent, it was handed on, unless a
\* packet of it used up its attempts or is in the receiving thread's hands: the part of
\* EventualDelivery that needs no fairness.
THEOREM ClosedIsHandedOn ==
    Spec => [](\A m \in Messages :
                 (\A p \in PacketsOf(m) : tries[p] > 0 /\ ~Open(Entry(p))) =>
                    \/ m \in delivered[Target[m]]
                    \/ \E p \in PacketsOf(m) : tries[p] = MaxAttempts
                    \/ \E p \in PacketsOf(m) :
                          holding[Target[m]] # Nothing /\ holding[Target[m]].msg = DataMessage(p))
<1>1. TypeOK /\ RetryBudget /\ SettledIsHandedOn =>
        \A m \in Messages :
          (\A p \in PacketsOf(m) : tries[p] > 0 /\ ~Open(Entry(p))) =>
             \/ m \in delivered[Target[m]]
             \/ \E p \in PacketsOf(m) : tries[p] = MaxAttempts
             \/ \E p \in PacketsOf(m) :
                   holding[Target[m]] # Nothing /\ holding[Target[m]].msg = DataMessage(p)
  <2> SUFFICES ASSUME TypeOK, RetryBudget, SettledIsHandedOn, NEW m \in Messages,
                      \A p \in PacketsOf(m) : tries[p] > 0 /\ ~Open(Entry(p)),
                      ~\E p \in PacketsOf(m) : tries[p] = MaxAttempts
               PROVE  \/ m \in delivered[Target[m]]
                      \/ \E p \in PacketsOf(m) :
                           holding[Target[m]] # Nothing /\ holding[Target[m]].msg = DataMessage(p)
    OBVIOUS
  <2>1. ASSUME NEW p \in PacketsOf(m) PROVE Settled(p)
    <3>1. p \in Packets
      BY DEF PacketsOf, Packets
    <3>2. tries[p] < MaxAttempts
      <4>1. tries[p] \in Nat /\ tries[p] <= MaxAttempts /\ tries[p] # MaxAttempts
        BY <3>1 DEF RetryBudget, TypeOK, TransportTypeOK
      <4> QED
        BY <4>1, MaxAttemptsAssumption
    <3> QED
      BY <3>2 DEF Settled
  <2> QED
    BY <2>1 DEF SettledIsHandedOn
<1> QED
  BY <1>1, TypeCorrect, BoundedRetries, SettledIsHandedOnAlways, PTL

\* Every maintain brings every entry of its node nearer to its end: the entry is dropped, or
\* its packet is sent once more, of which BoundedRetries allows MaxAttempts.  This is why
\* OutboxDrains holds while the transport thread runs.
THEOREM MaintainProgresses ==
    Spec => [][\A n \in Nodes : Maintain(n) =>
                 \A p \in Packets : Sender(p) = n /\ Open(Entry(p)) =>
                    ~Open(Entry(p))' \/ tries'[p] = tries[p] + 1]_vars
<1>1. TypeOK /\ DeliveryInv =>
        \A n \in Nodes : Maintain(n) =>
          \A p \in Packets : Sender(p) = n /\ Open(Entry(p)) =>
             ~Open(Entry(p))' \/ tries'[p] = tries[p] + 1
  <2> SUFFICES ASSUME TypeOK, DeliveryInv, NEW n \in Nodes, Maintain(n), NEW p \in Packets,
                      Sender(p) = n
               PROVE  ~Open(Entry(p))' \/ tries'[p] = tries[p] + 1
    OBVIOUS
  <2> DEFINE e == outbox[n][p]
  <2>1. /\ outbox'[n][p] = Resend(Retain(e))
        /\ tries'[p] = tries[p] + Cardinality(Peers(Retain(e)))
    BY DEF Maintain, TypeOK, TransportTypeOK
  <2>2. \/ Resend(Retain(e)) = Absent
        \/ Retain(e) = e /\ Cardinality(Peers(e)) = 1
    BY KeptFacts DEF DeliveryInv
  <2> QED
    BY <2>1, <2>2 DEF Entry, Open, Absent
<1> QED
  BY <1>1, Invariance, PTL
=============================================================================
