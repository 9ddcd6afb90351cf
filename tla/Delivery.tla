------------------------------- MODULE Delivery -------------------------------
(* Every node's transport thread and receiving thread over one UDP network     *)
(* that loses, duplicates and reorders, with processes that stop at any time.  *)
EXTENDS Transport, MessageHandler

VARIABLE accepted       \* the messages the upper layers have handed over

vars == <<wireVars, transportVars, handlerVars, accepted>>

TypeOK ==
    /\ WireTypeOK
    /\ TransportTypeOK
    /\ HandlerTypeOK
    /\ accepted \subseteq Messages

Init ==
    /\ WireInit
    /\ TransportInit
    /\ HandlerInit
    /\ accepted = {}

------------------------------------------------------------------------------
\* Kademlia, gossip or the application sends an item on to_transport_tx.
Publish(m) ==
    /\ up[Origin[m]]
    /\ m \notin accepted
    /\ accepted' = accepted \cup {m}
    /\ om' = [om EXCEPT ![Origin[m]] =
                Append(@, [to |-> Public(Target[m]), msg |-> [head |-> "Data", id |-> m]])]
    /\ UNCHANGED <<ia, net, up, transportVars, handlerVars>>

Next ==
    \/ \E m \in Messages : Publish(m)
    \/ \E n \in Nodes :
         \/ TransportStep(n) /\ UNCHANGED <<handlerVars, accepted>>
         \/ HandlerStep(n) /\ UNCHANGED <<transportVars, accepted>>
         \/ Crash(n) /\ UNCHANGED <<transportVars, handlerVars, accepted>>
    \/ \E d \in net : Lose(d) /\ UNCHANGED <<transportVars, handlerVars, accepted>>

Spec == Init /\ [][Next]_vars

\* Both threads of a running process loop for ever: whatever the transport thread
\* polls for, and the insertion that follows a receive, happens.  Nothing is assumed
\* of the network, nor that a receive happens at all.
ThreadFairness ==
    \A n \in Nodes :
        /\ WF_vars(SendAck(n) /\ UNCHANGED <<handlerVars, accepted>>)
        /\ WF_vars(SendMessage(n) /\ UNCHANGED <<handlerVars, accepted>>)
        /\ WF_vars(IncomingAck(n) /\ UNCHANGED <<handlerVars, accepted>>)
        /\ WF_vars(Maintain(n) /\ UNCHANGED <<handlerVars, accepted>>)
        /\ WF_vars(InsertPacket(n) /\ UNCHANGED <<transportVars, accepted>>)
        /\ WF_vars(InsertAck(n) /\ UNCHANGED <<transportVars, accepted>>)

FairSpec == Spec /\ ThreadFairness

------------------------------------------------------------------------------
Sender(p) == Origin[p[1]]

Receiver(p) == Target[p[1]]

\* The sender's outbox entry of packet p.
Entry(p) == outbox[Sender(p)][p]

\* Packet p has reached the process it was sent to: it is in the receiving thread's
\* hands, filed, or part of a message that was handed on.
Arrived(p) ==
    \/ holding[Receiver(p)] # Nothing /\ holding[Receiver(p)].msg = DataMessage(p)
    \/ p[2] \in pending[Receiver(p)][p[1]]
    \/ p[1] \in delivered[Receiver(p)]

\* An acknowledgement the sender has processed is never wrong: the packet did reach the
\* process it names, however late, lost or repeated the datagrams were.  It may be lost there:
\* process_packet acknowledges before insert_packet files, and the process may stop between.
AckedHasArrived ==
    \A p \in Packets : Entry(p).acked # {} => Arrived(p)

\* A packet that was sent and is no longer in the outbox either reached its destination
\* or was sent MaxAttempts times: maintain never gives up early.
ClosedHasArrivedOrExhausted ==
    \A p \in Packets :
        tries[p] > 0 /\ ~Open(Entry(p)) => Arrived(p) \/ tries[p] = MaxAttempts

\* The outbox counts what is really on the wire: no packet is sent more than MaxAttempts
\* times, and while it is kept its attempts are the number of its datagrams.
RetryBudget ==
    \A p \in Packets :
        /\ tries[p] <= MaxAttempts
        /\ Open(Entry(p)) => Entry(p).attempts = tries[p]

\* maintain keeps an entry while the two sets differ but resends to their difference: the
\* two never disagree, so an entry it keeps always has a peer to send to and attempts
\* that grow.
KeptHasUnacked ==
    \A p \in Packets : Entry(p).sent # Entry(p).acked => Unacked(Entry(p)) # {}

\* Packet p is settled at its sender: its acknowledgement was processed, or maintain has
\* dropped it before its attempts were used up.
Settled(p) ==
    \/ Entry(p).acked # {}
    \/ tries[p] > 0 /\ ~Open(Entry(p)) /\ tries[p] < MaxAttempts

\* A sender that is done with every packet of a message, having given up on none, is right:
\* the message was handed on, or the receiving thread still has a packet of it in hand, for
\* ever if its process stopped just then.
SettledIsHandedOn ==
    \A m \in Messages :
        (\A p \in PacketsOf(m) : Settled(p)) =>
            \/ m \in delivered[Target[m]]
            \/ \E p \in PacketsOf(m) :
                  holding[Target[m]] # Nothing /\ holding[Target[m]].msg = DataMessage(p)

\* A message is handed on only by its destination, after every one of its packets was put
\* on the wire and filed, whatever order and copies they came in.
DeliveredIsComplete ==
    \A n \in Nodes : \A m \in delivered[n] :
        /\ n = Target[m]
        /\ \A p \in PacketsOf(m) : tries[p] > 0
        /\ Total[m] > 1 => pending[n][m] = 1..Total[m]

\* The abstract specification's view of this state.
Phase(p) ==
    IF Open(Entry(p)) THEN "open" ELSE IF tries[p] = 0 THEN "unsent" ELSE "closed"

Abstract == INSTANCE ReliableDelivery WITH
    phase   <- [p \in Packets |-> Phase(p)],
    arrived <- {p \in Packets : Arrived(p)},
    handed  <- {m \in Messages : m \in delivered[Target[m]]}

\* Threads, channels, acknowledgements, rewritten addresses, losses and copies together
\* do no more than the abstract specification allows.
ImplementsReliableDelivery == Abstract!Spec

\* A packet whose acknowledgement was processed is not sent again.
AckStopsResend ==
    [][\A p \in Packets : Entry(p).acked # {} => tries'[p] = tries[p]]_vars

\* What was sent does not stay in the outbox of a running sender for ever.
OutboxDrains ==
    \A p \in Packets : Open(Entry(p)) ~> (~Open(Entry(p)) \/ ~up[Sender(p)])

\* A message handed to the transport is handed on at its destination, unless one of its
\* packets used up its attempts or one of the two processes stopped.
EventualDelivery ==
    \A m \in Messages :
        m \in accepted ~> \/ m \in delivered[Target[m]]
                          \/ \E p \in PacketsOf(m) : tries[p] = MaxAttempts
                          \/ ~up[Origin[m]] \/ ~up[Target[m]]

------------------------------------------------------------------------------
(* The inductive invariant the safety properties above follow from.            *)

\* Where the datagrams of packet p go.
Dest(p) == Route(Sender(p), Public(Receiver(p)))

\* An acknowledgement on its way to node n names a packet of n that has arrived.
AckOK(n, ack) ==
    /\ n = Sender(ack.packet)
    /\ ack.src = Public(Receiver(ack.packet))
    /\ Arrived(ack.packet)

DatagramOK(d) ==
    IF d.msg.head = "Data"
    THEN /\ d.to = Dest(d.msg.packet)
         /\ d.from.port = Sender(d.msg.packet)
         /\ tries[d.msg.packet] > 0
    ELSE AckOK(d.to.port, d.msg)

InFlightInv ==
    /\ \A d \in net : DatagramOK(d)
    /\ \A n \in Nodes : holding[n] # Nothing =>
                          DatagramOK(holding[n]) /\ holding[n].to.port = n
    /\ \A n \in Nodes : \A i \in 1..Len(ia[n]) : AckOK(n, ia[n][i])

\* An item still in om was accepted, and none of it was sent.
ItemOK(n, item) ==
    IF item.msg.head = "Ack"
    THEN AckOK(item.to.port, item.msg)
    ELSE /\ n = Origin[item.msg.id]
         /\ item.to = Public(Target[item.msg.id])
         /\ item.msg.id \in accepted
         /\ \A p \in PacketsOf(item.msg.id) : tries[p] = 0

SameMessage(a, b) ==
    /\ a.msg.head # "Ack"
    /\ b.msg.head # "Ack"
    /\ a.msg.id = b.msg.id

QueueInv ==
    /\ \A n \in Nodes : \A i \in 1..Len(om[n]) : ItemOK(n, om[n][i])
    /\ \A n \in Nodes : \A i, j \in 1..Len(om[n]) : SameMessage(om[n][i], om[n][j]) => i = j
    /\ \A m \in Messages \ accepted : \A p \in PacketsOf(m) : tries[p] = 0

OutboxInv ==
    \A n \in Nodes : \A p \in Packets :
        \/ outbox[n][p] = Absent
        \/ /\ n = Sender(p)
           /\ outbox[n][p].sent = {Dest(p)}
           /\ outbox[n][p].attempts = tries[p] /\ tries[p] > 0
           /\ outbox[n][p].acked \subseteq {Public(Receiver(p))}
           /\ outbox[n][p].acked # {} => Arrived(p)

CountInv ==
    \A p \in Packets :
        /\ tries[p] <= MaxAttempts
        /\ tries[p] > 0 /\ ~Open(Entry(p)) => Arrived(p) \/ tries[p] = MaxAttempts

FiledInv ==
    \A n \in Nodes : \A m \in Messages :
        /\ \A k \in pending[n][m] : n = Target[m] /\ tries[<<m, k>>] > 0
        /\ Total[m] = 1 => pending[n][m] = {}
        /\ m \in delivered[n] =>
             IF Total[m] = 1 THEN n = Target[m] /\ tries[<<m, 1>>] > 0
                             ELSE pending[n][m] = 1..Total[m]
        /\ Total[m] > 1 /\ pending[n][m] = 1..Total[m] => m \in delivered[n]

\* Everything in flight, queued, kept or filed agrees with what arrived and what was sent:
\* the argument behind the safety properties, checked here and proved inductive.
DeliveryInv == TypeOK /\ InFlightInv /\ QueueInv /\ OutboxInv /\ CountInv /\ FiledInv
=============================================================================
