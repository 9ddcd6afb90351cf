---------------------------- MODULE MessageHandler ----------------------------
(* The receiving thread, src/transport/handler.rs: recv_msg reads a datagram   *)
(* and process_packet queues its acknowledgement for the transport thread;     *)
(* only then does insert_packet file the packet, reassemble the message and    *)
(* hand it to the kademlia or gossip channel.  The transport thread runs       *)
(* between the two, so they are two steps.                                     *)
EXTENDS Udp

CONSTANT QueueBound     \* bound of the model: recv_msg waits while om[n] or ia[n] is this long

ASSUME QueueBoundAssumption == QueueBound \in Nat \ {0}

VARIABLES
    holding,    \* holding[n]: the datagram between process_packet and insert_packet
    pending,    \* pending[n][m]: the numbers of m's packets filed so far
    delivered   \* delivered[n]: the messages sent at least once to kad_tx / gossip_tx

handlerVars == <<holding, pending, delivered>>

HandlerTypeOK ==
    /\ holding \in [Nodes -> Datagrams \cup {Nothing}]
    /\ pending \in [Nodes -> [Messages -> SUBSET Nat]]
    /\ \A n \in Nodes, m \in Messages : pending[n][m] \subseteq 1..Total[m]
    /\ delivered \in [Nodes -> SUBSET Messages]

HandlerInit ==
    /\ holding = [n \in Nodes |-> Nothing]
    /\ pending = [n \in Nodes |-> [m \in Messages |-> {}]]
    /\ delivered = [n \in Nodes |-> {}]

------------------------------------------------------------------------------
\* For mutation: the receipt names the address the datagram came from.
ReceiptFromPeer(n, d) ==
    [to |-> d.from, msg |-> AckMessage(d.msg.packet, d.from)]

\* What process_packet queues for a data packet: an acknowledgement to the address the
\* datagram came from, naming the local node's public address as its source.
ReturnReceipt(n, d) ==
    [to |-> d.from, msg |-> AckMessage(d.msg.packet, Public(n))]

\* recv_msg up to process_packet.  A data packet asks for a return receipt, an
\* acknowledgement does not.  A datagram that stays in net after it was read is a
\* copy: one UDP duplicated, or the same packet sent again.
RecvMsg(n, d) ==
    /\ up[n]
    /\ holding[n] = Nothing
    /\ Len(om[n]) < QueueBound /\ Len(ia[n]) < QueueBound
    /\ d \in net
    /\ d.to.port = n
    /\ net' \in {net, net \ {d}}
    /\ holding' = [holding EXCEPT ![n] = d]
    /\ om' = IF d.msg.head = "Data"
             THEN [om EXCEPT ![n] = Append(@, ReturnReceipt(n, d))]
             ELSE om
    /\ UNCHANGED <<ia, up, pending, delivered>>

\* insert_packet of an acknowledgement: one packet, never pending; handle_message
\* passes it to ia_tx.
InsertAck(n) ==
    /\ up[n]
    /\ holding[n] # Nothing
    /\ holding[n].msg.head = "Ack"
    /\ holding' = [holding EXCEPT ![n] = Nothing]
    /\ ia' = [ia EXCEPT ![n] = Append(@, holding[n].msg)]
    /\ UNCHANGED <<om, net, up, pending, delivered>>

\* The entry of pending after insert_packet has filed packet k of m: a message of one
\* packet that is not pending is handled at once and leaves no entry.
Filed(entry, m, k) ==
    IF entry = {} /\ Total[m] = 1 THEN {} ELSE entry \cup {k}

\* For mutation: the packet with the last number completes the message.
CompletesAtLast(entry, m, k) == k = Total[m]

\* For mutation: the entry is counted before the packet is filed.
CompletesBefore(entry, m, k) ==
    \/ entry = {} /\ Total[m] = 1
    \/ entry # {} /\ Cardinality(entry) = Total[m]

\* insert_packet hands the message on when it is of one packet, or when it was pending
\* already and now has total_n packets.
Completes(entry, m, k) ==
    \/ entry = {} /\ Total[m] = 1
    \/ entry # {} /\ Cardinality(entry \cup {k}) = Total[m]

\* insert_packet of a data packet, assemble_packets and handle_message.
InsertPacket(n) ==
    /\ up[n]
    /\ holding[n] # Nothing
    /\ holding[n].msg.head = "Data"
    /\ holding' = [holding EXCEPT ![n] = Nothing]
    /\ LET m == holding[n].msg.packet[1]
           k == holding[n].msg.packet[2]
       IN  /\ pending' = [pending EXCEPT ![n][m] = Filed(@, m, k)]
           /\ delivered' = IF Completes(pending[n][m], m, k)
                           THEN [delivered EXCEPT ![n] = @ \cup {m}]
                           ELSE delivered
    /\ UNCHANGED <<om, ia, net, up>>

HandlerStep(n) ==
    \/ \E d \in net : RecvMsg(n, d)
    \/ InsertAck(n)
    \/ InsertPacket(n)
=============================================================================
