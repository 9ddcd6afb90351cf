------------------------------ MODULE Transport ------------------------------
(* The transport thread: src/transport/transport.rs, and the retry engine it   *)
(* owns, src/gd_udp/gd_udp.rs.  The thread loops over incoming_ack,            *)
(* outgoing_msg and check_time_elapsed.                                        *)
(*                                                                             *)
(* outbox[n] is the two-level map id -> packet number -> (sent_set, ack_set,   *)
(* packet, attempts), flattened: one entry per packet, Absent when the map has *)
(* none.  An id is in the Rust map exactly when one of its packets is, since   *)
(* maintain drops empty inner maps.                                            *)
EXTENDS Udp

CONSTANT MaxAttempts    \* the literal 10 of maintain

ASSUME MaxAttemptsAssumption == MaxAttempts \in Nat \ {0}

VARIABLES
    outbox,     \* outbox[n][p]: the sender's record of packet p
    tries       \* history: tries[p] datagrams of packet p were put on the wire

transportVars == <<outbox, tries>>

Entries == [sent : SUBSET Addresses, acked : SUBSET Addresses, attempts : Nat]

Absent == [sent |-> {}, acked |-> {}, attempts |-> 0]

Open(e) == e.attempts > 0

TransportTypeOK ==
    /\ outbox \in [Nodes -> [Packets -> Entries]]
    /\ tries \in [Packets -> Nat]

TransportInit ==
    /\ outbox = [n \in Nodes |-> [p \in Packets |-> Absent]]
    /\ tries = [p \in Packets |-> 0]

------------------------------------------------------------------------------
\* Bookkeeping of send_reliable: a missing id or packet number gets an entry with
\* the peer and one attempt, an existing entry gains the peer and an attempt.
SendReliable(e, peer) ==
    [sent |-> e.sent \cup {peer}, acked |-> e.acked, attempts |-> e.attempts + 1]

\* Two wrong forms of Retain, for mutation: it gives up one attempt early, or never.
RetainEarly(e) ==
    IF e.sent # e.acked /\ e.attempts < MaxAttempts - 1 THEN e ELSE Absent

RetainUnsettled(e) == IF e.sent # e.acked THEN e ELSE Absent

\* The retain of maintain: an entry that is settled or out of attempts is dropped.
Retain(e) ==
    IF e.sent # e.acked /\ e.attempts < MaxAttempts THEN e ELSE Absent

Unacked(e) == e.sent \ e.acked

\* The peers the second loop of maintain sends a retained entry's packet to again.
Peers(e) == IF e.attempts < MaxAttempts THEN Unacked(e) ELSE {}

\* For mutation: a resend that is not counted.
ResendUncounted(e) == e

\* One send_reliable for each of those peers.
Resend(e) ==
    [sent |-> e.sent, acked |-> e.acked, attempts |-> e.attempts + Cardinality(Peers(e))]

Acknowledge(e, src) ==
    [sent |-> e.sent, acked |-> e.acked \cup {src}, attempts |-> e.attempts]

\* Two wrong forms of ProcessAck, for mutation: one acknowledgement settles every packet of
\* its message; an acknowledgement of a packet that was dropped makes a new entry.
AckWholeMessage(entry, ack) ==
    [p \in Packets |-> IF p[1] = ack.packet[1] /\ Open(entry[p])
                       THEN Acknowledge(entry[p], ack.src) ELSE entry[p]]

AckReopens(entry, ack) == [entry EXCEPT ![ack.packet] = Acknowledge(@, ack.src)]

\* process_ack: an acknowledgement of a packet still in the outbox adds the address it
\* names to the ack_set; any other is ignored.
ProcessAck(entry, ack) ==
    IF Open(entry[ack.packet])
    THEN [entry EXCEPT ![ack.packet] = Acknowledge(@, ack.src)]
    ELSE entry

\* incoming_ack.
IncomingAck(n) ==
    /\ up[n]
    /\ ia[n] # <<>>
    /\ ia' = [ia EXCEPT ![n] = Tail(@)]
    /\ outbox' = [outbox EXCEPT ![n] = ProcessAck(@, Head(ia[n]))]
    /\ UNCHANGED <<om, net, up, tries>>

\* outgoing_msg, head Ack: one datagram without a return receipt, to the address
\* given, not kept in the outbox.
SendAck(n) ==
    /\ up[n]
    /\ om[n] # <<>>
    /\ Head(om[n]).msg.head = "Ack"
    /\ om' = [om EXCEPT ![n] = Tail(@)]
    /\ net' = net \cup {Datagram(n, Head(om[n]).to, Head(om[n]).msg)}
    /\ UNCHANGED <<ia, up, outbox, tries>>

\* outgoing_msg, any other head: every packet goes through send_reliable, to the
\* loopback address when the peer's IP address is the local one.
SendMessage(n) ==
    /\ up[n]
    /\ om[n] # <<>>
    /\ Head(om[n]).msg.head # "Ack"
    /\ om' = [om EXCEPT ![n] = Tail(@)]
    /\ LET peer == Route(n, Head(om[n]).to)
           pkts == PacketsOf(Head(om[n]).msg.id)
       IN  /\ outbox' = [outbox EXCEPT ![n] =
                           [p \in Packets |-> IF p \in pkts
                                              THEN SendReliable(@[p], peer) ELSE @[p]]]
           /\ net' = net \cup {Datagram(n, peer, DataMessage(p)) : p \in pkts}
           /\ tries' = [p \in Packets |-> IF p \in pkts THEN tries[p] + 1 ELSE tries[p]]
    /\ UNCHANGED <<ia, up>>

\* check_time_elapsed when MAINTENANCE has passed (at any time, here), and maintain:
\* drop what is settled or out of attempts, then send the rest again.
Maintain(n) ==
    /\ up[n]
    /\ LET kept == [p \in Packets |-> Retain(outbox[n][p])] IN
         /\ outbox' = [outbox EXCEPT ![n] = [p \in Packets |-> Resend(kept[p])]]
         /\ net' = net \cup UNION {{Datagram(n, peer, DataMessage(p)) :
                                       peer \in Peers(kept[p])} : p \in Packets}
         /\ tries' = [p \in Packets |-> tries[p] + Cardinality(Peers(kept[p]))]
    /\ UNCHANGED <<om, ia, up>>

TransportStep(n) == IncomingAck(n) \/ SendAck(n) \/ SendMessage(n) \/ Maintain(n)
=============================================================================
