--------------------------------- MODULE Udp ---------------------------------
(* The vocabulary the transport layer's components share: socket addresses,    *)
(* packets, acknowledgements and datagrams (src/protocol/protocol.rs), the     *)
(* mpsc channels between the threads of one process, and the UDP network.      *)
(*                                                                             *)
(* A member of Messages stands for one (SocketAddr, Message) item handed to    *)
(* the transport together with the random id `outgoing_msg` draws for it, so   *)
(* a packet is named by the pair <<message, number>>.                          *)
EXTENDS Naturals, Sequences, FiniteSets

CONSTANTS
    Nodes,      \* the processes, each with one UDP socket; also their ports
    Messages,   \* the items (other than acknowledgements) to be sent
    Origin,     \* Origin[m] is the node that sends m
    Target,     \* Target[m] is the node m is addressed to
    Total,      \* Total[m] is the number of packets `packetize` makes of m
    Host,       \* Host[n] is the public IP address of node n
    Crashable,  \* the nodes whose process may stop
    Loopback,   \* the IP address 127.0.0.1
    Nothing     \* "no packet in hand"

ASSUME MessagesAssumption ==
    /\ Origin \in [Messages -> Nodes]
    /\ Target \in [Messages -> Nodes]
    /\ Total \in [Messages -> Nat \ {0}]

ASSUME LoopbackAssumption == \A n \in Nodes : Host[n] # Loopback

------------------------------------------------------------------------------
VARIABLES
    om,         \* om[n]: the channel om_tx / to_transport_tx -> om_rx
    ia,         \* ia[n]: the channel ia_tx -> ia_rx
    net,        \* the datagrams in flight
    up          \* up[n]: the process is running

wireVars == <<om, ia, net, up>>

------------------------------------------------------------------------------
Packets == UNION {{m} \X (1..Total[m]) : m \in Messages}

PacketsOf(m) == {m} \X (1..Total[m])

\* Node n's public socket address, `local_info.address`.
Public(n) == [ip |-> Host[n], port |-> n]

\* `outgoing_msg` sends to 127.0.0.1 what is addressed to its own IP address.
Route(n, addr) ==
    IF addr.ip = Host[n] THEN [ip |-> Loopback, port |-> addr.port] ELSE addr

\* The source address the receiver of a datagram sent by n to addr reads.
SeenFrom(n, addr) ==
    [ip |-> IF addr.ip = Loopback THEN Loopback ELSE Host[n], port |-> n]

\* An AckMessage for packet p, and the address it names as its sender.
AckMessage(p, src) == [head |-> "Ack", packet |-> p, src |-> src]

DataMessage(p) == [head |-> "Data", packet |-> p]

Datagram(n, addr, msg) ==
    [to |-> addr, from |-> SeenFrom(n, addr), msg |-> msg]

Addresses == {Public(n) : n \in Nodes} \cup [ip : {Loopback}, port : Nodes]

Datagrams ==
    [to : Addresses, from : Addresses,
     msg : {DataMessage(p) : p \in Packets}
             \cup {AckMessage(p, a) : p \in Packets, a \in Addresses}]

ASSUME NothingAssumption == Nothing \notin Datagrams

\* What waits in om: an item of Messages, or an acknowledgement.
Outgoing ==
    [to : Addresses, msg : [head : {"Data"}, id : Messages]
                             \cup {AckMessage(p, a) : p \in Packets, a \in Addresses}]

Acks == {AckMessage(p, a) : p \in Packets, a \in Addresses}

WireTypeOK ==
    /\ om \in [Nodes -> Seq(Outgoing)]
    /\ ia \in [Nodes -> Seq(Acks)]
    /\ net \subseteq Datagrams
    /\ up \in [Nodes -> BOOLEAN]

WireInit ==
    /\ om = [n \in Nodes |-> <<>>]
    /\ ia = [n \in Nodes |-> <<>>]
    /\ net = {}
    /\ up = [n \in Nodes |-> TRUE]

------------------------------------------------------------------------------
\* UDP may lose a datagram.
Lose(d) ==
    /\ d \in net
    /\ net' = net \ {d}
    /\ UNCHANGED <<om, ia, up>>

\* The process of node n stops for good; nothing is persisted.
Crash(n) ==
    /\ n \in Crashable
    /\ up[n]
    /\ up' = [up EXCEPT ![n] = FALSE]
    /\ UNCHANGED <<om, ia, net>>
=============================================================================
