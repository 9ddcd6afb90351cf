------------------------------ MODULE Discovery ------------------------------
(* Kademlia discovery among several nodes: src/discovery/kad.rs.  Each node's  *)
(* gossip thread takes one message after the other from its kademlia channel   *)
(* and hands what it sends to the transport layer.                             *)
(*                                                                             *)
(* Of the transport layer this module keeps what ReliableDelivery promises:    *)
(* messages arrive in any order, late, and sometimes more than once.           *)
(* Of the routing table it keeps what PeerSet says, which RoutingTable         *)
(* implements: the set of the peers it was told of, the local one included.    *)
(* No bucket is full, so a lookup (RoutingTable!FindsEachOnce, ClosestCount)   *)
(* returns all of them, once each, or as many as asked for, whichever.         *)
EXTENDS Naturals, FiniteSets

CONSTANTS
    Nodes,      \* the nodes; a node stands for its PeerInfo and its address
    NPeers,     \* DEFAULT_N_PEERS, 8
    Dialers,    \* the nodes started with the address of a bootstrap node
    Pings,      \* Pings[n]: the addresses one of which n's application pings, if any
    MaxCopies,  \* bound of the model: how often the transport layer hands a message on again
    Nobody      \* "no bootstrap node given"

ASSUME DiscoveryAssumption ==
    /\ IsFiniteSet(Nodes)
    /\ NPeers \in Nat \ {0}
    /\ Dialers \subseteq Nodes /\ Pings \in [Nodes -> SUBSET Nodes]
    /\ MaxCopies \in Nat
    /\ Nobody \notin Nodes

VARIABLES
    known,      \* known[n]: the peers in n's routing table
    mail,       \* the messages sent and not yet taken from a kademlia channel
    dialed,     \* dialed[n]: the bootstrap node given to n's process
    pinged,     \* the nodes that have pinged
    ponged,     \* history: the nodes that have answered a ping
    served,     \* history: served[n] are the nodes whose FindNode n has handled
    asked,      \* history: asked[n][m] counts the FindNodes n has sent to m
    copies      \* history: how many messages were handed on again

vars == <<known, mail, dialed, pinged, ponged, served, asked, copies>>

\* Requests carry their sender, responses their receiver, which answers: both are `from`.
FindNode(n, to) == [type |-> "FindNode", from |-> n, to |-> to]

NewPeer(n, to, peer) == [type |-> "NewPeer", from |-> n, to |-> to, peer |-> peer]

NodesResponse(n, to, peers) == [type |-> "Nodes", from |-> n, to |-> to, peers |-> peers]

Ping(n, to) == [type |-> "Ping", from |-> n, to |-> to]

\* The receiver a pong names is the node that asked; the node that answers is its payload.
Pong(n, to) == [type |-> "Pong", from |-> n, to |-> to]

KadMessages ==
    {FindNode(n, m) : n, m \in Nodes} \cup {Ping(n, m) : n, m \in Nodes}
      \cup {Pong(n, m) : n, m \in Nodes}
      \cup {NewPeer(n, m, p) : n, m, p \in Nodes}
      \cup {NodesResponse(n, m, s) : n, m \in Nodes, s \in SUBSET Nodes}

TypeOK ==
    /\ known \in [Nodes -> SUBSET Nodes]
    /\ mail \subseteq KadMessages
    /\ dialed \in [Nodes -> Nodes \cup {Nobody}]
    /\ pinged \subseteq Nodes /\ ponged \subseteq Nodes
    /\ served \in [Nodes -> SUBSET Nodes]
    /\ asked \in [Nodes -> [Nodes -> Nat]]
    /\ copies \in 0..MaxCopies

Init ==
    /\ known = [n \in Nodes |-> {n}]
    /\ mail = {}
    /\ dialed = [n \in Nodes |-> Nobody]
    /\ pinged = {} /\ ponged = {}
    /\ served = [n \in Nodes |-> {}]
    /\ asked = [n \in Nodes |-> [m \in Nodes |-> 0]]
    /\ copies = 0

------------------------------------------------------------------------------
\* For mutation: the table is made anew of the peers named.
Rebuild(n, peers) == known' = [known EXCEPT ![n] = peers]

\* add_peer, for each of the peers: while no bucket is full, update_peer adds a peer to the
\* table or replaces its record.
AddPeers(n, peers) == known' = [known EXCEPT ![n] = @ \cup peers]

\* The requests bootstrap(address) sends, one for each address it is called with.
Requests(n, peers) == {FindNode(n, m) : m \in peers}

CountRequests(n, peers) ==
    [asked EXCEPT ![n] = [m \in Nodes |-> IF m \in peers THEN asked[n][m] + 1 ELSE asked[n][m]]]

\* For mutation: the bootstrap node is added before it has answered.
BootstrapAdds(n, node) ==
    /\ dialed[n] = Nobody /\ dialed' = [dialed EXCEPT ![n] = node]
    /\ mail' = mail \cup Requests(n, {node})
    /\ asked' = CountRequests(n, {node})
    /\ AddPeers(n, {n, node})
    /\ UNCHANGED <<pinged, ponged, served, copies>>

\* main calls bootstrap once, before the loop that receives, if an address is given on the
\* command line.  Only the local node is added.
Bootstrap(n, node) ==
    /\ dialed[n] = Nobody /\ dialed' = [dialed EXCEPT ![n] = node]
    /\ mail' = mail \cup Requests(n, {node})
    /\ asked' = CountRequests(n, {node})
    /\ AddPeers(n, {n})
    /\ UNCHANGED <<pinged, ponged, served, copies>>

\* get_closest_peers(node, DEFAULT_N_PEERS).
Closest(table) ==
    IF Cardinality(table) <= NPeers THEN {table}
    ELSE {s \in SUBSET table : Cardinality(s) = NPeers}

\* For mutation: a lookup that announces nobody.
AnswerOnly(n, peer, closest) == {NodesResponse(n, peer, closest)}

\* For mutation: the local node and the one that asked are left out.
AnswerOthers(n, peer, closest) ==
    {NodesResponse(n, peer, closest \ {n, peer})}
      \cup {NewPeer(n, p, peer) : p \in closest \ {n, peer}}

\* What lookup_node sends: the closest peers to the node that asked, and a NewPeer message
\* about it to each of them, itself and the local node included, new or not.
Answer(n, peer, closest) ==
    {NodesResponse(n, peer, closest)} \cup {NewPeer(n, p, peer) : p \in closest}

\* For mutation: is_new is not asked.
AllNew(n, peers) == peers \ {n}

\* The peers of a response for which is_new holds.
New(n, peers) == peers \ known[n]

\* The message is taken from the channel and the node sends others; or a copy of the
\* message is still to come.
Take(msg, sends) ==
    \/ mail' = (mail \ {msg}) \cup sends /\ UNCHANGED copies
    \/ /\ copies < MaxCopies /\ copies' = copies + 1
       /\ mail' = mail \cup sends

\* handle_request adds the sender; lookup_node, for the node named in the request, which
\* is the sender, then looks up, adds it again and answers.
HandleFindNode(n, msg) ==
    /\ msg.type = "FindNode"
    /\ AddPeers(n, {msg.from})
    /\ served' = [served EXCEPT ![n] = @ \cup {msg.from}]
    /\ \E closest \in Closest(known[n] \cup {msg.from}) :
         Take(msg, Answer(n, msg.from, closest))
    /\ UNCHANGED <<dialed, pinged, ponged, asked>>

\* handle_request adds the sender and the new peer.
HandleNewPeer(n, msg) ==
    /\ msg.type = "NewPeer"
    /\ AddPeers(n, {msg.from, msg.peer})
    /\ Take(msg, {})
    /\ UNCHANGED <<dialed, pinged, ponged, served, asked>>

\* handle_response adds every peer named, and sends those that are new a request of its
\* own.  It adds neither the node that answers nor does it ask whether it had requested.
HandleNodes(n, msg) ==
    /\ msg.type = "Nodes"
    /\ AddPeers(n, msg.peers)
    /\ Take(msg, Requests(n, New(n, msg.peers)))
    /\ asked' = CountRequests(n, New(n, msg.peers))
    /\ UNCHANGED <<dialed, pinged, ponged, served>>

\* prepare_ping_message, which nothing in the repository calls: an application of the
\* library sends what it returns to any address it likes.
SendPing(n, node) ==
    /\ n \notin pinged /\ pinged' = pinged \cup {n}
    /\ mail' = mail \cup {Ping(n, node)}
    /\ UNCHANGED <<known, dialed, ponged, served, asked, copies>>

\* For mutation: a ping is not answered; a pong only shows that its sender is alive.
PingUnanswered(n, msg) ==
    /\ msg.type = "Ping"
    /\ AddPeers(n, {msg.from})
    /\ Take(msg, {})
    /\ UNCHANGED <<dialed, pinged, ponged, served, asked>>

PongIgnored(n, msg) ==
    /\ msg.type = "Pong"
    /\ Take(msg, {})
    /\ UNCHANGED <<known, dialed, pinged, ponged, served, asked>>

\* handle_request adds the sender and answers with a pong.
HandlePing(n, msg) ==
    /\ msg.type = "Ping"
    /\ AddPeers(n, {msg.from})
    /\ Take(msg, {Pong(n, msg.from)}) /\ ponged' = ponged \cup {n}
    /\ UNCHANGED <<dialed, pinged, served, asked>>

\* handle_response adds the node that answers; it does not ask whether it had pinged.
HandlePong(n, msg) ==
    /\ msg.type = "Pong"
    /\ AddPeers(n, {msg.from})
    /\ Take(msg, {})
    /\ UNCHANGED <<dialed, pinged, ponged, served, asked>>

\* handle_message
Handle(n, msg) ==
    \/ HandleFindNode(n, msg) \/ HandleNewPeer(n, msg) \/ HandlePing(n, msg)
    \/ HandleNodes(n, msg) \/ HandlePong(n, msg)

\* main starts the loop of the gossip thread after it has dialed.
Started(n) == n \in Dialers => dialed[n] # Nobody

Recv(n) ==
    /\ Started(n)
    /\ \E msg \in mail : msg.to = n /\ Handle(n, msg)

Next ==
    \/ \E n \in Dialers : \E node \in Nodes \ {n} : Bootstrap(n, node)
    \/ \E n \in Nodes : \E node \in Pings[n] : SendPing(n, node)
    \/ \E n \in Nodes : Recv(n)

Spec == Init /\ [][Next]_vars

\* Every node keeps taking messages while there are some.
FairSpec == Spec /\ \A n \in Nodes : WF_vars(Recv(n))

------------------------------------------------------------------------------
\* The peers a message adds to the table of the node that takes it.
Named(msg) ==
    CASE msg.type = "FindNode" -> {msg.from}
      [] msg.type = "NewPeer"  -> {msg.from, msg.peer}
      [] msg.type = "Ping"     -> {msg.from}
      [] msg.type = "Pong"     -> {msg.from}
      [] msg.type = "Nodes"    -> msg.peers

\* A message on its way to n will tell it of m.
WillLearn(n, m) == \E msg \in mail : msg.to = n /\ m \in Named(msg)

Learns(n, m) == m \in known[n] \/ WillLearn(n, m)

Spoken(n) == dialed[n] # Nobody \/ served[n] # {} \/ n \in pinged \cup ponged

\* A table names, besides the local node, only nodes that have sent something themselves:
\* an address that was dialed or pinged, but never answered, gets into no table.
KnownHasSpoken == \A n \in Nodes : \A m \in known[n] \ {n} : Spoken(m)

\* Discovery sends a bounded number of requests, however often messages are handed on:
\* one to each peer, and one more to the bootstrap node.
RequestsBounded ==
    \A n, m \in Nodes : asked[n][m] <= (IF dialed[n] = m THEN 2 ELSE 1)

\* As long as a lookup returns all peers, knowing is mutual but for messages on their way,
\* whichever of request, response, announcement, ping and pong was the first to arrive.
MutualOrPending ==
    Cardinality(Nodes) <= NPeers =>
        \A n \in Nodes : \A m \in known[n] : Learns(m, n)

\* As long as a lookup returns all peers, a node introduces to each other all those that
\* ever asked it, in whatever order they did.
IntroducedOrPending ==
    Cardinality(Nodes) <= NPeers =>
        \A r \in Nodes : \A n, m \in served[r] : Learns(n, m)

\* Nodes that ever asked the same node come to know each other.
Introduced == <>[](\A r \in Nodes : \A n, m \in served[r] : m \in known[n])

\* Knowing becomes mutual.
Acquainted == <>[](\A n \in Nodes : \A m \in known[n] : n \in known[m])

------------------------------------------------------------------------------
(* What discovery may still send, as a number: each part counts what can start *)
(* messages, weighed by how many steps these are good for.                     *)

\* What a request is good for: it is answered by a response and at most as many
\* announcements as there are nodes.
Weight == Cardinality(Nodes) + 2

Waiting(type) == {msg \in mail : msg.type = type}

\* A peer not known yet may be asked once it is named.
Unknown == {pair \in Nodes \X Nodes : pair[2] \notin known[pair[1]]}

Undialed == {n \in Nodes : dialed[n] = Nobody}

Rank ==
    Weight * (Cardinality(Waiting("FindNode")) + Cardinality(Unknown) + (MaxCopies - copies))
      + (Weight + 1) * Cardinality(Undialed)
      + Cardinality(Waiting("Nodes")) + Cardinality(Waiting("NewPeer"))
      + Cardinality(Waiting("Pong")) + 2 * Cardinality(Waiting("Ping"))
      + 3 * Cardinality(Nodes \ pinged)

\* Discovery comes to rest: requests start announcements, responses start requests, and yet
\* every step, whichever message it takes and whatever it sends, leaves less to be done.
RunsOut == [][Rank' < Rank]_vars

------------------------------------------------------------------------------
(* The inductive invariant the safety properties above follow from.            *)

SelfInv == \A n \in Nodes : n \in known[n] /\ served[n] \subseteq known[n]

SpokenInv ==
    /\ KnownHasSpoken
    /\ \A msg \in mail : Spoken(msg.from) /\ \A m \in Named(msg) : Spoken(m)
    /\ \A msg \in mail : msg.type = "Nodes" => Spoken(msg.to)

\* What is asked, beyond the bootstrap node, is known by then.
AskedInv ==
    \A n, m \in Nodes :
        asked[n][m] <= (IF dialed[n] = m THEN 1 ELSE 0) + (IF m \in known[n] THEN 1 ELSE 0)

\* Announcements and pongs are sent to known peers, and announcements about a peer that
\* will learn of them.
AnnouncedInv ==
    Cardinality(Nodes) <= NPeers =>
        \A msg \in mail :
            /\ msg.type \in {"NewPeer", "Pong"} => msg.to \in known[msg.from]
            /\ msg.type = "NewPeer" => Learns(msg.peer, msg.to)

\* Tables, messages and requests agree with who has asked whom: the argument behind the
\* safety properties, proved inductive.
DiscoveryInv ==
    SelfInv /\ SpokenInv /\ AskedInv /\ AnnouncedInv /\ MutualOrPending /\ IntroducedOrPending
=============================================================================
