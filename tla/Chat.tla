--------------------------------- MODULE Chat ---------------------------------
(* The gossip threads of several nodes that run examples/chat.rs: the loop of   *)
(* GossipService::start takes a message of discovery, then one of gossip, then  *)
(* checks the heartbeat, and both layers share the node's routing table.        *)
(*                                                                              *)
(* Discovery is extended; the variables of Gossip, but for the table, and its   *)
(* actions are added, and what Gossip assumes of discovery is what Discovery    *)
(* does.                                                                        *)
EXTENDS Discovery

CONSTANTS Messages, Author, Host, AllUpTo, Factor, HistoryLen, HistoryGossip, MaxBeat,
          MaxDrops, Stdin, Absent       \* as in Gossip

VARIABLES
    letters,    \* the mail of Gossip; `mail` is that of Discovery
    cache, typed, delivered, told, gossiped, dropped

\* A table begins with the local node, and may come to hold any other.
Gossiping == INSTANCE Gossip WITH
    mail <- letters,
    Initially <- [n \in Nodes |-> {n}],
    Reachable <- [n \in Nodes |-> Nodes]

discoveryVars == <<mail, dialed, pinged, ponged, served, asked, copies>>

gossipVars == <<letters, cache, typed, delivered, told, gossiped, dropped>>

ChatInit == Init /\ Gossiping!Init

\* kad.recv, and before the loop bootstrap.
DiscoveryStep == Next /\ UNCHANGED gossipVars

\* The stdin thread, which main starts after it has dialed, and the rest of the loop.
GossipStep ==
    /\ UNCHANGED discoveryVars
    /\ \/ \E m \in Messages : Started(Author[m]) /\ Gossiping!Type(m)
       \/ \E n \in Nodes : Started(n) /\ (Gossiping!Recv(n) \/ Gossiping!Heartbeat(n))

ChatNext == DiscoveryStep \/ GossipStep

ChatSpec == ChatInit /\ [][ChatNext]_<<vars, gossipVars>>

------------------------------------------------------------------------------
\* All that gossip sees of discovery is that tables grow, whoever dials, asks, announces or
\* pings whom and when: so what Gossip promises holds of the nodes of the chat.
ImplementsGossip == Gossiping!Spec

\* While lookups return all peers, whom gossip is sent to knows the node it comes from, or
\* will: no node is talked to that cannot talk back.
GossipIsMutual ==
    Cardinality(Nodes) <= NPeers =>
        \A letter \in letters : letter.from # Stdin => Learns(letter.to, letter.from)

\* Gossip is sent to peers in the table, which stay there.
SentToKnown ==
    \A letter \in letters :
        letter.from # Stdin => letter.from \in Nodes /\ letter.to \in known[letter.from]
===============================================================================
