------------------------------ MODULE ChatProofs ------------------------------
(* Proofs that the composition of discovery and gossip is a behaviour of each,  *)
(* for any nodes, messages and configuration, and of what follows for both.     *)
EXTENDS Chat, DiscoveryProofs

\* Discovery changes no table but by adding peers to one.
LEMMA Grows ==
    ASSUME TypeOK, Next
    PROVE  \/ known' = known
           \/ \E n \in Nodes, peers \in SUBSET Nodes : AddPeers(n, peers)
<1>1. ASSUME NEW n \in Nodes, NEW node \in Nodes, Bootstrap(n, node) \/ SendPing(n, node)
      PROVE  known' = known \/ AddPeers(n, {n})
  BY <1>1 DEF Bootstrap, SendPing
<1>2. ASSUME NEW n \in Nodes, NEW msg \in mail, Handle(n, msg)
      PROVE  \E peers \in SUBSET Nodes : AddPeers(n, peers)
  <2>1. msg \in KadMessages
    BY DEF TypeOK
  <2>2. CASE HandleFindNode(n, msg) \/ HandlePing(n, msg) \/ HandlePong(n, msg)
    <3>1. AddPeers(n, {msg.from})
      BY <2>2 DEF HandleFindNode, HandlePing, HandlePong
    <3>2. msg.from \in Nodes
      BY <2>1, Shapes
    <3> QED
      BY <3>1, <3>2
  <2>3. CASE HandleNewPeer(n, msg)
    <3>1. AddPeers(n, {msg.from, msg.peer}) /\ msg.type = "NewPeer"
      BY <2>3 DEF HandleNewPeer
    <3>2. msg.from \in Nodes /\ msg.peer \in Nodes
      BY <2>1, <3>1, Shapes
    <3> QED
      BY <3>1, <3>2
  <2>4. CASE HandleNodes(n, msg)
    <3>1. AddPeers(n, msg.peers) /\ msg.type = "Nodes"
      BY <2>4 DEF HandleNodes
    <3>2. msg.peers \in SUBSET Nodes
      BY <2>1, <3>1, Shapes
    <3> QED
      BY <3>1, <3>2
  <2> QED
    BY <1>2, <2>2, <2>3, <2>4 DEF Handle
<1> QED
  BY <1>1, <1>2, DiscoveryAssumption DEF Next, Recv

USE DEF AddPeers

\* No step takes a peer out of a table.
LEMMA KnownStays ==
    ASSUME TypeOK, ChatNext
    PROVE  \A n \in Nodes : known[n] \subseteq known'[n]
<1>1. CASE DiscoveryStep
  <2>1. Next
    BY <1>1 DEF DiscoveryStep
  <2>2. ASSUME NEW n \in Nodes, NEW peers \in SUBSET Nodes, AddPeers(n, peers)
        PROVE  \A m \in Nodes : known[m] \subseteq known'[m]
    BY <2>2 DEF TypeOK
  <2> QED
    BY <2>1, <2>2, Grows
<1>2. CASE GossipStep
  <2>1. known' = known
    BY <1>2 DEF GossipStep, Gossiping!Type, Gossiping!Recv, Gossiping!Ignore,
                Gossiping!CacheOwn, Gossiping!Deliver, Gossiping!Heartbeat, Gossiping!Gossip
  <2> QED
    BY <2>1
<1> QED
  BY <1>1, <1>2 DEF ChatNext

------------------------------------------------------------------------------
(* Discovery and gossip.                                                        *)

\* Gossip never disturbs discovery: it reads tables and writes none.
THEOREM RefinesDiscovery == ChatSpec => Spec
<1>1. ChatInit => Init
  BY DEF ChatInit
<1>2. [ChatNext]_<<vars, gossipVars>> => [Next]_vars
  <2>1. ASSUME GossipStep PROVE UNCHANGED vars
    <3>1. known' = known
      BY <2>1 DEF GossipStep, Gossiping!Type, Gossiping!Recv, Gossiping!Ignore,
                  Gossiping!CacheOwn, Gossiping!Deliver, Gossiping!Heartbeat, Gossiping!Gossip
    <3> QED
      BY <2>1, <3>1 DEF GossipStep, discoveryVars, vars
  <2> QED
    BY <2>1 DEF ChatNext, DiscoveryStep
<1> QED
  BY <1>1, <1>2, PTL DEF ChatSpec, Spec

\* The safety of discovery therefore holds of the chat.
COROLLARY ChatDiscovery == ChatSpec => [](TypeOK /\ DiscoveryInv)
  BY RefinesDiscovery, DiscoveryInvariant, PTL

\* Gossip, which may go on for ever, never starts discovery again: in the chat, too, every
\* step that changes what discovery keeps or sends leaves it less to do.
COROLLARY ChatDiscoveryRunsOut == ChatSpec => RunsOut
  BY RefinesDiscovery, RunsOutAlways, PTL

\* A step of discovery adds peers to one table, which is what Gossip allows for, or is not
\* seen by gossip at all; so the chat behaves as Gossip says.
THEOREM RefinesGossip == ChatSpec => ImplementsGossip
<1>1. ChatInit => Gossiping!Init
  BY DEF ChatInit
<1>2. TypeOK /\ [ChatNext]_<<vars, gossipVars>> => [Gossiping!Next]_Gossiping!vars
  <2> SUFFICES ASSUME TypeOK, [ChatNext]_<<vars, gossipVars>>
               PROVE  [Gossiping!Next]_Gossiping!vars
    OBVIOUS
  <2>1. CASE DiscoveryStep
    <3>1. Next /\ UNCHANGED gossipVars
      BY <2>1 DEF DiscoveryStep
    <3>2. CASE known' = known
      BY <3>1, <3>2 DEF gossipVars, Gossiping!vars
    <3>3. ASSUME NEW n \in Nodes, NEW peers \in SUBSET Nodes, AddPeers(n, peers)
          PROVE  Gossiping!Learn(n) \/ known' = known
      <4> DEFINE new == peers \ known[n]
      <4>1. known' = [known EXCEPT ![n] = @ \cup new]
        BY <3>3 DEF TypeOK
      <4>2. new \in SUBSET ([x \in Nodes |-> Nodes][n] \ known[n])
        OBVIOUS
      <4>3. new = {} => known' = known
        BY <4>1 DEF TypeOK
      <4> HIDE DEF new
      <4> QED
        BY <3>1, <4>1, <4>2, <4>3 DEF Gossiping!Learn, gossipVars
    <3>4. \A n \in Nodes : Gossiping!Learn(n) => Gossiping!Next
      BY DEF Gossiping!Next
    <3> QED
      BY <3>1, <3>2, <3>3, <3>4, Grows
  <2>2. CASE GossipStep
    BY <2>2 DEF GossipStep, Gossiping!Next
  <2>3. CASE UNCHANGED <<vars, gossipVars>>
    BY <2>3 DEF vars, gossipVars, Gossiping!vars
  <2> QED
    BY <2>1, <2>2, <2>3 DEF ChatNext
<1> QED
  BY <1>1, <1>2, ChatDiscovery, PTL DEF ChatSpec, ImplementsGossip, Gossiping!Spec

------------------------------------------------------------------------------
(* What follows for both.                                                       *)

\* publish and gossip send to peers of the table.
LEMMA PublishedToKnown ==
    ASSUME NEW n, NEW m, NEW source, NEW peers \in Gossiping!Sample(n, source),
           NEW letter \in Gossiping!Sent(n, m, peers)
    PROVE  letter.from = n /\ letter.to \in known[n]
<1>1. peers \subseteq known[n]
  BY DEF Gossiping!Sample
<1> QED
  BY <1>1 DEF Gossiping!Sent

LEMMA SentToKnownStep ==
    ASSUME TypeOK, SentToKnown, ChatNext
    PROVE  SentToKnown'
<1> DEFINE Good(letter) == letter.from \in Nodes /\ letter.to \in known[letter.from]
<1>1. ASSUME NEW letter \in letters', letter.from # Stdin
      PROVE  letter \in letters \/ Good(letter)
  <2>1. CASE DiscoveryStep
    BY <2>1 DEF DiscoveryStep, gossipVars
  <2>2. ASSUME NEW m \in Messages, Gossiping!Type(m)
        PROVE  letter \in letters
    BY <1>1, <2>2 DEF Gossiping!Type
  <2>3. ASSUME NEW n \in Nodes, NEW taken \in letters, Gossiping!Deliver(n, taken)
        PROVE  letter \in letters \/ Good(letter)
    <3>1. PICK peers \in Gossiping!Sample(n, Gossiping!SourcePeer(n, taken.from)),
               rest \in Gossiping!Taken(taken) :
                 letters' = rest \cup Gossiping!Sent(n, taken.msg, peers)
      BY <2>3 DEF Gossiping!Deliver
    <3>2. rest \subseteq letters
      BY DEF Gossiping!Taken
    <3> QED
      BY <3>1, <3>2, PublishedToKnown
  <2>4. ASSUME NEW n \in Nodes, NEW taken \in letters,
               Gossiping!Ignore(n, taken) \/ Gossiping!CacheOwn(n, taken)
        PROVE  letter \in letters
    BY <2>4 DEF Gossiping!Ignore, Gossiping!CacheOwn, Gossiping!Taken
  <2>5. ASSUME NEW n \in Nodes, NEW elapsed \in 1..MaxBeat, Gossiping!Gossip(n, elapsed)
        PROVE  letter \in letters \/ Good(letter)
    <3> DEFINE young == Gossiping!Young(n, elapsed)
    <3>1. PICK peers \in [young -> Gossiping!Sample(n, {})] :
            letters' = letters \cup UNION {Gossiping!Sent(n, m, peers[m]) : m \in young}
      BY <2>5 DEF Gossiping!Gossip
    <3> HIDE DEF young
    <3>2. \A m \in young : peers[m] \in Gossiping!Sample(n, {})
      BY <3>1
    <3> QED
      BY <3>1, <3>2, PublishedToKnown
  <2> QED
    BY <2>1, <2>2, <2>3, <2>4, <2>5
    DEF ChatNext, GossipStep, Gossiping!Recv, Gossiping!Heartbeat
<1> QED
  BY <1>1, KnownStays DEF SentToKnown

\* Gossip is sent to peers in the table of the node it comes from, for as long as it is on
\* its way.
THEOREM SentToKnownAlways == ChatSpec => []SentToKnown
<1>1. ChatInit => SentToKnown
  BY DEF ChatInit, Gossiping!Init, SentToKnown
<1>2. TypeOK /\ SentToKnown /\ [ChatNext]_<<vars, gossipVars>> => SentToKnown'
  BY SentToKnownStep DEF vars, gossipVars, SentToKnown
<1> QED
  BY <1>1, <1>2, ChatDiscovery, PTL DEF ChatSpec

\* While lookups return all peers, gossip is sent to nodes only that have the sender in their
\* table or are about to be told of it.
THEOREM GossipIsMutualAlways == ChatSpec => []GossipIsMutual
<1>1. DiscoveryInv /\ SentToKnown => GossipIsMutual
  BY DEF DiscoveryInv, MutualOrPending, SentToKnown, GossipIsMutual
<1> QED
  BY <1>1, ChatDiscovery, SentToKnownAlways, PTL
===============================================================================
