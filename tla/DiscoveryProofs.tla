--------------------------- MODULE DiscoveryProofs ---------------------------
(* Proofs of the safety properties of Discovery, for every set of nodes and    *)
(* every number of copies.                                                     *)
EXTENDS Discovery, FiniteSetTheorems, TLAPS

USE DEF AddPeers

------------------------------------------------------------------------------
(* Messages.                                                                   *)

\* A message is made of nodes, and its type says which fields it has.
LEMMA Shapes ==
    \A msg \in KadMessages :
        /\ msg.from \in Nodes /\ msg.to \in Nodes
        /\ \/ msg.type = "FindNode" /\ Named(msg) = {msg.from}
           \/ /\ msg.type = "NewPeer" /\ Named(msg) = {msg.from, msg.peer}
              /\ msg.peer \in Nodes
           \/ /\ msg.type = "Nodes" /\ Named(msg) = msg.peers
              /\ msg.peers \in SUBSET Nodes
           \/ msg.type \in {"Ping", "Pong"} /\ Named(msg) = {msg.from}
  BY DEF KadMessages, FindNode, NewPeer, NodesResponse, Ping, Pong, Named

\* The fields of a message of each type.
LEMMA Fields ==
    ASSUME NEW n, NEW m, NEW p, NEW s
    PROVE  /\ FindNode(n, m).type = "FindNode" /\ FindNode(n, m).from = n
           /\ FindNode(n, m).to = m /\ Named(FindNode(n, m)) = {n}
           /\ NewPeer(n, m, p).type = "NewPeer" /\ NewPeer(n, m, p).from = n
           /\ NewPeer(n, m, p).to = m /\ NewPeer(n, m, p).peer = p
           /\ Named(NewPeer(n, m, p)) = {n, p}
           /\ NodesResponse(n, m, s).type = "Nodes" /\ NodesResponse(n, m, s).from = n
           /\ NodesResponse(n, m, s).to = m /\ Named(NodesResponse(n, m, s)) = s
           /\ Ping(n, m).type = "Ping" /\ Ping(n, m).from = n
           /\ Ping(n, m).to = m /\ Named(Ping(n, m)) = {n}
           /\ Pong(n, m).type = "Pong" /\ Pong(n, m).from = n
           /\ Pong(n, m).to = m /\ Named(Pong(n, m)) = {n}
  BY DEF FindNode, NewPeer, NodesResponse, Ping, Pong, Named

\* What a node sends is a message.
LEMMA Made ==
    ASSUME NEW n \in Nodes, NEW m \in Nodes, NEW s \in SUBSET Nodes
    PROVE  /\ Requests(n, s) \subseteq KadMessages /\ Answer(n, m, s) \subseteq KadMessages
           /\ Ping(n, m) \in KadMessages /\ Pong(n, m) \in KadMessages
<1>1. Requests(n, s) \subseteq KadMessages
  BY DEF Requests, KadMessages
<1>2. Answer(n, m, s) \subseteq KadMessages
  BY DEF Answer, KadMessages
<1>3. Ping(n, m) \in KadMessages /\ Pong(n, m) \in KadMessages
  BY DEF KadMessages
<1> QED
  BY <1>1, <1>2, <1>3

\* A lookup returns known peers, and all of them while there are no more than NPeers nodes.
LEMMA ClosestFacts ==
    ASSUME NEW table \in SUBSET Nodes, NEW s \in Closest(table)
    PROVE  s \subseteq table /\ (Cardinality(Nodes) <= NPeers => s = table)
<1>1. s \subseteq table
  BY DEF Closest
<1>2. ASSUME Cardinality(Nodes) <= NPeers PROVE s = table
  <2>1. IsFiniteSet(Nodes)
    BY DiscoveryAssumption
  <2>2. Cardinality(table) \in Nat /\ Cardinality(Nodes) \in Nat
        /\ Cardinality(table) <= Cardinality(Nodes)
    BY <2>1, FS_Subset, FS_CardinalityType
  <2>3. Cardinality(table) <= NPeers
    BY <1>2, <2>2, DiscoveryAssumption
  <2> QED
    BY <2>3 DEF Closest
<1> QED
  BY <1>1, <1>2

------------------------------------------------------------------------------
(* Types.                                                                      *)

LEMMA CountType ==
    ASSUME TypeOK, NEW n \in Nodes, NEW s
    PROVE  CountRequests(n, s) \in [Nodes -> [Nodes -> Nat]]
  BY DEF CountRequests, TypeOK

LEMMA InitType == Init => TypeOK
  BY DiscoveryAssumption DEF Init, TypeOK

LEMMA TakeType ==
    ASSUME TypeOK, NEW msg \in mail, NEW sends \in SUBSET KadMessages, Take(msg, sends)
    PROVE  mail' \subseteq KadMessages /\ copies' \in 0..MaxCopies
<1>1. MaxCopies \in Nat
  BY DiscoveryAssumption
<1> QED
  BY <1>1 DEF Take, TypeOK

LEMMA NextType == TypeOK /\ [Next]_vars => TypeOK'
<1> SUFFICES ASSUME TypeOK, [Next]_vars PROVE TypeOK'
  OBVIOUS
<1>1. ASSUME NEW n \in Nodes, NEW node \in Nodes, Bootstrap(n, node) PROVE TypeOK'
  <2>1. Requests(n, {node}) \subseteq KadMessages
    BY Made
  <2>2. CountRequests(n, {node}) \in [Nodes -> [Nodes -> Nat]]
    BY CountType
  <2> QED
    BY <1>1, <2>1, <2>2 DEF Bootstrap, TypeOK
<1>2. ASSUME NEW n \in Nodes, NEW msg \in mail, HandleFindNode(n, msg) PROVE TypeOK'
  <2>1. msg.from \in Nodes /\ known[n] \cup {msg.from} \in SUBSET Nodes
    BY Shapes DEF TypeOK
  <2>2. PICK s \in Closest(known[n] \cup {msg.from}) : Take(msg, Answer(n, msg.from, s))
    BY <1>2 DEF HandleFindNode
  <2>3. s \in SUBSET Nodes
    BY <2>1, ClosestFacts
  <2>4. Answer(n, msg.from, s) \in SUBSET KadMessages
    BY <2>1, <2>3, Made
  <2>5. mail' \subseteq KadMessages /\ copies' \in 0..MaxCopies
    BY <2>2, <2>4, TakeType
  <2> QED
    BY <1>2, <2>1, <2>5 DEF HandleFindNode, TypeOK
<1>3. ASSUME NEW n \in Nodes, NEW msg \in mail, HandleNewPeer(n, msg) PROVE TypeOK'
  <2>1. msg.from \in Nodes /\ msg.peer \in Nodes
    BY <1>3, Shapes DEF HandleNewPeer, TypeOK
  <2>2. mail' \subseteq KadMessages /\ copies' \in 0..MaxCopies
    BY <1>3, TakeType DEF HandleNewPeer
  <2> QED
    BY <1>3, <2>1, <2>2 DEF HandleNewPeer, TypeOK
<1>4. ASSUME NEW n \in Nodes, NEW msg \in mail, HandleNodes(n, msg) PROVE TypeOK'
  <2>1. msg.peers \in SUBSET Nodes
    BY <1>4, Shapes DEF HandleNodes, TypeOK
  <2>2. New(n, msg.peers) \in SUBSET Nodes
    BY <2>1 DEF New
  <2>3. Requests(n, New(n, msg.peers)) \in SUBSET KadMessages
    BY <2>2, Made
  <2>4. mail' \subseteq KadMessages /\ copies' \in 0..MaxCopies
    BY <1>4, <2>3, TakeType DEF HandleNodes
  <2>5. CountRequests(n, New(n, msg.peers)) \in [Nodes -> [Nodes -> Nat]]
    BY CountType
  <2> QED
    BY <1>4, <2>1, <2>4, <2>5 DEF HandleNodes, TypeOK
<1>5. ASSUME NEW n \in Nodes, NEW node \in Nodes, SendPing(n, node) PROVE TypeOK'
  <2>1. Ping(n, node) \in KadMessages
    BY Made
  <2> QED
    BY <1>5, <2>1 DEF SendPing, TypeOK
<1>6. ASSUME NEW n \in Nodes, NEW msg \in mail, HandlePing(n, msg) PROVE TypeOK'
  <2>1. msg.from \in Nodes
    BY Shapes DEF TypeOK
  <2>2. {Pong(n, msg.from)} \in SUBSET KadMessages
    BY <2>1, Made
  <2>3. mail' \subseteq KadMessages /\ copies' \in 0..MaxCopies
    BY <1>6, <2>2, TakeType DEF HandlePing
  <2> QED
    BY <1>6, <2>1, <2>3 DEF HandlePing, TypeOK
<1>7. ASSUME NEW n \in Nodes, NEW msg \in mail, HandlePong(n, msg) PROVE TypeOK'
  <2>1. msg.from \in Nodes
    BY Shapes DEF TypeOK
  <2>2. mail' \subseteq KadMessages /\ copies' \in 0..MaxCopies
    BY <1>7, TakeType DEF HandlePong
  <2> QED
    BY <1>7, <2>1, <2>2 DEF HandlePong, TypeOK
<1>8. CASE UNCHANGED vars
  BY <1>8 DEF vars, TypeOK
<1> QED
  BY <1>1, <1>2, <1>3, <1>4, <1>5, <1>6, <1>7, <1>8, DiscoveryAssumption
  DEF Next, Recv, Handle

------------------------------------------------------------------------------
(* What every taking of a message does.                                        *)

\* A node adds the nodes a message names to its table, whatever the message is.
LEMMA Takes ==
    ASSUME TypeOK, NEW n \in Nodes, NEW msg \in mail, msg.to = n, Handle(n, msg)
    PROVE  /\ known' = [known EXCEPT ![n] = @ \cup Named(msg)]
           /\ dialed' = dialed
           /\ mail \ {msg} \subseteq mail'
<1>1. msg \in KadMessages
  BY DEF TypeOK
<1>2. CASE HandleFindNode(n, msg)
  <2>1. Named(msg) = {msg.from}
    BY <1>1, <1>2, Shapes DEF HandleFindNode
  <2> QED
    BY <1>2, <2>1 DEF HandleFindNode, Take
<1>3. CASE HandleNewPeer(n, msg)
  <2>1. Named(msg) = {msg.from, msg.peer}
    BY <1>1, <1>3, Shapes DEF HandleNewPeer
  <2> QED
    BY <1>3, <2>1 DEF HandleNewPeer, Take
<1>4. CASE HandleNodes(n, msg)
  <2>1. Named(msg) = msg.peers
    BY <1>1, <1>4, Shapes DEF HandleNodes
  <2> QED
    BY <1>4, <2>1 DEF HandleNodes, Take
<1>5. CASE HandlePing(n, msg) \/ HandlePong(n, msg)
  <2>1. Named(msg) = {msg.from}
    BY <1>1, <1>5, Shapes DEF HandlePing, HandlePong
  <2> QED
    BY <1>5, <2>1 DEF HandlePing, HandlePong, Take
<1> QED
  BY <1>2, <1>3, <1>4, <1>5 DEF Handle

\* A node that knows or will learn of another still does after a message was taken.
LEMMA LearnsStays ==
    ASSUME TypeOK, NEW n \in Nodes, NEW msg \in mail, msg.to = n, Handle(n, msg),
           NEW a \in Nodes, NEW b, Learns(a, b)
    PROVE  Learns(a, b)'
<1>1. /\ known' = [known EXCEPT ![n] = @ \cup Named(msg)]
      /\ mail \ {msg} \subseteq mail'
  BY Takes
<1>2. CASE b \in known[a]
  BY <1>1, <1>2 DEF TypeOK, Learns
<1>3. CASE WillLearn(a, b)
  <2>1. PICK m \in mail : m.to = a /\ b \in Named(m)
    BY <1>3 DEF WillLearn
  <2>2. CASE m = msg
    BY <1>1, <2>1, <2>2 DEF TypeOK, Learns
  <2>3. CASE m # msg
    <3>1. m \in mail'
      BY <1>1, <2>3
    <3>2. WillLearn(a, b)'
      BY <2>1, <3>1 DEF WillLearn, Named
    <3> QED
      BY <3>2 DEF Learns
  <2> QED
    BY <2>2, <2>3
<1> QED
  BY <1>2, <1>3 DEF Learns

\* Dialing and pinging lose nothing either.
LEMMA SendingStays ==
    ASSUME TypeOK, NEW n \in Nodes, NEW node \in Nodes,
           Bootstrap(n, node) \/ SendPing(n, node),
           NEW a \in Nodes, NEW b, Learns(a, b)
    PROVE  Learns(a, b)'
<1>1. known[a] \subseteq known'[a] /\ mail \subseteq mail'
  BY DEF Bootstrap, SendPing, TypeOK
<1>2. CASE b \in known[a]
  BY <1>1, <1>2 DEF Learns
<1>3. CASE WillLearn(a, b)
  BY <1>1, <1>3 DEF Learns, WillLearn, Named
<1> QED
  BY <1>2, <1>3 DEF Learns

\* A message among those just sent is one that will be learned from.
LEMMA SentLearns ==
    ASSUME NEW m \in mail', NEW b \in Named(m) PROVE Learns(m.to, b)'
  BY DEF Learns, WillLearn, Named

------------------------------------------------------------------------------
(* Each conjunct of the invariant.                                             *)

LEMMA SelfStep ==
    ASSUME TypeOK, SelfInv, [Next]_vars PROVE SelfInv'
<1>1. ASSUME NEW n \in Nodes, NEW node \in Nodes, Bootstrap(n, node) PROVE SelfInv'
  BY <1>1 DEF Bootstrap, SelfInv, TypeOK
<1>2. ASSUME NEW n \in Nodes, NEW msg \in mail, HandleFindNode(n, msg) PROVE SelfInv'
  BY <1>2 DEF HandleFindNode, SelfInv, TypeOK
<1>3. ASSUME NEW n \in Nodes, NEW msg \in mail, HandleNewPeer(n, msg) PROVE SelfInv'
  BY <1>3 DEF HandleNewPeer, SelfInv, TypeOK
<1>4. ASSUME NEW n \in Nodes, NEW msg \in mail, HandleNodes(n, msg) PROVE SelfInv'
  BY <1>4 DEF HandleNodes, SelfInv, TypeOK
<1>5. ASSUME NEW n \in Nodes, NEW node \in Nodes, SendPing(n, node) PROVE SelfInv'
  BY <1>5 DEF SendPing, SelfInv, TypeOK
<1>6. ASSUME NEW n \in Nodes, NEW msg \in mail, HandlePing(n, msg) \/ HandlePong(n, msg)
      PROVE  SelfInv'
  BY <1>6 DEF HandlePing, HandlePong, SelfInv, TypeOK
<1>7. CASE UNCHANGED vars
  BY <1>7 DEF vars, SelfInv
<1> QED
  BY <1>1, <1>2, <1>3, <1>4, <1>5, <1>6, <1>7, DiscoveryAssumption DEF Next, Recv, Handle

LEMMA SpokenStep ==
    ASSUME TypeOK, SelfInv, SpokenInv, [Next]_vars PROVE SpokenInv'
<1>1. ASSUME NEW n \in Nodes, NEW node \in Nodes, Bootstrap(n, node) PROVE SpokenInv'
  <2>1. \A k \in Nodes : Spoken(k) => Spoken(k)'
    BY <1>1, DiscoveryAssumption DEF Bootstrap, Spoken, TypeOK
  <2>2. Spoken(n)'
    BY <1>1, DiscoveryAssumption DEF Bootstrap, Spoken, TypeOK
  <2>3. \A k \in Nodes : known'[k] \ {k} = known[k] \ {k}
    BY <1>1 DEF Bootstrap, TypeOK, SelfInv
  <2>4. KnownHasSpoken'
    BY <2>1, <2>3 DEF SpokenInv, KnownHasSpoken, TypeOK
  <2>5. \A k \in mail' : k \in mail \/ k = FindNode(n, node)
    BY <1>1 DEF Bootstrap, Requests
  <2>6. \A k \in mail : k.from \in Nodes /\ k.to \in Nodes /\ Named(k) \subseteq Nodes
    BY Shapes DEF TypeOK
  <2>7. ASSUME NEW k \in mail'
        PROVE  /\ Spoken(k.from)' /\ \A m \in Named(k) : Spoken(m)'
               /\ k.type = "Nodes" => Spoken(k.to)'
    <3>1. CASE k \in mail
      BY <2>1, <2>6, <3>1 DEF SpokenInv
    <3>2. CASE k = FindNode(n, node)
      BY <2>2, <3>2 DEF Spoken, FindNode, Named
    <3> QED
      BY <2>5, <3>1, <3>2
  <2>8. \A k \in mail' : \A m \in Named(k)' : m \in Named(k)
    BY DEF Named
  <2> QED
    BY <2>4, <2>7, <2>8 DEF SpokenInv
<1>2. ASSUME NEW n \in Nodes, NEW msg \in mail, msg.to = n, Handle(n, msg)
      PROVE  SpokenInv'
  <2>1. /\ known' = [known EXCEPT ![n] = @ \cup Named(msg)]
        /\ dialed' = dialed
    BY <1>2, Takes
  <2>2. \A k \in mail : k.from \in Nodes /\ k.to \in Nodes /\ Named(k) \subseteq Nodes
    BY Shapes DEF TypeOK
  <2>3. \A k \in Nodes : Spoken(k) => Spoken(k)'
    BY <1>2, <2>1
    DEF Handle, HandleFindNode, HandleNewPeer, HandleNodes, HandlePing, HandlePong, Spoken,
        TypeOK
  <2>4. \A m \in Named(msg) : Spoken(m)'
    BY <2>2, <2>3 DEF SpokenInv
  <2>5. KnownHasSpoken'
    BY <2>1, <2>3, <2>4 DEF SpokenInv, KnownHasSpoken, TypeOK
  <2>6. ASSUME NEW k \in mail
        PROVE  /\ Spoken(k.from)' /\ \A m \in Named(k) : Spoken(m)'
               /\ k.type = "Nodes" => Spoken(k.to)'
    BY <2>2, <2>3 DEF SpokenInv
  <2>7. ASSUME NEW k \in mail', k \notin mail
        PROVE  /\ Spoken(k.from)' /\ \A m \in Named(k) : Spoken(m)'
               /\ k.type = "Nodes" => Spoken(k.to)'
    <3>1. CASE HandleFindNode(n, msg)
      <4>1. PICK s \in Closest(known[n] \cup {msg.from}) : Take(msg, Answer(n, msg.from, s))
        BY <3>1 DEF HandleFindNode
      <4>2. s \subseteq known[n] \cup {msg.from}
        BY <2>2, ClosestFacts DEF TypeOK
      <4>3. Spoken(n)'
        BY <2>2, <3>1 DEF HandleFindNode, Spoken, TypeOK
      <4>4. Spoken(msg.from)'
        BY <2>2, <2>3 DEF SpokenInv
      <4>5. \A m \in s : Spoken(m)'
        BY <2>3, <4>2, <4>3, <4>4 DEF SpokenInv, KnownHasSpoken, TypeOK
      <4>6. k \in Answer(n, msg.from, s)
        BY <2>7, <4>1 DEF Take
      <4>7. CASE k = NodesResponse(n, msg.from, s)
        BY <4>3, <4>4, <4>5, <4>7 DEF Spoken, NodesResponse, Named
      <4>8. ASSUME NEW p \in s, k = NewPeer(n, p, msg.from)
            PROVE  /\ Spoken(k.from)' /\ \A m \in Named(k) : Spoken(m)'
                   /\ k.type = "Nodes" => Spoken(k.to)'
        BY <4>3, <4>4, <4>8 DEF Spoken, NewPeer, Named
      <4> QED
        BY <4>6, <4>7, <4>8 DEF Answer
    <3>2. CASE HandleNewPeer(n, msg)
      BY <2>7, <3>2 DEF HandleNewPeer, Take
    <3>3. CASE HandleNodes(n, msg)
      <4>1. k \in Requests(n, New(n, msg.peers))
        BY <2>7, <3>3 DEF HandleNodes, Take
      <4>2. PICK m : k = FindNode(n, m)
        BY <4>1 DEF Requests
      <4>3. Spoken(n)'
        BY <1>2, <2>3, <3>3 DEF HandleNodes, SpokenInv
      <4> QED
        BY <4>2, <4>3 DEF Spoken, FindNode, Named
    <3>4. CASE HandlePing(n, msg)
      <4>1. k = Pong(n, msg.from)
        BY <2>7, <3>4 DEF HandlePing, Take
      <4>2. Spoken(n)'
        BY <3>4 DEF HandlePing, Spoken
      <4> QED
        BY <4>1, <4>2 DEF Spoken, Pong, Named
    <3>5. CASE HandlePong(n, msg)
      BY <2>7, <3>5 DEF HandlePong, Take
    <3> QED
      BY <1>2, <3>1, <3>2, <3>3, <3>4, <3>5 DEF Handle
  <2>8. \A k \in mail' : \A m \in Named(k)' : m \in Named(k)
    BY DEF Named
  <2> QED
    BY <2>5, <2>6, <2>7, <2>8 DEF SpokenInv
<1>3. ASSUME NEW n \in Nodes, NEW node \in Nodes, SendPing(n, node) PROVE SpokenInv'
  <2>1. \A k \in Nodes : Spoken(k) => Spoken(k)'
    BY <1>3 DEF SendPing, Spoken
  <2>2. Spoken(n)'
    BY <1>3 DEF SendPing, Spoken
  <2>3. KnownHasSpoken'
    BY <1>3, <2>1 DEF SendPing, SpokenInv, KnownHasSpoken, TypeOK
  <2>4. \A k \in mail' : k \in mail \/ k = Ping(n, node)
    BY <1>3 DEF SendPing
  <2>5. \A k \in mail : k.from \in Nodes /\ k.to \in Nodes /\ Named(k) \subseteq Nodes
    BY Shapes DEF TypeOK
  <2>6. ASSUME NEW k \in mail'
        PROVE  /\ Spoken(k.from)' /\ \A m \in Named(k) : Spoken(m)'
               /\ k.type = "Nodes" => Spoken(k.to)'
    <3>1. CASE k \in mail
      BY <2>1, <2>5, <3>1 DEF SpokenInv
    <3>2. CASE k = Ping(n, node)
      BY <2>2, <3>2 DEF Spoken, Ping, Named
    <3> QED
      BY <2>4, <3>1, <3>2
  <2>7. \A k \in mail' : \A m \in Named(k)' : m \in Named(k)
    BY DEF Named
  <2> QED
    BY <2>3, <2>6, <2>7 DEF SpokenInv
<1>4. CASE UNCHANGED vars
  BY <1>4 DEF vars, SpokenInv, KnownHasSpoken, Spoken, Named
<1> QED
  BY <1>1, <1>2, <1>3, <1>4, DiscoveryAssumption DEF Next, Recv

LEMMA AskedStep ==
    ASSUME TypeOK, AskedInv, [Next]_vars PROVE AskedInv'
<1>1. ASSUME NEW n \in Nodes, NEW node \in Nodes, Bootstrap(n, node) PROVE AskedInv'
  <2> SUFFICES ASSUME NEW a \in Nodes, NEW b \in Nodes
               PROVE  asked'[a][b] <= (IF dialed'[a] = b THEN 1 ELSE 0)
                                        + (IF b \in known'[a] THEN 1 ELSE 0)
    BY DEF AskedInv
  <2>1. asked[a][b] \in Nat
        /\ asked[a][b] <= (IF dialed[a] = b THEN 1 ELSE 0)
                            + (IF b \in known[a] THEN 1 ELSE 0)
    BY DEF AskedInv, TypeOK
  <2>2. known[a] \subseteq known'[a]
    BY <1>1 DEF Bootstrap, TypeOK
  <2>3. CASE a = n /\ b = node
    <3>1. dialed[a] # b /\ dialed'[a] = b /\ asked'[a][b] = asked[a][b] + 1
      BY <1>1, <2>3, DiscoveryAssumption DEF Bootstrap, CountRequests, TypeOK
    <3> QED
      BY <2>1, <2>2, <3>1
  <2>4. CASE ~(a = n /\ b = node)
    <3>1. asked'[a][b] = asked[a][b]
      BY <1>1, <2>4 DEF Bootstrap, CountRequests, TypeOK
    <3>2. dialed[a] = b => dialed'[a] = b
      BY <1>1, DiscoveryAssumption DEF Bootstrap, TypeOK
    <3> QED
      BY <2>1, <2>2, <3>1, <3>2
  <2> QED
    BY <2>3, <2>4
<1>2. ASSUME NEW n \in Nodes, NEW msg \in mail, msg.to = n, Handle(n, msg)
      PROVE  AskedInv'
  <2> SUFFICES ASSUME NEW a \in Nodes, NEW b \in Nodes
               PROVE  asked'[a][b] <= (IF dialed'[a] = b THEN 1 ELSE 0)
                                        + (IF b \in known'[a] THEN 1 ELSE 0)
    BY DEF AskedInv
  <2>1. asked[a][b] \in Nat
        /\ asked[a][b] <= (IF dialed[a] = b THEN 1 ELSE 0)
                            + (IF b \in known[a] THEN 1 ELSE 0)
    BY DEF AskedInv, TypeOK
  <2>2. known' = [known EXCEPT ![n] = @ \cup Named(msg)] /\ dialed' = dialed
    BY <1>2, Takes
  <2>3. known[a] \subseteq known'[a]
    BY <2>2 DEF TypeOK
  <2>4. CASE asked'[a][b] = asked[a][b]
    BY <2>1, <2>2, <2>3, <2>4
  <2>5. CASE asked'[a][b] # asked[a][b]
    <3>1. HandleNodes(n, msg)
      BY <1>2, <2>5 DEF Handle, HandleFindNode, HandleNewPeer, HandlePing, HandlePong
    <3>2. a = n /\ b \in New(n, msg.peers) /\ asked'[a][b] = asked[a][b] + 1
      BY <2>5, <3>1 DEF HandleNodes, CountRequests, TypeOK
    <3>3. b \notin known[a] /\ b \in known'[a]
      BY <3>1, <3>2 DEF HandleNodes, New, TypeOK
    <3> QED
      BY <2>1, <2>2, <3>2, <3>3
  <2> QED
    BY <2>4, <2>5
<1>3. CASE UNCHANGED <<known, dialed, asked>>
  BY <1>3 DEF AskedInv
<1> QED
  BY <1>1, <1>2, <1>3, DiscoveryAssumption DEF Next, Recv, SendPing, vars

\* While a lookup returns all peers, a node that answers tells the one that asked of all
\* it knows, and all it knows of the one that asked.
LEMMA Answered ==
    ASSUME TypeOK, Cardinality(Nodes) <= NPeers,
           NEW n \in Nodes, NEW msg \in mail, HandleFindNode(n, msg)
    PROVE  \A p \in known[n] \cup {msg.from} :
             /\ Learns(msg.from, p)' /\ Learns(p, msg.from)'
             /\ p \in known'[n]
<1>1. msg.from \in Nodes /\ known[n] \cup {msg.from} \in SUBSET Nodes
  BY Shapes DEF TypeOK
<1>2. PICK s \in Closest(known[n] \cup {msg.from}) : Take(msg, Answer(n, msg.from, s))
  BY DEF HandleFindNode
<1>3. s = known[n] \cup {msg.from}
  BY <1>1, ClosestFacts
<1>4. Answer(n, msg.from, s) \subseteq mail'
  BY <1>2 DEF Take
<1> SUFFICES ASSUME NEW p \in s
             PROVE  /\ Learns(msg.from, p)' /\ Learns(p, msg.from)'
                    /\ p \in known'[n]
  BY <1>3
<1>5. WillLearn(msg.from, p)'
  <2>1. NodesResponse(n, msg.from, s) \in mail'
    BY <1>4 DEF Answer
  <2> QED
    BY <2>1 DEF WillLearn, NodesResponse, Named
<1>6. WillLearn(p, msg.from)'
  <2>1. NewPeer(n, p, msg.from) \in mail'
    BY <1>4 DEF Answer
  <2> QED
    BY <2>1 DEF WillLearn, NewPeer, Named
<1>7. p \in known'[n]
  BY <1>3 DEF HandleFindNode, TypeOK
<1> QED
  BY <1>5, <1>6, <1>7 DEF Learns

LEMMA AnnouncedStep ==
    ASSUME TypeOK, SelfInv, AnnouncedInv, [Next]_vars PROVE AnnouncedInv'
<1> DEFINE Sound(k) == /\ k.type \in {"NewPeer", "Pong"} => k.to \in known'[k.from]
                       /\ k.type = "NewPeer" => Learns(k.peer, k.to)'
<1> SUFFICES ASSUME Cardinality(Nodes) <= NPeers, NEW k \in mail' PROVE Sound(k)
  BY DEF AnnouncedInv
<1>1. ASSUME k \in mail
      PROVE  /\ k.from \in Nodes
             /\ k.type \in {"NewPeer", "Pong"} => k.to \in known[k.from]
             /\ k.type = "NewPeer" => k.peer \in Nodes /\ Learns(k.peer, k.to)
  BY <1>1, Shapes DEF AnnouncedInv, TypeOK
<1>2. ASSUME NEW n \in Nodes, NEW node \in Nodes, Bootstrap(n, node) \/ SendPing(n, node)
      PROVE  Sound(k)
  <2>1. CASE k \in mail
    <3>1. k.type = "NewPeer" => Learns(k.peer, k.to)'
      BY <1>1, <1>2, <2>1, SendingStays
    <3>2. known[k.from] \subseteq known'[k.from]
      BY <1>1, <1>2, <2>1 DEF Bootstrap, SendPing, TypeOK
    <3> QED
      BY <1>1, <2>1, <3>1, <3>2
  <2>2. CASE k \notin mail
    <3>1. k.type \in {"FindNode", "Ping"}
      BY <1>2, <2>2 DEF Bootstrap, SendPing, Requests, FindNode, Ping
    <3> QED
      BY <3>1
  <2> QED
    BY <2>1, <2>2
<1>3. ASSUME NEW n \in Nodes, NEW msg \in mail, msg.to = n, Handle(n, msg) PROVE Sound(k)
  <2>1. known' = [known EXCEPT ![n] = @ \cup Named(msg)]
    BY <1>3, Takes
  <2>2. CASE k \in mail
    <3>1. k.type = "NewPeer" => Learns(k.peer, k.to)'
      BY <1>1, <1>3, <2>2, LearnsStays
    <3> QED
      BY <1>1, <2>1, <2>2, <3>1 DEF TypeOK
  <2>3. CASE k \notin mail /\ HandleFindNode(n, msg)
    <3>1. PICK s \in Closest(known[n] \cup {msg.from}) : Take(msg, Answer(n, msg.from, s))
      BY <2>3 DEF HandleFindNode
    <3>2. s \subseteq known[n] \cup {msg.from}
      BY Shapes, ClosestFacts DEF TypeOK
    <3>3. k \in Answer(n, msg.from, s)
      BY <2>3, <3>1 DEF Take
    <3>4. CASE k = NodesResponse(n, msg.from, s)
      <4>1. k.type = "Nodes"
        BY <3>4 DEF NodesResponse
      <4> QED
        BY <4>1
    <3>5. CASE \E p \in s : k = NewPeer(n, p, msg.from)
      <4>1. k.type = "NewPeer" /\ k.from = n /\ k.to \in s /\ k.peer = msg.from
        BY <3>5 DEF NewPeer
      <4>2. \A p \in known[n] \cup {msg.from} : Learns(msg.from, p)' /\ p \in known'[n]
        BY <2>3, Answered
      <4>3. k.to \in known'[n] /\ Learns(k.peer, k.to)'
        BY <3>2, <4>1, <4>2 DEF Learns, WillLearn
      <4> QED
        BY <4>1, <4>3
    <3> QED
      BY <3>3, <3>4, <3>5 DEF Answer
  <2>4. CASE k \notin mail /\ HandlePing(n, msg)
    <3>1. k = Pong(n, msg.from)
      BY <2>4 DEF HandlePing, Take
    <3>2. msg.from \in known'[n]
      BY <2>4 DEF HandlePing, TypeOK
    <3> QED
      BY <3>1, <3>2 DEF Pong
  <2>5. CASE k \notin mail /\ HandleNodes(n, msg)
    <3>1. k.type = "FindNode"
      BY <2>5 DEF HandleNodes, Take, Requests, FindNode
    <3> QED
      BY <3>1
  <2>6. CASE HandleNewPeer(n, msg) \/ HandlePong(n, msg)
    <3>1. k \in mail
      BY <2>6 DEF HandleNewPeer, HandlePong, Take
    <3> QED
      BY <2>2, <3>1
  <2> QED
    BY <1>3, <2>2, <2>3, <2>4, <2>5, <2>6 DEF Handle
<1>4. CASE UNCHANGED vars
  <2>1. k \in mail
    BY <1>4 DEF vars
  <2> QED
    BY <1>1, <1>4, <2>1 DEF vars, Learns, WillLearn, Named
<1> QED
  BY <1>2, <1>3, <1>4, DiscoveryAssumption DEF Next, Recv

LEMMA MutualStep ==
    ASSUME TypeOK, SelfInv, AnnouncedInv, MutualOrPending, [Next]_vars
    PROVE  MutualOrPending'
<1> SUFFICES ASSUME Cardinality(Nodes) <= NPeers, NEW a \in Nodes, NEW b \in known'[a]
             PROVE  Learns(b, a)'
  BY DEF MutualOrPending
<1>1. ASSUME b \in known[a] PROVE b \in Nodes /\ Learns(b, a)
  BY <1>1 DEF MutualOrPending, TypeOK
<1>2. ASSUME NEW n \in Nodes, NEW node \in Nodes, Bootstrap(n, node) \/ SendPing(n, node)
      PROVE  Learns(b, a)'
  <2>1. b \in known[a]
    BY <1>2 DEF Bootstrap, SendPing, TypeOK, SelfInv
  <2> QED
    BY <1>1, <1>2, <2>1, SendingStays
<1>3. ASSUME NEW n \in Nodes, NEW msg \in mail, msg.to = n, Handle(n, msg)
      PROVE  Learns(b, a)'
  <2>1. CASE b \in known[a]
    BY <1>1, <1>3, <2>1, LearnsStays
  <2>2. CASE b \notin known[a]
    <3>1. a = n /\ b \in Named(msg)
      BY <1>3, <2>2, Takes DEF TypeOK
    <3>2. msg \in KadMessages
      BY DEF TypeOK
    <3>3. CASE HandleFindNode(n, msg)
      <4>1. b = msg.from
        BY <3>1, <3>2, <3>3, Shapes DEF HandleFindNode
      <4>2. n \in known[n]
        BY DEF SelfInv
      <4>3. Learns(msg.from, n)'
        BY <3>3, <4>2, Answered
      <4> QED
        BY <3>1, <4>1, <4>3 DEF Learns, WillLearn
    <3>4. CASE HandleNewPeer(n, msg)
      <4>1. msg.from \in Nodes /\ msg.peer \in Nodes /\ (b = msg.from \/ b = msg.peer)
        BY <3>1, <3>2, <3>4, Shapes DEF HandleNewPeer
      <4>2. n \in known[msg.from] /\ Learns(msg.peer, n)
        BY <1>3, <3>4 DEF AnnouncedInv, HandleNewPeer
      <4>3. Learns(b, n)
        BY <4>1, <4>2 DEF Learns, WillLearn
      <4>4. Learns(b, n)'
        BY <1>3, <4>1, <4>3, LearnsStays
      <4> QED
        BY <3>1, <4>4
    <3>5. CASE HandleNodes(n, msg)
      <4>1. b \in New(n, msg.peers)
        BY <2>2, <3>1, <3>2, <3>5, Shapes DEF HandleNodes, New
      <4>2. FindNode(n, b) \in mail'
        BY <3>5, <4>1 DEF HandleNodes, Take, Requests
      <4>3. WillLearn(b, n)'
        BY <4>2 DEF WillLearn, FindNode, Named
      <4> QED
        BY <3>1, <4>3 DEF Learns
    <3>6. CASE HandlePing(n, msg)
      <4>1. b = msg.from
        BY <3>1, <3>2, <3>6, Shapes DEF HandlePing
      <4>2. Pong(n, b) \in mail'
        BY <3>6, <4>1 DEF HandlePing, Take
      <4>3. WillLearn(b, n)'
        BY <4>2 DEF WillLearn, Pong, Named
      <4> QED
        BY <3>1, <4>3 DEF Learns
    <3>7. CASE HandlePong(n, msg)
      <4>1. b = msg.from /\ b \in Nodes
        BY <3>1, <3>2, <3>7, Shapes DEF HandlePong
      <4>2. n \in known[b]
        BY <1>3, <3>7, <4>1 DEF AnnouncedInv, HandlePong
      <4>3. Learns(b, n)
        BY <4>2 DEF Learns
      <4>4. Learns(b, n)'
        BY <1>3, <4>1, <4>3, LearnsStays
      <4> QED
        BY <3>1, <4>4
    <3> QED
      BY <1>3, <3>3, <3>4, <3>5, <3>6, <3>7 DEF Handle
  <2> QED
    BY <2>1, <2>2
<1>4. CASE UNCHANGED vars
  BY <1>1, <1>4 DEF vars, Learns, WillLearn, Named
<1> QED
  BY <1>2, <1>3, <1>4, DiscoveryAssumption DEF Next, Recv

LEMMA IntroducedStep ==
    ASSUME TypeOK, SelfInv, IntroducedOrPending, [Next]_vars
    PROVE  IntroducedOrPending'
<1> SUFFICES ASSUME Cardinality(Nodes) <= NPeers, NEW r \in Nodes,
                    NEW a \in served'[r], NEW b \in served'[r]
             PROVE  Learns(a, b)'
  BY DEF IntroducedOrPending
<1>1. ASSUME a \in served[r], b \in served[r] PROVE a \in Nodes /\ Learns(a, b)
  BY <1>1 DEF IntroducedOrPending, TypeOK
<1>2. ASSUME NEW n \in Nodes, NEW node \in Nodes, Bootstrap(n, node) \/ SendPing(n, node)
      PROVE  Learns(a, b)'
  BY <1>1, <1>2, SendingStays DEF Bootstrap, SendPing
<1>3. ASSUME NEW n \in Nodes, NEW msg \in mail, msg.to = n, Handle(n, msg)
      PROVE  Learns(a, b)'
  <2>1. CASE a \in served[r] /\ b \in served[r]
    BY <1>1, <1>3, <2>1, LearnsStays
  <2>2. CASE ~(a \in served[r] /\ b \in served[r])
    <3>1. HandleFindNode(n, msg) /\ r = n
      BY <1>3, <2>2
      DEF Handle, HandleFindNode, HandleNewPeer, HandleNodes, HandlePing, HandlePong, TypeOK
    <3>2. served'[n] = served[n] \cup {msg.from} /\ served[n] \subseteq known[n]
      BY <3>1 DEF HandleFindNode, SelfInv, TypeOK
    <3>3. /\ a \in known[n] \cup {msg.from} /\ b \in known[n] \cup {msg.from}
          /\ a = msg.from \/ b = msg.from
      BY <2>2, <3>1, <3>2
    <3>4. /\ Learns(msg.from, a)' /\ Learns(msg.from, b)'
          /\ Learns(a, msg.from)' /\ Learns(b, msg.from)'
      BY <3>1, <3>3, Answered
    <3> QED
      BY <3>3, <3>4 DEF Learns, WillLearn
  <2> QED
    BY <2>1, <2>2
<1>4. CASE UNCHANGED vars
  BY <1>1, <1>4 DEF vars, Learns, WillLearn, Named
<1> QED
  BY <1>2, <1>3, <1>4, DiscoveryAssumption DEF Next, Recv

------------------------------------------------------------------------------
(* The theorems.                                                               *)

LEMMA InitDiscovery == Init => DiscoveryInv
  BY DEF Init, DiscoveryInv, SelfInv, SpokenInv, KnownHasSpoken, AskedInv, AnnouncedInv,
         MutualOrPending, IntroducedOrPending, Learns

\* The invariant holds in every reachable state: tables, messages on their way and
\* requests sent agree with who has asked whom.
THEOREM DiscoveryInvariant == Spec => [](TypeOK /\ DiscoveryInv)
<1>1. Init => TypeOK /\ DiscoveryInv
  BY InitType, InitDiscovery
<1>2. TypeOK /\ DiscoveryInv /\ [Next]_vars => (TypeOK /\ DiscoveryInv)'
  BY NextType, SelfStep, SpokenStep, AskedStep, AnnouncedStep, MutualStep, IntroducedStep
  DEF DiscoveryInv
<1> QED
  BY <1>1, <1>2, PTL DEF Spec

\* handle_request and handle_response put into a table only nodes that have sent something.
THEOREM KnownHasSpokenAlways == Spec => []KnownHasSpoken
<1>1. DiscoveryInv => KnownHasSpoken
  BY DEF DiscoveryInv, SpokenInv
<1> QED
  BY <1>1, DiscoveryInvariant, PTL

\* handle_response asks no peer twice, and bootstrap adds one request at most.
THEOREM RequestsBoundedAlways == Spec => []RequestsBounded
<1>1. TypeOK /\ DiscoveryInv => RequestsBounded
  <2> SUFFICES ASSUME TypeOK, AskedInv, NEW n \in Nodes, NEW m \in Nodes
               PROVE  asked[n][m] <= (IF dialed[n] = m THEN 2 ELSE 1)
    BY DEF DiscoveryInv, RequestsBounded
  <2>1. asked[n][m] \in Nat
        /\ asked[n][m] <= (IF dialed[n] = m THEN 1 ELSE 0) + (IF m \in known[n] THEN 1 ELSE 0)
    BY DEF AskedInv, TypeOK
  <2> QED
    BY <2>1
<1> QED
  BY <1>1, DiscoveryInvariant, PTL

\* While a lookup returns all peers, a node that is in another's table has it in its own,
\* or is sent a message that adds it.
THEOREM MutualOrPendingAlways == Spec => []MutualOrPending
<1>1. DiscoveryInv => MutualOrPending
  BY DEF DiscoveryInv
<1> QED
  BY <1>1, DiscoveryInvariant, PTL

\* While a lookup returns all peers, lookup_node introduces all nodes that asked the same
\* one to each other.
THEOREM IntroducedOrPendingAlways == Spec => []IntroducedOrPending
<1>1. DiscoveryInv => IntroducedOrPending
  BY DEF DiscoveryInv
<1> QED
  BY <1>1, DiscoveryInvariant, PTL

------------------------------------------------------------------------------
(* Discovery comes to rest.                                                    *)

\* The messages of one type among some.
Of(msgs, type) == {msg \in msgs : msg.type = type}

\* A function takes finitely many values, no more than it has arguments.
LEMMA Image ==
    ASSUME NEW S, IsFiniteSet(S), NEW f, f = [x \in S |-> f[x]]
    PROVE  IsFiniteSet({f[x] : x \in S}) /\ Cardinality({f[x] : x \in S}) <= Cardinality(S)
<1> DEFINE T == {f[x] : x \in S}
<1>1. f \in Surjection(S, T)
  BY DEF Surjection
<1> QED
  BY <1>1, FS_Surjection

\* As many requests are sent as peers are asked, and nothing else.
LEMMA RequestsCount ==
    ASSUME NEW n, NEW s, IsFiniteSet(s)
    PROVE  /\ IsFiniteSet(Requests(n, s))
           /\ Of(Requests(n, s), "FindNode") = Requests(n, s)
           /\ \A type : type # "FindNode" => Of(Requests(n, s), type) = {}
           /\ Cardinality(Requests(n, s)) <= Cardinality(s)
<1> DEFINE f == [m \in s |-> FindNode(n, m)]
<1>1. Requests(n, s) = {f[m] : m \in s}
  BY DEF Requests
<1>2. f = [m \in s |-> f[m]]
  OBVIOUS
<1>3. IsFiniteSet({f[m] : m \in s}) /\ Cardinality({f[m] : m \in s}) <= Cardinality(s)
  BY <1>2, Image
<1> QED
  BY <1>1, <1>3 DEF Requests, FindNode, Of

\* An answer is one response and at most one announcement to each of the closest peers.
LEMMA AnswerCount ==
    ASSUME NEW n, NEW m, NEW s, IsFiniteSet(s)
    PROVE  /\ IsFiniteSet(Answer(n, m, s))
           /\ Cardinality(Of(Answer(n, m, s), "Nodes")) = 1
           /\ Cardinality(Of(Answer(n, m, s), "NewPeer")) <= Cardinality(s)
           /\ \A type : type \notin {"Nodes", "NewPeer"} => Of(Answer(n, m, s), type) = {}
<1> DEFINE f == [p \in s |-> NewPeer(n, p, m)]
           news == {NewPeer(n, p, m) : p \in s}
<1>1. news = {f[p] : p \in s} /\ f = [p \in s |-> f[p]]
  OBVIOUS
<1>2. IsFiniteSet(news) /\ Cardinality(news) <= Cardinality(s)
  <2>1. IsFiniteSet({f[p] : p \in s}) /\ Cardinality({f[p] : p \in s}) <= Cardinality(s)
    BY <1>1, Image
  <2> HIDE DEF f, news
  <2> QED
    BY <1>1, <2>1
<1>3. Answer(n, m, s) = {NodesResponse(n, m, s)} \cup news
  BY DEF Answer
<1>4. /\ \A msg \in news : msg.type = "NewPeer"
      /\ NodesResponse(n, m, s).type = "Nodes"
  BY DEF NewPeer, NodesResponse
<1>5. /\ Of(Answer(n, m, s), "Nodes") = {NodesResponse(n, m, s)}
      /\ Of(Answer(n, m, s), "NewPeer") = news
      /\ \A type : type \notin {"Nodes", "NewPeer"} => Of(Answer(n, m, s), type) = {}
  BY <1>3, <1>4 DEF Of
<1>6. IsFiniteSet(Answer(n, m, s))
  <2>1. IsFiniteSet({NodesResponse(n, m, s)})
    BY FS_Singleton
  <2> HIDE DEF news
  <2>2. IsFiniteSet({NodesResponse(n, m, s)} \cup news)
    BY <1>2, <2>1, FS_Union
  <2> QED
    BY <1>3, <2>2
<1>7. Cardinality({NodesResponse(n, m, s)}) = 1
  BY FS_Singleton
<1> QED
  BY <1>2, <1>5, <1>6, <1>7

\* Sending adds no more messages of a type than are sent.
LEMMA SendCount ==
    ASSUME IsFiniteSet(mail), NEW sends, IsFiniteSet(sends), NEW type,
           mail' \subseteq mail \cup sends
    PROVE  /\ IsFiniteSet(mail')
           /\ Cardinality(Of(sends, type)) \in Nat
           /\ Cardinality(Waiting(type)') <= Cardinality(Waiting(type)) + Cardinality(Of(sends, type))
<1>1. IsFiniteSet(mail \cup sends)
  BY FS_Union
<1>2. IsFiniteSet(Of(mail, type)) /\ IsFiniteSet(Of(sends, type))
  BY FS_Subset DEF Of
<1>3. Waiting(type)' \subseteq Of(mail, type) \cup Of(sends, type)
  BY DEF Waiting, Of
<1>4. /\ IsFiniteSet(Of(mail, type) \cup Of(sends, type))
      /\ Cardinality(Of(mail, type) \cup Of(sends, type))
           = Cardinality(Of(mail, type)) + Cardinality(Of(sends, type))
               - Cardinality(Of(mail, type) \cap Of(sends, type))
  BY <1>2, FS_Union
<1>5. IsFiniteSet(Of(mail, type) \cap Of(sends, type))
  BY <1>2, FS_Intersection
<1>6. Cardinality(Waiting(type)') <= Cardinality(Of(mail, type) \cup Of(sends, type))
  BY <1>3, <1>4, FS_Subset
<1>7. /\ Cardinality(Of(mail, type)) \in Nat /\ Cardinality(Of(sends, type)) \in Nat
      /\ Cardinality(Of(mail, type) \cap Of(sends, type)) \in Nat
  BY <1>2, <1>5, FS_CardinalityType
<1>8. IsFiniteSet(Waiting(type)')
  BY <1>3, <1>4, FS_Subset
<1>9. Cardinality(Waiting(type)') \in Nat
  BY <1>8, FS_CardinalityType
<1>10. IsFiniteSet(mail') /\ Of(mail, type) = Waiting(type)
  BY <1>1, FS_Subset DEF Of, Waiting
<1> QED
  BY <1>4, <1>6, <1>7, <1>9, <1>10

\* Taking a message either removes it or uses up a copy, and sends what is sent.
LEMMA TakeCount ==
    ASSUME TypeOK, IsFiniteSet(mail), NEW msg \in mail, NEW sends, IsFiniteSet(sends),
           Take(msg, sends)
    PROVE  /\ IsFiniteSet(mail')
           /\ \A type : Cardinality(Of(sends, type)) \in Nat
           /\ \A type : Cardinality(Waiting(type)')
                           <= Cardinality(Waiting(type)) + Cardinality(Of(sends, type))
           /\ \/ /\ copies' = copies
                 /\ Cardinality(Waiting(msg.type)')
                      <= Cardinality(Waiting(msg.type)) - 1 + Cardinality(Of(sends, msg.type))
              \/ copies' = copies + 1 /\ copies' <= MaxCopies
<1>1. mail' \subseteq mail \cup sends
  BY DEF Take
<1>2. CASE mail' = (mail \ {msg}) \cup sends /\ UNCHANGED copies
  <2> DEFINE rest == Of(mail, msg.type) \ {msg}
             sent == Of(sends, msg.type)
  <2>1. IsFiniteSet(Of(mail, msg.type)) /\ IsFiniteSet(sent) /\ msg \in Of(mail, msg.type)
    BY FS_Subset DEF Of
  <2>2. IsFiniteSet(rest) /\ Cardinality(rest) = Cardinality(Of(mail, msg.type)) - 1
    BY <2>1, FS_RemoveElement
  <2>3. /\ IsFiniteSet(rest \cup sent) /\ IsFiniteSet(rest \cap sent)
        /\ Cardinality(rest \cup sent)
             = Cardinality(rest) + Cardinality(sent) - Cardinality(rest \cap sent)
    BY <2>1, <2>2, FS_Union, FS_Intersection
  <2>4. Waiting(msg.type)' \subseteq rest \cup sent
    BY <1>2 DEF Waiting, Of
  <2>5. /\ IsFiniteSet(Waiting(msg.type)')
        /\ Cardinality(Waiting(msg.type)') <= Cardinality(rest \cup sent)
    BY <2>3, <2>4, FS_Subset
  <2>6. /\ Cardinality(Of(mail, msg.type)) \in Nat /\ Cardinality(sent) \in Nat
        /\ Cardinality(rest \cap sent) \in Nat /\ Cardinality(Waiting(msg.type)') \in Nat
        /\ Cardinality(rest) \in Nat
    BY <2>1, <2>2, <2>3, <2>5, FS_CardinalityType
  <2>7. Waiting(msg.type) = Of(mail, msg.type)
    BY DEF Waiting, Of
  <2>8. Cardinality(Waiting(msg.type)')
          <= Cardinality(Waiting(msg.type)) - 1 + Cardinality(sent)
    BY <2>2, <2>3, <2>5, <2>6, <2>7
  <2> QED
    BY <1>1, <1>2, <2>8, SendCount
<1>3. CASE copies < MaxCopies /\ copies' = copies + 1
  BY <1>1, <1>3, SendCount, DiscoveryAssumption DEF TypeOK
<1> QED
  BY <1>2, <1>3 DEF Take

\* The parts of the rank are natural numbers, and tables that grow leave fewer peers unknown.
LEMMA RankParts ==
    ASSUME TypeOK, IsFiniteSet(mail)
    PROVE  /\ \A type : Cardinality(Waiting(type)) \in Nat
           /\ IsFiniteSet(Unknown) /\ Cardinality(Unknown) \in Nat
           /\ IsFiniteSet(Undialed) /\ Cardinality(Undialed) \in Nat
           /\ IsFiniteSet(Nodes \ pinged) /\ Cardinality(Nodes \ pinged) \in Nat
           /\ MaxCopies - copies \in Nat
           /\ Cardinality(Nodes) \in Nat /\ Weight \in Nat /\ Weight = Cardinality(Nodes) + 2
<1>1. IsFiniteSet(Nodes)
  BY DiscoveryAssumption
<1>2. \A type : IsFiniteSet(Waiting(type))
  BY FS_Subset DEF Waiting
<1>3. IsFiniteSet(Unknown)
  BY <1>1, FS_Product, FS_Subset DEF Unknown
<1>4. IsFiniteSet(Undialed) /\ IsFiniteSet(Nodes \ pinged)
  BY <1>1, FS_Subset DEF Undialed
<1>5. MaxCopies - copies \in Nat
  BY DiscoveryAssumption DEF TypeOK
<1>6. Cardinality(Nodes) \in Nat
  BY <1>1, FS_CardinalityType
<1> QED
  BY <1>2, <1>3, <1>4, <1>5, <1>6, FS_CardinalityType DEF Weight

\* While tables only grow, no more peers are unknown than before.
LEMMA UnknownShrinks ==
    ASSUME TypeOK, IsFiniteSet(mail), \A n \in Nodes : known[n] \subseteq known'[n]
    PROVE  Cardinality(Unknown') <= Cardinality(Unknown)
<1>1. Unknown' \subseteq Unknown
  BY DEF Unknown
<1> QED
  BY <1>1, RankParts, FS_Subset

\* A product grows with its factor.
LEMMA Scale ==
    ASSUME NEW w \in Nat, NEW a \in Nat, NEW b \in Nat
    PROVE  /\ a <= b => w * a <= w * b
           /\ a < b => w * a + w <= w * b
           /\ w * a \in Nat /\ w * b \in Nat
<1>1. ASSUME NEW c \in Nat, NEW d \in Nat, c <= d PROVE w * c <= w * d
  <2>1. d = c + (d - c) /\ d - c \in Nat
    BY <1>1
  <2>2. w * (d - c) \in Nat /\ w * c \in Nat
    BY <2>1
  <2>3. w * d = w * c + w * (d - c)
    BY <2>1
  <2> QED
    BY <2>2, <2>3
<1>2. ASSUME a < b PROVE w * a + w <= w * b
  <2>1. a + 1 \in Nat /\ a + 1 <= b
    BY <1>2
  <2>2. w * (a + 1) <= w * b
    BY <2>1, <1>1
  <2>3. w * (a + 1) = w * a + w
    OBVIOUS
  <2> QED
    BY <2>2, <2>3
<1> QED
  BY <1>1, <1>2

\* What messages other than requests add to the rank.
Small(msgs) ==
    Cardinality(Of(msgs, "Nodes")) + Cardinality(Of(msgs, "NewPeer"))
      + Cardinality(Of(msgs, "Pong")) + 2 * Cardinality(Of(msgs, "Ping"))

\* What can still start a request.
Large == Cardinality(Waiting("FindNode")) + Cardinality(Unknown) + (MaxCopies - copies)

\* The rank is made of these two, of the nodes that may dial and of those that may ping.
LEMMA RankSum ==
    TypeOK /\ IsFiniteSet(mail) =>
        /\ Rank = Weight * Large + (Weight + 1) * Cardinality(Undialed) + Small(mail)
                    + 3 * Cardinality(Nodes \ pinged)
        /\ Large \in Nat /\ Small(mail) \in Nat
<1> SUFFICES ASSUME TypeOK, IsFiniteSet(mail)
             PROVE  /\ Rank = Weight * Large + (Weight + 1) * Cardinality(Undialed) + Small(mail)
                                + 3 * Cardinality(Nodes \ pinged)
                    /\ Large \in Nat /\ Small(mail) \in Nat
  OBVIOUS
<1>1. \A type : Waiting(type) = Of(mail, type)
  BY DEF Waiting, Of
<1>2. /\ \A type : Cardinality(Waiting(type)) \in Nat
      /\ Cardinality(Unknown) \in Nat /\ MaxCopies - copies \in Nat
      /\ Cardinality(Undialed) \in Nat /\ Cardinality(Nodes \ pinged) \in Nat /\ Weight \in Nat
  BY RankParts
<1>3. Large \in Nat /\ Small(mail) \in Nat
  BY <1>1, <1>2 DEF Large, Small
<1>4. Weight * Large \in Nat /\ (Weight + 1) * Cardinality(Undialed) \in Nat
  BY <1>2, <1>3
<1> DEFINE w(type) == Cardinality(Waiting(type))
<1>5. Small(mail) = w("Nodes") + w("NewPeer") + w("Pong") + 2 * w("Ping")
  BY <1>1 DEF Small
<1>6. Rank = Weight * Large + (Weight + 1) * Cardinality(Undialed)
               + w("Nodes") + w("NewPeer") + w("Pong") + 2 * w("Ping")
               + 3 * Cardinality(Nodes \ pinged)
  BY DEF Rank, Large
<1> HIDE DEF w
<1>7. w("Nodes") \in Nat /\ w("NewPeer") \in Nat /\ w("Pong") \in Nat /\ w("Ping") \in Nat
  BY <1>2 DEF w
<1> QED
  BY <1>2, <1>3, <1>4, <1>5, <1>6, <1>7

LEMMA RankSumNext ==
    (TypeOK /\ IsFiniteSet(mail) =>
        /\ Rank = Weight * Large + (Weight + 1) * Cardinality(Undialed) + Small(mail)
                    + 3 * Cardinality(Nodes \ pinged)
        /\ Large \in Nat /\ Small(mail) \in Nat)'
  BY RankSum, PTL

\* Taking a message lowers the rank if the requests sent are paid for by peers that are
\* unknown no more, and the other messages sent by the one that is taken.
LEMMA TakeLowers ==
    ASSUME TypeOK, TypeOK', IsFiniteSet(mail), NEW msg \in mail, NEW sends, IsFiniteSet(sends),
           Take(msg, sends), dialed' = dialed, pinged' = pinged,
           Cardinality(Of(sends, "FindNode")) + Cardinality(Unknown') <= Cardinality(Unknown),
           \/ msg.type = "FindNode" /\ Small(sends) < Weight
           \/ msg.type \in {"Nodes", "NewPeer", "Pong"} /\ Small(sends) = 0
           \/ msg.type = "Ping" /\ Small(sends) < 2
    PROVE  IsFiniteSet(mail') /\ Rank' < Rank
<1> DEFINE w(type) == Cardinality(Waiting(type))
           v(type) == Cardinality(Waiting(type)')
           o(type) == Cardinality(Of(sends, type))
<1>1. /\ IsFiniteSet(mail')
      /\ \A type : o(type) \in Nat
      /\ \A type : v(type) <= w(type) + o(type)
      /\ \/ copies' = copies /\ v(msg.type) <= w(msg.type) - 1 + o(msg.type)
         \/ copies' = copies + 1
  BY TakeCount
<1>2. /\ Rank = Weight * Large + (Weight + 1) * Cardinality(Undialed) + Small(mail)
                  + 3 * Cardinality(Nodes \ pinged)
      /\ Large \in Nat /\ Small(mail) \in Nat
  BY RankSum
<1>3. /\ Rank' = Weight * Large' + (Weight + 1) * Cardinality(Undialed) + Small(mail')
                   + 3 * Cardinality(Nodes \ pinged)
      /\ Large' \in Nat /\ Small(mail') \in Nat
  <2>1. (TypeOK /\ IsFiniteSet(mail))'
    BY <1>1
  <2>2. /\ Rank' = (Weight * Large + (Weight + 1) * Cardinality(Undialed) + Small(mail)
                      + 3 * Cardinality(Nodes \ pinged))'
        /\ Large' \in Nat /\ Small(mail)' \in Nat
    BY <2>1, RankSumNext
  <2>3. Undialed' = Undialed /\ Weight' = Weight /\ Small(mail)' = Small(mail')
    BY DEF Undialed, Weight, Small, Of
  <2> QED
    BY <2>2, <2>3
<1>4. /\ \A type : w(type) \in Nat
      /\ \A type : v(type) \in Nat
      /\ Cardinality(Unknown) \in Nat /\ MaxCopies - copies \in Nat
      /\ Cardinality(Undialed) \in Nat /\ Cardinality(Nodes \ pinged) \in Nat
      /\ Weight \in Nat /\ Weight >= 2
  <2>1. \A type : IsFiniteSet(Waiting(type)')
    BY <1>1, FS_Subset DEF Waiting
  <2>2. \A type : v(type) \in Nat
    BY <2>1, FS_CardinalityType
  <2> QED
    BY <2>2, RankParts
<1>5. Cardinality(Unknown') \in Nat
  <2>1. IsFiniteSet(Unknown')
    BY DiscoveryAssumption, FS_Product, FS_Subset DEF Unknown
  <2> QED
    BY <2>1, FS_CardinalityType
<1>6. /\ Small(mail) = w("Nodes") + w("NewPeer") + w("Pong") + 2 * w("Ping")
      /\ Small(mail') = v("Nodes") + v("NewPeer") + v("Pong") + 2 * v("Ping")
      /\ Small(sends) = o("Nodes") + o("NewPeer") + o("Pong") + 2 * o("Ping")
      /\ Large = w("FindNode") + Cardinality(Unknown) + (MaxCopies - copies)
      /\ Large' = v("FindNode") + Cardinality(Unknown') + (MaxCopies - copies')
  <2>1. \A type : Of(mail, type) = Waiting(type) /\ Of(mail', type) = Waiting(type)'
    BY DEF Of, Waiting
  <2> QED
    BY <2>1 DEF Small, Large
<1>7. copies \in Int /\ copies' \in Int /\ MaxCopies \in Nat
  BY DiscoveryAssumption DEF TypeOK
<1> HIDE DEF w, v, o
<1>8. \A type \in {"FindNode", "Nodes", "NewPeer", "Pong", "Ping"} :
        w(type) \in Nat /\ v(type) \in Nat /\ o(type) \in Nat /\ v(type) <= w(type) + o(type)
  BY <1>1, <1>4
<1>9. Small(mail') <= Small(mail) + Small(sends) /\ Small(sends) \in Nat
  BY <1>6, <1>8
<1> DEFINE before == Weight * Large
           after == Weight * Large'
           dials == (Weight + 1) * Cardinality(Undialed)
           pings == 3 * Cardinality(Nodes \ pinged)
<1>10. /\ Rank = before + dials + Small(mail) + pings
       /\ Rank' = after + dials + Small(mail') + pings
       /\ before \in Nat /\ after \in Nat /\ dials \in Nat /\ pings \in Nat
       /\ Large' < Large => after + Weight <= before
       /\ Large' <= Large => after <= before
  <2>1. before \in Nat /\ after \in Nat /\ dials \in Nat /\ pings \in Nat
    <3>1. before \in Nat /\ after \in Nat
      BY <1>2, <1>3, <1>4, Scale
    <3>2. Weight + 1 \in Nat /\ Cardinality(Undialed) \in Nat
      BY <1>4
    <3>3. dials \in Nat
      BY <3>2, Scale
    <3>4. pings \in Nat
      BY <1>4
    <3> QED
      BY <3>1, <3>3, <3>4
  <2>2. Large' < Large => after + Weight <= before
    BY <1>2, <1>3, <1>4, Scale
  <2>3. Large' <= Large => after <= before
    BY <1>2, <1>3, <1>4, Scale
  <2> HIDE DEF before, after, dials, pings
  <2>4. Rank = before + dials + Small(mail) + pings
    BY <1>2 DEF before, dials, pings
  <2>5. Rank' = after + dials + Small(mail') + pings
    BY <1>3 DEF after, dials, pings
  <2> QED
    BY <2>1, <2>2, <2>3, <2>4, <2>5
<1> HIDE DEF before, after, dials, pings
<1>11. (Large' < Large \/ (Large' <= Large /\ Small(mail') < Small(mail))) => Rank' < Rank
  <2>1. Small(sends) < Weight
    BY <1>4, <1>9
  <2> QED
    BY <1>2, <1>3, <1>4, <1>9, <1>10, <2>1
<1>12. Large' < Large \/ (Large' <= Large /\ Small(mail') < Small(mail))
  <2>1. o("FindNode") + Cardinality(Unknown') <= Cardinality(Unknown)
    BY DEF o
  <2>2. CASE copies' = copies + 1
    BY <1>4, <1>5, <1>6, <1>7, <1>8, <2>1, <2>2
  <2>3. CASE copies' = copies /\ v(msg.type) <= w(msg.type) - 1 + o(msg.type)
    <3>1. CASE msg.type = "FindNode"
      BY <1>4, <1>5, <1>6, <1>7, <1>8, <2>1, <2>3, <3>1
    <3>2. CASE msg.type \in {"Nodes", "NewPeer", "Pong"} /\ Small(sends) = 0
      BY <1>4, <1>5, <1>6, <1>7, <1>8, <2>1, <2>3, <3>2
    <3>3. CASE msg.type = "Ping" /\ Small(sends) < 2
      BY <1>4, <1>5, <1>6, <1>7, <1>8, <2>1, <2>3, <3>3
    <3> QED
      BY <3>1, <3>2, <3>3
  <2> QED
    BY <1>1, <2>2, <2>3
<1> QED
  BY <1>1, <1>11, <1>12

\* Dialing and pinging use up what they may send.
LEMMA SendingLowers ==
    ASSUME TypeOK, TypeOK', IsFiniteSet(mail), NEW n \in Nodes, NEW node \in Nodes,
           Bootstrap(n, node) \/ SendPing(n, node)
    PROVE  IsFiniteSet(mail') /\ Rank' < Rank
<1> DEFINE sends == IF Bootstrap(n, node) THEN Requests(n, {node}) ELSE {Ping(n, node)}
           w(type) == Cardinality(Waiting(type))
           v(type) == Cardinality(Waiting(type)')
           o(type) == Cardinality(Of(sends, type))
           unknown == Cardinality(Unknown)
           unknown2 == Cardinality(Unknown')
           undialed == Cardinality(Undialed)
           undialed2 == Cardinality(Undialed')
           idle == Cardinality(Nodes \ pinged)
           idle2 == Cardinality(Nodes \ pinged')
<1>1. IsFiniteSet(sends) /\ mail' = mail \cup sends
  BY RequestsCount, FS_Singleton DEF Bootstrap, SendPing
<1>2. /\ IsFiniteSet(mail')
      /\ \A type : v(type) <= w(type) + o(type) /\ o(type) \in Nat
  BY <1>1, SendCount
<1>3. unknown2 <= unknown
  <2>1. known' = known \/ known' = [known EXCEPT ![n] = @ \cup {n}]
    BY DEF Bootstrap, SendPing
  <2>2. \A k \in Nodes : known[k] \subseteq known'[k]
    BY <2>1 DEF TypeOK
  <2> QED
    BY <2>2, UnknownShrinks
<1>4. copies' = copies
  BY DEF Bootstrap, SendPing
<1>5. /\ \A type : w(type) \in Nat
      /\ unknown \in Nat /\ undialed \in Nat /\ idle \in Nat
      /\ MaxCopies - copies \in Nat /\ Weight \in Nat /\ Weight >= 2
  BY RankParts
<1>6. /\ \A type : v(type) \in Nat
      /\ unknown2 \in Nat /\ undialed2 \in Nat /\ idle2 \in Nat
  <2>1. \A type : IsFiniteSet(Waiting(type)')
    BY <1>2, FS_Subset DEF Waiting
  <2>2. IsFiniteSet(Unknown') /\ IsFiniteSet(Undialed') /\ IsFiniteSet(Nodes \ pinged')
    BY DiscoveryAssumption, FS_Product, FS_Subset DEF Unknown, Undialed
  <2> QED
    BY <2>1, <2>2, FS_CardinalityType
<1>7. /\ Rank = Weight * Large + (Weight + 1) * undialed + Small(mail) + 3 * idle
      /\ Large \in Nat /\ Small(mail) \in Nat
  BY RankSum
<1>8. /\ Rank' = Weight * Large' + (Weight + 1) * undialed2 + Small(mail') + 3 * idle2
      /\ Large' \in Nat /\ Small(mail') \in Nat
  <2>1. Small(mail)' = Small(mail') /\ Weight' = Weight
    BY DEF Small, Of, Weight
  <2> QED
    BY <1>2, <2>1, RankSumNext
<1>9. /\ Small(mail) = w("Nodes") + w("NewPeer") + w("Pong") + 2 * w("Ping")
      /\ Small(mail') = v("Nodes") + v("NewPeer") + v("Pong") + 2 * v("Ping")
      /\ Large = w("FindNode") + unknown + (MaxCopies - copies)
      /\ Large' = v("FindNode") + unknown2 + (MaxCopies - copies)
  <2>1. \A type : Of(mail, type) = Waiting(type) /\ Of(mail', type) = Waiting(type)'
    BY DEF Of, Waiting
  <2> QED
    BY <1>4, <2>1 DEF Small, Large
<1> DEFINE before == Weight * Large
           after == Weight * Large'
           dials == (Weight + 1) * undialed
           dials2 == (Weight + 1) * undialed2
<1>10. /\ before \in Nat /\ after \in Nat /\ dials \in Nat /\ dials2 \in Nat
       /\ Large' <= Large => after <= before
       /\ Large' <= Large + 1 => after <= before + Weight
       /\ undialed2 < undialed => dials2 + (Weight + 1) <= dials
  <2>1. before \in Nat /\ after \in Nat /\ (Large' <= Large => after <= before)
    BY <1>5, <1>7, <1>8, Scale
  <2>2. Weight + 1 \in Nat
    BY <1>5
  <2>3. /\ dials \in Nat /\ dials2 \in Nat
        /\ undialed2 < undialed => dials2 + (Weight + 1) <= dials
    BY <1>5, <1>6, <2>2, Scale
  <2>4. Large + 1 \in Nat /\ Weight * (Large + 1) = Weight * Large + Weight
    BY <1>5, <1>7
  <2>5. Large' <= Large + 1 => after <= before + Weight
    BY <1>5, <1>8, <2>4, Scale
  <2> QED
    BY <2>1, <2>3, <2>5
<1> HIDE DEF before, after, dials, dials2, w, v, o, unknown, unknown2, undialed, undialed2, idle, idle2
<1>11. /\ Rank = before + dials + Small(mail) + 3 * idle
       /\ Rank' = after + dials2 + Small(mail') + 3 * idle2
  BY <1>7, <1>8 DEF before, after, dials, dials2
<1>12. CASE Bootstrap(n, node)
  <2>1. sends = Requests(n, {node})
    BY <1>12
  <2>2. IsFiniteSet({node}) /\ Cardinality({node}) = 1
    BY FS_Singleton
  <2>3. /\ o("FindNode") <= 1
        /\ o("Nodes") = 0 /\ o("NewPeer") = 0 /\ o("Pong") = 0 /\ o("Ping") = 0
    BY <2>1, <2>2, RequestsCount, FS_EmptySet DEF o
  <2>4. undialed2 = undialed - 1
    <3>1. n \in Undialed /\ Undialed' = Undialed \ {n}
      BY <1>12, DiscoveryAssumption DEF Bootstrap, Undialed, TypeOK
    <3> QED
      BY <3>1, RankParts, FS_RemoveElement DEF undialed, undialed2
  <2>5. idle2 = idle
    BY <1>12 DEF Bootstrap, idle, idle2
  <2>6. /\ Large' <= Large + 1
        /\ Small(mail') <= Small(mail)
    BY <1>2, <1>3, <1>5, <1>6, <1>9, <2>3
  <2> QED
    BY <1>2, <1>5, <1>6, <1>7, <1>8, <1>10, <1>11, <2>4, <2>5, <2>6
<1>13. CASE SendPing(n, node) /\ ~Bootstrap(n, node)
  <2>1. sends = {Ping(n, node)}
    BY <1>13
  <2>2. /\ o("Ping") = 1
        /\ o("FindNode") = 0 /\ o("Nodes") = 0 /\ o("NewPeer") = 0 /\ o("Pong") = 0
    <3>1. Of(sends, "Ping") = {Ping(n, node)}
      BY <2>1 DEF Of, Ping
    <3>2. \A type \in {"FindNode", "Nodes", "NewPeer", "Pong"} : Of(sends, type) = {}
      BY <2>1 DEF Of, Ping
    <3> QED
      BY <3>1, <3>2, FS_Singleton, FS_EmptySet DEF o
  <2>3. undialed2 = undialed
    BY <1>13 DEF SendPing, undialed, undialed2, Undialed
  <2>4. idle2 = idle - 1
    <3>1. n \in Nodes \ pinged /\ Nodes \ pinged' = (Nodes \ pinged) \ {n}
      BY <1>13 DEF SendPing
    <3> QED
      <4>1. Cardinality((Nodes \ pinged) \ {n}) = Cardinality(Nodes \ pinged) - 1
        BY <3>1, RankParts, FS_RemoveElement
      <4> QED
        BY <3>1, <4>1 DEF idle, idle2
  <2>5. /\ Large' <= Large
        /\ Small(mail') <= Small(mail) + 2
    BY <1>2, <1>3, <1>5, <1>6, <1>9, <2>2
  <2>6. dials2 = dials
    BY <2>3 DEF dials, dials2
  <2> QED
    BY <1>2, <1>5, <1>6, <1>7, <1>8, <1>10, <1>11, <2>4, <2>5, <2>6
<1> QED
  BY <1>12, <1>13

\* Whatever message a node takes, and whatever it answers.
LEMMA HandlingLowers ==
    ASSUME TypeOK, TypeOK', IsFiniteSet(mail), NEW n \in Nodes, NEW msg \in mail, msg.to = n,
           Handle(n, msg)
    PROVE  IsFiniteSet(mail') /\ Rank' < Rank
<1>1. msg \in KadMessages /\ msg.from \in Nodes
  BY Shapes DEF TypeOK
<1>2. /\ Cardinality(Unknown') <= Cardinality(Unknown)
      /\ Cardinality(Unknown) \in Nat /\ Cardinality(Unknown') \in Nat
      /\ Cardinality(Nodes) \in Nat /\ Weight = Cardinality(Nodes) + 2
      /\ IsFiniteSet(Unknown)
  <2>1. \A k \in Nodes : known[k] \subseteq known'[k]
    <3>1. known' = [known EXCEPT ![n] = @ \cup Named(msg)]
      BY Takes
    <3> QED
      BY <3>1 DEF TypeOK
  <2>2. IsFiniteSet(Unknown')
    BY DiscoveryAssumption, FS_Product, FS_Subset DEF Unknown
  <2> QED
    BY <2>1, <2>2, UnknownShrinks, RankParts, FS_CardinalityType
<1>3. dialed' = dialed /\ pinged' = pinged
  BY DEF Handle, HandleFindNode, HandleNewPeer, HandleNodes, HandlePing, HandlePong
<1>4. IsFiniteSet({}) /\ Cardinality({}) = 0 /\ \A type : Of({}, type) = {}
  BY FS_EmptySet DEF Of
<1>5. CASE HandleFindNode(n, msg)
  <2>1. PICK s \in Closest(known[n] \cup {msg.from}) : Take(msg, Answer(n, msg.from, s))
    BY <1>5 DEF HandleFindNode
  <2>2. s \in SUBSET Nodes
    BY <1>1, ClosestFacts DEF TypeOK
  <2>3. IsFiniteSet(s) /\ Cardinality(s) \in Nat /\ Cardinality(s) <= Cardinality(Nodes)
    BY <2>2, DiscoveryAssumption, FS_Subset, FS_CardinalityType
  <2> DEFINE sends == Answer(n, msg.from, s)
             o(type) == Cardinality(Of(sends, type))
  <2>4. /\ IsFiniteSet(sends) /\ o("Nodes") = 1 /\ o("NewPeer") <= Cardinality(s)
        /\ o("FindNode") = 0 /\ o("Pong") = 0 /\ o("Ping") = 0
    BY <1>4, <2>3, AnswerCount
  <2>5. o("NewPeer") \in Nat
    BY <2>4, FS_Subset, FS_CardinalityType DEF Of
  <2>6. Small(sends) = o("Nodes") + o("NewPeer") + o("Pong") + 2 * o("Ping")
    BY DEF Small
  <2> HIDE DEF o
  <2>7. Small(sends) < Weight
    BY <1>2, <2>3, <2>4, <2>5, <2>6
  <2>8. Cardinality(Of(sends, "FindNode")) + Cardinality(Unknown') <= Cardinality(Unknown)
    BY <1>2, <2>4 DEF o
  <2> HIDE DEF sends
  <2>9. Take(msg, sends)
    BY <2>1 DEF sends
  <2>10. msg.type = "FindNode"
    BY <1>5 DEF HandleFindNode
  <2> QED
    BY <1>3, <2>4, <2>7, <2>8, <2>9, <2>10, TakeLowers
<1>6. CASE HandleNewPeer(n, msg) \/ HandlePong(n, msg)
  <2>1. Take(msg, {}) /\ msg.type \in {"NewPeer", "Pong"}
    BY <1>6 DEF HandleNewPeer, HandlePong
  <2>2. Small({}) = 0
    <3>1. \A type : Cardinality(Of({}, type)) = 0
      BY <1>4
    <3> QED
      BY <3>1 DEF Small
  <2>3. Cardinality(Of({}, "FindNode")) + Cardinality(Unknown') <= Cardinality(Unknown)
    BY <1>2, <1>4
  <2> QED
    BY <1>3, <1>4, <2>1, <2>2, <2>3, TakeLowers
<1>7. CASE HandleNodes(n, msg)
  <2> DEFINE new == New(n, msg.peers)
             sends == Requests(n, new)
             pairs == {n} \X new
  <2>1. new \in SUBSET Nodes /\ IsFiniteSet(new)
    <3>1. msg.peers \in SUBSET Nodes
      BY <1>1, <1>7, Shapes DEF HandleNodes
    <3> QED
      BY <3>1, DiscoveryAssumption, FS_Subset DEF New
  <2>2. /\ IsFiniteSet(sends) /\ Of(sends, "FindNode") = sends
        /\ \A type : type # "FindNode" => Of(sends, type) = {}
        /\ Cardinality(sends) <= Cardinality(new) /\ Cardinality(sends) \in Nat
        /\ Cardinality(new) \in Nat
    BY <2>1, RequestsCount, FS_CardinalityType
  <2>3. IsFiniteSet(pairs) /\ Cardinality(pairs) = Cardinality(new)
    <3>1. IsFiniteSet({n}) /\ Cardinality({n}) = 1
      BY FS_Singleton
    <3>2. IsFiniteSet(pairs) /\ Cardinality(pairs) = 1 * Cardinality(new)
      BY <2>1, <3>1, FS_Product
    <3> QED
      BY <2>2, <3>2
  <2>4. pairs \subseteq Unknown /\ Unknown' \subseteq Unknown \ pairs
    <3>1. known' = [known EXCEPT ![n] = @ \cup msg.peers]
      BY <1>7 DEF HandleNodes
    <3>2. \A pair \in pairs : pair \in Nodes \X Nodes /\ pair[1] = n /\ pair[2] \in new
      BY <2>1
    <3>3. pairs \subseteq Unknown
      BY <3>2 DEF Unknown, New
    <3>4. ASSUME NEW pair \in Unknown' PROVE pair \in Unknown /\ pair \notin pairs
      <4>1. pair \in Nodes \X Nodes /\ pair[2] \notin known'[pair[1]]
        BY DEF Unknown
      <4>2. pair \in Unknown
        BY <3>1, <4>1 DEF Unknown, TypeOK
      <4>3. pair[1] = n => pair[2] \notin msg.peers
        BY <3>1, <4>1 DEF TypeOK
      <4> QED
        BY <3>2, <4>2, <4>3 DEF New
    <3> QED
      BY <3>3, <3>4
  <2>5. Cardinality(Unknown') <= Cardinality(Unknown) - Cardinality(new)
    <3>1. Unknown \cap pairs = pairs
      BY <2>4
    <3> HIDE DEF pairs
    <3>2. /\ IsFiniteSet(Unknown \ pairs)
          /\ Cardinality(Unknown \ pairs) = Cardinality(Unknown) - Cardinality(new)
      <4>1. /\ IsFiniteSet(Unknown \ pairs)
            /\ Cardinality(Unknown \ pairs) = Cardinality(Unknown) - Cardinality(Unknown \cap pairs)
        BY <1>2, FS_Difference
      <4>2. Cardinality(Unknown \cap pairs) = Cardinality(new)
        BY <2>3, <3>1
      <4> QED
        BY <4>1, <4>2
    <3> QED
      BY <2>4, <3>2, FS_Subset
  <2>6. Cardinality(Of(sends, "FindNode")) + Cardinality(Unknown') <= Cardinality(Unknown)
    BY <1>2, <2>2, <2>5
  <2>7. Small(sends) = 0
    <3>1. \A type : type # "FindNode" => Cardinality(Of(sends, type)) = 0
      BY <1>4, <2>2
    <3> HIDE DEF sends
    <3> QED
      BY <3>1 DEF Small
  <2>8. Take(msg, sends) /\ msg.type = "Nodes"
    BY <1>7 DEF HandleNodes
  <2> HIDE DEF sends
  <2> QED
    BY <1>3, <2>2, <2>6, <2>7, <2>8, TakeLowers
<1>8. CASE HandlePing(n, msg)
  <2> DEFINE sends == {Pong(n, msg.from)}
  <2>1. IsFiniteSet(sends) /\ Cardinality(sends) = 1
    BY FS_Singleton
  <2>2. /\ Of(sends, "Pong") = sends
        /\ \A type : type # "Pong" => Of(sends, type) = {}
    BY DEF Of, Pong
  <2>3. Small(sends) < 2
    <3>1. /\ Cardinality(Of(sends, "Pong")) = 1 /\ Cardinality(Of(sends, "Ping")) = 0
          /\ Cardinality(Of(sends, "Nodes")) = 0 /\ Cardinality(Of(sends, "NewPeer")) = 0
      BY <1>4, <2>1, <2>2
    <3> HIDE DEF sends
    <3> QED
      BY <3>1 DEF Small
  <2>4. Cardinality(Of(sends, "FindNode")) + Cardinality(Unknown') <= Cardinality(Unknown)
    BY <1>2, <1>4, <2>2
  <2>5. Take(msg, sends) /\ msg.type = "Ping"
    BY <1>8 DEF HandlePing
  <2> HIDE DEF sends
  <2> QED
    BY <1>3, <2>1, <2>3, <2>4, <2>5, TakeLowers
<1> QED
  BY <1>5, <1>6, <1>7, <1>8 DEF Handle

\* Every step of the gossip threads lowers the rank: a request starts announcements, a
\* response requests, but each is paid for, by a peer that was unknown, a node that had not
\* dialed or pinged, or a copy.  As the rank is a natural number, discovery takes no more steps
\* than the rank it starts with.
THEOREM RunsOutAlways == Spec => [](Rank \in Nat) /\ RunsOut
<1>1. Init => TypeOK /\ IsFiniteSet(mail)
  BY InitType, FS_EmptySet DEF Init
<1>2. TypeOK /\ IsFiniteSet(mail) /\ [Next]_vars
        => (TypeOK /\ IsFiniteSet(mail))' /\ [Rank' < Rank]_vars
  <2> SUFFICES ASSUME TypeOK, IsFiniteSet(mail), [Next]_vars
               PROVE  (TypeOK /\ IsFiniteSet(mail))' /\ [Rank' < Rank]_vars
    OBVIOUS
  <2>1. TypeOK'
    BY NextType
  <2>2. ASSUME Next PROVE IsFiniteSet(mail') /\ Rank' < Rank
    <3>1. ASSUME NEW n \in Nodes, NEW node \in Nodes, Bootstrap(n, node) \/ SendPing(n, node)
          PROVE  IsFiniteSet(mail') /\ Rank' < Rank
      BY <2>1, <3>1, SendingLowers
    <3>2. ASSUME NEW n \in Nodes, NEW msg \in mail, msg.to = n, Handle(n, msg)
          PROVE  IsFiniteSet(mail') /\ Rank' < Rank
      BY <2>1, <3>2, HandlingLowers
    <3> QED
      BY <2>2, <3>1, <3>2, DiscoveryAssumption DEF Next, Recv
  <2>3. CASE UNCHANGED vars
    BY <2>1, <2>3 DEF vars
  <2> QED
    BY <2>1, <2>2, <2>3
<1>3. TypeOK /\ IsFiniteSet(mail) => Rank \in Nat
  <2> SUFFICES ASSUME TypeOK, IsFiniteSet(mail) PROVE Rank \in Nat
    OBVIOUS
  <2>1. /\ Weight \in Nat /\ Cardinality(Undialed) \in Nat /\ Cardinality(Nodes \ pinged) \in Nat
        /\ Large \in Nat /\ Small(mail) \in Nat
    BY RankParts, RankSum
  <2>2. Weight * Large \in Nat /\ (Weight + 1) * Cardinality(Undialed) \in Nat
    <3> HIDE DEF Weight, Large
    <3>1. \A a, b \in Nat : a * b \in Nat
      OBVIOUS
    <3>2. Weight + 1 \in Nat
      BY <2>1
    <3> QED
      BY <2>1, <3>1, <3>2
  <2> QED
    BY <2>1, <2>2, RankSum
<1> QED
  BY <1>1, <1>2, <1>3, PTL DEF Spec, RunsOut

\* When no message is on its way any more, and a lookup returns all peers, tables are mutual
\* and all nodes that lookup_node served know each other: with RunsOutAlways, what Acquainted
\* and Introduced claim of the end, for every set of nodes.
THEOREM RestIsMutual ==
    Spec => [](mail = {} /\ Cardinality(Nodes) <= NPeers =>
                 /\ \A n \in Nodes : \A m \in known[n] : n \in known[m]
                 /\ \A r \in Nodes : \A n, m \in served[r] : m \in known[n])
<1>1. DiscoveryInv =>
        (mail = {} /\ Cardinality(Nodes) <= NPeers =>
           /\ \A n \in Nodes : \A m \in known[n] : n \in known[m]
           /\ \A r \in Nodes : \A n, m \in served[r] : m \in known[n])
  BY DEF DiscoveryInv, MutualOrPending, IntroducedOrPending, Learns, WillLearn
<1> QED
  BY <1>1, DiscoveryInvariant, PTL
=============================================================================
