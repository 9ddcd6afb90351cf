----------------------------- MODULE GossipProofs -----------------------------
(* Proofs of the safety properties of Gossip, for every set of nodes, tables,   *)
(* history lengths and lateness of heartbeats.                                  *)
EXTENDS Gossip, FiniteSetTheorems, TLAPS

------------------------------------------------------------------------------
(* Types.                                                                       *)

LEMMA InitType == Init => TypeOK
  BY GossipAssumption DEF Init, TypeOK

LEMMA SampleType ==
    ASSUME TypeOK, NEW n \in Nodes, NEW source, NEW s \in Sample(n, source)
    PROVE  s \in SUBSET Nodes
  BY DEF Sample, TypeOK

LEMMA SentType ==
    ASSUME NEW n \in Nodes, NEW m \in Messages, NEW s \in SUBSET Nodes
    PROVE  Sent(n, m, s) \subseteq Letters
  BY DEF Sent, Letters

LEMMA NextType == TypeOK /\ [Next]_vars => TypeOK'
<1> SUFFICES ASSUME TypeOK, [Next]_vars PROVE TypeOK'
  OBVIOUS
<1>1. ASSUME NEW m \in Messages, Type(m) PROVE TypeOK'
  BY <1>1, GossipAssumption DEF Type, TypeOK, Letters
<1>2. ASSUME NEW n \in Nodes, NEW letter \in mail, Ignore(n, letter) PROVE TypeOK'
  BY <1>2 DEF Ignore, Taken, TypeOK
<1>3. ASSUME NEW n \in Nodes, NEW letter \in mail, CacheOwn(n, letter) PROVE TypeOK'
  <2>1. letter.msg \in Messages /\ 0 \in 0..HistoryLen
    BY GossipAssumption DEF TypeOK, Letters
  <2> QED
    BY <1>3, <2>1 DEF CacheOwn, TypeOK
<1>4. ASSUME NEW n \in Nodes, NEW letter \in mail, Deliver(n, letter) PROVE TypeOK'
  <2>1. letter.msg \in Messages /\ 0 \in 0..HistoryLen
    BY GossipAssumption DEF TypeOK, Letters
  <2>2. mail' \subseteq Letters
    <3>1. PICK peers \in Sample(n, SourcePeer(n, letter.from)), rest \in Taken(letter) :
            mail' = rest \cup Sent(n, letter.msg, peers)
      BY <1>4 DEF Deliver
    <3>2. Sent(n, letter.msg, peers) \subseteq Letters
      BY <2>1, SampleType, SentType
    <3> QED
      BY <3>1, <3>2 DEF Taken, TypeOK
  <2>3. cache' \in [Nodes -> [Messages -> 0..HistoryLen \cup {Absent}]]
    BY <1>4, <2>1 DEF Deliver, TypeOK
  <2>4. delivered' \in [Nodes -> [Messages -> Nat]]
    BY <1>4, <2>1 DEF Deliver, TypeOK
  <2>5. told' \in [Nodes -> [Messages -> SUBSET Nodes]]
    BY <1>4, <2>1 DEF Deliver, TypeOK
  <2> QED
    BY <1>4, <2>2, <2>3, <2>4, <2>5 DEF Deliver, TypeOK
<1>5. ASSUME NEW n \in Nodes, NEW elapsed \in 1..MaxBeat, Gossip(n, elapsed) PROVE TypeOK'
  <2>1. mail' \subseteq Letters
    <3>1. PICK peers \in [Young(n, elapsed) -> Sample(n, {})] :
            mail' = mail \cup UNION {Sent(n, m, peers[m]) : m \in Young(n, elapsed)}
      BY <1>5 DEF Gossip
    <3>2. \A m \in Young(n, elapsed) : m \in Messages /\ peers[m] \in SUBSET Nodes
      BY SampleType DEF Young, Cached
    <3>3. \A m \in Young(n, elapsed) : Sent(n, m, peers[m]) \subseteq Letters
      BY <3>2, SentType
    <3> QED
      BY <3>1, <3>3 DEF TypeOK
  <2>2. ASSUME NEW m \in Messages, m \in Cached(n), m \notin Old(n, elapsed)
        PROVE  cache[n][m] + elapsed \in 0..HistoryLen
    <3>1. cache[n][m] \in 0..HistoryLen
      BY <2>2 DEF Cached, TypeOK
    <3>2. ~(cache[n][m] + elapsed > HistoryLen)
      BY <2>2 DEF Old
    <3> QED
      BY <3>1, <3>2, GossipAssumption
  <2>3. cache' \in [Nodes -> [Messages -> 0..HistoryLen \cup {Absent}]]
    BY <1>5, <2>2 DEF Gossip, TypeOK
  <2>4. gossiped' \in [Nodes -> [Messages -> Nat]]
    BY <1>5 DEF Gossip, TypeOK
  <2>5. dropped' \in [Nodes -> [Messages -> Nat]]
    BY <1>5 DEF Gossip, TypeOK
  <2>6. told' \in [Nodes -> [Messages -> SUBSET Nodes]]
    BY <1>5 DEF Gossip, TypeOK
  <2> QED
    BY <1>5, <2>1, <2>3, <2>4, <2>5, <2>6 DEF Gossip, TypeOK
<1>6. ASSUME NEW n \in Nodes, Learn(n) PROVE TypeOK'
  <2>1. PICK new \in SUBSET (Reachable[n] \ known[n]) :
          known' = [known EXCEPT ![n] = @ \cup new]
    BY <1>6 DEF Learn
  <2>2. new \in SUBSET Nodes
    BY <2>1, GossipAssumption
  <2>3. known' \in [Nodes -> SUBSET Nodes]
    BY <2>1, <2>2 DEF TypeOK
  <2> QED
    BY <1>6, <2>3 DEF Learn, TypeOK
<1>7. CASE UNCHANGED vars
  BY <1>7 DEF vars, TypeOK
<1> QED
  BY <1>1, <1>2, <1>3, <1>4, <1>5, <1>6, <1>7 DEF Next, Recv, Heartbeat

------------------------------------------------------------------------------
(* What every step does.                                                        *)

\* Nobody forgets that a message was had, and messages keep their author.
LEMMA SeenStays ==
    ASSUME TypeOK, [Next]_vars, NEW n \in Nodes, NEW m \in Messages, Seen(n, m)
    PROVE  Seen(n, m)'
<1>1. ASSUME NEW k \in Messages, Type(k) PROVE Seen(n, m)'
  BY <1>1 DEF Type, Seen
<1>2. ASSUME NEW k \in Nodes, NEW letter \in mail, Ignore(k, letter) PROVE Seen(n, m)'
  BY <1>2 DEF Ignore, Seen
<1>3. ASSUME NEW k \in Nodes, NEW letter \in mail,
             CacheOwn(k, letter) \/ Deliver(k, letter)
      PROVE  Seen(n, m)'
  <2>1. letter.msg \in Messages
    BY DEF TypeOK, Letters
  <2>2. /\ cache' = [cache EXCEPT ![k][letter.msg] = 0]
        /\ dropped' = dropped
    BY <1>3 DEF CacheOwn, Deliver
  <2>3. CASE n = k /\ m = letter.msg
    <3>1. cache'[n][m] = 0
      BY <2>1, <2>2, <2>3 DEF TypeOK
    <3> QED
      BY <3>1, GossipAssumption DEF Seen
  <2>4. CASE ~(n = k /\ m = letter.msg)
    <3>1. cache'[n][m] = cache[n][m]
      BY <2>1, <2>2, <2>4 DEF TypeOK
    <3> QED
      BY <2>2, <3>1 DEF Seen
  <2> QED
    BY <2>3, <2>4
<1>4. ASSUME NEW k \in Nodes, NEW elapsed \in 1..MaxBeat, Gossip(k, elapsed)
      PROVE  Seen(n, m)'
  <2>1. CASE n # k
    BY <1>4, <2>1 DEF Gossip, Seen, TypeOK
  <2>2. CASE n = k
    <3>1. CASE m \in Old(k, elapsed)
      BY <1>4, <2>2, <3>1 DEF Gossip, Seen, TypeOK
    <3>2. CASE m \notin Cached(k)
      BY <1>4, <2>2, <3>2 DEF Gossip, Seen, TypeOK, Cached, Old
    <3>3. CASE m \in Cached(k) \ Old(k, elapsed)
      <4>1. cache'[n][m] = cache[n][m] + elapsed /\ cache[n][m] \in Nat
        BY <1>4, <2>2, <3>3 DEF Gossip, TypeOK, Cached
      <4> QED
        BY <4>1, GossipAssumption DEF Seen
    <3> QED
      BY <3>1, <3>2, <3>3
  <2> QED
    BY <2>1, <2>2
<1>5. CASE UNCHANGED <<cache, dropped>>
  BY <1>5 DEF Seen
<1> QED
  BY <1>1, <1>2, <1>3, <1>4, <1>5 DEF Next, Learn, Recv, Heartbeat, vars

\* Who caches a message has had it from then on.
LEMMA CachedIsSeen ==
    ASSUME TypeOK, NEW n \in Nodes, NEW letter \in mail,
           CacheOwn(n, letter) \/ Deliver(n, letter)
    PROVE  /\ Seen(n, letter.msg)'
           /\ \A k \in Nodes, m \in Messages :
                 ~(k = n /\ m = letter.msg) => Seen(k, m)' = Seen(k, m)
<1>1. letter.msg \in Messages
  BY DEF TypeOK, Letters
<1>2. /\ cache' = [cache EXCEPT ![n][letter.msg] = 0]
      /\ dropped' = dropped
  BY DEF CacheOwn, Deliver
<1>3. Seen(n, letter.msg)'
  BY <1>1, <1>2, GossipAssumption DEF TypeOK, Seen
<1>4. \A k \in Nodes, m \in Messages :
         ~(k = n /\ m = letter.msg) => cache'[k][m] = cache[k][m]
  BY <1>1, <1>2 DEF TypeOK
<1> QED
  BY <1>2, <1>3, <1>4 DEF Seen

\* A heartbeat changes only its own node's counters, and makes nobody have a message.
LEMMA GossipSeen ==
    ASSUME TypeOK, NEW n \in Nodes, NEW elapsed \in 1..MaxBeat, Gossip(n, elapsed),
           NEW k \in Nodes, NEW m \in Messages, Seen(k, m)'
    PROVE  Seen(k, m)
  BY DEF Gossip, Seen, TypeOK, Old, Cached

\* What a heartbeat does to a message that was cached, and that it leaves the rest alone.
LEMMA GossipEntry ==
    ASSUME TypeOK, NEW n \in Nodes, NEW elapsed \in 1..MaxBeat, Gossip(n, elapsed),
           NEW k \in Nodes, NEW m \in Messages
    PROVE  \/ /\ cache'[k][m] = cache[k][m] /\ gossiped'[k][m] = gossiped[k][m]
              /\ dropped'[k][m] = dropped[k][m]
           \/ /\ k = n /\ cache[k][m] \in Nat /\ elapsed \in Nat /\ elapsed > 0
              /\ \/ /\ cache[k][m] + elapsed <= HistoryGossip
                    /\ gossiped'[k][m] = gossiped[k][m] + 1
                    /\ cache'[k][m] = cache[k][m] + elapsed
                    /\ dropped'[k][m] = dropped[k][m]
                 \/ /\ gossiped'[k][m] = gossiped[k][m]
                    /\ cache'[k][m] = cache[k][m] + elapsed
                    /\ dropped'[k][m] = dropped[k][m]
                 \/ /\ gossiped'[k][m] = gossiped[k][m]
                    /\ cache'[k][m] = Absent
                    /\ dropped'[k][m] = dropped[k][m] + 1
<1>1. elapsed \in Nat /\ elapsed > 0
  BY GossipAssumption
<1>2. CASE k # n
  BY <1>2 DEF Gossip, TypeOK
<1>3. CASE k = n /\ m \notin Cached(n)
  BY <1>3 DEF Gossip, TypeOK, Cached, Young, Old
<1>4. CASE k = n /\ m \in Cached(n)
  <2>1. cache[n][m] \in 0..HistoryLen
    BY <1>4 DEF Cached, TypeOK
  <2>2. cache[n][m] \in Nat /\ cache[n][m] <= HistoryLen
    BY <2>1, GossipAssumption
  <2>3. /\ gossiped'[n][m] = IF m \in Young(n, elapsed) THEN gossiped[n][m] + 1
                             ELSE gossiped[n][m]
        /\ dropped'[n][m] = IF m \in Old(n, elapsed) THEN dropped[n][m] + 1
                            ELSE dropped[n][m]
        /\ cache'[n][m] = IF m \in Old(n, elapsed) THEN Absent ELSE cache[n][m] + elapsed
    BY <1>4 DEF Gossip, TypeOK
  <2>4. CASE m \in Young(n, elapsed)
    <3>1. cache[n][m] + elapsed <= HistoryGossip
      BY <2>4 DEF Young
    <3>2. m \notin Old(n, elapsed)
      BY <1>1, <2>2, <3>1, GossipAssumption DEF Old
    <3> QED
      BY <1>1, <1>4, <2>2, <2>3, <2>4, <3>1, <3>2
  <2>5. CASE m \notin Young(n, elapsed)
    BY <1>1, <1>4, <2>2, <2>3, <2>5
  <2> QED
    BY <2>4, <2>5
<1> QED
  BY <1>2, <1>3, <1>4

------------------------------------------------------------------------------
(* Each conjunct of the invariant.                                              *)

LEMMA SourceStep ==
    ASSUME TypeOK, SourceInv, [Next]_vars PROVE SourceInv'
<1> USE GossipAssumption
<1>1. ASSUME NEW letter \in mail
      PROVE  IF letter.from = Stdin THEN letter.to = Author[letter.msg]
             ELSE Seen(letter.from, letter.msg)'
  <2>1. letter.msg \in Messages /\ (letter.from # Stdin => letter.from \in Nodes)
    BY DEF TypeOK, Letters
  <2>2. CASE letter.from = Stdin
    BY <2>2 DEF SourceInv
  <2>3. CASE letter.from # Stdin
    <3>1. Seen(letter.from, letter.msg)
      BY <2>3 DEF SourceInv
    <3>2. Seen(letter.from, letter.msg)'
      BY <2>1, <2>3, <3>1, SeenStays
    <3> QED
      BY <2>3, <3>2
  <2> QED
    BY <2>2, <2>3
<1>2. ASSUME NEW n \in Nodes, NEW m \in Messages, Seen(n, m)
      PROVE  Seen(Author[m], m)'
  <2>1. Author[m] \in Nodes /\ Seen(Author[m], m)
    BY <1>2 DEF SourceInv
  <2> QED
    BY <2>1, SeenStays
<1>3. ASSUME NEW m \in Messages, Type(m) PROVE SourceInv'
  <2>1. \A k \in Nodes, l \in Messages : Seen(k, l)' = Seen(k, l)
    BY <1>3 DEF Type, Seen
  <2>2. \A letter \in mail' : letter \in mail
                              \/ letter = [from |-> Stdin, to |-> Author[m], msg |-> m]
    BY <1>3 DEF Type
  <2> QED
    BY <1>1, <1>2, <2>1, <2>2 DEF SourceInv
<1>4. ASSUME NEW n \in Nodes, NEW letter \in mail, Ignore(n, letter) PROVE SourceInv'
  <2>1. \A k \in Nodes, l \in Messages : Seen(k, l)' = Seen(k, l)
    BY <1>4 DEF Ignore, Seen
  <2>2. mail' \subseteq mail
    BY <1>4 DEF Ignore, Taken
  <2> QED
    BY <1>1, <1>2, <2>1, <2>2 DEF SourceInv
<1>5. ASSUME NEW n \in Nodes, NEW letter \in mail, letter.to = n,
             CacheOwn(n, letter) \/ Deliver(n, letter)
      PROVE  SourceInv'
  <2>1. letter.msg \in Messages /\ (letter.from # Stdin => letter.from \in Nodes)
    BY DEF TypeOK, Letters
  <2>2. Seen(n, letter.msg)'
    BY <1>5, CachedIsSeen
  <2>3. Seen(Author[letter.msg], letter.msg)'
    <3>1. CASE letter.from = Stdin
      BY <1>5, <2>2, <3>1 DEF SourceInv, Seen
    <3>2. CASE letter.from # Stdin
      <4>1. Seen(letter.from, letter.msg)
        BY <3>2 DEF SourceInv
      <4> QED
        BY <1>2, <2>1, <3>2, <4>1
    <3> QED
      BY <3>1, <3>2
  <2>4. ASSUME NEW k \in Nodes, NEW m \in Messages, Seen(k, m)'
        PROVE  Seen(Author[m], m)'
    <3>1. CASE k = n /\ m = letter.msg
      BY <2>3, <3>1 DEF Seen
    <3>2. CASE ~(k = n /\ m = letter.msg)
      <4>1. Seen(k, m)
        BY <1>5, <2>4, <3>2, CachedIsSeen
      <4> QED
        BY <1>2, <4>1
    <3> QED
      BY <3>1, <3>2
  <2>5. ASSUME NEW new \in mail', new \notin mail
        PROVE  new.from # Stdin /\ Seen(new.from, new.msg)'
    <3>1. Deliver(n, letter)
      BY <1>5, <2>5 DEF CacheOwn
    <3>2. PICK peers \in Sample(n, SourcePeer(n, letter.from)), rest \in Taken(letter) :
            mail' = rest \cup Sent(n, letter.msg, peers)
      BY <3>1 DEF Deliver
    <3>3. new.from = n /\ new.msg = letter.msg
      BY <2>5, <3>2 DEF Taken, Sent
    <3> QED
      BY <2>2, <3>3 DEF Seen
  <2> QED
    BY <1>1, <2>4, <2>5 DEF SourceInv
<1>6. ASSUME NEW n \in Nodes, NEW elapsed \in 1..MaxBeat, Gossip(n, elapsed)
      PROVE  SourceInv'
  <2>1. ASSUME NEW k \in Nodes, NEW m \in Messages, Seen(k, m)'
        PROVE  Seen(Author[m], m)'
    BY <1>2, <1>6, <2>1, GossipSeen
  <2>2. ASSUME NEW new \in mail', new \notin mail
        PROVE  new.from # Stdin /\ Seen(new.from, new.msg)'
    <3>1. PICK m \in Young(n, elapsed) : new.from = n /\ new.msg = m
      BY <1>6, <2>2 DEF Gossip, Sent
    <3>2. m \in Messages /\ Seen(n, m)
      BY <3>1 DEF Young, Cached, Seen
    <3>3. Seen(n, m)'
      BY <3>2, SeenStays
    <3> QED
      BY <3>1, <3>3 DEF Seen
  <2> QED
    BY <1>1, <2>1, <2>2 DEF SourceInv
<1>7. CASE UNCHANGED <<cache, mail, dropped>>
  BY <1>7 DEF SourceInv, Seen
<1> QED
  BY <1>3, <1>4, <1>5, <1>6, <1>7 DEF Next, Learn, Recv, Heartbeat, vars

LEMMA BeatStep ==
    ASSUME TypeOK, BeatInv, [Next]_vars PROVE BeatInv'
<1> SUFFICES ASSUME NEW k \in Nodes, NEW m \in Messages
             PROVE  IF cache'[k][m] = Absent
                    THEN gossiped'[k][m] <= HistoryGossip * dropped'[k][m]
                    ELSE /\ gossiped'[k][m]
                              <= HistoryGossip * dropped'[k][m] + cache'[k][m]
                         /\ gossiped'[k][m]
                              <= HistoryGossip * dropped'[k][m] + HistoryGossip
  BY DEF BeatInv
<1>1. /\ gossiped[k][m] \in Nat /\ dropped[k][m] \in Nat
      /\ cache[k][m] # Absent => cache[k][m] \in Nat
      /\ HistoryGossip \in Nat /\ Absent \notin Nat
  BY GossipAssumption DEF TypeOK
<1>2. IF cache[k][m] = Absent THEN gossiped[k][m] <= HistoryGossip * dropped[k][m]
      ELSE /\ gossiped[k][m] <= HistoryGossip * dropped[k][m] + cache[k][m]
           /\ gossiped[k][m] <= HistoryGossip * dropped[k][m] + HistoryGossip
  BY DEF BeatInv
<1>3. CASE cache'[k][m] = cache[k][m] /\ UNCHANGED <<gossiped, dropped>>
  BY <1>2, <1>3
<1>4. ASSUME NEW n \in Nodes, NEW letter \in mail,
             CacheOwn(n, letter) \/ Deliver(n, letter), cache'[k][m] # cache[k][m]
      PROVE  /\ cache[k][m] = Absent /\ cache'[k][m] = 0
             /\ UNCHANGED <<gossiped, dropped>>
  <2>1. letter.msg \in Messages
    BY DEF TypeOK, Letters
  <2>2. /\ cache' = [cache EXCEPT ![n][letter.msg] = 0]
        /\ cache[n][letter.msg] = Absent /\ UNCHANGED <<gossiped, dropped>>
    BY <1>4 DEF CacheOwn, Deliver
  <2>3. k = n /\ m = letter.msg
    BY <1>4, <2>1, <2>2 DEF TypeOK
  <2>4. cache'[k][m] = 0
    BY <2>1, <2>2, <2>3 DEF TypeOK
  <2> QED
    BY <2>2, <2>3, <2>4
<1>5. ASSUME NEW n \in Nodes, NEW letter \in mail,
             CacheOwn(n, letter) \/ Deliver(n, letter), cache'[k][m] = cache[k][m]
      PROVE  UNCHANGED <<gossiped, dropped>>
  BY <1>5 DEF CacheOwn, Deliver
<1>6. CASE cache[k][m] = Absent /\ cache'[k][m] = 0 /\ UNCHANGED <<gossiped, dropped>>
  <2> DEFINE stays == HistoryGossip * dropped[k][m]
  <2>1. stays \in Nat
    BY <1>1
  <2>2. gossiped[k][m] <= stays
    BY <1>2, <1>6
  <2> HIDE DEF stays
  <2>3. gossiped[k][m] <= stays + 0 /\ gossiped[k][m] <= stays + HistoryGossip
    BY <1>1, <2>1, <2>2
  <2> QED
    BY <1>1, <1>6, <2>2, <2>3 DEF stays
<1>7. ASSUME NEW n \in Nodes, NEW elapsed \in 1..MaxBeat, Gossip(n, elapsed),
             ~(cache'[k][m] = cache[k][m] /\ gossiped'[k][m] = gossiped[k][m]
               /\ dropped'[k][m] = dropped[k][m])
      PROVE  IF cache'[k][m] = Absent
             THEN gossiped'[k][m] <= HistoryGossip * dropped'[k][m]
             ELSE /\ gossiped'[k][m] <= HistoryGossip * dropped'[k][m] + cache'[k][m]
                  /\ gossiped'[k][m] <= HistoryGossip * dropped'[k][m] + HistoryGossip
  <2> DEFINE stays == HistoryGossip * dropped[k][m]
  <2>1. stays \in Nat /\ HistoryGossip * (dropped[k][m] + 1) = stays + HistoryGossip
    BY <1>1
  <2>2. cache[k][m] \in Nat /\ elapsed \in Nat /\ elapsed > 0
    BY <1>7, GossipEntry
  <2>3. gossiped[k][m] <= stays + cache[k][m] /\ gossiped[k][m] <= stays + HistoryGossip
    BY <1>1, <1>2, <2>2
  <2> HIDE DEF stays
  <2>4. CASE /\ cache[k][m] + elapsed <= HistoryGossip
             /\ gossiped'[k][m] = gossiped[k][m] + 1
             /\ cache'[k][m] = cache[k][m] + elapsed
             /\ dropped'[k][m] = dropped[k][m]
    <3>1. /\ cache'[k][m] \in Nat
          /\ gossiped'[k][m] <= stays + cache'[k][m]
          /\ gossiped'[k][m] <= stays + HistoryGossip
      BY <1>1, <2>1, <2>2, <2>3, <2>4
    <3> QED
      BY <1>1, <2>4, <3>1 DEF stays
  <2>5. CASE /\ gossiped'[k][m] = gossiped[k][m]
             /\ cache'[k][m] = cache[k][m] + elapsed
             /\ dropped'[k][m] = dropped[k][m]
    <3>1. /\ cache'[k][m] \in Nat
          /\ gossiped'[k][m] <= stays + cache'[k][m]
          /\ gossiped'[k][m] <= stays + HistoryGossip
      BY <1>1, <2>1, <2>2, <2>3, <2>5
    <3> QED
      BY <1>1, <2>5, <3>1 DEF stays
  <2>6. CASE /\ gossiped'[k][m] = gossiped[k][m]
             /\ cache'[k][m] = Absent
             /\ dropped'[k][m] = dropped[k][m] + 1
    BY <2>1, <2>3, <2>6
  <2> QED
    BY <1>7, <2>4, <2>5, <2>6, GossipEntry
<1>8. CASE /\ cache'[k][m] = cache[k][m] /\ gossiped'[k][m] = gossiped[k][m]
           /\ dropped'[k][m] = dropped[k][m]
  BY <1>2, <1>8
<1>9. ASSUME NEW n \in Nodes, NEW elapsed \in 1..MaxBeat, Gossip(n, elapsed)
      PROVE  IF cache'[k][m] = Absent
             THEN gossiped'[k][m] <= HistoryGossip * dropped'[k][m]
             ELSE /\ gossiped'[k][m] <= HistoryGossip * dropped'[k][m] + cache'[k][m]
                  /\ gossiped'[k][m] <= HistoryGossip * dropped'[k][m] + HistoryGossip
  BY <1>7, <1>8, <1>9
<1>10. ASSUME NEW l \in Messages, Type(l)
       PROVE  IF cache'[k][m] = Absent
              THEN gossiped'[k][m] <= HistoryGossip * dropped'[k][m]
              ELSE /\ gossiped'[k][m] <= HistoryGossip * dropped'[k][m] + cache'[k][m]
                   /\ gossiped'[k][m] <= HistoryGossip * dropped'[k][m] + HistoryGossip
  BY <1>3, <1>10 DEF Type
<1>11. ASSUME NEW n \in Nodes, NEW letter \in mail, Ignore(n, letter)
       PROVE  IF cache'[k][m] = Absent
              THEN gossiped'[k][m] <= HistoryGossip * dropped'[k][m]
              ELSE /\ gossiped'[k][m] <= HistoryGossip * dropped'[k][m] + cache'[k][m]
                   /\ gossiped'[k][m] <= HistoryGossip * dropped'[k][m] + HistoryGossip
  BY <1>3, <1>11 DEF Ignore
<1>12. ASSUME NEW n \in Nodes, NEW letter \in mail, CacheOwn(n, letter) \/ Deliver(n, letter)
       PROVE  IF cache'[k][m] = Absent
              THEN gossiped'[k][m] <= HistoryGossip * dropped'[k][m]
              ELSE /\ gossiped'[k][m] <= HistoryGossip * dropped'[k][m] + cache'[k][m]
                   /\ gossiped'[k][m] <= HistoryGossip * dropped'[k][m] + HistoryGossip
  BY <1>3, <1>4, <1>5, <1>6, <1>12
<1>13. CASE UNCHANGED <<cache, gossiped, dropped>>
  BY <1>3, <1>13
<1> QED
  BY <1>9, <1>10, <1>11, <1>12, <1>13 DEF Next, Learn, Recv, Heartbeat, vars

LEMMA OnceStep ==
    ASSUME TypeOK, SourceInv, OncePerHistory, [Next]_vars PROVE OncePerHistory'
<1> SUFFICES ASSUME NEW k \in Nodes, NEW m \in Messages
             PROVE  delivered'[k][m] <= Cachings(k, m)'
                      - (IF k = Author[m] /\ Cachings(k, m)' > 0 THEN 1 ELSE 0)
  BY DEF OncePerHistory
<1>1. /\ delivered[k][m] \in Nat /\ dropped[k][m] \in Nat /\ Absent \notin Nat
      /\ Cachings(k, m) \in Nat
  BY GossipAssumption DEF TypeOK, Cachings
<1>2. delivered[k][m] <= Cachings(k, m)
        - (IF k = Author[m] /\ Cachings(k, m) > 0 THEN 1 ELSE 0)
  BY DEF OncePerHistory
<1>3. CASE delivered'[k][m] = delivered[k][m] /\ Cachings(k, m)' = Cachings(k, m)
  BY <1>2, <1>3
<1>4. ASSUME NEW n \in Nodes, NEW letter \in mail, letter.to = n,
             CacheOwn(n, letter) \/ Deliver(n, letter)
      PROVE  delivered'[k][m] <= Cachings(k, m)'
                      - (IF k = Author[m] /\ Cachings(k, m)' > 0 THEN 1 ELSE 0)
  <2>1. letter.msg \in Messages
    BY DEF TypeOK, Letters
  <2>2. /\ cache' = [cache EXCEPT ![n][letter.msg] = 0]
        /\ cache[n][letter.msg] = Absent /\ dropped' = dropped
    BY <1>4 DEF CacheOwn, Deliver
  <2>3. CASE ~(k = n /\ m = letter.msg)
    <3>1. cache'[k][m] = cache[k][m]
      BY <2>1, <2>2, <2>3 DEF TypeOK
    <3>2. delivered'[k][m] = delivered[k][m]
      BY <1>4, <2>1, <2>3 DEF CacheOwn, Deliver, TypeOK
    <3> QED
      BY <1>3, <2>2, <3>1, <3>2 DEF Cachings
  <2>4. CASE k = n /\ m = letter.msg
    <3>1. cache'[k][m] = 0
      BY <2>1, <2>2, <2>4 DEF TypeOK
    <3>2. Cachings(k, m)' = Cachings(k, m) + 1
      BY <1>1, <2>2, <2>4, <3>1 DEF Cachings
    <3>3. CASE CacheOwn(n, letter)
      <4>1. delivered'[k][m] = delivered[k][m]
        BY <3>3 DEF CacheOwn
      <4> QED
        BY <1>1, <1>2, <3>2, <4>1
    <3>4. CASE Deliver(n, letter)
      <4>1. delivered'[k][m] = delivered[k][m] + 1
        BY <2>1, <2>4, <3>4 DEF Deliver, TypeOK
      <4>2. k = Author[m] => Cachings(k, m) > 0
        <5>1. letter.from \in Nodes /\ Seen(letter.from, letter.msg)
          BY <3>4, GossipAssumption DEF Deliver, SourceInv, TypeOK, Letters
        <5>2. Seen(Author[m], m)
          BY <2>1, <2>4, <5>1 DEF SourceInv
        <5> QED
          BY <1>1, <5>2 DEF Seen, Cachings
      <4> QED
        BY <1>1, <1>2, <3>2, <4>1, <4>2
    <3> QED
      BY <1>4, <3>3, <3>4
  <2> QED
    BY <2>3, <2>4
<1>5. ASSUME NEW n \in Nodes, NEW elapsed \in 1..MaxBeat, Gossip(n, elapsed)
      PROVE  delivered'[k][m] <= Cachings(k, m)'
                      - (IF k = Author[m] /\ Cachings(k, m)' > 0 THEN 1 ELSE 0)
  <2>1. Cachings(k, m)' = Cachings(k, m)
    BY <1>1, <1>5, GossipEntry DEF Cachings
  <2>2. delivered' = delivered
    BY <1>5 DEF Gossip
  <2> QED
    BY <1>3, <2>1, <2>2
<1>6. ASSUME NEW l \in Messages, Type(l)
      PROVE  delivered'[k][m] = delivered[k][m] /\ Cachings(k, m)' = Cachings(k, m)
  BY <1>6 DEF Type, Cachings
<1>7. ASSUME NEW n \in Nodes, NEW letter \in mail, Ignore(n, letter)
      PROVE  delivered'[k][m] = delivered[k][m] /\ Cachings(k, m)' = Cachings(k, m)
  BY <1>7 DEF Ignore, Cachings
<1>8. CASE UNCHANGED <<cache, delivered, dropped>>
  <2>1. delivered'[k][m] = delivered[k][m] /\ Cachings(k, m)' = Cachings(k, m)
    BY <1>8 DEF Cachings
  <2> QED
    BY <1>3, <2>1
<1>9. CASE \E l \in Messages : Type(l)
  BY <1>3, <1>6, <1>9
<1>10. CASE \E n \in Nodes : Recv(n)
  BY <1>3, <1>4, <1>7, <1>10 DEF Recv
<1>11. CASE \E n \in Nodes : Heartbeat(n)
  BY <1>5, <1>11 DEF Heartbeat
<1> QED
  BY <1>8, <1>9, <1>10, <1>11 DEF Next, Learn, vars

\* Whatever was on its way to a node is still, or the node has had it.
LEMMA LetterStays ==
    ASSUME TypeOK, [Next]_vars, NEW letter \in mail
    PROVE  letter \in mail' \/ Seen(letter.to, letter.msg)'
<1>1. ASSUME NEW m \in Messages, Type(m) PROVE letter \in mail'
  BY <1>1 DEF Type
<1>2. ASSUME NEW n \in Nodes, NEW taken \in mail, taken.to = n, Ignore(n, taken)
      PROVE  letter \in mail' \/ Seen(letter.to, letter.msg)'
  BY <1>2 DEF Ignore, Taken, Seen
<1>3. ASSUME NEW n \in Nodes, NEW taken \in mail, taken.to = n,
             CacheOwn(n, taken) \/ Deliver(n, taken)
      PROVE  letter \in mail' \/ Seen(letter.to, letter.msg)'
  <2>1. CASE letter = taken
    <3>1. Seen(n, taken.msg)'
      BY <1>3, CachedIsSeen
    <3> QED
      BY <1>3, <2>1, <3>1 DEF Seen
  <2>2. CASE letter # taken
    BY <1>3, <2>2 DEF CacheOwn, Deliver, Taken
  <2> QED
    BY <2>1, <2>2
<1>4. ASSUME NEW n \in Nodes, NEW elapsed \in 1..MaxBeat, Gossip(n, elapsed)
      PROVE  letter \in mail'
  BY <1>4 DEF Gossip
<1>5. CASE UNCHANGED mail
  BY <1>5
<1> QED
  BY <1>1, <1>2, <1>3, <1>4, <1>5 DEF Next, Learn, Recv, Heartbeat, vars

\* Tables only grow.
LEMMA KnownGrows ==
    ASSUME TypeOK, [Next]_vars, NEW n \in Nodes PROVE known[n] \subseteq known'[n]
<1>1. ASSUME NEW k \in Nodes, Learn(k) PROVE known[n] \subseteq known'[n]
  BY <1>1 DEF Learn, TypeOK
<1>2. CASE UNCHANGED known
  BY <1>2
<1> QED
  BY <1>1, <1>2 DEF Next, Type, Recv, Ignore, CacheOwn, Deliver, Heartbeat, Gossip, vars

\* A node that has few peers always had few.
LEMMA FewStaysFew ==
    ASSUME TypeOK, [Next]_vars, NEW n \in Nodes, PublishesToAll(n)'
    PROVE  PublishesToAll(n)
<1>1. known[n] \subseteq known'[n]
  BY KnownGrows
<1>2. IsFiniteSet(known'[n])
  BY NextType, FS_Subset, GossipAssumption DEF TypeOK
<1>3. /\ Cardinality(known[n]) \in Nat /\ Cardinality(known'[n]) \in Nat
      /\ Cardinality(known[n]) <= Cardinality(known'[n])
  BY <1>1, <1>2, FS_Subset, FS_CardinalityType
<1> QED
  BY <1>3, GossipAssumption DEF PublishesToAll

\* What a node sends goes to peers in its table, and they stay there.
LEMMA SentToKnownStep ==
    ASSUME TypeOK, SentToKnown, [Next]_vars PROVE SentToKnown'
<1>1. ASSUME NEW letter \in mail, letter.from # Stdin
      PROVE  letter.to \in known'[letter.from]
  <2>1. letter.from \in Nodes
    BY <1>1 DEF TypeOK, Letters
  <2>2. letter.to \in known[letter.from]
    BY <1>1 DEF SentToKnown
  <2> QED
    BY <2>1, <2>2, KnownGrows
<1>2. \A n \in Nodes : \A source : \A s \in Sample(n, source) : s \subseteq known[n]
  BY DEF Sample
<1>3. ASSUME NEW m \in Messages, Type(m) PROVE SentToKnown'
  BY <1>1, <1>3 DEF Type, SentToKnown
<1>4. ASSUME NEW n \in Nodes, NEW letter \in mail, Ignore(n, letter) \/ CacheOwn(n, letter)
      PROVE  SentToKnown'
  BY <1>1, <1>4 DEF Ignore, CacheOwn, Taken, SentToKnown
<1>5. ASSUME NEW n \in Nodes, NEW letter \in mail, Deliver(n, letter) PROVE SentToKnown'
  <2>1. PICK peers \in Sample(n, SourcePeer(n, letter.from)), rest \in Taken(letter) :
          mail' = rest \cup Sent(n, letter.msg, peers)
    BY <1>5 DEF Deliver
  <2>2. \A new \in mail' : new \in mail \/ (new.from = n /\ new.to \in known[n])
    BY <1>2, <2>1 DEF Taken, Sent
  <2>3. known' = known
    BY <1>5 DEF Deliver
  <2> QED
    BY <1>1, <2>2, <2>3 DEF SentToKnown
<1>6. ASSUME NEW n \in Nodes, NEW elapsed \in 1..MaxBeat, Gossip(n, elapsed)
      PROVE  SentToKnown'
  <2>1. PICK peers \in [Young(n, elapsed) -> Sample(n, {})] :
          mail' = mail \cup UNION {Sent(n, m, peers[m]) : m \in Young(n, elapsed)}
    BY <1>6 DEF Gossip
  <2>2. \A m \in Young(n, elapsed) : peers[m] \subseteq known[n]
    BY <1>2
  <2>3. \A new \in mail' : new \in mail \/ (new.from = n /\ new.to \in known[n])
    BY <2>1, <2>2 DEF Sent
  <2>4. known' = known
    BY <1>6 DEF Gossip
  <2> QED
    BY <1>1, <2>3, <2>4 DEF SentToKnown
<1>7. CASE UNCHANGED mail
  BY <1>1, <1>7 DEF SentToKnown
<1> QED
  BY <1>3, <1>4, <1>5, <1>6, <1>7 DEF Next, Learn, Recv, Heartbeat, vars

\* Whoever has a message for the first time was sent it by its author or by a node that has
\* it, of the same group.
LEMMA ConfinedStep ==
    ASSUME TypeOK, SourceInv, SentToKnown, Confined, [Next]_vars PROVE Confined'
<1> SUFFICES ASSUME NEW group \in SUBSET Nodes, NEW m \in Messages,
                    Author[m] \in group, \A p \in group : known'[p] \subseteq group,
                    NEW k \in Nodes \ group
             PROVE  ~Seen(k, m)'
  BY DEF Confined
<1>1. \A p \in group : known[p] \subseteq group
  BY KnownGrows
<1>2. \A n \in Nodes \ group : ~Seen(n, m)
  BY <1>1 DEF Confined
<1>3. ~Seen(k, m)
  BY <1>2
<1>4. ASSUME NEW letter \in mail, CacheOwn(letter.to, letter) \/ Deliver(letter.to, letter)
      PROVE  ~Seen(k, m)'
  <2>1. letter.to \in Nodes /\ (letter.from # Stdin => letter.from \in Nodes)
    BY DEF TypeOK, Letters
  <2>2. CASE letter.msg # m
    BY <1>3, <1>4, <2>1, <2>2, CachedIsSeen
  <2>3. CASE letter.msg = m
    <3>1. letter.to \in group
      <4>1. CASE letter.from = Stdin
        BY <2>3, <4>1 DEF SourceInv
      <4>2. CASE letter.from # Stdin
        <5>1. Seen(letter.from, m)
          BY <2>3, <4>2 DEF SourceInv
        <5>2. letter.from \in group
          BY <1>2, <2>1, <4>2, <5>1
        <5>3. letter.to \in known[letter.from]
          BY <4>2 DEF SentToKnown
        <5> QED
          BY <1>1, <5>2, <5>3
      <4> QED
        BY <4>1, <4>2
    <3> QED
      BY <1>3, <1>4, <2>1, <3>1, CachedIsSeen
  <2> QED
    BY <2>2, <2>3
<1>5. ASSUME NEW n \in Nodes, NEW elapsed \in 1..MaxBeat, Gossip(n, elapsed)
      PROVE  ~Seen(k, m)'
  BY <1>3, <1>5, GossipSeen
<1>6. CASE UNCHANGED <<cache, dropped>>
  BY <1>3, <1>6 DEF Seen
<1> QED
  BY <1>4, <1>5, <1>6 DEF Next, Type, Ignore, Learn, Recv, Heartbeat, vars

LEMMA InformedStep ==
    ASSUME TypeOK, SourceInv, InformedOrPending, [Next]_vars
    PROVE  InformedOrPending'
<1> SUFFICES ASSUME NEW k \in Nodes, NEW m \in Messages, PublishesToAll(k)',
                    NEW p \in told'[k][m]
             PROVE  Seen(p, m)' \/ \E letter \in mail' : letter.to = p /\ letter.msg = m
  BY DEF InformedOrPending
<1>1. p \in Nodes
  BY NextType DEF TypeOK
<1>2. PublishesToAll(k)
  BY FewStaysFew
<1>3. CASE p \in told[k][m]
  <2>1. Seen(p, m) \/ \E letter \in mail : letter.to = p /\ letter.msg = m
    BY <1>2, <1>3 DEF InformedOrPending
  <2>2. CASE Seen(p, m)
    BY <1>1, <2>2, SeenStays
  <2>3. ASSUME NEW letter \in mail, letter.to = p, letter.msg = m
        PROVE  Seen(p, m)' \/ letter \in mail'
    BY <2>3, LetterStays DEF Seen
  <2> QED
    BY <2>1, <2>2, <2>3
<1>4. Sample(k, {}) = {known[k]} /\ \A source : Sample(k, source) = {known[k] \ source}
  BY <1>2 DEF Sample, PublishesToAll
<1>5. ASSUME NEW n \in Nodes, NEW letter \in mail, letter.to = n, Deliver(n, letter),
             p \notin told[k][m]
      PROVE  Seen(p, m)' \/ \E new \in mail' : new.to = p /\ new.msg = m
  <2>1. letter.msg \in Messages
    BY DEF TypeOK, Letters
  <2>2. k = n /\ m = letter.msg /\ p \in known[k]
    BY <1>5, <2>1 DEF Deliver, TypeOK
  <2>3. PICK peers \in Sample(n, SourcePeer(n, letter.from)), rest \in Taken(letter) :
          mail' = rest \cup Sent(n, letter.msg, peers)
    BY <1>5 DEF Deliver
  <2>4. peers = known[k] \ SourcePeer(n, letter.from)
    BY <1>4, <2>2, <2>3
  <2>5. CASE p \in SourcePeer(n, letter.from)
    <3>1. p = letter.from /\ letter.from # Stdin
      BY <1>5, <2>5 DEF SourcePeer, Deliver
    <3>2. Seen(letter.from, letter.msg)
      BY <3>1 DEF SourceInv
    <3>3. Seen(p, m)
      BY <2>2, <3>1, <3>2
    <3> QED
      BY <1>1, <3>3, SeenStays
  <2>6. CASE p \notin SourcePeer(n, letter.from)
    <3>1. [from |-> n, to |-> p, msg |-> m] \in mail'
      BY <2>2, <2>3, <2>4, <2>6 DEF Sent
    <3> QED
      BY <3>1
  <2> QED
    BY <2>5, <2>6
<1>6. ASSUME NEW n \in Nodes, NEW elapsed \in 1..MaxBeat, Gossip(n, elapsed),
             p \notin told[k][m]
      PROVE  \E new \in mail' : new.to = p /\ new.msg = m
  <2>1. k = n /\ m \in Young(n, elapsed) /\ p \in known[k]
    BY <1>6 DEF Gossip, TypeOK
  <2>2. PICK peers \in [Young(n, elapsed) -> Sample(n, {})] :
          mail' = mail \cup UNION {Sent(n, l, peers[l]) : l \in Young(n, elapsed)}
    BY <1>6 DEF Gossip
  <2>3. peers[m] = known[k]
    BY <1>4, <2>1, <2>2
  <2>4. [from |-> n, to |-> p, msg |-> m] \in Sent(n, m, peers[m])
    BY <2>1, <2>3 DEF Sent
  <2>5. [from |-> n, to |-> p, msg |-> m] \in mail'
    BY <2>1, <2>2, <2>4
  <2> QED
    BY <2>5
<1>7. CASE UNCHANGED told
  BY <1>3, <1>7
<1> QED
  BY <1>3, <1>5, <1>6, <1>7
  DEF Next, Type, Learn, Recv, Ignore, CacheOwn, Heartbeat, vars

\* A node has a message from its user, or has published it in the step in which it took it;
\* what it publishes to is its table, which is never less than it began with.
LEMMA ToldStep ==
    ASSUME TypeOK, SourceInv, ToldInv, [Next]_vars PROVE ToldInv'
<1> SUFFICES ASSUME NEW k \in Nodes, NEW m \in Messages
             PROVE  /\ Initially[k] \subseteq known'[k]
                    /\ (Seen(k, m)' /\ k # Author[m]) \/ gossiped'[k][m] > 0
                         => Initially[k] \subseteq told'[k][m]
  BY DEF ToldInv, Seen
<1>1. Initially[k] \subseteq known[k] /\ Initially[k] \subseteq known'[k]
  BY KnownGrows DEF ToldInv
<1>2. ASSUME told'[k][m] = told[k][m], gossiped'[k][m] = gossiped[k][m],
             Seen(k, m)' => Seen(k, m) \/ k = Author[m]
      PROVE  (Seen(k, m)' /\ k # Author[m]) \/ gossiped'[k][m] > 0
               => Initially[k] \subseteq told'[k][m]
  BY <1>2 DEF ToldInv
<1>3. ASSUME NEW n \in Nodes, NEW letter \in mail, letter.to = n, CacheOwn(n, letter)
      PROVE  (Seen(k, m)' /\ k # Author[m]) \/ gossiped'[k][m] > 0
               => Initially[k] \subseteq told'[k][m]
  <2>1. n = Author[letter.msg]
    BY <1>3 DEF CacheOwn, SourceInv
  <2>2. Seen(k, m)' => Seen(k, m) \/ k = Author[m]
    BY <1>3, <2>1, CachedIsSeen
  <2> QED
    BY <1>2, <1>3, <2>2 DEF CacheOwn
<1>4. ASSUME NEW n \in Nodes, NEW letter \in mail, letter.to = n, Deliver(n, letter)
      PROVE  (Seen(k, m)' /\ k # Author[m]) \/ gossiped'[k][m] > 0
               => Initially[k] \subseteq told'[k][m]
  <2>1. letter.msg \in Messages /\ told \in [Nodes -> [Messages -> SUBSET Nodes]]
    BY DEF TypeOK, Letters
  <2>2. told' = [told EXCEPT ![n][letter.msg] = known[n]] /\ gossiped' = gossiped
    BY <1>4 DEF Deliver
  <2>3. CASE k = n /\ m = letter.msg
    BY <1>1, <2>1, <2>2, <2>3
  <2>4. CASE ~(k = n /\ m = letter.msg)
    <3>1. told'[k][m] = told[k][m]
      BY <2>1, <2>2, <2>4
    <3>2. Seen(k, m)' => Seen(k, m)
      BY <1>4, <2>4, CachedIsSeen
    <3> QED
      BY <1>2, <2>2, <3>1, <3>2
  <2> QED
    BY <2>3, <2>4
<1>5. ASSUME NEW n \in Nodes, NEW elapsed \in 1..MaxBeat, Gossip(n, elapsed)
      PROVE  (Seen(k, m)' /\ k # Author[m]) \/ gossiped'[k][m] > 0
               => Initially[k] \subseteq told'[k][m]
  <2>1. CASE k = n /\ m \in Young(n, elapsed)
    <3>1. told'[k][m] = known[k]
      BY <1>5, <2>1 DEF Gossip, TypeOK
    <3> QED
      BY <1>1, <3>1
  <2>2. CASE ~(k = n /\ m \in Young(n, elapsed))
    <3>1. told'[k][m] = told[k][m] /\ gossiped'[k][m] = gossiped[k][m]
      BY <1>5, <2>2 DEF Gossip, TypeOK
    <3>2. Seen(k, m)' => Seen(k, m)
      BY <1>5, GossipSeen
    <3> QED
      BY <1>2, <3>1, <3>2
  <2> QED
    BY <2>1, <2>2
<1>6. CASE UNCHANGED <<cache, dropped, told, gossiped>>
  <2>1. Seen(k, m)' => Seen(k, m)
    BY <1>6 DEF Seen
  <2> QED
    BY <1>1, <1>2, <1>6, <2>1
<1> QED
  BY <1>1, <1>3, <1>4, <1>5, <1>6 DEF Next, Type, Learn, Recv, Ignore, Heartbeat, vars

------------------------------------------------------------------------------
(* The theorems.                                                                *)

LEMMA InitGossip == Init => GossipInv
<1> SUFFICES ASSUME Init PROVE GossipInv
  OBVIOUS
<1>1. \A n \in Nodes, m \in Messages :
         /\ cache[n][m] = Absent /\ delivered[n][m] = 0
         /\ gossiped[n][m] = 0 /\ dropped[n][m] = 0 /\ told[n][m] = {}
  BY DEF Init
<1>2. \A n \in Nodes, m \in Messages : ~Seen(n, m) /\ Cachings(n, m) = 0
  BY <1>1 DEF Seen, Cachings
<1>3. SourceInv /\ SentToKnown /\ Confined /\ InformedOrPending
  BY <1>1, <1>2 DEF Init, SourceInv, SentToKnown, Confined, InformedOrPending
<1>4. BeatInv
  BY <1>1, GossipAssumption DEF BeatInv
<1>5. OncePerHistory
  BY <1>1, <1>2 DEF OncePerHistory
<1>6. ToldInv
  BY <1>1, <1>2 DEF Init, ToldInv
<1> QED
  BY <1>3, <1>4, <1>5, <1>6 DEF GossipInv

\* The invariant holds in every reachable state: caches, letters and counters agree with
\* who has had which message.
THEOREM GossipInvariant == Spec => [](TypeOK /\ GossipInv)
<1>1. Init => TypeOK /\ GossipInv
  BY InitType, InitGossip
<1>2. TypeOK /\ GossipInv /\ [Next]_vars => (TypeOK /\ GossipInv)'
  BY NextType, SourceStep, SentToKnownStep, ConfinedStep, BeatStep, ToldStep, OnceStep, InformedStep
     DEF GossipInv
<1> QED
  BY <1>1, <1>2, PTL DEF Spec

\* handle_message hands a message to the user once for each stay in the cache, and one of
\* the user's own only after it was dropped.
THEOREM OncePerHistoryAlways == Spec => []OncePerHistory
<1>1. GossipInv => OncePerHistory
  BY DEF GossipInv
<1> QED
  BY <1>1, GossipInvariant, PTL

\* gossip publishes a message at history_gossip heartbeats at most for each stay.
THEOREM FloodBoundedAlways == Spec => []FloodBounded
<1>1. TypeOK /\ GossipInv => FloodBounded
  <2> SUFFICES ASSUME TypeOK, BeatInv, NEW n \in Nodes, NEW m \in Messages
               PROVE  gossiped[n][m] <= HistoryGossip * Cachings(n, m)
    BY DEF GossipInv, FloodBounded
  <2>1. gossiped[n][m] \in Nat /\ dropped[n][m] \in Nat /\ HistoryGossip \in Nat
    BY GossipAssumption DEF TypeOK
  <2>2. CASE cache[n][m] = Absent
    BY <2>1, <2>2 DEF BeatInv, Cachings
  <2>3. CASE cache[n][m] # Absent
    <3>1. gossiped[n][m] <= HistoryGossip * dropped[n][m] + HistoryGossip
      BY <2>3 DEF BeatInv
    <3>2. HistoryGossip * (dropped[n][m] + 1) = HistoryGossip * dropped[n][m] + HistoryGossip
      BY <2>1
    <3> QED
      BY <2>3, <3>1, <3>2 DEF Cachings
  <2> QED
    BY <2>2, <2>3
<1> QED
  BY <1>1, GossipInvariant, PTL

\* publish misses none of the peers a node that does not draw a sample then knows, whoever
\* the message came from and whenever discovery found them.
THEOREM InformedOrPendingAlways == Spec => []InformedOrPending
<1>1. GossipInv => InformedOrPending
  BY DEF GossipInv
<1> QED
  BY <1>1, GossipInvariant, PTL

\* The publishes of all nodes together take a message nowhere but along their tables.
THEOREM ConfinedAlways == Spec => []Confined
<1>1. GossipInv => Confined
  BY DEF GossipInv
<1> QED
  BY <1>1, GossipInvariant, PTL

\* When no letter with a message is on its way, and its author's node has published it at a
\* heartbeat, the nodes that have had it are closed under the tables they all began with, as
\* far as they publish to all their peers: with ConfinedAlways, exactly whom handle_message
\* and publish bring it to while tables stay as they were.  It is the part of Spreads that
\* needs no fairness.
THEOREM SpreadsAlongTables ==
    Spec => [](\A n \in Nodes, m \in Messages :
                 /\ PublishesToAll(n)
                 /\ Seen(n, m) /\ (n = Author[m] => gossiped[n][m] > 0)
                 /\ \A letter \in mail : letter.msg # m
                 => \A p \in Initially[n] : Seen(p, m))
<1>1. GossipInv =>
        \A n \in Nodes, m \in Messages :
           /\ PublishesToAll(n)
           /\ Seen(n, m) /\ (n = Author[m] => gossiped[n][m] > 0)
           /\ \A letter \in mail : letter.msg # m
           => \A p \in Initially[n] : Seen(p, m)
  BY DEF GossipInv, ToldInv, InformedOrPending
<1> QED
  BY <1>1, GossipInvariant, PTL

------------------------------------------------------------------------------
(* Gossip spreads rumors.                                                       *)

\* Nobody has had or handed out anything before the first message.
LEMMA RumorInit == Init => Telling!Init
<1> SUFFICES ASSUME Init PROVE Telling!Init
  OBVIOUS
<1>1. Heard = {}
  BY DEF Init, Heard, Seen
<1>2. Handed = {}
  BY DEF Init, Handed
<1>3. known \in [Nodes -> SUBSET Nodes]
  BY GossipAssumption DEF Init
<1> QED
  BY <1>1, <1>2, <1>3 DEF Telling!Init

\* A step that neither caches nor delivers tells nobody anything new.
LEMMA HeardSame ==
    ASSUME TypeOK, [Next]_vars,
           \/ UNCHANGED <<cache, dropped>>
           \/ \E n \in Nodes, elapsed \in 1..MaxBeat : Gossip(n, elapsed)
    PROVE  Heard' = Heard
<1>1. \A n \in Nodes, m \in Messages : Seen(n, m)' => Seen(n, m)
  <2>1. CASE UNCHANGED <<cache, dropped>>
    BY <2>1 DEF Seen
  <2> QED
    BY <2>1, GossipSeen
<1>2. \A n \in Nodes, m \in Messages : Seen(n, m)' = Seen(n, m)
  BY <1>1, SeenStays DEF Seen
<1> QED
  BY <1>2 DEF Heard

\* Who caches a message is added to those that have had it.
LEMMA HeardCached ==
    ASSUME TypeOK, NEW n \in Nodes, NEW letter \in mail,
           CacheOwn(n, letter) \/ Deliver(n, letter)
    PROVE  Heard' = Heard \cup {<<n, letter.msg>>}
<1>1. letter.msg \in Messages
  BY DEF TypeOK, Letters
<1>2. Seen(n, letter.msg)'
  BY CachedIsSeen
<1>3. \A k \in Nodes, m \in Messages :
         ~(k = n /\ m = letter.msg) => Seen(k, m)' = Seen(k, m)
  BY CachedIsSeen
<1>4. \A k \in Nodes, m \in Messages :
         <<k, m>> \in Heard' <=> <<k, m>> \in Heard \cup {<<n, letter.msg>>}
  <2> TAKE k \in Nodes, m \in Messages
  <2>1. CASE k = n /\ m = letter.msg
    <3>1. Seen(k, m)'
      BY <1>2, <2>1 DEF Seen
    <3> QED
      BY <2>1, <3>1 DEF Heard
  <2>2. CASE ~(k = n /\ m = letter.msg)
    BY <1>3, <2>2 DEF Heard
  <2> QED
    BY <2>1, <2>2
<1>5. Heard \subseteq Nodes \X Messages /\ Heard' \subseteq Nodes \X Messages
  BY DEF Heard
<1> QED
  BY <1>1, <1>4, <1>5

\* A delivery is a telling: its sender had the message, and the node in its table.
LEMMA DeliverTells ==
    ASSUME TypeOK, SourceInv, SentToKnown, NEW letter \in mail, Deliver(letter.to, letter)
    PROVE  Telling!Tell(letter.from, letter.to, letter.msg)
<1> DEFINE n == letter.to  m == letter.msg
<1>1. n \in Nodes /\ m \in Messages /\ letter.from \in Nodes
  BY DEF Deliver, TypeOK, Letters
<1>2. <<letter.from, m>> \in Heard
  BY <1>1 DEF Deliver, SourceInv, Heard
<1>3. n \in known[letter.from]
  BY DEF Deliver, SentToKnown
<1>4. Heard' = Heard \cup {<<n, m>>}
  BY <1>1, HeardCached
<1>5. Handed' = Handed \cup {<<n, m>>}
  <2>1. delivered' = [delivered EXCEPT ![n][m] = @ + 1]
    BY DEF Deliver
  <2>2. delivered \in [Nodes -> [Messages -> Nat]]
    BY DEF TypeOK
  <2> HIDE DEF n, m
  <2>3. delivered'[n][m] > 0
    BY <1>1, <2>1, <2>2
  <2>4. \A k \in Nodes, l \in Messages :
           ~(k = n /\ l = m) => delivered'[k][l] = delivered[k][l]
    BY <1>1, <2>1, <2>2
  <2>5. \A k \in Nodes, l \in Messages :
           <<k, l>> \in Handed' <=> <<k, l>> \in Handed \cup {<<n, m>>}
    BY <2>3, <2>4 DEF Handed
  <2>6. Handed \subseteq Nodes \X Messages /\ Handed' \subseteq Nodes \X Messages
    BY DEF Handed
  <2> QED
    BY <1>1, <2>5, <2>6
<1>6. UNCHANGED known
  BY DEF Deliver
<1> QED
  BY <1>2, <1>3, <1>4, <1>5, <1>6 DEF Telling!Tell

\* Every step of gossip begins a rumor, tells it, adds peers, or is none of a rumor's.
LEMMA RumorNext ==
    ASSUME TypeOK, SourceInv, SentToKnown, [Next]_vars
    PROVE  [Telling!Next]_(Telling!vars)
<1>1. ASSUME UNCHANGED <<known, cache, delivered, dropped>> PROVE UNCHANGED Telling!vars
  <2>1. Heard' = Heard
    BY <1>1, HeardSame
  <2> QED
    BY <1>1, <2>1 DEF Telling!vars, Handed
<1>2. ASSUME NEW m \in Messages, Type(m) PROVE UNCHANGED Telling!vars
  BY <1>1, <1>2 DEF Type
<1>3. ASSUME NEW n \in Nodes, Learn(n) PROVE Telling!Meet
  <2>1. Heard' = Heard
    BY <1>3, HeardSame DEF Learn
  <2>2. Handed' = Handed
    BY <1>3 DEF Learn, Handed
  <2> QED
    BY <2>1, <2>2, KnownGrows DEF Telling!Meet
<1>4. ASSUME NEW n \in Nodes, NEW letter \in mail, Ignore(n, letter)
      PROVE  UNCHANGED Telling!vars
  BY <1>1, <1>4 DEF Ignore
<1>5. ASSUME NEW letter \in mail, CacheOwn(letter.to, letter)
      PROVE  Telling!Next
  <2>1. letter.to \in Nodes /\ letter.msg \in Messages
    BY DEF TypeOK, Letters
  <2>2. letter.to = Author[letter.msg]
    BY <1>5 DEF CacheOwn, SourceInv
  <2>3. Heard' = Heard \cup {<<Author[letter.msg], letter.msg>>}
    BY <1>5, <2>1, <2>2, HeardCached
  <2>4. UNCHANGED <<known, Handed>>
    BY <1>5 DEF CacheOwn, Handed
  <2>5. Telling!Begin(letter.msg)
    BY <2>3, <2>4 DEF Telling!Begin
  <2> QED
    BY <2>1, <2>5 DEF Telling!Next
<1>6. ASSUME NEW letter \in mail, Deliver(letter.to, letter) PROVE Telling!Next
  <2>1. letter.to \in Nodes /\ letter.msg \in Messages /\ letter.from \in Nodes
    BY <1>6 DEF Deliver, TypeOK, Letters
  <2> QED
    BY <1>6, <2>1, DeliverTells DEF Telling!Next
<1>7. ASSUME NEW n \in Nodes, NEW elapsed \in 1..MaxBeat, Gossip(n, elapsed)
      PROVE  UNCHANGED Telling!vars
  <2>1. Heard' = Heard
    BY <1>7, HeardSame
  <2> QED
    BY <1>7, <2>1 DEF Gossip, Telling!vars, Handed
<1>8. CASE UNCHANGED vars
  BY <1>1, <1>8 DEF vars
<1> QED
  BY <1>2, <1>3, <1>4, <1>5, <1>6, <1>7, <1>8 DEF Next, Recv, Heartbeat, Telling!Next

\* Whatever a user is handed was typed at its author and told from node to node, each time
\* by one that had been told itself and has the next in its table.
THEOREM RefinesRumor == Spec => ImplementsRumor
<1>1. Init => Telling!Init
  BY RumorInit
<1>2. TypeOK /\ GossipInv /\ [Next]_vars => [Telling!Next]_(Telling!vars)
  BY RumorNext DEF GossipInv
<1> QED
  BY <1>1, <1>2, GossipInvariant, PTL DEF Spec, ImplementsRumor, Telling!Spec
================================================================================
