-------------------------------- MODULE Gossip --------------------------------
(* Gossip among several nodes: src/gossip/gossip.rs.  Each node's gossip thread *)
(* takes messages from its channel, delivers and forwards those that are not in *)
(* its cache, and at every heartbeat publishes the younger ones of the cache    *)
(* again and drops the old ones.                                                *)
(*                                                                              *)
(* Of the transport layer this module keeps what ReliableDelivery promises:     *)
(* messages arrive in any order, late, and sometimes more than once.  Of        *)
(* discovery it keeps that tables of less than thirty peers grow, at any time.  *)
EXTENDS Naturals, FiniteSets

CONSTANTS
    Nodes,          \* the nodes; a node stands for its public address
    Messages,       \* the messages users type, each with an id of its own
    Author,         \* Author[m]: the node m is typed at
    Initially,      \* Initially[n]: the peers in n's routing table when messages are first typed
    Reachable,      \* Reachable[n]: those that discovery adds at some time, or never
    Host,           \* Host[n]: the IP address of n
    AllUpTo,        \* a node with more peers than this, 7, draws a sample
    Factor,         \* config.factor, in per cent
    HistoryLen,     \* config.history_len: intervals a message stays in the cache
    HistoryGossip,  \* config.history_gossip: intervals it is published again
    MaxBeat,        \* the most intervals between heartbeats, and from caching to the first
    MaxDrops,       \* bound of the model: how often a node may come to drop a message
    Stdin,          \* the source of what is typed: the address the socket is bound to
    Absent          \* no entry of the cache

ASSUME GossipAssumption ==
    /\ IsFiniteSet(Nodes) /\ IsFiniteSet(Messages)
    /\ Author \in [Messages -> Nodes]
    /\ Initially \in [Nodes -> SUBSET Nodes] /\ Reachable \in [Nodes -> SUBSET Nodes]
    /\ AllUpTo \in Nat /\ Factor \in 0..100
    /\ HistoryGossip \in Nat \ {0} /\ HistoryLen \in Nat /\ HistoryLen >= HistoryGossip
    /\ MaxBeat \in Nat \ {0}
    /\ MaxDrops \in Nat \ {0}
    /\ Stdin \notin Nodes /\ Absent \notin Nat

VARIABLES
    known,      \* known[n]: what get_closest_peers(local, 30) returns at n
    cache,      \* cache[n][m]: the heartbeat interval m has reached since it was cached
    mail,       \* the messages sent and not taken for the last time from a gossip channel
    typed,      \* the messages typed so far
    delivered,  \* delivered[n][m]: how often n has handed m to its user
    told,       \* history: told[n][m]: whom n knew when it last published m
    gossiped,   \* history: gossiped[n][m]: at how many heartbeats n has published m
    dropped     \* history: dropped[n][m]: how often n has dropped m from its cache

vars == <<known, cache, mail, typed, delivered, told, gossiped, dropped>>

Letters == [from : Nodes \cup {Stdin}, to : Nodes, msg : Messages]

TypeOK ==
    /\ known \in [Nodes -> SUBSET Nodes]
    /\ cache \in [Nodes -> [Messages -> 0..HistoryLen \cup {Absent}]]
    /\ mail \subseteq Letters
    /\ typed \subseteq Messages
    /\ delivered \in [Nodes -> [Messages -> Nat]]
    /\ told \in [Nodes -> [Messages -> SUBSET Nodes]]
    /\ gossiped \in [Nodes -> [Messages -> Nat]]
    /\ dropped \in [Nodes -> [Messages -> Nat]]

Init ==
    /\ known = Initially
    /\ cache = [n \in Nodes |-> [m \in Messages |-> Absent]]
    /\ mail = {}
    /\ typed = {}
    /\ delivered = [n \in Nodes |-> [m \in Messages |-> 0]]
    /\ told = [n \in Nodes |-> [m \in Messages |-> {}]]
    /\ gossiped = [n \in Nodes |-> [m \in Messages |-> 0]]
    /\ dropped = [n \in Nodes |-> [m \in Messages |-> 0]]

------------------------------------------------------------------------------
\* The stdin thread hands what was typed to its own node's gossip channel.
Type(m) ==
    /\ m \notin typed /\ typed' = typed \cup {m}
    /\ mail' = mail \cup {[from |-> Stdin, to |-> Author[m], msg |-> m]}
    /\ UNCHANGED <<known, cache, delivered, told, gossiped, dropped>>

\* kad.recv, at which the loop of the gossip thread begins: a message of discovery may add
\* peers to the table.
Learn(n) ==
    /\ \E new \in SUBSET (Reachable[n] \ known[n]) :
          new # {} /\ known' = [known EXCEPT ![n] = @ \cup new]
    /\ UNCHANGED <<cache, mail, typed, delivered, told, gossiped, dropped>>

\* The peer whose address is the one a datagram of `from` came from.  Between nodes of one
\* IP address that is the loopback one, which no table holds.
SourcePeer(n, from) ==
    IF from \in Nodes /\ Host[from] # Host[n] THEN {from} ELSE {}

\* For mutation: a sample is drawn from any number of peers.
AlwaysSampled(n, source) ==
    {s \in SUBSET (known[n] \ source) :
        Cardinality(s) <= (Cardinality(known[n]) * Factor) \div 100}

\* Every choice publish has of the peers to send to.  The source is left out, the node itself
\* is not: publish compares with the address the socket is bound to, 0.0.0.0.  Draws
\* that hit a peer twice, or the source, are lost.
Sample(n, source) ==
    IF Cardinality(known[n]) <= AllUpTo THEN {known[n] \ source}
    ELSE {s \in SUBSET (known[n] \ source) :
            Cardinality(s) <= (Cardinality(known[n]) * Factor) \div 100}

Sent(n, m, peers) == {[from |-> n, to |-> p, msg |-> m] : p \in peers}

\* The message is gone from the channel, or a copy of it is still to come.
Taken(letter) == {mail, mail \ {letter}}

\* A message that is in the cache is ignored.
Ignore(n, letter) ==
    /\ cache[n][letter.msg] # Absent
    /\ mail' \in Taken(letter)
    /\ UNCHANGED <<known, cache, typed, delivered, told, gossiped, dropped>>

\* For mutation: a message of another node is taken for one's own.
CacheAny(n, letter) ==
    /\ cache[n][letter.msg] = Absent /\ dropped[n][letter.msg] < MaxDrops
    /\ cache' = [cache EXCEPT ![n][letter.msg] = 0]
    /\ mail' = mail \ {letter}
    /\ UNCHANGED <<known, typed, delivered, told, gossiped, dropped>>

\* A message typed here is cached; the next heartbeat publishes it.
CacheOwn(n, letter) ==
    /\ cache[n][letter.msg] = Absent /\ dropped[n][letter.msg] < MaxDrops
    /\ letter.from = Stdin
    /\ cache' = [cache EXCEPT ![n][letter.msg] = 0]
    /\ mail' = mail \ {letter}
    /\ UNCHANGED <<known, typed, delivered, told, gossiped, dropped>>

\* For mutation: forwarded, but not cached.
DeliverUncached(n, letter) ==
    /\ cache[n][letter.msg] = Absent /\ dropped[n][letter.msg] < MaxDrops
    /\ letter.from # Stdin
    /\ delivered' = [delivered EXCEPT ![n][letter.msg] = @ + 1]
    /\ \E peers \in Sample(n, SourcePeer(n, letter.from)), rest \in Taken(letter) :
          mail' = rest \cup Sent(n, letter.msg, peers)
    /\ UNCHANGED <<known, cache, typed, told, gossiped, dropped>>

\* Any other is delivered, sent on and cached, whoever typed it.
Deliver(n, letter) ==
    /\ cache[n][letter.msg] = Absent /\ dropped[n][letter.msg] < MaxDrops
    /\ letter.from # Stdin
    /\ delivered' = [delivered EXCEPT ![n][letter.msg] = @ + 1]
    /\ \E peers \in Sample(n, SourcePeer(n, letter.from)), rest \in Taken(letter) :
          mail' = rest \cup Sent(n, letter.msg, peers)
    /\ cache' = [cache EXCEPT ![n][letter.msg] = 0]
    /\ told' = [told EXCEPT ![n][letter.msg] = known[n]]
    /\ UNCHANGED <<known, typed, gossiped, dropped>>

\* recv and handle_message.
Recv(n) ==
    \E letter \in mail :
        /\ letter.to = n
        /\ Ignore(n, letter) \/ CacheOwn(n, letter) \/ Deliver(n, letter)

Cached(n) == {m \in Messages : cache[n][m] # Absent}

\* For mutation: published as long as it is cached.
YoungForever(n, elapsed) == {m \in Cached(n) : cache[n][m] + elapsed <= HistoryLen}

\* What was cached less than history_gossip intervals ago: an entry in interval i was
\* cached between i - 1 and i intervals ago.
Young(n, elapsed) == {m \in Cached(n) : cache[n][m] + elapsed <= HistoryGossip}

\* What was cached more than history_len intervals ago.
Old(n, elapsed) == {m \in Cached(n) : cache[n][m] + elapsed > HistoryLen}

\* One call of gossip that finds a heartbeat due; it is late when more than one interval
\* has elapsed.  `sender`, which it has publish leave out, is an address sockets are bound to,
\* and no peer's.
Gossip(n, elapsed) ==
    /\ Cached(n) # {}
    /\ \E peers \in [Young(n, elapsed) -> Sample(n, {})] :
          mail' = mail \cup UNION {Sent(n, m, peers[m]) : m \in Young(n, elapsed)}
    /\ cache' = [cache EXCEPT ![n] = [m \in Messages |->
                    IF m \notin Cached(n) \/ m \in Old(n, elapsed) THEN Absent
                    ELSE cache[n][m] + elapsed]]
    /\ told' = [told EXCEPT ![n] = [m \in Messages |->
                   IF m \in Young(n, elapsed) THEN known[n] ELSE told[n][m]]]
    /\ gossiped' = [gossiped EXCEPT ![n] = [m \in Messages |->
                       IF m \in Young(n, elapsed) THEN gossiped[n][m] + 1 ELSE gossiped[n][m]]]
    /\ dropped' = [dropped EXCEPT ![n] = [m \in Messages |->
                      IF m \in Old(n, elapsed) THEN dropped[n][m] + 1 ELSE dropped[n][m]]]
    /\ UNCHANGED <<known, typed, delivered>>

Heartbeat(n) == \E elapsed \in 1..MaxBeat : Gossip(n, elapsed)

Next ==
    \/ \E m \in Messages : Type(m)
    \/ \E n \in Nodes : Learn(n) \/ Recv(n) \/ Heartbeat(n)

Spec == Init /\ [][Next]_vars

\* The gossip thread keeps taking messages and keeps checking its heartbeat.
FairSpec == Spec /\ \A n \in Nodes : WF_vars(Recv(n)) /\ WF_vars(Heartbeat(n))

------------------------------------------------------------------------------
Seen(n, m) == cache[n][m] # Absent \/ dropped[n][m] > 0

PublishesToAll(n) == Cardinality(known[n]) <= AllUpTo

\* How often n has put m into its cache.
Cachings(n, m) == dropped[n][m] + (IF cache[n][m] = Absent THEN 0 ELSE 1)

\* A user is handed a message again only after the node has dropped it, and that of the
\* user's own only then.
OncePerHistory ==
    \A n \in Nodes, m \in Messages :
        delivered[n][m] <= Cachings(n, m)
                             - (IF n = Author[m] /\ Cachings(n, m) > 0 THEN 1 ELSE 0)

\* As often as a message is cached it is published at history_gossip heartbeats at most,
\* late ones and those between two deliveries included.
FloodBounded ==
    \A n \in Nodes, m \in Messages : gossiped[n][m] <= HistoryGossip * Cachings(n, m)

\* Whom a node with few peers knew when it published a message has had it, or it is on its
\* way there; the one it came from needs no other copy.
InformedOrPending ==
    \A n \in Nodes, m \in Messages :
        PublishesToAll(n) =>
            \A p \in told[n][m] :
                Seen(p, m) \/ \E letter \in mail : letter.to = p /\ letter.msg = m

\* Who has had which message, and who has handed which to its user.
Heard == {x \in Nodes \X Messages : Seen(x[1], x[2])}

Handed == {x \in Nodes \X Messages : delivered[x[1]][x[2]] > 0}

Telling == INSTANCE Rumor WITH heard <- Heard, handed <- Handed

\* What a user is handed came from the author by way of nodes each of which had the next in
\* its table, however tables grow, copies linger and caches are emptied meanwhile.
ImplementsRumor == Telling!Spec

\* A heartbeat will publish m again, however late it is.
StillYoung(n, m) == cache[n][m] # Absent /\ cache[n][m] + MaxBeat <= HistoryGossip

\* A young message reaches every peer a node with few peers knows, those included that
\* discovery finds after the message has come; unless it finds so many that a sample is
\* drawn.
Spreads ==
    \A n \in Nodes, m \in Messages :
        \A p \in (Initially[n] \cup Reachable[n]) \ {n} :
            StillYoung(n, m) /\ p \in known[n] ~> Seen(p, m) \/ ~PublishesToAll(n)

\* What src/src/gossip/gossip.rs:68 says of history_gossip: a node publishes a message at no
\* more heartbeats than that.
GossipedForHistory == \A n \in Nodes, m \in Messages : gossiped[n][m] <= HistoryGossip

------------------------------------------------------------------------------
(* The inductive invariant the safety properties above follow from.            *)

\* A message comes from its author, and from nodes that have had it.
SourceInv ==
    /\ \A n \in Nodes, m \in Messages : Seen(n, m) => Seen(Author[m], m)
    /\ \A letter \in mail : IF letter.from = Stdin THEN letter.to = Author[letter.msg]
                            ELSE Seen(letter.from, letter.msg)

\* A letter between nodes goes to a peer in its sender's table.
SentToKnown ==
    \A letter \in mail : letter.from # Stdin => letter.to \in known[letter.from]

\* A message stays among nodes that know nobody outside, its author one of them: copies
\* and samples included, it takes no other way than the tables.
Confined ==
    \A group \in SUBSET Nodes, m \in Messages :
        Author[m] \in group /\ (\A p \in group : known[p] \subseteq group)
            => \A n \in Nodes \ group : ~Seen(n, m)

\* The heartbeats at which a message was published all fall into past stays in the cache,
\* and into the first intervals of the present one.
BeatInv ==
    \A n \in Nodes, m \in Messages :
        IF cache[n][m] = Absent THEN gossiped[n][m] <= HistoryGossip * dropped[n][m]
        ELSE /\ gossiped[n][m] <= HistoryGossip * dropped[n][m] + cache[n][m]
             /\ gossiped[n][m] <= HistoryGossip * dropped[n][m] + HistoryGossip

\* Nobody but its author's node has a message without having published it, and whoever has
\* published one did so to a table that held all the peers the node began with.
ToldInv ==
    \A n \in Nodes, m \in Messages :
        /\ Initially[n] \subseteq known[n]
        /\ (Seen(n, m) /\ n # Author[m]) \/ gossiped[n][m] > 0 => Initially[n] \subseteq told[n][m]

\* Caches, letters and counters agree with who has had which message: the argument
\* behind the safety properties, proved inductive.
GossipInv ==
    /\ SourceInv /\ SentToKnown /\ Confined /\ BeatInv /\ ToldInv
    /\ OncePerHistory /\ InformedOrPending
===============================================================================
