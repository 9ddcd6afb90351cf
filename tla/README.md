# A TLA+ model of udp2p

udp2p is a peer-to-peer library over UDP: a transport layer that acknowledges
and resends packets, a Kademlia-like discovery layer, and a gossip layer on
top. This directory holds TLA+ modules that follow its source, TLC
configurations that check them on small instances, and TLAPS proofs, for every
instance, about the transport layer, the routing table, discovery and gossip, the
abstract specifications of three of them, and discovery and gossip together. Paths below are relative to the repository's `src/`.

`PROJECT.json` lists the components, the runs, the lines each definition
translates, the hazards, the findings and the theorems.

## The system

A process has four threads (the only place they are wired is `examples/chat.rs`):

    stdin ──► to_gossip ──► gossip thread (kad.recv, gossip.recv, gossip) ──► om (to_transport)
                  ▲  ▲ to_kad                                                     │
                  └──┴── receiving thread (recv_msg) ──► om, ia ──► transport thread (incoming_ack,
                              ▲                                      outgoing_msg, check_time_elapsed)
                              └──────────────── UDP socket ◄────────────┘

| Component | State | Operations | Hard parts |
|---|---|---|---|
| Packets (`protocol/protocol.rs`) | none | `packetize` | rounding, slice bounds |
| Guaranteed-delivery UDP (`gd_udp/gd_udp.rs`) | outbox: packet → (sent_set, ack_set, attempts); timer | `send_reliable`, `process_ack`, `maintain`, `check_time_elapsed` | retries racing acknowledgements, when to give up |
| Transport thread (`transport/transport.rs`) | the two receiving channel ends | `incoming_ack`, `outgoing_msg` | one item of each channel per turn, addresses rewritten to loopback |
| Receiving thread (`transport/handler.rs`) | pending: message → packets | `recv_msg`, `process_packet`, `insert_packet`, `assemble_packets`, `handle_message` | acknowledges before it files; copies, late and reordered packets |
| Keys (`node/peer_key.rs`) | none | `xor`, `leading_zeros`, `get_binary`, `get_prefix` | the binary string is not padded, prefixes past its end panic |
| Routing table (`discovery/routing.rs`) | tree: prefix → bucket | `update_peer`, `remove_peer`, `remove_lru`, `get_closest_peers`, `is_new` | long sequences of updates, full buckets, duplicates |
| Kademlia (`discovery/kad.rs`) | routing table | `bootstrap`, `handle_request`, `handle_response`, `lookup_node` | several nodes' requests and responses interleaved; nothing is refreshed |
| Gossip (`gossip/gossip.rs`) | cache with times, heartbeat | `recv`, `publish`, `gossip` | floods, expiry of the cache racing retries |
| Record store, traits, utilities | none in use | | |

What makes each correct: a packet is resent until acknowledged or out of
attempts, and is acknowledged only when it arrived; a message is handed on only
when all of it is there; packets cover the bytes; a table never loses a
peer, and finds the closest ones; discovery makes everybody known; gossip
delivers once and dies out.

## The modules

| Module | Models |
|---|---|
| `Udp` | addresses, packets, acknowledgements, the channels `om` and `ia`, the network, loss, stopping processes |
| `Transport` | the transport thread and `GDUdp` |
| `MessageHandler` | the receiving thread |
| `Delivery` | both threads of every node over the network; all properties of the transport layer; the inductive invariant `DeliveryInv` |
| `ReliableDelivery` | the abstract specification: per packet a phase, a number of tries and whether it arrived; per message whether it was handed on |
| `Packetize` | the loop of `packetize` on byte positions, one action per branch |
| `PeerKey` | keys, XOR, the unpadded binary string, prefixes, order |
| `RoutingTable` | one table and its operations; `get_closest_peers` as an operator that gives every possible result |
| `PeerSet` | the abstract specification of a table: a set of peers that an update adds to, and that loses none but by a removal |
| `Discovery` | discovery among several nodes: `bootstrap`, the handlers of FindNode, NewPeer, Nodes, Ping and Pong; its properties and inductive invariant `DiscoveryInv` |
| `Gossip` | the gossip service of several nodes, whose tables grow meanwhile: `recv`, `handle_message`, `publish`, `gossip`; its properties and inductive invariant `GossipInv` |
| `Rumor` | the abstract specification of gossip: who has heard of a message from whom, without caches, heartbeats, samples or letters |
| `Chat` | the loop of the gossip thread, `Discovery` and `Gossip` over one table at each node |
| `DeliveryProofs`, `PacketizeProofs`, `RoutingTableProofs`, `DiscoveryProofs`, `GossipProofs`, `ChatProofs` | the theorems about each |
| `LookupProofs` | the theorems about `get_closest_peers` |
| `DeliveryRefinement` | that `Delivery` implements `ReliableDelivery` |
| `MC_*` | constants for TLC |

**Transport and receiver.** One action is one call of the loop body:
`IncomingAck`, `SendAck` and `SendMessage` (the two arms of `outgoing_msg`),
`Maintain` (whenever the timer may have run out: at any time), `RecvMsg`
(`recv_msg` up to and with `process_packet`), `InsertPacket` and `InsertAck`
(`insert_packet` with all it calls). The cut inside `recv_msg` is where another
thread can see a difference: the acknowledgement is in the channel, the packet
is not yet filed. The outbox's nested map is one function from packets to
entries, `Absent` standing for a missing one. `Messages` stand for what the
upper layers hand over, together with the random id drawn for it: ids are taken
to be unique. An acknowledgement always fits one packet. `tries` counts, for
each packet, the datagrams put on the wire; the code does not keep it, and the
properties compare the outbox with it.

The network is a set of datagrams. A datagram may be read and stay (a copy),
read and go, or be lost, in any order. A process may stop for good at any step
(`Crash`); nothing in the code is persisted, so a restarted one is a new node.

**Keys and table.** A bucket is the sequence its `LinkedHashMap` keeps; PeerIds
are derived from keys, so the key stands for the id. The recursion of
`update_peer` is the least level at which there is room (`Level`); where the
string ends it panics, which is a state (`last.panicked`) with no further step.
`get_closest_peers` is an operator, because it changes nothing; where the code
iterates over a `HashMap` every order is possible, where it sorts stably the
order is kept. `latest` and `last` are history. The last-updated clock of a
bucket is left out: only `get_stale_indices` reads it, and nothing calls that.

**Discovery.** One action is one message taken by `Kademlia::recv`, with all its
handler sends: `HandleFindNode` is `handle_request` and `lookup_node`,
`HandleNewPeer` and `HandlePing` are the other requests, `HandleNodes` is `handle_response` with one
`bootstrap` call for each new peer, `HandlePong` its other branch. `Bootstrap` is the call in `main`, made before
the loop starts. Handlers of one node do not interleave, because the gossip
thread runs them all; those of different nodes do. The module rests on the two below it:

- Of the transport layer it keeps what `ReliableDelivery` promises: a message
  arrives late, in any order, and possibly again (`copies`). Being a set, `mail`
  holds two equal messages as one; a copy makes up for it. A message given up by the transport
  layer stays in `mail` untaken: `Spec` has no fairness.
- Of the routing table it keeps what `PeerSet` says, which `RoutingTable` implements: the set of
  known peers, of which a lookup returns `NPeers`, or all (`ClosestCount`), each once
  and in its last record (`FindsEachOnce`). Which ones is left open, as `get_closest_peers` is not
  exact. A bucket holds 30 peers; networks that fill one are outside this module, and no smaller one does (`FewNeverFull`).

Nothing in the repository sends a ping (its places in `recv` and `gossip` are TODOs), but `prepare_ping_message` is public
and the handlers of both messages are complete. `SendPing` is an application that sends what it returns, to any address; each node does so once at
most, to one of `Pings`. `served`, `asked`, `ponged` and `copies` are history. The handlers of `Store`, `FindValue` and their responses are empty
and left out.

**Gossip.** `Recv` is one message taken by `GossipService::recv`, with three
outcomes: `Ignore` (cached), `CacheOwn` (typed here: its source is the address the socket is
bound to), `Deliver` (anything else: handed to the user, published to the
others, cached). `Heartbeat` is a call of `gossip` that finds an interval over.
Time is counted in intervals: an entry that has reached interval *i* was cached
between *i - 1* and *i* intervals ago, which is all that the comparisons with `history_gossip` and `history_len`
tell apart; a late heartbeat skips intervals (`MaxBeat`). `publish` sends to every peer of a small
table and to some sample, possibly empty, of a large one; it leaves out the
source only where the source's datagrams show an address that a table holds. The loop of the gossip thread begins with `kad.recv`, which may add peers to the table that `publish`
reads: `Learn` adds any of `Reachable`, at any time, several at once (a Nodes response). That tables only grow is what `Discovery` does to them, proved in `ChatProofs`; `get_closest_peers(local, 30)` returns all of a table of up to thirty. `told` is history: whom a node knew when it last
published a message. A message taken may stay in `mail`, which is a copy still to come; the transport
layer retries for about 3 s, `examples/chat.rs` caches for 2 s, so copies may come after the
message was dropped. `MaxDrops` is a bound of the model: without it a message can go round for ever.

**The gossip thread.** `GossipService::start` takes one message of discovery, then one of gossip, then checks the heartbeat.
`Chat` interleaves these calls freely, at each node and between nodes (any of them may find nothing to do, so that the fixed order
within a turn excludes nothing but runs of one kind of call), and starts them where `main` does: after the
dialing (`Started`), which also comes before stdin is read. Its state is that of `Discovery`, to which it
adds the variables of `Gossip` but for the table, which is the same variable in both. `Gossip`'s `Learn` is no action of it: it is what `Discovery` comes to.

**Layers.** Each layer stands on an abstract specification of the one below, and each of these is a refinement
that TLC checks and TLAPS proves: `Delivery` implements `ReliableDelivery`, `RoutingTable` implements `PeerSet`,
`Chat` implements `Discovery` and `Gossip`, and `Gossip` implements `Rumor`. That `Discovery` and `Gossip`
use their messages and tables as `ReliableDelivery` and `PeerSet` describe them is by reading, not by a refinement.

## The runs

| Run | Question | Bounds |
|---|---|---|
| `delivery` | Are acknowledgements, retries and giving up right, was a message its sender is done with handed on, is it all an implementation of `ReliableDelivery`, is an accepted message delivered, does the outbox empty? | 2 hosts, one message of 2 packets, 3 attempts, one item queued before the receiver waits, both may stop |
| `delivery_two_way` | Is a message handed on only when complete, is `DeliveryInv` an invariant? | the same, plus one packet the other way; 2 attempts, no stopping |
| `one_host_resend` | (violated) Does an acknowledgement stop the resending between processes of one machine? | 2 processes, one address |
| `packetize` | Do the packets cover the bytes? | packets of 3 bytes, 0 to 36 bytes |
| `routing_table` | Where do records go, what does a removal cost, when does anything panic, what does a lookup return, is a table a set of peers? | keys of 3 bytes of 2 bits, buckets of 2, 4 peers, one with two addresses; every sequence of updates, with one removal (`MaxRemovals`) of either of two peers, or of an oldest one, anywhere in it |
| `routing_closest` | (violated) Are the closest peers closest? | as `routing_table` |
| `routing_updates` | (violated) Does an update update? | as `routing_table` |
| `discovery_safety` | Who gets into a table, how many requests are sent, is anybody left out for ever, does it all come to an end? | 3 nodes, two of which dial any other, lookups of 3, one message handed on again |
| `discovery_liveness` | Do nodes come to know each other, pings and pongs among them? | the same, no copies; the third node pings the first once, at any time, unless both others dial it (`MC_PingOrJoin`) |
| `chat` | Does discovery treat tables as gossip takes it to, and does gossip go to nodes that can answer? | 2 nodes, one dials the other, which may ping it and types a message; one message of discovery handed on again |
| `gossip` | How often is a message delivered and published, and does it reach the peers, those found later too, and only along the tables? | 3 nodes on 2 machines, one message; two nodes find another peer at any time, one of them then draws a sample; history of 3 intervals, 2 of them gossiped, messages dropped up to twice |
| `gossip_forever` | (violated) Is a message gossiped for `history_gossip` heartbeats? | one node that knows itself |

Why these are enough: two packets are the fewest for which packets of a message
can be acknowledged, lost and filed apart; three attempts the fewest with a
first, a middle and a last; two nodes because packets of a message have one
destination and threads of a third node share nothing with them. `QueueBound` is
a bound of the model only (the channels of the code are unbounded): it limits how
many acknowledgements wait, not what is sent. The remainder that `packetize` tests is that of the *number*
of packets by 1024, so sizes with more than three packets of three bytes cover
both of its results. Keys of three bytes of two bits give distances of 3 to 6
digits, among them peers that share all the digits of another; with buckets of two the sequences of
updates are finite, since a table that can take no more of a peer panics.

Three nodes are the fewest at which one introduces two others; with two that dial, their requests,
responses and announcements cross, and one may dial the other while that one
dials the third. Every handler treats a copy as the original, so one copy shows
what a second would; the proofs do not bound them. `NPeers` is 3 for three nodes because the properties speak of lookups
that return all peers (in the code: up to 8); smaller ones are covered by the proof. What a ping can upset is the order of one request and its answer, for which one ping,
between two dialing nodes and the third, is enough; the proofs allow any number of either.
`MC_PingOrJoin` is an action constraint of `discovery_liveness`: the third node pings where the others meet it by way of each other,
which is where a ping makes somebody known ahead of discovery. It cuts nothing but steps of `Bootstrap` and `SendPing`, of which no fairness is
asked and which no property requires; `Recv` is never cut, so a behaviour that is left is fair exactly if it was. The safety of what is cut is proved.
In `chat` the two layers meet in one node's table and one pair of nodes: two are the fewest where one knows the other and not yet the reverse.
One removal is enough for a gap in a table, which is what the properties with `removals = 0` exclude; the proofs bound neither updates nor removals.

With a history of 3 and 2 intervals a message is published twice, rests, and is dropped; two drops let it come back after the first.
One node may find its first peer before it has the message, between its two heartbeats, or too late; the other crosses the
limit (`AllUpTo`, 7 in the code and 2 in the run) above which a sample is drawn. In this run heartbeats are on time, the proofs leave their lateness open.

Deadlock is switched off where the system may stop: processes that stop,
`packetize` that returns, a table that panicked, discovery when all is known, gossip when all is dropped.
Where it is on, in `delivery_two_way`, it says nothing: `Maintain` is always possible while a process runs. That the two threads of a process do not wait for
each other needs no check, as their channels are unbounded and polled with `try_recv`.

What the bounds leave to the proofs, or open. `EventualDelivery` is checked for one message, so that no acknowledgement ever waits behind a message in `om`; with messages both ways
its state space is too large for a liveness check, and it is the invariants of `delivery_two_way` and the theorems, `ClosedIsHandedOn` first, that speak of that. A table of `routing_table` without a full bucket holds
two peers at most; `FindsEachOnceAlways` is about any. In `chat`, with two nodes, nobody is told of a node by a third; `GossipIsMutualAlways` covers that. In `gossip` heartbeats are on time (`MaxBeat` is 1), while the code's `>` makes them a little late:
the invariants are proved for any lateness, `Spreads` is only checked for this one.
A process that stops between acknowledging a packet and filing it loses the packet, and its sender never learns: nothing in the code prevents that, and nothing here claims it. `AckedHasArrived`
and `SettledIsHandedOn` count the packet as in the thread's hands, `EventualDelivery` exempts processes that stopped.

## Fairness

`FairSpec` asks weak fairness of what the two loops of a running process poll
for: `IncomingAck`, `SendAck`, `SendMessage`, `Maintain` (its timer runs out every
300 ms), and the insertion that follows a receive. The loops in
`examples/chat.rs` never wait inside these calls, so each is executed again and
again. Nothing is assumed of the network and nothing of `RecvMsg`: datagrams
may all be lost. `EventualDelivery` therefore ends in "delivered, or a packet
used up its attempts, or a process stopped".

`Discovery!FairSpec` asks weak fairness of `Recv`: the gossip thread polls its channel in a loop that
never waits, and the transport layer is taken to deliver. It is the case in which nothing is given up; `delivery`
shows what remains otherwise.

`Introduced` and `Acquainted` are what the code does achieve. That *all* nodes
become known to each other is not among them: a node that dials one that was already
introduced elsewhere may not be told of the others, since only nodes that asked the same one are introduced, and nothing is asked again.

`Gossip!FairSpec` asks weak fairness of `Recv` and of `Heartbeat`, two calls of the
same loop. `Spreads` speaks of messages a heartbeat will publish however late it is (`StillYoung`): that
heartbeats are not later than `MaxBeat` intervals is an assumption, and a node that is suspended longer than `HistoryGossip` of them after
its user typed never publishes the message. A peer that is found when the message is no longer young is not told of it.

Discovery says some things twice: in the run, `Introduced` holds without the
announcements too (the nodes ask each other once they are named in a response), and
`Acquainted` without the requests to new peers (an announcement goes to both).

## What is proved

`DeliveryProofs`, for all nodes, messages, hosts, numbers of packets and
attempts that satisfy the `ASSUME`s of `Udp`, `Transport` and `MessageHandler`
(origins and targets are nodes, every message has a packet, no public address
is the loopback one, `Nothing` is no datagram, `MaxAttempts` and `QueueBound` are positive):

- `Invariance`: `Spec => [](TypeOK /\ DeliveryInv)`, and from it `TypeCorrect`,
  `AcksAreTrue`, `NeverGivesUpEarly`, `BoundedRetries`, `KeptIsResent`, `OnlyCompleteMessages`;
- `NoResendAcrossHosts`: if no two nodes share an IP address, an acknowledged
  packet is never sent again. The finding below is exactly what this leaves out.

None of the properties is inductive. That an acknowledgement in the outbox is
true depends on those still in `ia`, in the receiver's hands, on the wire and in
the other node's `om`; hence `InFlightInv` and `QueueInv` say of each place what
it may hold. That entries are kept for a reason depends on the outbox holding
only own packets, sent to one destination, counted as often as they were sent,
and acknowledged only by their receiver (`OutboxInv`, `CountInv`). That a message handed on
is complete depends on what was filed (`FiledInv`). `Arrived` only ever grows,
which every place relies on: the lemmas prove that first, then one lemma for each conjunct and action.

`SettledIsHandedOnAlways` is the promise of the layer end to end: a sender whose packets of a message are all acknowledged, or closed
before their last attempt, is right, as the message was handed on at its destination, or a packet of it is in the hands of the receiving
thread. It rests on all three parts: a packet closed early has arrived, one that has arrived is filed or in hand, and (added to `FiledInv` for it)
a message that is all filed has been handed on. With `BoundedRetries` it gives `ClosedIsHandedOn`, the safety half of `EventualDelivery`: once a sent message
has left the outbox it was handed on, or a packet used up its attempts, or is in hand. `MaintainProgresses` is the step behind
`OutboxDrains`: every `maintain` drops each open entry of its node or sends its packet once more, of which there are `MaxAttempts`.

`DeliveryRefinement`: `Refines`, that `Spec` implements `ReliableDelivery`, under the same assumptions. One call of `maintain` resends,
gives up and settles many packets at once, so the abstract specification lets any number of packets move in one step of the senders, and
the proof shows for each packet which move it makes: none or the end of its entry, the first datagram, or one more (`Sending`). That an entry ends only when
its packet arrived or its tries are used up is a guard of the abstract step, and follows from the invariant of `DeliveryProofs`. The
receiver's steps are the arrival of a packet, or the handing on of a message all of whose packets have arrived, or change nothing abstract.

`PacketizeProofs`, for every packet size and set of lengths: `LoopInvariant`, `NeverPanicsAlways`, `PacketizeCorrect` and
`PayloadBoundAlways`, which are inductive only together (`Safe`). The wrong remainder only ever makes one
packet more or leaves up to `2 * PacketSize - 1` bytes for the last one.

`RoutingTableProofs`, for keys and buckets of any size, any peers and any sequence of updates and removals:
`TableInvariant`: `Spec => []TableInv`, and from it `TypeCorrect`, `PlacementAlways`, `GrowsFromFullAlways`,
`DeepestIsLatestAlways`, `PanicNeedsCrowdAlways`, `LookupNeedsCrowdAlways`, and `NeverForgetsAlways`, which is about steps.

`RefinesPeerSet`: `Spec` implements `PeerSet` with the set of keys in any bucket for its `known`. The table keeps a
peer in several buckets and moves none, so what has to be shown is that an update adds one key wherever it goes, that a
removal takes one key, of the peer or of the oldest record of the bucket, and only if no copy is left, and that an update that panics has met a full bucket, whose records are of
`MaxBucketLen` different peers (`FullKeys`). `NeverForgets` is a consequence of it, proved for itself and checked by no run of its own.

`TableInv` says that buckets hold no more than they may and no key twice (`Typed`) and that records are under prefixes of their
distances (`Placed`); and, until something is removed, that a bucket exists only under full ones (`Nested`), that none is empty (`Filled`), and that the deepest copy
of a peer is the latest (`UpToDate`). The last is not inductive without `Nested`: an update goes to the first bucket with room, which is at or below every
copy of the peer only because all buckets above a bucket are full. That `update_peer` panics only where a crowd shares a path, and a lookup only on a
table of more than `KeyBytes * MaxBucketLen` records, are counting arguments: a full bucket at the end of a path holds different keys,
each byte prints at least one digit, and above a bucket as deep as that all are full.

`DiscoveryProofs`, for every finite set of nodes, all dialers and pingers and any number of copies:
`DiscoveryInvariant`: `Spec => [](TypeOK /\ DiscoveryInv)`, and from it `KnownHasSpokenAlways`,
`RequestsBoundedAlways`, `MutualOrPendingAlways`, `IntroducedOrPendingAlways`, the last two under the condition they
state, that a lookup returns all peers. None is inductive alone. Who is in a table
depends on who is named in messages (`SpokenInv`); a bound on requests needs that whoever
was asked, beyond the bootstrap node, is in the table (`AskedInv`), which `is_new` reads. That knowing is mutual after a
NewPeer message depends on the node announced being told of the receiver by the same lookup, and after a Pong on the node that answers having added the one that pinged (both in `AnnouncedInv`).
The argument runs on `Learns`, "knows or is on the way to being told": no step of any node takes it back (`LearnsStays`, `SendingStays`),
and an answer makes it true in both directions (`Answered`).

`RunsOutAlways`: discovery comes to rest, for any number of nodes, pings and copies. Its messages start each other: a request is answered by a
response and an announcement to every peer, a response by a request to every new peer. `Rank` counts what is left, weighed so that
every step lowers it: a message by how many steps it is good for, a request as much as its response and all its announcements (`Weight`), and what can still start
requests, a peer that some node does not know yet, a node that has not dialed, a copy still to come, as much as a request. That each request a response starts is paid for by a peer known from then on is where
`is_new` is needed (`UnknownShrinks`). `Rank` is a natural number, so there are no more steps than it begins with.
`RestIsMutual` says where discovery then is: with no message on its way, and lookups that return all peers, tables are mutual and nodes that asked the same
one know each other. Together they are `Acquainted` and `Introduced` but for the fairness that has the last message taken.

`GossipProofs`, for every set of nodes and messages, all tables and ways they grow, hosts, histories and lateness:
`GossipInvariant`: `Spec => [](TypeOK /\ GossipInv)`, and from it `OncePerHistoryAlways`,
`FloodBoundedAlways` and `InformedOrPendingAlways`. That a user is not handed the own message at first depends on
every letter and every cache going back to the author (`SourceInv`); the bound on heartbeats on
each having advanced the interval of the entry by at least one (`BeatInv`); that nobody is missed on the first, since the source is left out because it has had the message, and on tables only growing (`FewStaysFew`).

`ConfinedAlways`: a message never leaves a group of nodes that holds its author and knows nobody outside. That
needs what is on its way to go to peers its sender knows (`SentToKnown`), and tables that grow, which can only make such groups fewer.
`RefinesRumor`: `Spec` implements `Rumor`, with "has been cached or dropped" for having heard, "delivered at least once" for having been handed it. A letter
is told by a node that has heard the message (`SourceInv`) to a peer in its table (`SentToKnown`); a message that
comes again after it was dropped is told again, which changes nothing there.
`SpreadsAlongTables`: when no copy of a message is on its way and its author's node has published it, whoever has had it and publishes to all its peers leaves none of
those it began with without it. Every node but the author's publishes a message in the step in which it takes it (`ToldInv`), to a table that holds at least those peers; the rest is
`InformedOrPending`. Where tables stay as they were, this and `ConfinedAlways` say exactly whom a message reaches.

`LookupProofs`, for keys, buckets, targets and counts of any size: `ClosestCountAlways`, `FindsEachOnceAlways`, `FewNeverFull`.
The operator `Closest` says "the buckets from the greatest length on at which they hold *n* records together" and "any *n* records no other comes before, in an order by distance that is partial", so
the proof has to show that there always are some: the order is strict (`SlotOrderStrict`), a strict order on a finite set has last elements, and the
smallest set of *n* records or more that nothing outside comes before has exactly *n* of them (`Foremost`), since its last one could be taken out. That sets have
smallest ones among them (`Smallest`) is the library's theorem on well-founded orders, in place of an induction.
`UpdatesWhileRoom` confines the third finding: while no bucket is full and nothing was removed, an update leaves one record of its peer, the new one.
`FindsEachOnce` needs that without a full bucket there are buckets of one digit only (`OneDigit`, from `Nested`), and one record of a peer in each.

`ChatProofs`, for any nodes, messages and configuration: `RefinesDiscovery`, which makes every theorem about `Discovery` one about the nodes of the chat
(`ChatDiscovery` and `ChatDiscoveryRunsOut` state them: gossip, which may go on for ever, never starts discovery again); `RefinesGossip`, by which every invariant proved of `Gossip` holds of them too, since a step of discovery is a
`Learn` or leaves tables alone (`Grows`); and what neither layer has alone: `SentToKnownAlways` and `GossipIsMutualAlways`, that
a node that is gossiped to knows the one it hears from, or is on the way to being told, from `MutualOrPending` and from knowing being never taken back. `ChatProofs` does not
cite `GossipProofs`: the prover does not import theorems through an INSTANCE, so that theorems about `Gossip` are carried over by `RefinesGossip` on paper.

Model-checked only: liveness (`EventualDelivery`, `OutboxDrains`, `Introduced`, `Acquainted`, `Spreads`), which is out of the
prover's reach. What of each needs no fairness is proved: `ClosedIsHandedOn`, `MaintainProgresses`, `RestIsMutual` with `RunsOutAlways`, and `SpreadsAlongTables`.
Every invariant and action property a run checks is a theorem.

## Findings

1. *Acknowledged packets are sent again on one machine* (`one_host_resend`).
   `outgoing_msg` puts 127.0.0.1 into `sent_set` for peers on its own IP address,
   acknowledgements put the public address into `ack_set`, and `maintain`
   compares the two. Every packet between such processes is sent ten times.
2. *`get_closest_peers` does not return the closest peers* (`routing_closest`).
3. *`update_peer` does not update a peer of a full bucket* (`routing_updates`):
   it adds a second record further down, and the old address stays.
4. *A message is gossiped for ever* (`gossip_forever`). A node publishes to itself, since
   `publish` compares peers with the address the socket is bound to. What the transport layer sends again
   after the cache has dropped the message is delivered, cached and published anew,
   to all peers, and to the user who typed it. A node's packets to itself are always sent ten
   times (finding 1), so this needs no loss: 10 times 300 ms is longer than the 8 times 250 ms a message is cached.

`remove_peer` and `remove_lru` look in a bucket the peer need not be in; their TODO
comments say so, nothing calls them, and no finding is made of it.

## Not modelled

- The composition of all layers in one module: `Chat` composes those above the transport layer; that and buckets are reached through what they promise
  (`ReliableDelivery`, `PeerSet`), as the product of their states is beyond exhaustive checking.
- Tables with a full bucket in `Discovery` and `Gossip`: a bucket holds 30 peers, and `RoutingTable` is about what happens then.
- `PeerInfo`, `PeerId` and the traits: records and conversions without state. The record store: types nothing uses.
- serde encodings (what does not decode is ignored by the code), random keys (taken to be unique), logging, the staleness clock of
  buckets and `KBucket::split` (nothing reads the one, the other returns an empty bucket), `leading_ones`, the `packetize!` macro, `GDUdp::ack`, which nothing
  calls, the empty handlers of `Store` and `FindValue`, reading stdin and printing.
- What a sample of `publish` reaches: nothing is promised of a draw with repetition, and the model allows every result of it.
