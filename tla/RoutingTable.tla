----------------------------- MODULE RoutingTable -----------------------------
(* One node's routing table, src/discovery/routing.rs: buckets of at most      *)
(* MaxBucketLen peers, keyed by prefixes of the binary string of the XOR       *)
(* distance to the local key, and grown one digit at a time.                   *)
(*                                                                             *)
(* A bucket is the sequence of its peers, least recently used first, as its    *)
(* LinkedHashMap keeps them: inserting a key that is there moves it to the     *)
(* back.  PeerIds are derived from keys, so a peer's key stands for its id.    *)
EXTENDS PeerKey, FiniteSetsExt, SequencesExt

CONSTANTS
    MaxBucketLen,   \* MAX_BUCKET_LEN, 30
    Addresses,      \* the socket addresses of the peers
    PeerInfos,      \* the PeerInfos the table is told of
    LocalInfo,      \* the local node's
    Removable,      \* those it is asked to remove
    MaxRemovals,    \* bound of the model: how often
    NoPeer          \* "no record given yet"

ASSUME TableAssumption ==
    /\ MaxBucketLen \in Nat \ {0}
    /\ PeerInfos \subseteq [key : Keys, address : Addresses]
    /\ LocalInfo \in PeerInfos
    /\ Removable \subseteq PeerInfos
    /\ MaxRemovals \in Nat
    /\ IsFiniteSet(PeerInfos)
    /\ NoPeer \notin PeerInfos

VARIABLES
    tree,       \* the buckets, by prefix
    last,       \* history: the last operation, its argument and whether it panicked
    latest,     \* history: the record update_peer was given last for each key
    removals    \* history: how often something was removed

vars == <<tree, last, latest, removals>>

Distance == [p \in PeerInfos |-> Xor(LocalInfo.key, p.key)]

\* The binary string of the distance of each peer.
Path == [p \in PeerInfos |-> Binary(Distance[p])]

SameKey(p, q) == p.key = q.key

KnownKeys == {p.key : p \in PeerInfos}

\* What get_prefix can return of them.
PathPrefixes == UNION {{Prefix(Path[p], d) : d \in 0..Len(Path[p]) - 1} : p \in PeerInfos}

\* Buckets hold at most MaxBucketLen peers and no key twice.
TypeOK ==
    /\ DOMAIN tree \subseteq PathPrefixes
    /\ \A k \in DOMAIN tree :
         /\ tree[k] \in Seq(PeerInfos) /\ Len(tree[k]) <= MaxBucketLen
         /\ \A i, j \in 1..Len(tree[k]) : SameKey(tree[k][i], tree[k][j]) => i = j
    /\ last \in [op : {"new", "update", "remove_peer", "remove_lru"}, peer : PeerInfos,
                 panicked : BOOLEAN]
    /\ latest \in [KnownKeys -> PeerInfos \cup {NoPeer}]
    /\ removals \in Nat

\* RoutingTable::new
Init ==
    /\ tree = [k \in {Prefix(Path[LocalInfo], 0)} |-> <<LocalInfo>>]
    /\ last = [op |-> "new", peer |-> LocalInfo, panicked |-> FALSE]
    /\ latest = [k \in KnownKeys |-> IF k = LocalInfo.key THEN LocalInfo ELSE NoPeer]
    /\ removals = 0

------------------------------------------------------------------------------
\* For mutation: a bucket is full one peer early.
FullEarly(bucket) == Len(bucket) >= MaxBucketLen - 1

IsFull(bucket) == Len(bucket) >= MaxBucketLen

\* For mutation: an id that is in the bucket already keeps its old record.
KeepOld(bucket, peer) ==
    IF \E i \in 1..Len(bucket) : SameKey(bucket[i], peer) THEN bucket ELSE Append(bucket, peer)

\* For mutation: a plain append.
PushBack(bucket, peer) == Append(bucket, peer)

\* The places of a bucket that hold the peer: one at most.
Places(bucket, peer) == {i \in 1..Len(bucket) : SameKey(bucket[i], peer)}

Without(bucket, peer) ==
    IF Places(bucket, peer) = {} THEN bucket
    ELSE RemoveAt(bucket, CHOOSE i \in Places(bucket, peer) : TRUE)

\* For mutation: a peer that is new to a bucket takes the place of the least recently used.
Evicting(bucket, peer) ==
    IF bucket # <<>> /\ Places(bucket, peer) = {} THEN Append(Tail(bucket), peer)
    ELSE Append(Without(bucket, peer), peer)

Upsert(bucket, peer) == Append(Without(bucket, peer), peer)

\* The bucket update_peer finds at a prefix, or the new one it makes there.
Bucket(k) == IF k \in DOMAIN tree THEN tree[k] ELSE <<>>

\* The levels of the recursion at which peer finds a bucket with room, or none yet.
Open(peer) ==
    {d \in 0..Len(Path[peer]) - 1 : ~IsFull(Bucket(Prefix(Path[peer], d)))}

\* For mutation: the peer goes to the deepest such level.
DeepestLevel(peer) == {d \in Open(peer) : \A e \in Open(peer) : e <= d}

\* update_peer stops at the first.
Level(peer) == {d \in Open(peer) : \A e \in Open(peer) : d <= e}

Panic(op, peer) ==
    /\ last' = [op |-> op, peer |-> peer, panicked |-> TRUE]
    /\ UNCHANGED <<tree, latest, removals>>

\* update_peer(peer, 0).  Recursion past the end of the binary string panics.
UpdatePeer(peer) ==
    /\ ~last.panicked
    /\ \/ Open(peer) = {} /\ Panic("update", peer)
       \/ \E d \in Level(peer) :
            LET k == Prefix(Path[peer], d) IN
              /\ tree' = [x \in DOMAIN tree \cup {k} |->
                            IF x = k THEN Upsert(Bucket(k), peer) ELSE tree[x]]
              /\ last' = [op |-> "update", peer |-> peer, panicked |-> FALSE]
              /\ latest' = [latest EXCEPT ![peer.key] = peer]
              /\ UNCHANGED removals

\* remove_peer and remove_lru look in one bucket: its prefix has as many digits, less one,
\* as the distance has zeros in front or the table has other buckets, whichever is less.
RemovalLevel(peer) ==
    Min({LeadingZeros(Distance[peer]), Cardinality(DOMAIN tree) - 1})

RemoveFrom(op, peer, bucket) ==
    /\ ~last.panicked
    /\ removals < MaxRemovals
    /\ IF ~HasPrefix(Path[peer], RemovalLevel(peer)) THEN Panic(op, peer)
       ELSE LET k == Prefix(Path[peer], RemovalLevel(peer)) IN
              /\ tree' = [x \in DOMAIN tree |-> IF x = k THEN bucket[x] ELSE tree[x]]
              /\ last' = [op |-> op, peer |-> peer, panicked |-> FALSE]
              /\ removals' = removals + 1
              /\ UNCHANGED latest

RemovePeer(peer) ==
    RemoveFrom("remove_peer", peer, [x \in DOMAIN tree |-> Without(tree[x], peer)])

\* pop_front of the bucket found for the peer's key.
RemoveLru(peer) ==
    RemoveFrom("remove_lru", peer,
               [x \in DOMAIN tree |-> IF tree[x] = <<>> THEN <<>> ELSE Tail(tree[x])])

Next ==
    \/ \E p \in PeerInfos : UpdatePeer(p)
    \/ \E p \in Removable : RemovePeer(p) \/ RemoveLru(p)

Spec == Init /\ [][Next]_vars

------------------------------------------------------------------------------
(* get_closest_peers.  A slot <<prefix, position>> is one copy of a peer.      *)

SlotsIn(ks) == {s \in ks \X (1..MaxBucketLen) : s[2] <= Len(tree[s[1]])}

\* total_peers and get_all_peers
Slots == SlotsIn(DOMAIN tree)

At(slot) == tree[slot[1]][slot[2]]

Nearer ==
    [target \in PeerInfos |-> [a \in PeerInfos |-> [b \in PeerInfos |->
        Less(Xor(a.key, target.key), Xor(b.key, target.key))]]]

\* sort_by_key: the peers in order of their XOR distance to the target.  The sort is
\* stable, so of a peer's copies gathered from the longest prefix down, the one of the
\* longer prefix stays in front.
Before(target, gathered, s, r) ==
    \/ Nearer[target][At(s)][At(r)]
    \/ gathered /\ SameKey(At(s), At(r)) /\ Len(s[1]) > Len(r[1])

\* truncate: count slots with none left out that comes before one of them.  In the order
\* of distance alone several choices may do, as get_all_peers reads a HashMap.
Truncated(slots, target, count, gathered) ==
    {s \in kSubset(count, slots) :
        \A kept \in s, cut \in slots \ s : ~Before(target, gathered, cut, kept)}

\* The buckets whose prefix is one of the target's distance.
Matching(target) == {k \in DOMAIN tree : IsPrefix(k, Path[target])}

\* For mutation: only the bucket of the longest prefix is searched.
LongestOnly(target, count) ==
    {k \in Matching(target) : \A x \in Matching(target) : Len(x) <= Len(k)}

\* The longest of these buckets that together hold count peers.
Longest(target, count) ==
    LET from(l) == {k \in Matching(target) : Len(k) >= l}
    IN  from(Max({l \in {Len(k) : k \in Matching(target)} :
                    Cardinality(SlotsIn(from(l))) >= count}))

\* The filter takes a prefix of the target's distance as long as each bucket's.
LookupPanics(target, count) ==
    /\ Cardinality(Slots) > count
    /\ \E k \in DOMAIN tree : ~HasPrefix(Path[target], Len(k) - 1)

\* The possible results of get_closest_peers, when it does not panic.
Closest(target, count) ==
    IF Cardinality(Slots) <= count THEN {Slots}
    ELSE IF Cardinality(SlotsIn(Matching(target))) < count
         THEN Truncated(Slots, target, count, FALSE)
         ELSE Truncated(SlotsIn(Longest(target, count)), target, count, TRUE)

------------------------------------------------------------------------------
\* The negation of is_new.
Knows(peer) == \E s \in Slots : SameKey(At(s), peer)

Known == {p.key : p \in {q \in PeerInfos : Knows(q)}}

Counts == 1..MaxBucketLen + 1

Queries == {q \in PeerInfos \X Counts : ~LookupPanics(q[1], q[2])}

\* Every peer is in buckets whose prefixes are prefixes of its distance, whatever was
\* inserted where and in which order: get_closest_peers filters buckets by that.
Placement ==
    \A s \in Slots : IsPrefix(s[1], Path[At(s)])

\* As long as nothing is removed a bucket of a longer prefix exists only under full
\* buckets, so update_peer meets no gap.
GrowsFromFull ==
    removals = 0 =>
        \A k \in DOMAIN tree : \A l \in 1..Len(k) - 1 :
            SubSeq(k, 1, l) \in DOMAIN tree /\ IsFull(tree[SubSeq(k, 1, l)])

\* A peer updated while its bucket is full is stored again further down, beside its older
\* record.  Of all its copies the one of the longest prefix is the last record given, as
\* long as nothing is removed, so get_closest_peers meets the last record first.
DeepestIsLatest ==
    removals = 0 =>
        \A s \in Slots :
            (\A r \in Slots : SameKey(At(r), At(s)) => Len(r[1]) <= Len(s[1]))
                => At(s) = latest[At(s).key]

\* update_peer runs past the end of a distance only when MaxBucketLen peers share all of
\* its digits.
PanicNeedsCrowd ==
    last.op = "update" /\ last.panicked =>
        Cardinality({p.key : p \in {q \in PeerInfos : IsPrefix(Path[last.peer], Path[q])}})
            >= MaxBucketLen

\* get_closest_peers runs past the end of a distance only when the table holds more records
\* than fill a bucket for every byte of a key; several may be of one peer, as total_peers
\* counts them too.
LookupNeedsCrowd ==
    removals = 0 =>
        \A target \in PeerInfos, count \in Counts :
            LookupPanics(target, count) => Cardinality(Slots) > KeyBytes * MaxBucketLen

\* get_closest_peers returns as many records as were asked for, or all there are; a peer
\* that has several may be returned as often.
ClosestCount ==
    \A q \in Queries :
        LET results == Closest(q[1], q[2]) IN
          /\ results # {}
          /\ \A s \in results : Cardinality(s) = Min({q[2], Cardinality(Slots)})

\* As long as no bucket is full and nothing is removed, a lookup for as many peers as there
\* are finds the last record of each of them, and finds it once: discovery and gossip, which
\* call get_closest_peers with 8 and 30, may take such a table for the set of its peers.
FindsEachOnce ==
    removals = 0 /\ (\A k \in DOMAIN tree : ~IsFull(tree[k])) =>
        \A target \in PeerInfos, count \in Counts :
            Cardinality(Known) <= count =>
                \A s \in Closest(target, count) :
                    /\ Cardinality(s) = Cardinality(Known)
                    /\ {At(slot) : slot \in s} = {latest[key] : key \in Known}

\* update_peer never loses a peer, not even the one a full bucket would have to evict;
\* remove_peer loses no other peer, and remove_lru at most one.
NeverForgets ==
    [][LET lost == {p.key : p \in {q \in PeerInfos : Knows(q) /\ ~Knows(q)'}} IN
         CASE last'.op = "remove_peer" -> lost \subseteq {last'.peer.key}
           [] last'.op = "remove_lru"  -> Cardinality(lost) <= 1
           [] OTHER                    -> lost = {}]_vars

\* The table is a set of the peers it was told of: whatever buckets are full, a peer is in it
\* once it was given, and nothing else gets in.
Peers == INSTANCE PeerSet WITH known <- Known

ImplementsPeerSet == Peers!Spec

------------------------------------------------------------------------------
(* What the comments of the code say of it, and the code does not do.          *)

\* "Returns a vector of the n the closest peers to the requested peer as measured by XOR"
ClosestAreClosest ==
    \A q \in Queries :
        \A s \in Closest(q[1], q[2]) :
            \A kept \in s, left \in Slots \ s : ~Before(q[1], FALSE, left, kept)

\* "Adds a peer to the routing table if they don't exist / Update's a peer if they do exist"
UpdateUpdates ==
    last.op = "update" /\ ~last.panicked =>
        \A s \in Slots : SameKey(At(s), last.peer) => At(s) = last.peer
==============================================================================
