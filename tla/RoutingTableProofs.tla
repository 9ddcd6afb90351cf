-------------------------- MODULE RoutingTableProofs --------------------------
(* Proofs about RoutingTable, for keys and buckets of any size, any peers and  *)
(* any number of removals.                                                     *)
EXTENDS RoutingTable, SequenceTheorems, FiniteSetTheorems, TLAPS

USE KeyAssumption, TableAssumption

------------------------------------------------------------------------------
(* Paths: the binary strings of the distances.                                 *)

PathDigits == UNION {{Path[p][d] : d \in 1..Len(Path[p])} : p \in PeerInfos}

LEMMA Interval ==
    ASSUME NEW n \in Nat
    PROVE  IsFiniteSet(1..n) /\ Cardinality(1..n) = n
  BY FS_Interval

\* At least one bit is printed of every byte, and the printed bits are counted.
LEMMA PrintedFacts ==
    ASSUME NEW key
    PROVE  /\ IsFiniteSet(Printed(key))
           /\ Cardinality(Printed(key)) \in Nat
           /\ KeyBytes <= Cardinality(Printed(key))
<1> DEFINE places == (1..KeyBytes) \X (1..ByteBits)
<1>1. IsFiniteSet(1..KeyBytes) /\ Cardinality(1..KeyBytes) = KeyBytes /\ IsFiniteSet(1..ByteBits)
  BY Interval
<1>2. IsFiniteSet(places)
  BY <1>1, FS_Product
<1>3. Printed(key) \in SUBSET places
  BY DEF Printed
<1>4. IsFiniteSet(Printed(key)) /\ Cardinality(Printed(key)) \in Nat
  BY <1>2, <1>3, FS_Subset, FS_CardinalityType
<1> DEFINE f == [i \in 1..KeyBytes |-> <<i, ByteBits>>]
<1>5. \A i \in 1..KeyBytes : <<i, ByteBits>> \in Printed(key)
  BY DEF Printed
<1>6. f \in Injection(1..KeyBytes, Printed(key))
  BY <1>5 DEF Injection, IsInjective
<1>7. Cardinality(1..KeyBytes) <= Cardinality(Printed(key))
  BY <1>4, <1>6, FS_Injection
<1> QED
  BY <1>1, <1>4, <1>7

LEMMA PathFacts ==
    ASSUME NEW p \in PeerInfos
    PROVE  Path[p] \in Seq(PathDigits) /\ Len(Path[p]) \in Nat /\ KeyBytes <= Len(Path[p])
<1> DEFINE key == Distance[p]
           n == Cardinality(Printed(key))
<1>1. n \in Nat /\ KeyBytes <= n
  BY PrintedFacts
<1>2. Path[p] = Binary(key)
  BY DEF Path
<1>3. DOMAIN Path[p] = 1..n /\ Path[p] = [d \in 1..n |-> Path[p][d]]
  BY <1>2 DEF Binary
<1> HIDE DEF n
<1>4. Path[p] \in Seq({Path[p][d] : d \in 1..n})
  BY <1>1, <1>3
<1>5. Len(Path[p]) = n
  BY <1>1, <1>3, <1>4, LenProperties
<1>6. \A d \in 1..n : Path[p][d] \in PathDigits
  BY <1>5 DEF PathDigits
<1>7. Path[p] \in [1..n -> PathDigits]
  BY <1>3, <1>6
<1>8. Path[p] \in Seq(PathDigits)
  BY <1>1, <1>7
<1> QED
  BY <1>1, <1>5, <1>8

LEMMA SamePath ==
    ASSUME NEW p \in PeerInfos, NEW q \in PeerInfos, SameKey(p, q)
    PROVE  Path[p] = Path[q]
  BY DEF SameKey, Path, Distance

LEMMA PrefixFacts ==
    ASSUME NEW p \in PeerInfos, NEW d \in 0..Len(Path[p]) - 1
    PROVE  /\ Prefix(Path[p], d) \in Seq(PathDigits)
           /\ Len(Prefix(Path[p], d)) = d + 1
           /\ \A i \in 1..d + 1 : Prefix(Path[p], d)[i] = Path[p][i]
           /\ Prefix(Path[p], d) \in PathPrefixes
<1>1. Path[p] \in Seq(PathDigits) /\ Len(Path[p]) \in Nat
  BY PathFacts
<1>2. \A i \in 1..d + 1 : Path[p][i] \in PathDigits
  BY <1>1, ElementOfSeq
<1>3. Prefix(Path[p], d) \in PathPrefixes
  BY DEF PathPrefixes
<1> QED
  BY <1>1, <1>2, <1>3, SubSeqProperties DEF Prefix

LEMMA PathPrefixFacts ==
    ASSUME NEW k \in PathPrefixes
    PROVE  k \in Seq(PathDigits) /\ Len(k) \in Nat \ {0}
<1>1. PICK p \in PeerInfos : \E d \in 0..Len(Path[p]) - 1 : k = Prefix(Path[p], d)
  BY DEF PathPrefixes
<1>2. Len(Path[p]) \in Nat
  BY PathFacts
<1> QED
  BY <1>1, <1>2, PrefixFacts

\* A prefix of a path is what get_prefix returns of it.
LEMMA PrefixOfPath ==
    ASSUME NEW k \in PathPrefixes, NEW p \in PeerInfos
    PROVE  IsPrefix(k, Path[p]) <=>
             Len(k) <= Len(Path[p]) /\ k = Prefix(Path[p], Len(k) - 1)
<1>1. k \in Seq(PathDigits) /\ Len(k) \in Nat \ {0}
  BY PathPrefixFacts
<1>2. SubSeq(k, 1, Len(k)) = k
  BY <1>1, SubSeqFull
<1>3. Prefix(Path[p], Len(k) - 1) = SubSeq(Path[p], 1, Len(k))
  BY <1>1 DEF Prefix
<1> QED
  BY <1>2, <1>3 DEF IsPrefix

\* The prefixes of a prefix are those of the path.
LEMMA ShorterPrefix ==
    ASSUME NEW p \in PeerInfos, NEW d \in 0..Len(Path[p]) - 1, NEW l \in 1..d
    PROVE  SubSeq(Prefix(Path[p], d), 1, l) = Prefix(Path[p], l - 1)
<1> DEFINE k == Prefix(Path[p], d)
           a == SubSeq(k, 1, l)
           b == Prefix(Path[p], l - 1)
<1>1. Len(Path[p]) \in Nat
  BY PathFacts
<1>2. k \in Seq(PathDigits) /\ Len(k) = d + 1 /\ \A i \in 1..d + 1 : k[i] = Path[p][i]
  BY PrefixFacts
<1>3. l - 1 \in 0..Len(Path[p]) - 1
  BY <1>1
<1>4. b \in Seq(PathDigits) /\ Len(b) = l /\ \A i \in 1..l : b[i] = Path[p][i]
  BY <1>3, PrefixFacts
<1> HIDE DEF k, b
<1>5. \A i \in 1..l : k[i] \in PathDigits
  BY <1>1, <1>2, ElementOfSeq
<1>6. a \in Seq(PathDigits) /\ Len(a) = l /\ \A i \in 1..l : a[i] = k[i]
  BY <1>5, SubSeqProperties
<1> HIDE DEF a
<1>7. ASSUME NEW i \in 1..l PROVE a[i] = b[i]
  <2>1. i \in 1..d + 1
    BY <1>1
  <2> QED
    BY <1>2, <1>4, <1>6, <2>1
<1>8. a = b
  BY <1>4, <1>6, <1>7, SeqEqual
<1> QED
  BY <1>8 DEF a, b, k

------------------------------------------------------------------------------
(* Buckets.                                                                    *)

\* A bucket holds no key twice.
Bucketed(b) ==
    /\ b \in Seq(PeerInfos)
    /\ \A i, j \in 1..Len(b) : SameKey(b[i], b[j]) => i = j

\* Removing a peer keeps the others and leaves none with its key.
LEMMA WithoutFacts ==
    ASSUME NEW b, Bucketed(b), NEW p \in PeerInfos
    PROVE  /\ Bucketed(Without(b, p)) /\ Len(Without(b, p)) <= Len(b)
           /\ \A i \in 1..Len(Without(b, p)) :
                /\ ~SameKey(Without(b, p)[i], p)
                /\ \E j \in 1..Len(b) : Without(b, p)[i] = b[j]
           /\ \A j \in 1..Len(b) : ~SameKey(b[j], p) =>
                \E i \in 1..Len(Without(b, p)) : Without(b, p)[i] = b[j]
<1>1. b \in Seq(PeerInfos) /\ Len(b) \in Nat /\ \A j \in 1..Len(b) : b[j] \in PeerInfos
  BY ElementOfSeq DEF Bucketed
<1>2. CASE Places(b, p) = {}
  BY <1>1, <1>2 DEF Places, Without, Bucketed
<1>3. CASE Places(b, p) # {}
  <2> DEFINE n == CHOOSE i \in Places(b, p) : TRUE
             w == Without(b, p)
  <2>1. n \in Places(b, p)
    BY <1>3
  <2>2. w = RemoveAt(b, n)
    BY <1>3 DEF Without
  <2> HIDE DEF n, w
  <2>3. n \in 1..Len(b) /\ SameKey(b[n], p)
    BY <2>1 DEF Places
  <2>4. /\ SubSeq(b, 1, n - 1) \in Seq(PeerInfos) /\ Len(SubSeq(b, 1, n - 1)) = n - 1
        /\ \A i \in 1..n - 1 : SubSeq(b, 1, n - 1)[i] = b[i]
    BY <1>1, <2>3, SubSeqProperties
  <2>5. /\ SubSeq(b, n + 1, Len(b)) \in Seq(PeerInfos)
        /\ Len(SubSeq(b, n + 1, Len(b))) = Len(b) - n
        /\ \A i \in 1..Len(b) - n : SubSeq(b, n + 1, Len(b))[i] = b[n + i]
    BY <1>1, <2>3, SubSeqProperties
  <2>6. /\ w \in Seq(PeerInfos) /\ Len(w) = Len(b) - 1
        /\ \A i \in 1..Len(b) - 1 : w[i] = IF i < n THEN b[i] ELSE b[i + 1]
    <3> DEFINE front == SubSeq(b, 1, n - 1)
               back == SubSeq(b, n + 1, Len(b))
    <3>1. w = front \o back
      BY <2>2 DEF RemoveAt
    <3>2. /\ front \in Seq(PeerInfos) /\ Len(front) = n - 1
          /\ back \in Seq(PeerInfos) /\ Len(back) = Len(b) - n
          /\ \A i \in 1..n - 1 : front[i] = b[i]
          /\ \A i \in 1..Len(b) - n : back[i] = b[n + i]
      BY <2>4, <2>5
    <3> HIDE DEF front, back
    <3>3. /\ w \in Seq(PeerInfos) /\ Len(w) = Len(b) - 1
          /\ \A i \in 1..Len(b) - 1 : w[i] = IF i <= n - 1 THEN front[i] ELSE back[i - (n - 1)]
      <4>1. /\ front \o back \in Seq(PeerInfos)
            /\ Len(front \o back) = Len(front) + Len(back)
            /\ \A i \in 1..Len(front) + Len(back) :
                 (front \o back)[i] = IF i <= Len(front) THEN front[i] ELSE back[i - Len(front)]
        BY <3>2, ConcatProperties
      <4>2. Len(front) + Len(back) = Len(b) - 1
        BY <1>1, <2>3, <3>2
      <4> QED
        BY <3>1, <3>2, <4>1, <4>2
    <3>4. ASSUME NEW i \in 1..Len(b) - 1
          PROVE  w[i] = IF i < n THEN b[i] ELSE b[i + 1]
      <4>1. CASE i < n
        <5>1. i \in 1..n - 1 /\ i <= n - 1
          BY <1>1, <2>3, <4>1
        <5> QED
          BY <3>2, <3>3, <4>1, <5>1
      <4>2. CASE i >= n
        <5>1. i - (n - 1) \in 1..Len(b) - n /\ n + (i - (n - 1)) = i + 1
          BY <1>1, <2>3, <4>2
        <5>2. back[i - (n - 1)] = b[i + 1]
          BY <3>2, <5>1
        <5> QED
          BY <1>1, <2>3, <3>3, <4>2, <5>2
      <4> QED
        BY <1>1, <2>3, <4>1, <4>2
    <3> QED
      BY <3>3, <3>4
  <2>7. \A j \in 1..Len(b) : SameKey(b[j], p) => j = n
    BY <2>3 DEF Bucketed, SameKey
  <2>8. \A i \in 1..Len(w) : ~SameKey(w[i], p) /\ \E j \in 1..Len(b) : w[i] = b[j]
    <3> SUFFICES ASSUME NEW i \in 1..Len(w)
                 PROVE  \E j \in 1..Len(b) : w[i] = b[j] /\ j # n
      BY <2>7
    <3>1. CASE i < n
      BY <1>1, <2>3, <2>6, <3>1
    <3>2. CASE i >= n
      <4>1. i + 1 \in 1..Len(b) /\ i + 1 # n /\ w[i] = b[i + 1]
        BY <1>1, <2>3, <2>6, <3>2
      <4> QED
        BY <4>1
    <3> QED
      BY <1>1, <2>3, <2>6, <3>1, <3>2
  <2>9. \A j \in 1..Len(b) : ~SameKey(b[j], p) => \E i \in 1..Len(w) : w[i] = b[j]
    <3> SUFFICES ASSUME NEW j \in 1..Len(b), ~SameKey(b[j], p)
                 PROVE  \E i \in 1..Len(w) : w[i] = b[j]
      OBVIOUS
    <3>1. j # n
      BY <2>3
    <3>2. CASE j < n
      BY <1>1, <2>3, <2>6, <3>2
    <3>3. CASE j > n
      <4>1. j - 1 \in 1..Len(w) /\ w[j - 1] = b[j]
        BY <1>1, <2>3, <2>6, <3>3
      <4> QED
        BY <4>1
    <3> QED
      BY <1>1, <2>3, <3>1, <3>2, <3>3
  <2>10. Bucketed(w)
    <3> SUFFICES ASSUME NEW i \in 1..Len(w), NEW j \in 1..Len(w), SameKey(w[i], w[j])
                 PROVE  i = j
      BY <2>6 DEF Bucketed
    <3> DEFINE at(x) == IF x < n THEN x ELSE x + 1
    <3>1. /\ at(i) \in 1..Len(b) /\ at(j) \in 1..Len(b)
          /\ w[i] = b[at(i)] /\ w[j] = b[at(j)]
      BY <1>1, <2>3, <2>6
    <3>2. at(i) = at(j)
      BY <3>1 DEF Bucketed
    <3> QED
      BY <1>1, <2>3, <2>6, <3>2
  <2> QED
    BY <1>1, <2>6, <2>8, <2>9, <2>10 DEF w
<1> QED
  BY <1>2, <1>3

\* What upsert makes of a bucket.
Upserted(b, u, p) ==
    /\ Bucketed(u) /\ Len(u) \in 1..Len(b) + 1 /\ u[Len(u)] = p
    /\ \A i \in 1..Len(u) :
         u[i] = p \/ (~SameKey(u[i], p) /\ \E j \in 1..Len(b) : u[i] = b[j])
    /\ \A j \in 1..Len(b) : ~SameKey(b[j], p) => \E i \in 1..Len(u) : u[i] = b[j]

\* upsert puts the peer at the back, in place of its record, and keeps the others.
LEMMA UpsertFacts ==
    ASSUME NEW b, Bucketed(b), NEW p \in PeerInfos
    PROVE  Upserted(b, Upsert(b, p), p)
<1> DEFINE w == Without(b, p)
           u == Upsert(b, p)
<1>1. /\ Bucketed(w) /\ Len(w) <= Len(b)
      /\ \A i \in 1..Len(w) : ~SameKey(w[i], p) /\ \E j \in 1..Len(b) : w[i] = b[j]
      /\ \A j \in 1..Len(b) : ~SameKey(b[j], p) => \E i \in 1..Len(w) : w[i] = b[j]
  BY WithoutFacts
<1>2. u = Append(w, p)
  BY DEF Upsert
<1> HIDE DEF w, u
<1>3. w \in Seq(PeerInfos) /\ Len(w) \in Nat /\ Len(b) \in Nat
  BY <1>1 DEF Bucketed
<1>4. u \in Seq(PeerInfos) /\ Len(u) = Len(w) + 1 /\ u[Len(w) + 1] = p
      /\ \A i \in 1..Len(w) : u[i] = w[i]
  BY <1>2, <1>3
<1>5. Bucketed(u)
  <2> SUFFICES ASSUME NEW i \in 1..Len(u), NEW j \in 1..Len(u), SameKey(u[i], u[j])
               PROVE  i = j
    BY <1>4 DEF Bucketed
  <2>1. CASE i \in 1..Len(w) /\ j \in 1..Len(w)
    BY <1>1, <1>4, <2>1 DEF Bucketed
  <2>2. \A n \in 1..Len(w) : ~SameKey(w[n], p) /\ ~SameKey(p, w[n])
    BY <1>1 DEF SameKey
  <2>3. CASE i = Len(w) + 1 /\ j \in 1..Len(w)
    BY <1>4, <2>2, <2>3
  <2>4. CASE i \in 1..Len(w) /\ j = Len(w) + 1
    BY <1>4, <2>2, <2>4
  <2> QED
    BY <1>3, <1>4, <2>1, <2>3, <2>4
<1>6. \A j \in 1..Len(b) : ~SameKey(b[j], p) => \E i \in 1..Len(u) : u[i] = b[j]
  <2> SUFFICES ASSUME NEW j \in 1..Len(b), ~SameKey(b[j], p)
               PROVE  \E i \in 1..Len(u) : u[i] = b[j]
    OBVIOUS
  <2>1. PICK i \in 1..Len(w) : w[i] = b[j]
    BY <1>1
  <2>2. i \in 1..Len(u) /\ u[i] = b[j]
    BY <1>3, <1>4, <2>1
  <2> QED
    BY <2>2
<1>7. \A i \in 1..Len(u) :
        u[i] = p \/ (~SameKey(u[i], p) /\ \E j \in 1..Len(b) : u[i] = b[j])
  <2> SUFFICES ASSUME NEW i \in 1..Len(u), u[i] # p
               PROVE  ~SameKey(u[i], p) /\ \E j \in 1..Len(b) : u[i] = b[j]
    OBVIOUS
  <2>1. i \in 1..Len(w) /\ u[i] = w[i]
    BY <1>3, <1>4
  <2> QED
    BY <1>1, <2>1
<1> QED
  BY <1>1, <1>3, <1>4, <1>5, <1>6, <1>7 DEF u, Upserted

\* pop_front loses one peer.
LEMMA TailFacts ==
    ASSUME NEW b, Bucketed(b), b # <<>>
    PROVE  /\ Bucketed(Tail(b)) /\ Len(Tail(b)) <= Len(b)
           /\ \A i \in 1..Len(Tail(b)) : \E j \in 1..Len(b) : Tail(b)[i] = b[j]
           /\ \A j \in 2..Len(b) : \E i \in 1..Len(Tail(b)) : Tail(b)[i] = b[j]
<1> DEFINE t == Tail(b)
<1>1. /\ b \in Seq(PeerInfos) /\ Len(b) \in Nat /\ Len(b) >= 1
  BY EmptySeq DEF Bucketed
<1>2. t \in Seq(PeerInfos) /\ Len(t) = Len(b) - 1 /\ \A i \in 1..Len(t) : t[i] = b[i + 1]
  BY <1>1, HeadTailProperties
<1> HIDE DEF t
<1>3. \A i \in 1..Len(t) : i + 1 \in 1..Len(b)
  BY <1>1, <1>2
<1>4. Bucketed(t)
  <2> SUFFICES ASSUME NEW i \in 1..Len(t), NEW j \in 1..Len(t), SameKey(t[i], t[j])
               PROVE  i = j
    BY <1>2 DEF Bucketed
  <2>1. i + 1 = j + 1
    BY <1>2, <1>3 DEF Bucketed
  <2> QED
    BY <2>1
<1>5. \A j \in 2..Len(b) : \E i \in 1..Len(t) : t[i] = b[j]
  <2> SUFFICES ASSUME NEW j \in 2..Len(b) PROVE \E i \in 1..Len(t) : t[i] = b[j]
    OBVIOUS
  <2>1. j - 1 \in 1..Len(t) /\ t[j - 1] = b[j]
    BY <1>1, <1>2
  <2> QED
    BY <2>1
<1> QED
  BY <1>1, <1>2, <1>3, <1>4, <1>5 DEF t
------------------------------------------------------------------------------
(* Tables.  The parts of the invariant, said of any table.                     *)

Typed(t) ==
    /\ DOMAIN t \subseteq PathPrefixes /\ IsFiniteSet(DOMAIN t)
    /\ \A k \in DOMAIN t : Bucketed(t[k]) /\ Len(t[k]) <= MaxBucketLen

Placed(t) == \A k \in DOMAIN t : \A i \in 1..Len(t[k]) : IsPrefix(k, Path[t[k][i]])

Nested(t) ==
    \A k \in DOMAIN t : \A l \in 1..Len(k) - 1 :
        SubSeq(k, 1, l) \in DOMAIN t /\ IsFull(t[SubSeq(k, 1, l)])

Filled(t) == \A k \in DOMAIN t : t[k] # <<>>

\* No record of the key is in a bucket of a longer prefix.
Deepest(t, k, key) ==
    \A x \in DOMAIN t : \A j \in 1..Len(t[x]) : t[x][j].key = key => Len(x) <= Len(k)

UpToDate(t, l) ==
    \A k \in DOMAIN t : \A i \in 1..Len(t[k]) :
        Deepest(t, k, t[k][i].key) => t[k][i] = l[t[k][i].key]

Has(t, key) == \E k \in DOMAIN t : \E i \in 1..Len(t[k]) : t[k][i].key = key

LEMMA Elements ==
    ASSUME NEW t, Typed(t), NEW k \in DOMAIN t
    PROVE  /\ t[k] \in Seq(PeerInfos) /\ Len(t[k]) \in 0..MaxBucketLen
           /\ \A i \in 1..Len(t[k]) : t[k][i] \in PeerInfos
           /\ k \in PathPrefixes /\ k \in Seq(PathDigits) /\ Len(k) \in Nat \ {0}
<1>1. t[k] \in Seq(PeerInfos) /\ Len(t[k]) <= MaxBucketLen /\ k \in PathPrefixes
  BY DEF Typed, Bucketed
<1> QED
  BY <1>1, PathPrefixFacts, ElementOfSeq

\* The bucket update_peer finds or makes, and the table it leaves.
Found(t, k) == IF k \in DOMAIN t THEN t[k] ELSE <<>>

Updated(t, k, p) ==
    [x \in DOMAIN t \cup {k} |-> IF x = k THEN Upsert(Found(t, k), p) ELSE t[x]]

\* What update_peer makes of a table.
IsUpdate(t, u, k, p) ==
    /\ DOMAIN u = DOMAIN t \cup {k} /\ Typed(u)
    /\ \A x \in DOMAIN t : x # k => u[x] = t[x]
    /\ \E i \in 1..Len(u[k]) : u[k][i] = p
    /\ \A i \in 1..Len(u[k]) :
         \/ u[k][i] = p
         \/ k \in DOMAIN t /\ ~SameKey(u[k][i], p) /\ \E j \in 1..Len(t[k]) : u[k][i] = t[k][j]
    /\ k \in DOMAIN t =>
         \A j \in 1..Len(t[k]) : ~SameKey(t[k][j], p) => \E i \in 1..Len(u[k]) : u[k][i] = t[k][j]

\* A bucket with room takes the peer; every other record stays where it is.
LEMMA UpdatedFacts ==
    ASSUME NEW t, Typed(t), NEW p \in PeerInfos, NEW k \in PathPrefixes,
           ~IsFull(Found(t, k))
    PROVE  IsUpdate(t, Updated(t, k, p), k, p)
<1> DEFINE b == Found(t, k)
           u == Updated(t, k, p)
<1>1. Bucketed(b) /\ Len(b) < MaxBucketLen /\ Len(b) \in Nat
  <2>1. CASE k \in DOMAIN t
    BY <2>1, Elements DEF Found, Typed, IsFull
  <2>2. CASE k \notin DOMAIN t
    <3>1. b = <<>> /\ <<>> \in Seq(PeerInfos) /\ Len(<<>>) = 0
      BY <2>2 DEF Found
    <3> QED
      BY <3>1 DEF Bucketed
  <2> QED
    BY <2>1, <2>2
<1>2. k \in DOMAIN t => b = t[k]
  BY DEF Found
<1>3. k \notin DOMAIN t => Len(b) = 0
  BY DEF Found
<1>4. DOMAIN u = DOMAIN t \cup {k} /\ u[k] = Upsert(b, p)
      /\ \A x \in DOMAIN t : x # k => u[x] = t[x]
  BY DEF Updated
<1> HIDE DEF b, u
<1>5. Upserted(b, u[k], p)
  BY <1>1, <1>4, UpsertFacts
<1>6. Typed(u)
  <2>1. IsFiniteSet(DOMAIN u) /\ DOMAIN u \subseteq PathPrefixes
    BY <1>4, FS_AddElement DEF Typed
  <2>2. ASSUME NEW x \in DOMAIN u PROVE Bucketed(u[x]) /\ Len(u[x]) <= MaxBucketLen
    <3>1. CASE x = k
      BY <1>1, <1>5, <3>1 DEF Upserted
    <3>2. CASE x # k
      BY <1>4, <3>2 DEF Typed
    <3> QED
      BY <3>1, <3>2
  <2> QED
    BY <2>1, <2>2 DEF Typed
<1>7. \E i \in 1..Len(u[k]) : u[k][i] = p
  <2>1. Len(u[k]) \in 1..Len(u[k]) /\ u[k][Len(u[k])] = p
    BY <1>1, <1>5 DEF Upserted
  <2> QED
    BY <2>1
<1>8. ASSUME NEW i \in 1..Len(u[k]), u[k][i] # p
      PROVE  /\ k \in DOMAIN t /\ ~SameKey(u[k][i], p)
             /\ \E j \in 1..Len(t[k]) : u[k][i] = t[k][j]
  <2>1. ~SameKey(u[k][i], p) /\ \E j \in 1..Len(b) : u[k][i] = b[j]
    BY <1>5, <1>8 DEF Upserted
  <2>2. k \in DOMAIN t
    BY <1>3, <2>1
  <2> QED
    BY <1>2, <2>1, <2>2
<1>9. k \in DOMAIN t =>
        \A j \in 1..Len(t[k]) : ~SameKey(t[k][j], p) => \E i \in 1..Len(u[k]) : u[k][i] = t[k][j]
  BY <1>2, <1>5 DEF Upserted
<1> QED
  BY <1>4, <1>6, <1>7, <1>8, <1>9 DEF u, IsUpdate

\* Every record of the new table is the new one or was there before.
LEMMA UpdatedElements ==
    ASSUME NEW t, NEW u, NEW k, NEW p, IsUpdate(t, u, k, p),
           NEW x \in DOMAIN u, NEW i \in 1..Len(u[x])
    PROVE  \/ x = k /\ u[x][i] = p
           \/ /\ x \in DOMAIN t /\ \E j \in 1..Len(t[x]) : u[x][i] = t[x][j]
              /\ x = k => ~SameKey(u[x][i], p)
<1>1. CASE x = k
  BY <1>1 DEF IsUpdate
<1>2. CASE x # k
  <2>1. x \in DOMAIN t /\ u[x] = t[x]
    BY <1>2 DEF IsUpdate
  <2> QED
    BY <1>2, <2>1
<1> QED
  BY <1>1, <1>2

\* And every other record is still there.
LEMMA UpdatedKeeps ==
    ASSUME NEW t, NEW u, NEW k, NEW p, IsUpdate(t, u, k, p),
           NEW x \in DOMAIN t, NEW j \in 1..Len(t[x]), ~(x = k /\ SameKey(t[x][j], p))
    PROVE  x \in DOMAIN u /\ \E i \in 1..Len(u[x]) : u[x][i] = t[x][j]
<1>1. CASE x = k
  BY <1>1 DEF IsUpdate
<1>2. CASE x # k
  <2>1. x \in DOMAIN u /\ u[x] = t[x]
    BY <1>2 DEF IsUpdate
  <2> QED
    BY <2>1
<1> QED
  BY <1>1, <1>2

\* The new record is under a prefix of its path, as all others.
LEMMA UpdatePlaced ==
    ASSUME NEW t, Typed(t), Placed(t), NEW p \in PeerInfos, NEW d \in 0..Len(Path[p]) - 1,
           NEW u, IsUpdate(t, u, Prefix(Path[p], d), p)
    PROVE  Placed(u)
<1> DEFINE k == Prefix(Path[p], d)
<1>1. IsPrefix(k, Path[p])
  <2>1. Len(Path[p]) \in Nat
    BY PathFacts
  <2>2. k \in PathPrefixes /\ Len(k) = d + 1
    BY PrefixFacts
  <2>3. Len(k) <= Len(Path[p]) /\ k = Prefix(Path[p], Len(k) - 1)
    BY <2>1, <2>2
  <2> HIDE DEF k
  <2> QED
    BY <2>2, <2>3, PrefixOfPath
<1> HIDE DEF k
<1> SUFFICES ASSUME NEW x \in DOMAIN u, NEW i \in 1..Len(u[x])
             PROVE  IsPrefix(x, Path[u[x][i]])
  BY DEF Placed
<1>2. (x = k /\ u[x][i] = p) \/ (x \in DOMAIN t /\ \E j \in 1..Len(t[x]) : u[x][i] = t[x][j])
  BY UpdatedElements DEF k
<1> QED
  BY <1>1, <1>2 DEF Placed

\* A full bucket is not the one the record went to.
LEMMA FullStays ==
    ASSUME NEW t, NEW u, NEW k, NEW p, IsUpdate(t, u, k, p), ~IsFull(Found(t, k)),
           NEW y, IsFull(Found(t, y))
    PROVE  y \in DOMAIN t /\ y \in DOMAIN u /\ u[y] = t[y] /\ IsFull(u[y])
<1>1. y # k
  OBVIOUS
<1>2. y \in DOMAIN t
  <2>1. ASSUME y \notin DOMAIN t PROVE FALSE
    <3>1. IsFull(<<>>)
      BY <2>1 DEF Found
    <3> QED
      BY <3>1 DEF IsFull
  <2> QED
    BY <2>1
<1> QED
  BY <1>1, <1>2 DEF Found, IsUpdate

\* update_peer goes down through full buckets only.
LEMMA UpdateNested ==
    ASSUME NEW t, Typed(t), Nested(t), NEW p \in PeerInfos, NEW d \in 0..Len(Path[p]) - 1,
           \A e \in 0..d - 1 : IsFull(Found(t, Prefix(Path[p], e))),
           ~IsFull(Found(t, Prefix(Path[p], d))),
           NEW u, IsUpdate(t, u, Prefix(Path[p], d), p)
    PROVE  Nested(u)
<1> DEFINE k == Prefix(Path[p], d)
<1> SUFFICES ASSUME NEW x \in DOMAIN u, NEW l \in 1..Len(x) - 1
             PROVE  IsFull(Found(t, SubSeq(x, 1, l)))
  BY FullStays DEF Nested
<1>1. CASE x = k
  <2>1. Len(k) = d + 1
    BY PrefixFacts
  <2>2. l \in 1..d /\ l - 1 \in 0..d - 1
    BY <1>1, <2>1
  <2>3. SubSeq(k, 1, l) = Prefix(Path[p], l - 1)
    BY <2>2, ShorterPrefix
  <2> QED
    BY <1>1, <2>2, <2>3
<1>2. CASE x # k
  <2>1. x \in DOMAIN t
    BY <1>2 DEF IsUpdate
  <2> QED
    BY <2>1 DEF Nested, Found
<1> QED
  BY <1>1, <1>2

LEMMA UpdateFilled ==
    ASSUME NEW t, Filled(t), NEW k, NEW p, NEW u, IsUpdate(t, u, k, p)
    PROVE  Filled(u)
<1> SUFFICES ASSUME NEW x \in DOMAIN u PROVE u[x] # <<>>
  BY DEF Filled
<1>1. CASE x = k
  BY <1>1 DEF IsUpdate
<1>2. CASE x # k
  BY <1>2 DEF IsUpdate, Filled
<1> QED
  BY <1>1, <1>2

\* No record of a peer is below the first bucket with room on its path.
LEMMA NothingBelow ==
    ASSUME NEW t, Typed(t), Placed(t), Nested(t),
           NEW p \in PeerInfos, NEW d \in 0..Len(Path[p]) - 1,
           ~IsFull(Found(t, Prefix(Path[p], d))),
           NEW y \in DOMAIN t, NEW j \in 1..Len(t[y]), SameKey(t[y][j], p)
    PROVE  /\ Len(y) <= d + 1
           /\ Len(y) = d + 1 => y = Prefix(Path[p], d)
<1>1. /\ t[y][j] \in PeerInfos /\ y \in PathPrefixes /\ y \in Seq(PathDigits)
      /\ Len(y) \in Nat \ {0} /\ Len(Path[p]) \in Nat
  BY Elements, PathFacts
<1>2. IsPrefix(y, Path[p])
  <2>1. IsPrefix(y, Path[t[y][j]])
    BY DEF Placed
  <2>2. Path[t[y][j]] = Path[p]
    BY <1>1, SamePath
  <2> QED
    BY <2>1, <2>2
<1>3. Len(y) <= Len(Path[p]) /\ y = Prefix(Path[p], Len(y) - 1)
  BY <1>1, <1>2, PrefixOfPath
<1>4. ASSUME Len(y) > d + 1 PROVE FALSE
  <2> DEFINE e == Len(y) - 1
  <2>1. e \in 0..Len(Path[p]) - 1 /\ d + 1 \in 1..e /\ (d + 1) - 1 = d
    BY <1>1, <1>3, <1>4
  <2>2. y = Prefix(Path[p], e)
    BY <1>3
  <2> HIDE DEF e
  <2>3. SubSeq(y, 1, d + 1) = Prefix(Path[p], d)
    BY <2>1, <2>2, ShorterPrefix
  <2>4. d + 1 \in 1..Len(y) - 1
    BY <1>1, <1>4
  <2>5. Prefix(Path[p], d) \in DOMAIN t /\ IsFull(t[Prefix(Path[p], d)])
    BY <2>3, <2>4 DEF Nested
  <2> QED
    BY <2>5 DEF Found
<1>5. Len(y) = d + 1 => Len(y) - 1 = d
  BY <1>1
<1> QED
  BY <1>1, <1>3, <1>4, <1>5

\* The record update_peer was given becomes the deepest of its key, and no other does.
LEMMA UpdateUpToDate ==
    ASSUME NEW t, Typed(t), Placed(t), Nested(t),
           NEW l \in [KnownKeys -> PeerInfos \cup {NoPeer}], UpToDate(t, l),
           NEW p \in PeerInfos, NEW d \in 0..Len(Path[p]) - 1,
           ~IsFull(Found(t, Prefix(Path[p], d))),
           NEW u, IsUpdate(t, u, Prefix(Path[p], d), p)
    PROVE  UpToDate(u, [l EXCEPT ![p.key] = p])
<1> DEFINE k == Prefix(Path[p], d)
           m == [l EXCEPT ![p.key] = p]
<1>1. p.key \in KnownKeys
  BY DEF KnownKeys
<1>2. m[p.key] = p /\ \A key : key # p.key => m[key] = l[key]
  BY <1>1
<1>3. Len(k) = d + 1
  BY PrefixFacts
<1> HIDE DEF k, m
<1> SUFFICES ASSUME NEW x \in DOMAIN u, NEW i \in 1..Len(u[x]), Deepest(u, x, u[x][i].key)
             PROVE  u[x][i] = m[u[x][i].key]
  BY DEF UpToDate, m
<1>4. \/ x = k /\ u[x][i] = p
      \/ /\ x \in DOMAIN t /\ \E j \in 1..Len(t[x]) : u[x][i] = t[x][j]
         /\ x = k => ~SameKey(u[x][i], p)
  BY UpdatedElements DEF k
<1>5. CASE u[x][i].key = p.key
  <2>1. ASSUME u[x][i] # p PROVE FALSE
    <3>1. PICK j \in 1..Len(t[x]) : u[x][i] = t[x][j]
      BY <1>4, <2>1
    <3>2. x \in DOMAIN t /\ x # k /\ SameKey(t[x][j], p)
      BY <1>4, <1>5, <2>1, <3>1 DEF SameKey
    <3>3. Len(x) <= d + 1 /\ (Len(x) = d + 1 => x = k)
      BY <3>2, NothingBelow DEF k
    <3>4. Len(x) \in Nat
      BY <3>2, Elements
    <3>5. PICK n \in 1..Len(u[k]) : u[k][n] = p
      BY DEF IsUpdate, k
    <3>6. k \in DOMAIN u
      BY DEF IsUpdate, k
    <3>7. Len(k) <= Len(x)
      BY <1>5, <3>5, <3>6 DEF Deepest
    <3> QED
      BY <1>3, <3>2, <3>3, <3>4, <3>7
  <2> QED
    BY <1>2, <2>1
<1>6. CASE u[x][i].key # p.key
  <2>1. PICK j \in 1..Len(t[x]) : u[x][i] = t[x][j]
    BY <1>4, <1>6
  <2>2. x \in DOMAIN t
    BY <1>4, <1>6
  <2>3. ASSUME NEW y \in DOMAIN t, NEW n \in 1..Len(t[y]), t[y][n].key = u[x][i].key
        PROVE  Len(y) <= Len(x)
    <3>1. ~SameKey(t[y][n], p)
      BY <1>6, <2>3 DEF SameKey
    <3>2. y \in DOMAIN u /\ \E h \in 1..Len(u[y]) : u[y][h] = t[y][n]
      BY <3>1, UpdatedKeeps
    <3> QED
      BY <2>3, <3>2 DEF Deepest
  <2>4. Deepest(t, x, t[x][j].key)
    BY <2>1, <2>3 DEF Deepest
  <2> QED
    BY <1>2, <1>6, <2>1, <2>2, <2>4 DEF UpToDate
<1> QED
  BY <1>5, <1>6

------------------------------------------------------------------------------
(* Removals.                                                                   *)

\* The tables remove_peer and remove_lru leave.
Removed(t, k, p) == [x \in DOMAIN t |-> IF x = k THEN Without(t[x], p) ELSE t[x]]

Popped(t, k) ==
    [x \in DOMAIN t |-> IF x = k THEN IF t[x] = <<>> THEN <<>> ELSE Tail(t[x]) ELSE t[x]]

Shrunk(t, u) ==
    /\ DOMAIN u = DOMAIN t
    /\ \A x \in DOMAIN t :
         /\ Bucketed(u[x]) /\ Len(u[x]) <= Len(t[x])
         /\ \A i \in 1..Len(u[x]) : \E j \in 1..Len(t[x]) : u[x][i] = t[x][j]

LEMMA ShrunkFacts ==
    ASSUME NEW t, Typed(t), Placed(t), NEW u, Shrunk(t, u)
    PROVE  Typed(u) /\ Placed(u)
<1>1. Typed(u)
  <2>1. ASSUME NEW x \in DOMAIN t PROVE Len(u[x]) <= MaxBucketLen
    <3>1. u[x] \in Seq(PeerInfos) /\ Len(u[x]) <= Len(t[x])
      BY DEF Shrunk, Bucketed
    <3>2. Len(t[x]) \in 0..MaxBucketLen
      BY Elements
    <3> QED
      BY <3>1, <3>2
  <2> QED
    BY <2>1 DEF Typed, Shrunk
<1>2. Placed(u)
  BY DEF Placed, Shrunk
<1> QED
  BY <1>1, <1>2

LEMMA RemovedFacts ==
    ASSUME NEW t, Typed(t), NEW k, NEW p \in PeerInfos
    PROVE  /\ Shrunk(t, Removed(t, k, p))
           /\ \A key : Has(t, key) /\ key # p.key => Has(Removed(t, k, p), key)
<1> DEFINE u == Removed(t, k, p)
<1>1. /\ DOMAIN u = DOMAIN t
      /\ \A x \in DOMAIN t : u[x] = IF x = k THEN Without(t[x], p) ELSE t[x]
  BY DEF Removed
<1> HIDE DEF u
<1>2. ASSUME NEW x \in DOMAIN t
      PROVE  /\ Bucketed(u[x]) /\ Len(u[x]) <= Len(t[x])
             /\ \A i \in 1..Len(u[x]) : \E j \in 1..Len(t[x]) : u[x][i] = t[x][j]
             /\ \A j \in 1..Len(t[x]) : ~SameKey(t[x][j], p) =>
                  \E i \in 1..Len(u[x]) : u[x][i] = t[x][j]
  <2>1. Bucketed(t[x]) /\ Len(t[x]) \in Nat
    BY Elements DEF Typed
  <2>2. CASE x = k
    <3> DEFINE w == Without(t[x], p)
    <3>1. /\ Bucketed(w) /\ Len(w) <= Len(t[x])
          /\ \A i \in 1..Len(w) : \E j \in 1..Len(t[x]) : w[i] = t[x][j]
          /\ \A j \in 1..Len(t[x]) : ~SameKey(t[x][j], p) => \E i \in 1..Len(w) : w[i] = t[x][j]
      BY <2>1, WithoutFacts
    <3>2. u[x] = w
      BY <1>1, <2>2
    <3> HIDE DEF w
    <3> QED
      BY <3>1, <3>2
  <2>3. CASE x # k
    BY <1>1, <2>1, <2>3
  <2> QED
    BY <2>2, <2>3
<1>3. Shrunk(t, u)
  BY <1>1, <1>2 DEF Shrunk
<1>4. ASSUME NEW key, Has(t, key), key # p.key PROVE Has(u, key)
  <2>1. PICK x \in DOMAIN t : \E j \in 1..Len(t[x]) : t[x][j].key = key
    BY <1>4 DEF Has
  <2>2. PICK j \in 1..Len(t[x]) : t[x][j].key = key
    BY <2>1
  <2>3. \E i \in 1..Len(u[x]) : u[x][i] = t[x][j]
    BY <1>2, <1>4, <2>2 DEF SameKey
  <2> QED
    BY <1>1, <2>2, <2>3 DEF Has
<1> QED
  BY <1>3, <1>4 DEF u

LEMMA PoppedFacts ==
    ASSUME NEW t, Typed(t), NEW k
    PROVE  /\ Shrunk(t, Popped(t, k))
           /\ \A key : Has(t, key) /\ ~Has(Popped(t, k), key) => key = t[k][1].key
<1> DEFINE u == Popped(t, k)
<1>1. /\ DOMAIN u = DOMAIN t
      /\ \A x \in DOMAIN t : x # k \/ t[x] = <<>> => u[x] = t[x]
      /\ \A x \in DOMAIN t : x = k /\ t[x] # <<>> => u[x] = Tail(t[x])
  BY DEF Popped
<1> HIDE DEF u
<1>2. ASSUME NEW x \in DOMAIN t
      PROVE  /\ Bucketed(u[x]) /\ Len(u[x]) <= Len(t[x])
             /\ \A i \in 1..Len(u[x]) : \E j \in 1..Len(t[x]) : u[x][i] = t[x][j]
             /\ \A j \in 1..Len(t[x]) : x # k \/ j # 1 =>
                  \E i \in 1..Len(u[x]) : u[x][i] = t[x][j]
  <2>1. Bucketed(t[x]) /\ Len(t[x]) \in Nat
    BY Elements DEF Typed
  <2>2. CASE x = k /\ t[x] # <<>>
    <3>1. u[x] = Tail(t[x])
      BY <1>1, <2>2
    <3>2. \A j \in 1..Len(t[x]) : j # 1 => j \in 2..Len(t[x])
      BY <2>1
    <3> DEFINE w == Tail(t[x])
    <3>3. /\ Bucketed(w) /\ Len(w) <= Len(t[x])
          /\ \A i \in 1..Len(w) : \E j \in 1..Len(t[x]) : w[i] = t[x][j]
          /\ \A j \in 2..Len(t[x]) : \E i \in 1..Len(w) : w[i] = t[x][j]
      BY <2>1, <2>2, TailFacts
    <3>4. u[x] = w
      BY <3>1
    <3> HIDE DEF w
    <3> QED
      BY <2>2, <3>2, <3>3, <3>4
  <2>3. CASE x # k \/ t[x] = <<>>
    <3>1. u[x] = t[x]
      BY <1>1, <2>3
    <3> QED
      BY <2>1, <3>1
  <2> QED
    BY <2>2, <2>3
<1>3. Shrunk(t, u)
  BY <1>1, <1>2 DEF Shrunk
<1>4. ASSUME NEW key, Has(t, key), ~Has(u, key) PROVE key = t[k][1].key
  <2>1. PICK x \in DOMAIN t : \E j \in 1..Len(t[x]) : t[x][j].key = key
    BY <1>4 DEF Has
  <2>2. PICK j \in 1..Len(t[x]) : t[x][j].key = key
    BY <2>1
  <2>3. x = k /\ j = 1
    <3>1. ASSUME x # k \/ j # 1 PROVE FALSE
      <4>1. \E i \in 1..Len(u[x]) : u[x][i] = t[x][j]
        BY <1>2, <3>1
      <4> QED
        BY <1>1, <1>4, <2>2, <4>1 DEF Has
    <3> QED
      BY <3>1
  <2> QED
    BY <2>2, <2>3
<1> QED
  BY <1>3, <1>4 DEF u

\* update_peer loses no key.
LEMMA UpdateHas ==
    ASSUME NEW t, NEW u, NEW k, NEW p, IsUpdate(t, u, k, p), NEW key, Has(t, key)
    PROVE  Has(u, key)
<1>1. PICK x \in DOMAIN t : \E j \in 1..Len(t[x]) : t[x][j].key = key
  BY DEF Has
<1>2. PICK j \in 1..Len(t[x]) : t[x][j].key = key
  BY <1>1
<1>3. CASE x = k /\ SameKey(t[x][j], p)
  <2>1. k \in DOMAIN u /\ \E i \in 1..Len(u[k]) : u[k][i] = p
    BY DEF IsUpdate
  <2> QED
    BY <1>2, <1>3, <2>1 DEF Has, SameKey
<1>4. CASE ~(x = k /\ SameKey(t[x][j], p))
  <2>1. x \in DOMAIN u /\ \E i \in 1..Len(u[x]) : u[x][i] = t[x][j]
    BY <1>4, UpdatedKeeps
  <2> QED
    BY <1>2, <2>1 DEF Has
<1> QED
  BY <1>3, <1>4

------------------------------------------------------------------------------
(* Counting.                                                                   *)

\* Peers whose paths begin with a path.
Crowd(p) == {q.key : q \in {r \in PeerInfos : IsPrefix(Path[p], Path[r])}}

\* A full bucket at the end of a path holds that many of them.
LEMMA FullAtEnd ==
    ASSUME NEW t, Typed(t), Placed(t), NEW p \in PeerInfos,
           IsFull(Found(t, Prefix(Path[p], Len(Path[p]) - 1)))
    PROVE  Cardinality(Crowd(p)) >= MaxBucketLen
<1> DEFINE k == Prefix(Path[p], Len(Path[p]) - 1)
<1>1. k = Path[p]
  BY PathFacts, SubSeqFull DEF Prefix
<1> HIDE DEF k
<1>2. k \in DOMAIN t /\ IsFull(t[k])
  <2>1. ASSUME k \notin DOMAIN t PROVE FALSE
    <3>1. IsFull(<<>>)
      BY <2>1 DEF Found, k
    <3> QED
      BY <3>1 DEF IsFull
  <2> QED
    BY <2>1 DEF Found, k
<1>3. /\ \A i \in 1..Len(t[k]) : t[k][i] \in PeerInfos
      /\ Len(t[k]) = MaxBucketLen
  BY <1>2, Elements DEF IsFull
<1> DEFINE members == {q \in PeerInfos : IsPrefix(Path[p], Path[q])}
           f == [i \in 1..MaxBucketLen |-> t[k][i].key]
           g == [q \in members |-> q.key]
<1>4. \A i \in 1..MaxBucketLen : t[k][i] \in members
  BY <1>1, <1>2, <1>3 DEF Placed
<1>5. f \in Injection(1..MaxBucketLen, Crowd(p))
  <2>1. f \in [1..MaxBucketLen -> Crowd(p)]
    BY <1>4 DEF Crowd
  <2>2. \A i, j \in 1..MaxBucketLen : f[i] = f[j] => i = j
    BY <1>2, <1>3 DEF Typed, Bucketed, SameKey
  <2> QED
    BY <2>1, <2>2 DEF Injection, IsInjective
<1>6. IsFiniteSet(Crowd(p))
  <2>1. IsFiniteSet(members)
    BY FS_Subset
  <2>2. g \in Surjection(members, Crowd(p))
    BY DEF Surjection, Crowd
  <2> HIDE DEF members, g
  <2> QED
    BY <2>1, <2>2, FS_Surjection
<1>7. IsFiniteSet(1..MaxBucketLen) /\ Cardinality(1..MaxBucketLen) = MaxBucketLen
  BY Interval
<1>8. Cardinality(1..MaxBucketLen) <= Cardinality(Crowd(p))
  BY <1>5, <1>6, FS_Injection
<1>9. Cardinality(Crowd(p)) \in Nat
  BY <1>6, FS_CardinalityType
<1> QED
  BY <1>7, <1>8, <1>9

\* The slots of a table.
SlotsOf(t) == {s \in (DOMAIN t) \X (1..MaxBucketLen) : s[2] <= Len(t[s[1]])}

LEMMA SlotsOfFacts ==
    ASSUME NEW t, Typed(t)
    PROVE  /\ \A k \in DOMAIN t : \A i \in 1..Len(t[k]) : <<k, i>> \in SlotsOf(t)
           /\ \A s \in SlotsOf(t) :
                /\ s[1] \in DOMAIN t /\ s[2] \in 1..Len(t[s[1]]) /\ s = <<s[1], s[2]>>
           /\ IsFiniteSet(SlotsOf(t)) /\ Cardinality(SlotsOf(t)) \in Nat
<1>1. \A k \in DOMAIN t : Len(t[k]) \in 0..MaxBucketLen
  BY Elements
<1>2. ASSUME NEW k \in DOMAIN t, NEW i \in 1..Len(t[k])
      PROVE  <<k, i>> \in SlotsOf(t)
  <2> DEFINE s == <<k, i>>
  <2>1. s[1] = k /\ s[2] = i
    OBVIOUS
  <2>2. i \in 1..MaxBucketLen /\ i <= Len(t[k])
    BY <1>1
  <2>3. s \in (DOMAIN t) \X (1..MaxBucketLen)
    BY <2>2
  <2> HIDE DEF s
  <2>4. s \in SlotsOf(t)
    BY <2>1, <2>2, <2>3 DEF SlotsOf
  <2> QED
    BY <2>4 DEF s
<1>3. ASSUME NEW s \in SlotsOf(t)
      PROVE  s[1] \in DOMAIN t /\ s[2] \in 1..Len(t[s[1]]) /\ s = <<s[1], s[2]>>
  <2>1. s \in (DOMAIN t) \X (1..MaxBucketLen) /\ s[2] <= Len(t[s[1]])
    BY DEF SlotsOf
  <2>2. s[1] \in DOMAIN t /\ s[2] \in 1..MaxBucketLen /\ s = <<s[1], s[2]>>
    BY <2>1
  <2> QED
    BY <1>1, <2>1, <2>2
<1>4. IsFiniteSet(1..MaxBucketLen) /\ IsFiniteSet(DOMAIN t)
  <2>1. IsFiniteSet(1..MaxBucketLen)
    BY Interval
  <2>2. IsFiniteSet(DOMAIN t)
    BY DEF Typed
  <2> QED
    BY <2>1, <2>2
<1>5. IsFiniteSet((DOMAIN t) \X (1..MaxBucketLen))
  BY <1>4, FS_Product
<1>6. SlotsOf(t) \in SUBSET ((DOMAIN t) \X (1..MaxBucketLen))
  BY DEF SlotsOf
<1> QED
  BY <1>2, <1>3, <1>5, <1>6, FS_Subset, FS_CardinalityType

\* A lookup that runs past the end of the target's path has met a bucket whose prefix is
\* longer, and all the full ones above it.
LEMMA FullAbove ==
    ASSUME NEW t, Typed(t), Nested(t), Filled(t), NEW k \in DOMAIN t, KeyBytes < Len(k)
    PROVE  Cardinality(SlotsOf(t)) > KeyBytes * MaxBucketLen
<1> DEFINE at(l) == SubSeq(k, 1, l)
           full == (1..KeyBytes) \X (1..MaxBucketLen)
           extra == <<KeyBytes + 1, 1>>
           f == [x \in full \cup {extra} |-> <<at(x[1]), x[2]>>]
<1>1. k \in Seq(PathDigits) /\ Len(k) \in Nat /\ \A i \in 1..Len(k) : k[i] \in PathDigits
  BY Elements, ElementOfSeq
<1>2. \A l \in 1..KeyBytes + 1 : Len(at(l)) = l
  <2> SUFFICES ASSUME NEW l \in 1..KeyBytes + 1 PROVE Len(at(l)) = l
    OBVIOUS
  <2>1. \A i \in 1..l : k[i] \in PathDigits
    BY <1>1
  <2> QED
    BY <2>1, SubSeqProperties
<1>3. \A l \in 1..KeyBytes : at(l) \in DOMAIN t /\ Len(t[at(l)]) = MaxBucketLen
  <2> SUFFICES ASSUME NEW l \in 1..KeyBytes
               PROVE  at(l) \in DOMAIN t /\ Len(t[at(l)]) = MaxBucketLen
    OBVIOUS
  <2>1. l \in 1..Len(k) - 1
    BY <1>1
  <2>2. at(l) \in DOMAIN t /\ IsFull(t[at(l)])
    BY <2>1 DEF Nested
  <2> HIDE DEF at
  <2> QED
    BY <2>2, Elements DEF IsFull
<1>4. at(KeyBytes + 1) \in DOMAIN t /\ 1 <= Len(t[at(KeyBytes + 1)])
  <2>1. at(KeyBytes + 1) \in DOMAIN t
    <3>1. CASE Len(k) = KeyBytes + 1
      BY <1>1, <3>1, SubSeqFull
    <3>2. CASE KeyBytes + 1 \in 1..Len(k) - 1
      BY <3>2 DEF Nested
    <3> QED
      BY <1>1, <3>1, <3>2
  <2> HIDE DEF at
  <2>2. t[at(KeyBytes + 1)] \in Seq(PeerInfos) /\ t[at(KeyBytes + 1)] # <<>>
    BY <2>1, Elements DEF Filled
  <2> QED
    BY <2>1, <2>2, EmptySeq
<1> HIDE DEF at
<1>5. \A x \in full \cup {extra} : <<at(x[1]), x[2]>> \in SlotsOf(t)
  <2>1. \A x \in full : <<at(x[1]), x[2]>> \in SlotsOf(t)
    BY <1>3, SlotsOfFacts
  <2>2. <<at(extra[1]), extra[2]>> \in SlotsOf(t)
    BY <1>4, SlotsOfFacts
  <2> QED
    BY <2>1, <2>2
<1>6. f \in Injection(full \cup {extra}, SlotsOf(t))
  <2>1. f \in [full \cup {extra} -> SlotsOf(t)]
    BY <1>5
  <2>2. ASSUME NEW x \in full \cup {extra}, NEW y \in full \cup {extra}, f[x] = f[y]
        PROVE  x = y
    <3>1. at(x[1]) = at(y[1]) /\ x[2] = y[2]
      BY <2>2
    <3>2. x[1] \in 1..KeyBytes + 1 /\ y[1] \in 1..KeyBytes + 1
      OBVIOUS
    <3>3. x[1] = y[1]
      BY <1>2, <3>1, <3>2
    <3> QED
      BY <3>1, <3>3
  <2> HIDE DEF f
  <2> QED
    BY <2>1, <2>2 DEF Injection, IsInjective
<1>7. IsFiniteSet(SlotsOf(t)) /\ Cardinality(SlotsOf(t)) \in Nat
  BY SlotsOfFacts
<1>8. /\ IsFiniteSet(full) /\ Cardinality(full) = KeyBytes * MaxBucketLen
  <2> DEFINE rows == 1..KeyBytes
             columns == 1..MaxBucketLen
  <2>1. IsFiniteSet(columns) /\ Cardinality(columns) = MaxBucketLen
    BY Interval
  <2>2. IsFiniteSet(rows) /\ Cardinality(rows) = KeyBytes
    BY Interval
  <2>3. full = rows \X columns
    OBVIOUS
  <2> HIDE DEF full, rows, columns
  <2>4. IsFiniteSet(rows \X columns) /\ Cardinality(rows \X columns) = Cardinality(rows) * Cardinality(columns)
    BY <2>1, <2>2, FS_Product
  <2> QED
    BY <2>1, <2>2, <2>3, <2>4
<1>9. extra \notin full
  OBVIOUS
<1> HIDE DEF full, extra, f
<1>10. Cardinality(full \cup {extra}) = KeyBytes * MaxBucketLen + 1
  BY <1>8, <1>9, FS_AddElement
<1>11. Cardinality(full \cup {extra}) <= Cardinality(SlotsOf(t))
  BY <1>6, <1>7, FS_Injection
<1> DEFINE product == KeyBytes * MaxBucketLen
<1>12. product \in Nat /\ Cardinality(SlotsOf(t)) \in Nat
  BY <1>7, <1>8
<1>13. product + 1 <= Cardinality(SlotsOf(t))
  BY <1>10, <1>11
<1> HIDE DEF product
<1>14. Cardinality(SlotsOf(t)) > product
  BY <1>12, <1>13
<1> QED
  BY <1>14 DEF product

------------------------------------------------------------------------------
(* The invariant.                                                              *)

HistoryOK ==
    /\ last \in [op : {"new", "update", "remove_peer", "remove_lru"}, peer : PeerInfos,
                 panicked : BOOLEAN]
    /\ latest \in [KnownKeys -> PeerInfos \cup {NoPeer}]
    /\ removals \in Nat

CrowdInv == last.op = "update" /\ last.panicked => Cardinality(Crowd(last.peer)) >= MaxBucketLen

\* That a longer prefix stands under full buckets, and that the deepest record is the last,
\* holds only together and only until something is removed.
TableInv ==
    /\ HistoryOK /\ CrowdInv
    /\ Typed(tree) /\ Placed(tree)
    /\ removals = 0 => Nested(tree) /\ Filled(tree) /\ UpToDate(tree, latest)

LEMMA InitTable == Init => TableInv
<1> SUFFICES ASSUME Init PROVE TableInv
  OBVIOUS
<1> DEFINE k == Prefix(Path[LocalInfo], 0)
<1>1. Len(Path[LocalInfo]) \in Nat /\ KeyBytes <= Len(Path[LocalInfo])
  BY PathFacts
<1>2. 0 \in 0..Len(Path[LocalInfo]) - 1
  BY <1>1
<1>3. k \in PathPrefixes /\ Len(k) = 1
  <2>1. LocalInfo \in PeerInfos
    OBVIOUS
  <2>2. k \in PathPrefixes /\ Len(k) = 0 + 1
    BY <1>2, <2>1, PrefixFacts
  <2> QED
    BY <2>2
<1>4. IsPrefix(k, Path[LocalInfo])
  <2>1. Len(k) <= Len(Path[LocalInfo])
    BY <1>1, <1>3
  <2>2. Len(k) - 1 = 0
    BY <1>3
  <2>3. k = Prefix(Path[LocalInfo], Len(k) - 1)
    BY <2>2
  <2> HIDE DEF k
  <2>4. LocalInfo \in PeerInfos
    OBVIOUS
  <2> QED
    BY <1>3, <2>1, <2>3, <2>4, PrefixOfPath
<1> HIDE DEF k
<1>5. DOMAIN tree = {k} /\ tree[k] = <<LocalInfo>>
  BY DEF Init, k
<1>6. tree[k] \in Seq(PeerInfos) /\ Len(tree[k]) = 1 /\ tree[k][1] = LocalInfo
  BY <1>5
<1>7. \A i \in 1..Len(tree[k]) : i = 1
  BY <1>6
<1>8. Typed(tree)
  <2>1. Bucketed(tree[k]) /\ Len(tree[k]) <= MaxBucketLen
    BY <1>6, <1>7 DEF Bucketed
  <2>2. IsFiniteSet({k})
    BY FS_Singleton
  <2>3. DOMAIN tree \subseteq PathPrefixes /\ IsFiniteSet(DOMAIN tree)
    BY <1>3, <1>5, <2>2
  <2> QED
    BY <1>5, <2>1, <2>3 DEF Typed
<1>9. Placed(tree)
  BY <1>4, <1>5, <1>6, <1>7 DEF Placed
<1>10. Nested(tree) /\ Filled(tree)
  <2>1. tree[k] # <<>>
    BY <1>6
  <2>2. Filled(tree)
    BY <1>5, <2>1 DEF Filled
  <2>3. Nested(tree)
    <3> SUFFICES ASSUME NEW x \in DOMAIN tree, NEW l \in 1..Len(x) - 1 PROVE FALSE
      BY DEF Nested
    <3>1. Len(x) = 1
      BY <1>3, <1>5
    <3> QED
      BY <3>1
  <2> QED
    BY <2>2, <2>3
<1>11. LocalInfo.key \in KnownKeys /\ latest[LocalInfo.key] = LocalInfo
  BY DEF Init, KnownKeys
<1>12. UpToDate(tree, latest)
  BY <1>5, <1>6, <1>7, <1>11 DEF UpToDate
<1>13. HistoryOK /\ CrowdInv
  BY DEF Init, HistoryOK, CrowdInv
<1> QED
  BY <1>8, <1>9, <1>10, <1>12, <1>13 DEF TableInv

\* What a step of update_peer does, when it does not panic.
LEMMA UpdateStep ==
    ASSUME TableInv, NEW p \in PeerInfos, UpdatePeer(p), Open(p) # {}
    PROVE  \E d \in 0..Len(Path[p]) - 1 :
             /\ \A e \in 0..d - 1 : IsFull(Found(tree, Prefix(Path[p], e)))
             /\ ~IsFull(Found(tree, Prefix(Path[p], d)))
             /\ IsUpdate(tree, tree', Prefix(Path[p], d), p)
             /\ last' = [op |-> "update", peer |-> p, panicked |-> FALSE]
             /\ latest' = [latest EXCEPT ![p.key] = p]
             /\ removals' = removals
<1>1. \A k : Bucket(k) = Found(tree, k)
  BY DEF Bucket, Found
<1>2. PICK d \in Level(p) :
        /\ tree' = [x \in (DOMAIN tree) \cup {Prefix(Path[p], d)} |->
                      IF x = Prefix(Path[p], d) THEN Upsert(Bucket(Prefix(Path[p], d)), p)
                      ELSE tree[x]]
        /\ last' = [op |-> "update", peer |-> p, panicked |-> FALSE]
        /\ latest' = [latest EXCEPT ![p.key] = p]
        /\ removals' = removals
  BY DEF UpdatePeer
<1> DEFINE k == Prefix(Path[p], d)
<1>3. d \in 0..Len(Path[p]) - 1 /\ ~IsFull(Found(tree, k)) /\ \A e \in Open(p) : d <= e
  BY <1>1 DEF Level, Open
<1>4. Len(Path[p]) \in Nat
  BY PathFacts
<1>5. ASSUME NEW e \in 0..d - 1 PROVE IsFull(Found(tree, Prefix(Path[p], e)))
  <2>1. e \in 0..Len(Path[p]) - 1 /\ ~(d <= e)
    BY <1>3, <1>4
  <2>2. e \notin Open(p)
    BY <1>3, <2>1
  <2> QED
    BY <1>1, <2>1, <2>2 DEF Open
<1>6. tree' = Updated(tree, k, p)
  BY <1>1, <1>2 DEF Updated
<1>7. k \in PathPrefixes
  BY <1>3, PrefixFacts
<1>8. Typed(tree)
  BY DEF TableInv
<1> HIDE DEF k
<1>9. IsUpdate(tree, tree', k, p)
  BY <1>3, <1>6, <1>7, <1>8, UpdatedFacts
<1> QED
  BY <1>2, <1>3, <1>5, <1>9 DEF k

\* update_peer panics below a full bucket of the whole path.
LEMMA UpdatePanic ==
    ASSUME TableInv, NEW p \in PeerInfos, Open(p) = {}
    PROVE  Cardinality(Crowd(p)) >= MaxBucketLen
<1>1. Len(Path[p]) - 1 \in 0..Len(Path[p]) - 1
  BY PathFacts
<1>2. IsFull(Bucket(Prefix(Path[p], Len(Path[p]) - 1)))
  BY <1>1 DEF Open
<1>3. IsFull(Found(tree, Prefix(Path[p], Len(Path[p]) - 1)))
  BY <1>2 DEF Bucket, Found
<1> QED
  BY <1>3, FullAtEnd DEF TableInv

LEMMA UpdateInv ==
    ASSUME TableInv, NEW p \in PeerInfos, UpdatePeer(p)
    PROVE  TableInv'
<1>1. CASE Open(p) = {}
  <2>1. Panic("update", p)
    BY <1>1 DEF UpdatePeer, Level
  <2>2. /\ last' = [op |-> "update", peer |-> p, panicked |-> TRUE]
        /\ tree' = tree /\ latest' = latest /\ removals' = removals
    BY <2>1 DEF Panic
  <2>3. Cardinality(Crowd(p)) >= MaxBucketLen
    BY <1>1, UpdatePanic
  <2>4. CrowdInv'
    BY <2>2, <2>3 DEF CrowdInv
  <2>5. HistoryOK'
    BY <2>2 DEF TableInv, HistoryOK
  <2> QED
    BY <2>2, <2>4, <2>5 DEF TableInv
<1>2. CASE Open(p) # {}
  <2>1. PICK d \in 0..Len(Path[p]) - 1 :
             /\ \A e \in 0..d - 1 : IsFull(Found(tree, Prefix(Path[p], e)))
             /\ ~IsFull(Found(tree, Prefix(Path[p], d)))
             /\ IsUpdate(tree, tree', Prefix(Path[p], d), p)
             /\ last' = [op |-> "update", peer |-> p, panicked |-> FALSE]
             /\ latest' = [latest EXCEPT ![p.key] = p]
             /\ removals' = removals
    BY <1>2, UpdateStep
  <2>2. Typed(tree') /\ Placed(tree')
    <3>1. Typed(tree) /\ Placed(tree)
      BY DEF TableInv
    <3>2. Placed(tree')
      BY <2>1, <3>1, UpdatePlaced
    <3> QED
      BY <2>1, <3>2 DEF IsUpdate
  <2>3. CrowdInv'
    BY <2>1 DEF CrowdInv
  <2>4. HistoryOK'
    <3>1. latest' \in [KnownKeys -> PeerInfos \cup {NoPeer}]
      BY <2>1 DEF TableInv, HistoryOK
    <3> QED
      BY <2>1, <3>1 DEF TableInv, HistoryOK
  <2>5. ASSUME removals = 0
        PROVE  Nested(tree') /\ Filled(tree') /\ UpToDate(tree', latest')
    <3>1. /\ Typed(tree) /\ Placed(tree) /\ Nested(tree) /\ Filled(tree) /\ UpToDate(tree, latest)
          /\ latest \in [KnownKeys -> PeerInfos \cup {NoPeer}]
      BY <2>5 DEF TableInv, HistoryOK
    <3>2. Nested(tree')
      BY <2>1, <3>1, UpdateNested
    <3>3. Filled(tree')
      BY <2>1, <3>1, UpdateFilled
    <3>4. UpToDate(tree', [latest EXCEPT ![p.key] = p])
      BY <2>1, <3>1, UpdateUpToDate
    <3> QED
      BY <2>1, <3>2, <3>3, <3>4
  <2> QED
    BY <2>1, <2>2, <2>3, <2>4, <2>5 DEF TableInv
<1> QED
  BY <1>1, <1>2

\* What a step of remove_peer or remove_lru does.
LEMMA RemovalStep ==
    ASSUME NEW p \in PeerInfos, RemovePeer(p) \/ RemoveLru(p)
    PROVE  /\ last'.op \in {"remove_peer", "remove_lru"} /\ last'.peer = p
           /\ last' \in [op : {"remove_peer", "remove_lru"}, peer : PeerInfos, panicked : BOOLEAN]
           /\ RemovePeer(p) => last'.op = "remove_peer"
           /\ RemoveLru(p) => last'.op = "remove_lru"
           /\ latest' = latest
           /\ \/ tree' = tree /\ removals' = removals
              \/ /\ removals' = removals + 1
                 /\ RemovePeer(p) => \E k : tree' = Removed(tree, k, p)
                 /\ RemoveLru(p) => \E k : tree' = Popped(tree, k)
<1>1. ASSUME RemovePeer(p)
      PROVE  /\ last'.op = "remove_peer" /\ last'.peer = p
             /\ last' \in [op : {"remove_peer"}, peer : PeerInfos, panicked : BOOLEAN]
             /\ latest' = latest
             /\ \/ tree' = tree /\ removals' = removals
                \/ removals' = removals + 1 /\ \E k : tree' = Removed(tree, k, p)
  <2>1. CASE Panic("remove_peer", p)
    BY <2>1 DEF Panic
  <2>2. CASE ~Panic("remove_peer", p)
    <3> DEFINE k == Prefix(Path[p], RemovalLevel(p))
               b == [x \in DOMAIN tree |-> Without(tree[x], p)]
    <3>1. /\ tree' = [x \in DOMAIN tree |-> IF x = k THEN b[x] ELSE tree[x]]
          /\ last' = [op |-> "remove_peer", peer |-> p, panicked |-> FALSE]
          /\ removals' = removals + 1 /\ latest' = latest
      BY <1>1, <2>2 DEF RemovePeer, RemoveFrom
    <3> HIDE DEF k
    <3>2. tree' = Removed(tree, k, p)
      BY <3>1 DEF Removed
    <3> QED
      BY <3>1, <3>2
  <2> QED
    BY <2>1, <2>2
<1>2. ASSUME RemoveLru(p)
      PROVE  /\ last'.op = "remove_lru" /\ last'.peer = p
             /\ last' \in [op : {"remove_lru"}, peer : PeerInfos, panicked : BOOLEAN]
             /\ latest' = latest
             /\ \/ tree' = tree /\ removals' = removals
                \/ removals' = removals + 1 /\ \E k : tree' = Popped(tree, k)
  <2>1. CASE Panic("remove_lru", p)
    BY <2>1 DEF Panic
  <2>2. CASE ~Panic("remove_lru", p)
    <3> DEFINE k == Prefix(Path[p], RemovalLevel(p))
               b == [x \in DOMAIN tree |-> IF tree[x] = <<>> THEN <<>> ELSE Tail(tree[x])]
    <3>1. /\ tree' = [x \in DOMAIN tree |-> IF x = k THEN b[x] ELSE tree[x]]
          /\ last' = [op |-> "remove_lru", peer |-> p, panicked |-> FALSE]
          /\ removals' = removals + 1 /\ latest' = latest
      BY <1>2, <2>2 DEF RemoveLru, RemoveFrom
    <3> HIDE DEF k
    <3>2. tree' = Popped(tree, k)
      BY <3>1 DEF Popped
    <3> QED
      BY <3>1, <3>2
  <2> QED
    BY <2>1, <2>2
<1>3. ~(RemovePeer(p) /\ RemoveLru(p))
  BY <1>1, <1>2
<1> QED
  BY <1>1, <1>2, <1>3

LEMMA RemovalInv ==
    ASSUME TableInv, NEW p \in PeerInfos, RemovePeer(p) \/ RemoveLru(p)
    PROVE  TableInv'
<1>1. /\ last' \in [op : {"remove_peer", "remove_lru"}, peer : PeerInfos, panicked : BOOLEAN]
      /\ latest' = latest
      /\ \/ tree' = tree /\ removals' = removals
         \/ /\ removals' = removals + 1
            /\ (\E k : tree' = Removed(tree, k, p)) \/ (\E k : tree' = Popped(tree, k))
  BY RemovalStep
<1>2. Typed(tree) /\ Placed(tree) /\ HistoryOK
  BY DEF TableInv
<1>3. HistoryOK'
  BY <1>1, <1>2 DEF HistoryOK
<1>4. CrowdInv'
  BY <1>1 DEF CrowdInv
<1>5. CASE tree' = tree /\ removals' = removals
  BY <1>1, <1>3, <1>4, <1>5 DEF TableInv
<1>6. CASE removals' = removals + 1
           /\ ((\E k : tree' = Removed(tree, k, p)) \/ (\E k : tree' = Popped(tree, k)))
  <2>1. Shrunk(tree, tree')
    BY <1>2, <1>6, RemovedFacts, PoppedFacts
  <2>2. Typed(tree') /\ Placed(tree')
    BY <1>2, <2>1, ShrunkFacts
  <2>3. removals' # 0
    BY <1>2, <1>6 DEF HistoryOK
  <2> QED
    BY <1>3, <1>4, <2>2, <2>3 DEF TableInv
<1> QED
  BY <1>1, <1>5, <1>6

\* The invariant holds in every reachable state.
THEOREM TableInvariant == Spec => []TableInv
<1>1. TableInv /\ [Next]_vars => TableInv'
  <2> SUFFICES ASSUME TableInv, [Next]_vars PROVE TableInv'
    OBVIOUS
  <2>1. CASE Next
    BY <2>1, UpdateInv, RemovalInv DEF Next
  <2>2. CASE UNCHANGED vars
    BY <2>2 DEF vars, TableInv, HistoryOK, CrowdInv
  <2> QED
    BY <2>1, <2>2
<1> QED
  BY <1>1, InitTable, PTL DEF Spec

------------------------------------------------------------------------------
(* The theorems.                                                               *)

\* No bucket holds more than MaxBucketLen peers or a key twice, whatever is inserted.
THEOREM TypeCorrect == Spec => []TypeOK
<1>1. TableInv => TypeOK
  BY DEF TableInv, HistoryOK, Typed, Bucketed, TypeOK
<1> QED
  BY <1>1, TableInvariant, PTL

\* The slots of a table are the places of its buckets.
LEMMA SlotFacts ==
    ASSUME Typed(tree)
    PROVE  /\ \A k \in DOMAIN tree : \A i \in 1..Len(tree[k]) :
                <<k, i>> \in Slots /\ At(<<k, i>>) = tree[k][i]
           /\ \A s \in Slots : s[1] \in DOMAIN tree /\ s[2] \in 1..Len(tree[s[1]])
           /\ Slots = SlotsOf(tree)
<1>1. Slots = SlotsOf(tree)
  BY DEF Slots, SlotsIn, SlotsOf
<1> QED
  BY <1>1, SlotsOfFacts DEF At

\* update_peer puts a record under prefixes of its distance only, and no removal moves one.
THEOREM PlacementAlways == Spec => []Placement
<1>1. TableInv => Placement
  BY SlotFacts DEF TableInv, Placed, Placement, At
<1> QED
  BY <1>1, TableInvariant, PTL

\* update_peer makes a longer prefix only below full buckets.
THEOREM GrowsFromFullAlways == Spec => []GrowsFromFull
<1>1. TableInv => GrowsFromFull
  BY DEF TableInv, Nested, GrowsFromFull
<1> QED
  BY <1>1, TableInvariant, PTL

\* Of the copies update_peer leaves of a peer, the one of the longest prefix is the last.
THEOREM DeepestIsLatestAlways == Spec => []DeepestIsLatest
<1>1. TableInv => DeepestIsLatest
  <2> SUFFICES ASSUME TableInv, removals = 0, NEW s \in Slots,
                      \A r \in Slots : SameKey(At(r), At(s)) => Len(r[1]) <= Len(s[1])
               PROVE  At(s) = latest[At(s).key]
    BY DEF DeepestIsLatest
  <2>1. Typed(tree) /\ UpToDate(tree, latest)
    BY DEF TableInv
  <2>2. s[1] \in DOMAIN tree /\ s[2] \in 1..Len(tree[s[1]])
    BY <2>1, SlotFacts
  <2>3. ASSUME NEW x \in DOMAIN tree, NEW j \in 1..Len(tree[x]), tree[x][j].key = At(s).key
        PROVE  Len(x) <= Len(s[1])
    <3> DEFINE r == <<x, j>>
    <3>1. r \in Slots /\ At(r) = tree[x][j] /\ r[1] = x
      BY <2>1, SlotFacts
    <3> HIDE DEF r
    <3>2. SameKey(At(r), At(s))
      BY <2>3, <3>1 DEF SameKey
    <3> QED
      BY <3>1, <3>2
  <2>4. Deepest(tree, s[1], tree[s[1]][s[2]].key)
    BY <2>3 DEF Deepest, At
  <2> QED
    BY <2>1, <2>2, <2>4 DEF UpToDate, At
<1> QED
  BY <1>1, TableInvariant, PTL

\* update_peer panics only where MaxBucketLen peers share a path.
THEOREM PanicNeedsCrowdAlways == Spec => []PanicNeedsCrowd
<1>1. TableInv => PanicNeedsCrowd
  BY DEF TableInv, CrowdInv, Crowd, PanicNeedsCrowd
<1> QED
  BY <1>1, TableInvariant, PTL

\* get_closest_peers panics only on a table of more records than fill KeyBytes buckets.
THEOREM LookupNeedsCrowdAlways == Spec => []LookupNeedsCrowd
<1>1. TableInv => LookupNeedsCrowd
  <2> SUFFICES ASSUME TableInv, removals = 0, NEW target \in PeerInfos, NEW count \in Counts,
                      LookupPanics(target, count)
               PROVE  Cardinality(Slots) > KeyBytes * MaxBucketLen
    BY DEF LookupNeedsCrowd
  <2>1. Typed(tree) /\ Nested(tree) /\ Filled(tree)
    BY DEF TableInv
  <2>2. PICK k \in DOMAIN tree : ~HasPrefix(Path[target], Len(k) - 1)
    BY DEF LookupPanics
  <2>3. Len(Path[target]) \in Nat /\ KeyBytes <= Len(Path[target]) /\ Len(k) \in Nat
    BY <2>1, PathFacts, Elements
  <2>4. KeyBytes < Len(k)
    BY <2>2, <2>3 DEF HasPrefix
  <2>5. Slots = SlotsOf(tree)
    BY <2>1, SlotFacts
  <2> QED
    BY <2>1, <2>4, <2>5, FullAbove
<1> QED
  BY <1>1, TableInvariant, PTL

LEMMA KnowsHas ==
    ASSUME Typed(tree), NEW q
    PROVE  Knows(q) <=> Has(tree, q.key)
<1>1. ASSUME Knows(q) PROVE Has(tree, q.key)
  <2>1. PICK s \in Slots : SameKey(At(s), q)
    BY <1>1 DEF Knows
  <2>2. s[1] \in DOMAIN tree /\ s[2] \in 1..Len(tree[s[1]])
    BY SlotFacts
  <2> QED
    BY <2>1, <2>2 DEF Has, SameKey, At
<1>2. ASSUME Has(tree, q.key) PROVE Knows(q)
  <2>1. PICK k \in DOMAIN tree : \E i \in 1..Len(tree[k]) : tree[k][i].key = q.key
    BY <1>2 DEF Has
  <2>2. PICK i \in 1..Len(tree[k]) : tree[k][i].key = q.key
    BY <2>1
  <2>3. <<k, i>> \in Slots /\ At(<<k, i>>) = tree[k][i]
    BY SlotFacts
  <2> QED
    BY <2>2, <2>3 DEF Knows, SameKey
<1> QED
  BY <1>1, <1>2

\* The same after a step.
LEMMA KnowsHasNext ==
    ASSUME Typed(tree'), NEW q
    PROVE  Knows(q)' <=> Has(tree', q.key)
<1>1. Slots' = SlotsOf(tree')
  BY DEF Slots, SlotsIn, SlotsOf
<1>2. /\ \A k \in DOMAIN tree' : \A i \in 1..Len(tree'[k]) : <<k, i>> \in Slots'
      /\ \A s \in Slots' : s[1] \in DOMAIN tree' /\ s[2] \in 1..Len(tree'[s[1]])
  BY <1>1, SlotsOfFacts
<1>3. Knows(q)' <=> \E s \in Slots' : tree'[s[1]][s[2]].key = q.key
  BY DEF Knows, SameKey, At
<1>4. ASSUME NEW k \in DOMAIN tree', NEW i \in 1..Len(tree'[k]), tree'[k][i].key = q.key
      PROVE  \E s \in Slots' : tree'[s[1]][s[2]].key = q.key
  <2> DEFINE s == <<k, i>>
  <2>1. s \in Slots' /\ s[1] = k /\ s[2] = i
    BY <1>2
  <2> HIDE DEF s
  <2> QED
    BY <1>4, <2>1
<1> QED
  BY <1>2, <1>3, <1>4 DEF Has

\* update_peer, remove_peer and remove_lru forget no peer but the one they remove.
THEOREM NeverForgetsAlways == Spec => NeverForgets
<1> DEFINE lost == {p.key : p \in {q \in PeerInfos : Knows(q) /\ ~Knows(q)'}}
<1>1. ASSUME TableInv, TableInv', Next
      PROVE  CASE last'.op = "remove_peer" -> lost \subseteq {last'.peer.key}
               [] last'.op = "remove_lru"  -> Cardinality(lost) <= 1
               [] OTHER                    -> lost = {}
  <2>1. Typed(tree) /\ Typed(tree')
    BY <1>1 DEF TableInv
  <2>2. \A key \in lost : Has(tree, key) /\ ~Has(tree', key)
    BY <2>1, KnowsHas, KnowsHasNext
  <2> HIDE DEF lost
  <2>3. tree' = tree => lost = {}
    BY <2>2
  <2>4. IsFiniteSet({}) /\ Cardinality({}) = 0
    BY FS_EmptySet
  <2>5. ASSUME NEW p \in PeerInfos, UpdatePeer(p)
        PROVE  last'.op = "update" /\ lost = {}
    <3>1. CASE Open(p) = {}
      BY <2>3, <2>5, <3>1 DEF UpdatePeer, Level, Panic
    <3>2. CASE Open(p) # {}
      <4>1. /\ last'.op = "update"
            /\ \E d \in 0..Len(Path[p]) - 1 : IsUpdate(tree, tree', Prefix(Path[p], d), p)
        BY <1>1, <2>5, <3>2, UpdateStep
      <4> QED
        BY <2>2, <4>1, UpdateHas
    <3> QED
      BY <3>1, <3>2
  <2>6. ASSUME NEW p \in PeerInfos, RemovePeer(p)
        PROVE  last'.op = "remove_peer" /\ lost \subseteq {last'.peer.key}
    <3>1. /\ last'.op = "remove_peer" /\ last'.peer = p
          /\ tree' = tree \/ \E k : tree' = Removed(tree, k, p)
      BY <2>6, RemovalStep
    <3>2. ASSUME NEW key \in lost PROVE key = p.key
      BY <2>1, <2>2, <2>3, <3>1, RemovedFacts
    <3> QED
      BY <3>1, <3>2
  <2>7. ASSUME NEW p \in PeerInfos, RemoveLru(p)
        PROVE  last'.op = "remove_lru" /\ Cardinality(lost) <= 1
    <3>1. /\ last'.op = "remove_lru"
          /\ tree' = tree \/ \E k : tree' = Popped(tree, k)
      BY <2>7, RemovalStep
    <3>2. CASE tree' = tree
      BY <2>3, <2>4, <3>1, <3>2
    <3>3. CASE \E k : tree' = Popped(tree, k)
      <4>1. PICK k : tree' = Popped(tree, k)
        BY <3>3
      <4> DEFINE first == tree[k][1].key
      <4>2. lost \in SUBSET {first}
        BY <2>1, <2>2, <4>1, PoppedFacts
      <4> HIDE DEF first
      <4>3. IsFiniteSet({first}) /\ Cardinality({first}) = 1
        BY FS_Singleton
      <4>4. Cardinality(lost) <= Cardinality({first})
        BY <4>2, <4>3, FS_Subset
      <4> QED
        BY <3>1, <4>3, <4>4
    <3> QED
      BY <3>1, <3>2, <3>3
  <2> QED
    BY <1>1, <2>5, <2>6, <2>7 DEF Next
<1>2. TableInv /\ TableInv' /\ [Next]_vars =>
        [CASE last'.op = "remove_peer" -> lost \subseteq {last'.peer.key}
           [] last'.op = "remove_lru"  -> Cardinality(lost) <= 1
           [] OTHER                    -> lost = {}]_vars
  BY <1>1
<1> QED
  BY <1>2, TableInvariant, PTL DEF Spec, NeverForgets

------------------------------------------------------------------------------
(* A routing table implements a set of peers.                                  *)

\* The keys in a table.
KeysOf(t) == {key \in KnownKeys : Has(t, key)}

\* PeerSet counts as this module does.
LEMMA PeersCardinality == \A S : Peers!Cardinality(S) = Cardinality(S)
  BY DEF Peers!Cardinality, Cardinality

LEMMA KnownFacts ==
    ASSUME Typed(tree)
    PROVE  Known = KeysOf(tree) /\ \A key : Has(tree, key) => key \in KnownKeys
<1>1. \A q \in PeerInfos : Knows(q) <=> Has(tree, q.key)
  BY KnowsHas
<1>2. Known = KeysOf(tree)
  BY <1>1 DEF Known, KeysOf, KnownKeys
<1>3. ASSUME NEW key, Has(tree, key) PROVE key \in KnownKeys
  <2>1. PICK k \in DOMAIN tree : \E i \in 1..Len(tree[k]) : tree[k][i].key = key
    BY <1>3 DEF Has
  <2>2. \A i \in 1..Len(tree[k]) : tree[k][i] \in PeerInfos
    BY Elements
  <2> QED
    BY <2>1, <2>2 DEF KnownKeys
<1> QED
  BY <1>2, <1>3

LEMMA KnownFactsNext ==
    ASSUME Typed(tree')
    PROVE  Known' = KeysOf(tree')
<1>1. \A q \in PeerInfos : Knows(q)' <=> Has(tree', q.key)
  BY KnowsHasNext
<1>2. Known' = {p.key : p \in {q \in PeerInfos : Knows(q)'}}
  BY DEF Known
<1> QED
  BY <1>1, <1>2 DEF KeysOf, KnownKeys

\* update_peer adds the peer's key, and no other.
LEMMA UpdateKeys ==
    ASSUME NEW t, NEW u, NEW k, NEW p \in PeerInfos, IsUpdate(t, u, k, p)
    PROVE  KeysOf(u) = KeysOf(t) \cup {p.key}
<1>1. \A key \in KeysOf(t) : key \in KeysOf(u)
  BY UpdateHas DEF KeysOf
<1>2. p.key \in KeysOf(u)
  <2>1. k \in DOMAIN u /\ \E i \in 1..Len(u[k]) : u[k][i] = p
    BY DEF IsUpdate
  <2> QED
    BY <2>1 DEF KeysOf, KnownKeys, Has
<1>3. ASSUME NEW key \in KeysOf(u), key # p.key
      PROVE  key \in KeysOf(t)
  <2>1. PICK x \in DOMAIN u : \E i \in 1..Len(u[x]) : u[x][i].key = key
    BY DEF KeysOf, Has
  <2>2. PICK i \in 1..Len(u[x]) : u[x][i].key = key
    BY <2>1
  <2>3. x \in DOMAIN t /\ \E j \in 1..Len(t[x]) : u[x][i] = t[x][j]
    BY <1>3, <2>2, UpdatedElements
  <2> QED
    BY <2>2, <2>3 DEF KeysOf, Has
<1> QED
  BY <1>1, <1>2, <1>3

\* A removal adds none.
LEMMA ShrunkKeys ==
    ASSUME NEW t, NEW u, Shrunk(t, u)
    PROVE  KeysOf(u) \subseteq KeysOf(t)
<1>1. ASSUME NEW key \in KeysOf(u) PROVE key \in KeysOf(t)
  <2>1. PICK x \in DOMAIN u : \E i \in 1..Len(u[x]) : u[x][i].key = key
    BY DEF KeysOf, Has
  <2>2. PICK i \in 1..Len(u[x]) : u[x][i].key = key
    BY <2>1
  <2>3. x \in DOMAIN t /\ \E j \in 1..Len(t[x]) : u[x][i] = t[x][j]
    BY <2>2 DEF Shrunk
  <2> QED
    BY <2>2, <2>3 DEF KeysOf, Has
<1> QED
  BY <1>1

\* A full bucket holds MaxBucketLen keys.
LEMMA FullKeys ==
    ASSUME NEW t, Typed(t), NEW k \in DOMAIN t, IsFull(t[k])
    PROVE  Cardinality(KeysOf(t)) >= MaxBucketLen
<1>1. /\ \A i \in 1..Len(t[k]) : t[k][i] \in PeerInfos
      /\ Len(t[k]) = MaxBucketLen
  BY Elements DEF IsFull
<1> DEFINE f == [i \in 1..MaxBucketLen |-> t[k][i].key]
           g == [q \in PeerInfos |-> q.key]
<1>2. \A i \in 1..MaxBucketLen : t[k][i].key \in KeysOf(t)
  BY <1>1 DEF KeysOf, KnownKeys, Has
<1>3. f \in Injection(1..MaxBucketLen, KeysOf(t))
  <2>1. f \in [1..MaxBucketLen -> KeysOf(t)]
    BY <1>2
  <2>2. \A i, j \in 1..MaxBucketLen : f[i] = f[j] => i = j
    BY <1>1 DEF Typed, Bucketed, SameKey
  <2> QED
    BY <2>1, <2>2 DEF Injection, IsInjective
<1>4. IsFiniteSet(KeysOf(t))
  <2>1. g \in Surjection(PeerInfos, KnownKeys)
    BY DEF Surjection, KnownKeys
  <2>2. IsFiniteSet(KnownKeys)
    BY <2>1, FS_Surjection
  <2>3. KeysOf(t) \subseteq KnownKeys
    BY DEF KeysOf
  <2> QED
    BY <2>2, <2>3, FS_Subset
<1>5. IsFiniteSet(1..MaxBucketLen) /\ Cardinality(1..MaxBucketLen) = MaxBucketLen
  BY Interval
<1>6. Cardinality(1..MaxBucketLen) <= Cardinality(KeysOf(t))
  BY <1>3, <1>4, FS_Injection
<1>7. Cardinality(KeysOf(t)) \in Nat
  BY <1>4, FS_CardinalityType
<1> QED
  BY <1>5, <1>6, <1>7

\* new makes the set of the local node alone.
LEMMA PeersInit ==
    ASSUME Init
    PROVE  Peers!Init
<1>1. Typed(tree)
  BY InitTable DEF TableInv
<1> DEFINE k == Prefix(Path[LocalInfo], 0)
<1>2. DOMAIN tree = {k} /\ tree[k] = <<LocalInfo>>
  BY DEF Init
<1> HIDE DEF k
<1>3. Len(tree[k]) = 1 /\ tree[k][1] = LocalInfo
  BY <1>2
<1>4. \A key : Has(tree, key) <=> key = LocalInfo.key
  BY <1>2, <1>3 DEF Has
<1>5. Known = {LocalInfo.key}
  BY <1>1, <1>4, KnownFacts DEF KeysOf
<1> QED
  BY <1>5 DEF Init, Peers!Init

LEMMA PeersUpdate ==
    ASSUME TableInv, TableInv', NEW p \in PeerInfos, UpdatePeer(p)
    PROVE  Peers!Update(p)
<1>1. Typed(tree) /\ Typed(tree') /\ ~last.panicked
  BY DEF TableInv, UpdatePeer
<1>2. Known = KeysOf(tree) /\ Known' = KeysOf(tree')
  BY <1>1, KnownFacts, KnownFactsNext
<1>3. CASE Open(p) = {}
  <2>1. last' = [op |-> "update", peer |-> p, panicked |-> TRUE] /\ tree' = tree
    BY <1>3 DEF UpdatePeer, Level, Panic
  <2>2. 0 \in 0..Len(Path[p]) - 1
    BY PathFacts
  <2> DEFINE k == Prefix(Path[p], 0)
  <2>3. IsFull(Bucket(k))
    BY <1>3, <2>2 DEF Open
  <2> HIDE DEF k
  <2>4. k \in DOMAIN tree /\ IsFull(tree[k])
    <3>1. ~IsFull(<<>>)
      BY DEF IsFull
    <3> QED
      BY <2>3, <3>1 DEF Bucket
  <2>5. Cardinality(Known) >= MaxBucketLen
    BY <1>1, <1>2, <2>4, FullKeys
  <2>6. Known' = Known
    BY <1>2, <2>1
  <2>7. Peers!Ends("update", p, TRUE)
    BY <1>1, <2>1 DEF Peers!Ends
  <2> QED
    BY <2>5, <2>6, <2>7, PeersCardinality DEF Peers!Update
<1>4. CASE Open(p) # {}
  <2>1. PICK d \in 0..Len(Path[p]) - 1 :
          /\ IsUpdate(tree, tree', Prefix(Path[p], d), p)
          /\ last' = [op |-> "update", peer |-> p, panicked |-> FALSE]
    BY <1>4, UpdateStep
  <2>2. Known' = Known \cup {p.key}
    BY <1>2, <2>1, UpdateKeys
  <2>3. Peers!Ends("update", p, FALSE)
    BY <1>1, <2>1 DEF Peers!Ends
  <2> QED
    BY <2>2, <2>3 DEF Peers!Update
<1> QED
  BY <1>3, <1>4

\* What a removal does besides to the table.
LEMMA RemovalEnds ==
    ASSUME NEW op, NEW p \in PeerInfos, NEW bucket, RemoveFrom(op, p, bucket)
    PROVE  \/ Peers!Ends(op, p, TRUE) /\ tree' = tree
           \/ Peers!Ends(op, p, FALSE)
<1>1. CASE ~HasPrefix(Path[p], RemovalLevel(p))
  BY <1>1 DEF RemoveFrom, Panic, Peers!Ends
<1>2. CASE HasPrefix(Path[p], RemovalLevel(p))
  BY <1>2 DEF RemoveFrom, Peers!Ends
<1> QED
  BY <1>1, <1>2

LEMMA PeersRemove ==
    ASSUME TableInv, TableInv', NEW p \in PeerInfos, RemovePeer(p)
    PROVE  Peers!RemovePeer(p)
<1>1. Typed(tree) /\ Typed(tree')
  BY DEF TableInv
<1>2. Known = KeysOf(tree) /\ Known' = KeysOf(tree')
  BY <1>1, KnownFacts, KnownFactsNext
<1>3. \/ Peers!Ends("remove_peer", p, TRUE) /\ tree' = tree
      \/ Peers!Ends("remove_peer", p, FALSE)
  BY RemovalEnds DEF RemovePeer
<1>4. tree' = tree => Known' = Known
  BY <1>2
<1>5. CASE \E k : tree' = Removed(tree, k, p)
  <2>1. PICK k : tree' = Removed(tree, k, p)
    BY <1>5
  <2>2. /\ Shrunk(tree, tree')
        /\ \A key : Has(tree, key) /\ key # p.key => Has(tree', key)
    BY <1>1, <2>1, RemovedFacts
  <2>3. Known' \subseteq Known /\ Known \ {p.key} \subseteq Known'
    BY <1>2, <2>2, ShrunkKeys DEF KeysOf
  <2>4. Known' \in {Known, Known \ {p.key}}
    BY <2>3
  <2> QED
    BY <1>3, <1>4, <2>4 DEF Peers!RemovePeer
<1>6. tree' = tree \/ \E k : tree' = Removed(tree, k, p)
  BY RemovalStep
<1> QED
  BY <1>3, <1>4, <1>5, <1>6 DEF Peers!RemovePeer

LEMMA PeersPop ==
    ASSUME TableInv, TableInv', NEW p \in PeerInfos, RemoveLru(p)
    PROVE  Peers!RemoveLru(p)
<1>1. Typed(tree) /\ Typed(tree')
  BY DEF TableInv
<1>2. Known = KeysOf(tree) /\ Known' = KeysOf(tree')
  BY <1>1, KnownFacts, KnownFactsNext
<1>3. \/ Peers!Ends("remove_lru", p, TRUE) /\ tree' = tree
      \/ Peers!Ends("remove_lru", p, FALSE)
  BY RemovalEnds DEF RemoveLru
<1>4. \E gone \in SUBSET Known : Cardinality(gone) <= 1 /\ Known' = Known \ gone
  <2>1. CASE tree' = tree
    <3>1. Cardinality({}) = 0
      BY FS_EmptySet
    <3> QED
      BY <1>2, <2>1, <3>1
  <2>2. CASE \E k : tree' = Popped(tree, k)
    <3>1. PICK k : tree' = Popped(tree, k)
      BY <2>2
    <3> DEFINE first == tree[k][1].key
               gone == Known \ Known'
    <3>2. /\ Shrunk(tree, tree')
          /\ \A key : Has(tree, key) /\ ~Has(tree', key) => key = first
      BY <1>1, <3>1, PoppedFacts
    <3> HIDE DEF first
    <3>3. Known' \subseteq Known /\ gone \in SUBSET {first}
      BY <1>2, <3>2, ShrunkKeys DEF KeysOf
    <3>4. IsFiniteSet({first}) /\ Cardinality({first}) = 1
      BY FS_Singleton
    <3>5. IsFiniteSet(gone) /\ Cardinality(gone) <= 1
      BY <3>3, <3>4, FS_Subset
    <3>6. Known' = Known \ gone /\ gone \in SUBSET Known
      BY <3>3
    <3> QED
      BY <3>5, <3>6
  <2>3. tree' = tree \/ \E k : tree' = Popped(tree, k)
    BY RemovalStep
  <2> QED
    BY <2>1, <2>2, <2>3
<1>5. tree' = tree => Known' = Known
  BY <1>2
<1>6. CASE Peers!Ends("remove_lru", p, TRUE) /\ tree' = tree
  BY <1>5, <1>6 DEF Peers!RemoveLru
<1>7. CASE Peers!Ends("remove_lru", p, FALSE)
  BY <1>4, <1>7, PeersCardinality DEF Peers!RemoveLru
<1> QED
  BY <1>3, <1>6, <1>7

\* Every step of a routing table is a step of a set of peers: bucket splits, full buckets and
\* older records of a peer further up never show in whom it knows.
THEOREM RefinesPeerSet == Spec => ImplementsPeerSet
<1>1. TableInv /\ TableInv' /\ [Next]_vars => [Peers!Next]_Peers!vars
  <2> SUFFICES ASSUME TableInv, TableInv', [Next]_vars PROVE [Peers!Next]_Peers!vars
    OBVIOUS
  <2>1. CASE Next
    BY <2>1, PeersUpdate, PeersRemove, PeersPop DEF Next, Peers!Next
  <2>2. CASE UNCHANGED vars
    <3>1. tree' = tree /\ last' = last
      BY <2>2 DEF vars
    <3>2. Typed(tree) /\ Typed(tree')
      BY DEF TableInv
    <3>3. Known' = Known
      BY <3>1, <3>2, KnownFacts, KnownFactsNext
    <3> QED
      BY <3>1, <3>3 DEF Peers!vars
  <2> QED
    BY <2>1, <2>2
<1> QED
  BY <1>1, PeersInit, TableInvariant, PTL DEF Spec, ImplementsPeerSet, Peers!Spec
=============================================================================
