----------------------------- MODULE LookupProofs -----------------------------
(* Proofs about get_closest_peers: for keys, buckets, tables, targets and      *)
(* counts of any size it returns as many records as were asked for, or all.    *)
EXTENDS RoutingTableProofs

USE KeyAssumption, TableAssumption

------------------------------------------------------------------------------
(* The first elements of a finite set, in a strict partial order.              *)

\* Of some subsets of a finite set one contains no other.
LEMMA Smallest ==
    ASSUME NEW S, IsFiniteSet(S), NEW F \in SUBSET (SUBSET S), F # {}
    PROVE  \E T \in F : \A U \in F : U \subseteq T => U = T
<1> DEFINE R == StrictSubsetOrdering(S)
<1>1. IsWellFoundedOn(R, SUBSET S)
  <2>1. IsWellFoundedOn(R, FiniteSubsetsOf(S))
    BY FS_StrictSubsetOrderingWellFounded
  <2> QED
    BY <2>1, FS_FiniteSubsetsOfFinite
<1> HIDE DEF R
<1>2. PICK T \in F : \A U \in F : ~(<<U, T>> \in R)
  BY <1>1, WFMin
<1>3. ASSUME NEW U \in F, U \subseteq T PROVE U = T
  <2>1. <<U, T>> \in (SUBSET S) \X (SUBSET S)
    OBVIOUS
  <2>2. U # T => <<U, T>> \in R
    BY <1>3, <2>1 DEF R, StrictSubsetOrdering
  <2> QED
    BY <1>2, <2>2
<1> QED
  BY <1>3

StrictOrder(R, S) ==
    /\ \A x \in S : <<x, x>> \notin R
    /\ \A x, y, z \in S : <<x, y>> \in R /\ <<y, z>> \in R => <<x, z>> \in R

\* A finite set that is not empty has a last element.
LEMMA LastElement ==
    ASSUME NEW S, IsFiniteSet(S), S # {}, NEW R, StrictOrder(R, S)
    PROVE  \E last0 \in S : \A x \in S : <<last0, x>> \notin R
<1> DEFINE after(x) == {y \in S : <<x, y>> \in R}
           F == {after(x) : x \in S}
<1>1. F \in SUBSET (SUBSET S) /\ F # {}
  <2>1. \A x \in S : after(x) \in SUBSET S
    OBVIOUS
  <2> HIDE DEF after
  <2> QED
    BY <2>1
<1>2. PICK T \in F : \A U \in F : U \subseteq T => U = T
  <2> HIDE DEF F
  <2> QED
    BY <1>1, Smallest
<1>3. PICK x \in S : T = after(x)
  BY <1>2
<1>4. ASSUME NEW y \in S, <<x, y>> \in R PROVE FALSE
  <2>1. after(y) \subseteq after(x)
    BY <1>4 DEF StrictOrder
  <2>2. y \in after(x) /\ y \notin after(y)
    BY <1>4 DEF StrictOrder
  <2>3. after(y) \in F
    OBVIOUS
  <2> HIDE DEF F, after
  <2>4. after(y) = after(x)
    BY <1>2, <1>3, <2>1, <2>3
  <2> QED
    BY <2>2, <2>4
<1> QED
  BY <1>4

\* The sets truncate may return are never none.
LEMMA Foremost ==
    ASSUME NEW S, IsFiniteSet(S), NEW R, StrictOrder(R, S), NEW n \in 0..Cardinality(S)
    PROVE  \E T \in SUBSET S :
             Cardinality(T) = n /\ \A kept \in T, cut \in S \ T : <<cut, kept>> \notin R
<1> DEFINE Fronts == {T \in SUBSET S : /\ n <= Cardinality(T)
                                       /\ \A kept \in T, cut \in S \ T : <<cut, kept>> \notin R}
<1>1. Cardinality(S) \in Nat /\ \A T \in SUBSET S : IsFiniteSet(T) /\ Cardinality(T) \in Nat
  BY FS_CardinalityType, FS_Subset
<1>2. S \in Fronts /\ Fronts \in SUBSET (SUBSET S)
  BY <1>1
<1>3. PICK T \in Fronts : \A U \in Fronts : U \subseteq T => U = T
  <2> HIDE DEF Fronts
  <2> QED
    BY <1>2, Smallest
<1>4. ASSUME Cardinality(T) # n PROVE FALSE
  <2>1. IsFiniteSet(T) /\ Cardinality(T) \in Nat /\ n < Cardinality(T)
    BY <1>1, <1>4
  <2>2. T # {}
    BY <2>1, FS_EmptySet
  <2>3. StrictOrder(R, T)
    BY DEF StrictOrder
  <2>4. PICK m \in T : \A x \in T : <<m, x>> \notin R
    BY <2>1, <2>2, <2>3, LastElement
  <2> DEFINE U == T \ {m}
  <2>5. Cardinality(U) = Cardinality(T) - 1
    BY <2>1, FS_RemoveElement
  <2>6. U \in Fronts
    <3>1. U \in SUBSET S /\ n <= Cardinality(U)
      BY <2>1, <2>5
    <3>2. ASSUME NEW kept \in U, NEW cut \in S \ U PROVE <<cut, kept>> \notin R
      BY <2>4
    <3> QED
      BY <3>1, <3>2
  <2> QED
    BY <1>3, <2>6
<1>5. T \in SUBSET S /\ Cardinality(T) = n
  BY <1>4
<1>6. \A kept \in T, cut \in S \ T : <<cut, kept>> \notin R
  OBVIOUS
<1> QED
  BY <1>5, <1>6

------------------------------------------------------------------------------
(* The order of peers by distance.                                             *)

LEMMA XorType == \A a, b : Xor(a, b) \in Keys
  BY DEF Xor, Keys, Bytes

LEMMA BitType ==
    ASSUME NEW a \in Keys, NEW i \in 1..KeyBytes * ByteBits
    PROVE  Bit(a, i) \in {0, 1}
<1> DEFINE q == (i - 1) \div ByteBits
           r == (i - 1) % ByteBits
<1>1. i \in Nat /\ 1 <= i /\ i <= KeyBytes * ByteBits
  OBVIOUS
<1>2. q \in Nat /\ r \in 0..ByteBits - 1 /\ i - 1 = ByteBits * q + r
  BY <1>1
<1>3. q + 1 \in 1..KeyBytes /\ r + 1 \in 1..ByteBits
  <2>1. ASSUME q >= KeyBytes PROVE FALSE
    BY <1>1, <1>2, <2>1
  <2> QED
    BY <1>2, <2>1
<1> HIDE DEF q, r
<1>4. a[q + 1][r + 1] \in {0, 1}
  BY <1>3 DEF Keys, Bytes
<1> QED
  BY <1>4 DEF Bit, q, r

\* The derived order of keys is a strict order.
LEMMA LessIrreflexive ==
    ASSUME NEW a \in Keys
    PROVE  ~Less(a, a)
<1>1. ASSUME NEW i \in 1..KeyBytes * ByteBits, Bit(a, i) < Bit(a, i) PROVE FALSE
  BY <1>1, BitType
<1> QED
  BY <1>1 DEF Less

LEMMA LessTransitive ==
    ASSUME NEW a \in Keys, NEW b \in Keys, NEW c \in Keys, Less(a, b), Less(b, c)
    PROVE  Less(a, c)
<1> DEFINE bits == KeyBytes * ByteBits
           A(i) == Bit(a, i)
           B(i) == Bit(b, i)
           C(i) == Bit(c, i)
<1>1. bits \in Nat /\ \A i \in 1..bits : A(i) \in {0, 1} /\ B(i) \in {0, 1} /\ C(i) \in {0, 1}
  BY BitType
<1>2. PICK i \in 1..bits : A(i) < B(i) /\ \A h \in 1..i - 1 : A(h) = B(h)
  BY DEF Less
<1>3. PICK j \in 1..bits : B(j) < C(j) /\ \A h \in 1..j - 1 : B(h) = C(h)
  BY DEF Less
<1> HIDE DEF bits, A, B, C
<1>4. \E k \in 1..bits : A(k) < C(k) /\ \A h \in 1..k - 1 : A(h) = C(h)
  <2>1. CASE i <= j
    <3>1. A(i) < C(i)
      BY <1>1, <1>2, <1>3, <2>1
    <3>2. \A h \in 1..i - 1 : A(h) = C(h)
      BY <1>1, <1>2, <1>3, <2>1
    <3> QED
      BY <3>1, <3>2
  <2>2. CASE j < i
    <3>1. A(j) < C(j)
      BY <1>1, <1>2, <1>3, <2>2
    <3>2. \A h \in 1..j - 1 : A(h) = C(h)
      BY <1>1, <1>2, <1>3, <2>2
    <3> QED
      BY <3>1, <3>2
  <2> QED
    BY <1>1, <2>1, <2>2
<1> QED
  BY <1>4 DEF Less, bits, A, C

\* Slots are sorted by distance, the copies of a peer by depth.
SlotOrder(target, gathered) ==
    {x \in Slots \X Slots : Before(target, gathered, x[1], x[2])}

LEMMA SlotOrderStrict ==
    ASSUME Typed(tree), NEW target \in PeerInfos, NEW gathered \in BOOLEAN,
           NEW S \in SUBSET Slots
    PROVE  StrictOrder(SlotOrder(target, gathered), S)
<1> DEFINE key(s) == Xor(At(s).key, target.key)
           depth(s) == Len(s[1])
           near(s, r) == Less(key(s), key(r))
           same(s, r) == At(s).key = At(r).key
           before(s, r) == near(s, r) \/ (gathered /\ same(s, r) /\ depth(s) > depth(r))
<1>1. \A s \in Slots : At(s) \in PeerInfos /\ key(s) \in Keys /\ depth(s) \in Nat
  BY SlotFacts, Elements, XorType DEF At
<1>2. \A s, r \in Slots : <<s, r>> \in SlotOrder(target, gathered) <=> before(s, r)
  <2> SUFFICES ASSUME NEW s \in Slots, NEW r \in Slots
               PROVE  <<s, r>> \in SlotOrder(target, gathered) <=> before(s, r)
    OBVIOUS
  <2>1. <<s, r>> \in SlotOrder(target, gathered) <=> Before(target, gathered, s, r)
    BY DEF SlotOrder
  <2>2. Nearer[target][At(s)][At(r)] <=> near(s, r)
    BY <1>1 DEF Nearer
  <2> QED
    BY <2>1, <2>2 DEF Before, SameKey
<1>3. \A s, r \in Slots : same(s, r) => key(s) = key(r)
  OBVIOUS
<1>4. \A s \in Slots : ~near(s, s)
  BY <1>1, LessIrreflexive
<1>5. \A s, r, t \in Slots : near(s, r) /\ near(r, t) => near(s, t)
  BY <1>1, LessTransitive
<1>6. \A s, r, t \in Slots : same(s, r) => (near(s, t) <=> near(r, t)) /\ (near(t, s) <=> near(t, r))
  BY <1>3
<1>7. \A s, r, t \in Slots : same(s, r) /\ same(r, t) => same(s, t)
  OBVIOUS
<1> HIDE DEF key, depth, near, same
<1>8. \A s \in Slots : ~before(s, s)
  BY <1>1, <1>4
<1>9. \A s, r, t \in Slots : before(s, r) /\ before(r, t) => before(s, t)
  BY <1>1, <1>5, <1>6, <1>7
<1> HIDE DEF before
<1> QED
  BY <1>2, <1>8, <1>9 DEF StrictOrder

------------------------------------------------------------------------------
(* Lookups.                                                                    *)

\* Numbers have a greatest and a smallest among them.
LEMMA Extremes ==
    ASSUME NEW S \in SUBSET Nat, IsFiniteSet(S), S # {}
    PROVE  /\ \E m \in S : \A x \in S : x <= m
           /\ \E m \in S : \A x \in S : m <= x
<1> DEFINE Up == {x \in Nat \X Nat : x[1] < x[2]}
           Down == {x \in Nat \X Nat : x[1] > x[2]}
<1>1. /\ \A x, y \in S : <<x, y>> \in Up <=> x < y
      /\ \A x, y \in S : <<x, y>> \in Down <=> x > y
  OBVIOUS
<1> HIDE DEF Up, Down
<1>2. StrictOrder(Up, S) /\ StrictOrder(Down, S)
  BY <1>1 DEF StrictOrder
<1>3. PICK m \in S : \A x \in S : <<m, x>> \notin Up
  BY <1>2, LastElement
<1>4. PICK n \in S : \A x \in S : <<n, x>> \notin Down
  BY <1>2, LastElement
<1>5. \A x \in S : ~(m < x) /\ ~(n > x)
  BY <1>1, <1>3, <1>4
<1>6. \A x \in S : x <= m /\ n <= x
  <2>1. m \in Nat /\ n \in Nat /\ \A x \in S : x \in Nat
    OBVIOUS
  <2> QED
    BY <1>5, <2>1
<1> QED
  BY <1>6

\* truncate finds something to return, and it is as long as was asked.
LEMMA TruncatedFacts ==
    ASSUME Typed(tree), NEW target \in PeerInfos, NEW gathered \in BOOLEAN,
           NEW S \in SUBSET Slots, NEW n \in Nat, n <= Cardinality(S)
    PROVE  /\ Truncated(S, target, n, gathered) # {}
           /\ \A s \in Truncated(S, target, n, gathered) : Cardinality(s) = n
<1>1. IsFiniteSet(S) /\ Cardinality(S) \in Nat
  BY SlotFacts, SlotsOfFacts, FS_Subset, FS_CardinalityType
<1>2. StrictOrder(SlotOrder(target, gathered), S)
  BY SlotOrderStrict
<1>3. PICK T \in SUBSET S :
        /\ Cardinality(T) = n
        /\ \A kept \in T, cut \in S \ T : <<cut, kept>> \notin SlotOrder(target, gathered)
  <2>1. n \in 0..Cardinality(S)
    BY <1>1
  <2> QED
    BY <1>1, <1>2, <2>1, Foremost
<1>4. \A kept \in T, cut \in S \ T : ~Before(target, gathered, cut, kept)
  BY <1>3 DEF SlotOrder
<1>5. T \in Truncated(S, target, n, gathered)
  BY <1>3, <1>4 DEF Truncated, kSubset
<1> QED
  BY <1>5 DEF Truncated, kSubset

\* Some of the matching buckets are the longest that together hold as many.
LEMMA LongestFacts ==
    ASSUME Typed(tree), NEW target \in PeerInfos, NEW n \in Nat \ {0},
           n <= Cardinality(SlotsIn(Matching(target)))
    PROVE  /\ Longest(target, n) \in SUBSET Matching(target)
           /\ n <= Cardinality(SlotsIn(Longest(target, n)))
<1> DEFINE keys == Matching(target)
           from(l) == {k \in keys : Len(k) >= l}
           lens == {Len(k) : k \in keys}
           enough == {l \in lens : Cardinality(SlotsIn(from(l))) >= n}
<1>1. keys \subseteq DOMAIN tree /\ \A k \in keys : Len(k) \in Nat
  BY Elements DEF Matching
<1>2. lens \in SUBSET Nat /\ IsFiniteSet(lens)
  <2>1. Len(Path[target]) \in Nat
    BY PathFacts
  <2>2. \A k \in keys : Len(k) <= Len(Path[target])
    BY <1>1, Elements, PrefixOfPath DEF Matching
  <2>3. lens \in SUBSET Nat /\ \A l \in lens : l <= Len(Path[target])
    BY <1>1, <2>2
  <2> HIDE DEF lens
  <2> QED
    BY <2>1, <2>3, FS_BoundedSetOfNaturals
<1>3. keys # {}
  <2>1. ASSUME keys = {} PROVE FALSE
    <3>1. SlotsIn(keys) = {}
      BY <2>1 DEF SlotsIn
    <3> QED
      BY <3>1, FS_EmptySet
  <2> QED
    BY <2>1
<1>4. enough # {}
  <2>1. lens # {}
    BY <1>3
  <2>2. PICK l \in lens : \A x \in lens : l <= x
    <3> HIDE DEF lens
    <3> QED
      BY <1>2, <2>1, Extremes
  <2>3. from(l) = keys
    BY <1>1, <2>2
  <2>4. Cardinality(SlotsIn(from(l))) >= n
    <3>1. IsFiniteSet(SlotsIn(keys)) /\ Cardinality(SlotsIn(keys)) \in Nat
      <4>1. SlotsIn(keys) \in SUBSET Slots
        BY <1>1 DEF SlotsIn, Slots
      <4> HIDE DEF keys
      <4> QED
        BY <4>1, SlotFacts, SlotsOfFacts, FS_Subset, FS_CardinalityType
    <3> QED
      BY <2>3, <3>1
  <2> HIDE DEF lens, from
  <2> QED
    BY <2>2, <2>4
<1>5. enough \in SUBSET Nat /\ IsFiniteSet(enough)
  BY <1>2, FS_Subset
<1>6. PICK m \in enough : \A x \in enough : x <= m
  <2> HIDE DEF enough
  <2> QED
    BY <1>4, <1>5, Extremes
<1> DEFINE max == Max(enough)
<1>7. max \in enough
  <2> HIDE DEF enough
  <2>1. \E x \in enough : \A y \in enough : x >= y
    BY <1>5, <1>6
  <2> QED
    BY <2>1 DEF Max
<1>8. Longest(target, n) = from(max)
  BY DEF Longest
<1>9. n <= Cardinality(SlotsIn(from(max)))
  <2>1. Cardinality(SlotsIn(from(max))) >= n
    BY <1>7
  <2>2. IsFiniteSet(SlotsIn(from(max))) /\ Cardinality(SlotsIn(from(max))) \in Nat
    <3>1. SlotsIn(from(max)) \in SUBSET Slots
      BY <1>1 DEF SlotsIn, Slots
    <3> HIDE DEF from, max
    <3> QED
      BY <3>1, SlotFacts, SlotsOfFacts, FS_Subset, FS_CardinalityType
  <2> HIDE DEF from, max
  <2> QED
    BY <2>1, <2>2
<1> QED
  BY <1>8, <1>9

\* Every lookup that does not panic returns as many records as it was asked for, or all,
\* whichever of the three ways of get_closest_peers it goes.
THEOREM ClosestCountAlways == Spec => []ClosestCount
<1>1. TableInv => ClosestCount
  <2> SUFFICES ASSUME TableInv, NEW target \in PeerInfos, NEW n \in Counts
               PROVE  /\ Closest(target, n) # {}
                      /\ \A s \in Closest(target, n) :
                           Cardinality(s) = Min({n, Cardinality(Slots)})
    BY DEF ClosestCount, Queries
  <2>1. Typed(tree) /\ n \in Nat \ {0}
    BY DEF TableInv, Counts
  <2>2. Cardinality(Slots) \in Nat
    BY <2>1, SlotFacts, SlotsOfFacts
  <2> DEFINE all == Cardinality(Slots)
  <2>3. Min({n, all}) = IF all <= n THEN all ELSE n
    BY <2>1, <2>2 DEF Min
  <2>4. CASE all <= n
    BY <2>3, <2>4 DEF Closest
  <2>5. CASE all > n /\ Cardinality(SlotsIn(Matching(target))) < n
    <3>1. ~(Cardinality(Slots) <= n) /\ Cardinality(SlotsIn(Matching(target))) < n
      BY <2>1, <2>2, <2>5
    <3>2. Closest(target, n) = Truncated(Slots, target, n, FALSE)
      BY <3>1, Zenon DEF Closest
    <3>3. n <= Cardinality(Slots)
      BY <2>1, <2>2, <2>5
    <3>4. /\ Truncated(Slots, target, n, FALSE) # {}
          /\ \A s \in Truncated(Slots, target, n, FALSE) : Cardinality(s) = n
      BY <2>1, <3>3, TruncatedFacts
    <3> QED
      BY <2>3, <3>1, <3>2, <3>4
  <2>6. CASE all > n /\ ~(Cardinality(SlotsIn(Matching(target))) < n)
    <3> DEFINE found == SlotsIn(Longest(target, n))
    <3>1. Closest(target, n) = Truncated(found, target, n, TRUE)
      <4>1. ~(Cardinality(Slots) <= n)
        BY <2>1, <2>2, <2>6
      <4> QED
        BY <2>6, <4>1, Zenon DEF Closest
    <3>2. SlotsIn(Matching(target)) \in SUBSET Slots
      BY DEF SlotsIn, Slots, Matching
    <3>3. n <= Cardinality(SlotsIn(Matching(target)))
      BY <2>1, <2>6, <3>2, SlotFacts, SlotsOfFacts, FS_Subset, FS_CardinalityType
    <3>4. /\ Longest(target, n) \in SUBSET Matching(target)
          /\ n <= Cardinality(SlotsIn(Longest(target, n)))
      BY <2>1, <3>3, LongestFacts
    <3>5. found \in SUBSET Slots
      BY <3>4 DEF SlotsIn, Slots, Matching
    <3>6. /\ Truncated(found, target, n, TRUE) # {}
          /\ \A s \in Truncated(found, target, n, TRUE) : Cardinality(s) = n
      BY <2>1, <3>4, <3>5, TruncatedFacts
    <3>7. Min({n, all}) = n
      BY <2>1, <2>2, <2>3, <2>6
    <3> QED
      BY <3>1, <3>6, <3>7
  <2> QED
    BY <2>1, <2>2, <2>4, <2>5, <2>6
<1> QED
  BY <1>1, TableInvariant, PTL

------------------------------------------------------------------------------
(* Tables without a full bucket.                                               *)

NoneFull == \A k \in DOMAIN tree : ~IsFull(tree[k])

\* A table of fewer peers than a bucket holds has no full one, whatever was inserted and
\* removed in whatever order: what Discovery takes a table for.
THEOREM FewNeverFull == Spec => [](Cardinality(Known) < MaxBucketLen => NoneFull)
<1>1. TableInv => (Cardinality(Known) < MaxBucketLen => NoneFull)
  <2> SUFFICES ASSUME TableInv, NEW k \in DOMAIN tree, IsFull(tree[k])
               PROVE  ~(Cardinality(Known) < MaxBucketLen)
    BY DEF NoneFull
  <2>1. Typed(tree)
    BY DEF TableInv
  <2>2. IsFiniteSet(PeerInfos)
    OBVIOUS
  <2>3. Known = KeysOf(tree)
    BY <2>1, KnownFacts
  <2>4. Cardinality(KeysOf(tree)) >= MaxBucketLen
    BY <2>1, FullKeys
  <2>5. IsFiniteSet(Known)
    <3> DEFINE g == [q \in PeerInfos |-> q.key]
    <3>1. g \in Surjection(PeerInfos, KnownKeys)
      BY DEF Surjection, KnownKeys
    <3>2. IsFiniteSet(KnownKeys)
      BY <2>2, <3>1, FS_Surjection
    <3>3. Known \subseteq KnownKeys
      BY <2>3 DEF KeysOf
    <3> QED
      BY <3>2, <3>3, FS_Subset
  <2>6. Cardinality(Known) \in Nat
    BY <2>5, FS_CardinalityType
  <2> QED
    BY <2>3, <2>4, <2>6
<1> QED
  BY <1>1, TableInvariant, PTL

\* Such a table has buckets of the first digit only.
LEMMA OneDigit ==
    ASSUME Typed(tree), Nested(tree), NoneFull, NEW k \in DOMAIN tree
    PROVE  Len(k) = 1
<1>1. Len(k) \in Nat \ {0}
  BY Elements
<1>2. ASSUME Len(k) # 1 PROVE FALSE
  <2> DEFINE n == Len(k)
  <2>1. n \in Nat \ {0} /\ n # 1
    BY <1>1, <1>2
  <2> HIDE DEF n
  <2>2. 1 \in 1..n - 1
    BY <2>1
  <2>3. 1 \in 1..Len(k) - 1
    BY <2>2 DEF n
  <2> QED
    BY <2>3 DEF Nested, NoneFull
<1> QED
  BY <1>2

\* It holds a peer once.
LEMMA OneSlot ==
    ASSUME Typed(tree), Placed(tree), Nested(tree), NoneFull,
           NEW r \in Slots, NEW s \in Slots, SameKey(At(r), At(s))
    PROVE  r = s
<1>1. /\ r[1] \in DOMAIN tree /\ r[2] \in 1..Len(tree[r[1]]) /\ r = <<r[1], r[2]>>
      /\ s[1] \in DOMAIN tree /\ s[2] \in 1..Len(tree[s[1]]) /\ s = <<s[1], s[2]>>
  BY SlotFacts, SlotsOfFacts
<1>2. At(r) \in PeerInfos /\ At(s) \in PeerInfos /\ r[1] \in PathPrefixes /\ s[1] \in PathPrefixes
  BY <1>1, Elements DEF At
<1>3. Path[At(r)] = Path[At(s)]
  BY <1>2, SamePath
<1>4. Len(r[1]) = 1 /\ Len(s[1]) = 1
  BY <1>1, OneDigit
<1>5. IsPrefix(r[1], Path[At(r)]) /\ IsPrefix(s[1], Path[At(s)])
  BY <1>1 DEF Placed, At
<1>6. r[1] = Prefix(Path[At(r)], 0)
  <2>1. r[1] = Prefix(Path[At(r)], Len(r[1]) - 1)
    BY <1>2, <1>5, PrefixOfPath
  <2> QED
    BY <1>4, <2>1
<1>7. s[1] = Prefix(Path[At(s)], 0)
  <2>1. s[1] = Prefix(Path[At(s)], Len(s[1]) - 1)
    BY <1>2, <1>5, PrefixOfPath
  <2> QED
    BY <1>4, <2>1
<1>8. r[1] = s[1]
  BY <1>3, <1>6, <1>7
<1>9. r[2] = s[2]
  <2>1. Bucketed(tree[r[1]]) /\ SameKey(tree[r[1]][r[2]], tree[r[1]][s[2]])
    BY <1>1, <1>8 DEF Typed, At
  <2> QED
    BY <1>1, <1>8, <2>1 DEF Bucketed
<1> QED
  BY <1>1, <1>8, <1>9

\* get_closest_peers finds every peer of a table without a full bucket once, in the last
\* record update_peer was given.
THEOREM FindsEachOnceAlways == Spec => []FindsEachOnce
<1>1. TableInv => FindsEachOnce
  <2> SUFFICES ASSUME TableInv, removals = 0, NoneFull,
                      NEW target \in PeerInfos, NEW count \in Counts,
                      Cardinality(Known) <= count
               PROVE  /\ Closest(target, count) = {Slots}
                      /\ Cardinality(Slots) = Cardinality(Known)
                      /\ {At(slot) : slot \in Slots} = {latest[key] : key \in Known}
    BY DEF FindsEachOnce, NoneFull
  <2>1. /\ Typed(tree) /\ Placed(tree) /\ Nested(tree) /\ UpToDate(tree, latest)
    BY DEF TableInv
  <2>2. IsFiniteSet(Slots)
    BY <2>1, SlotFacts, SlotsOfFacts
  <2>3. \A s \in Slots : At(s) \in PeerInfos /\ At(s).key \in Known
    <3> SUFFICES ASSUME NEW s \in Slots PROVE At(s) \in PeerInfos /\ At(s).key \in Known
      OBVIOUS
    <3>1. At(s) \in PeerInfos
      BY <2>1, SlotFacts, Elements DEF At
    <3>2. Knows(At(s))
      BY DEF Knows, SameKey
    <3> QED
      BY <3>1, <3>2 DEF Known
  <2>4. \A key \in Known : \E s \in Slots : At(s).key = key
    BY DEF Known, Knows, SameKey
  <2> DEFINE f == [s \in Slots |-> At(s).key]
  <2>5. f \in Bijection(Slots, Known)
    <3>1. f \in [Slots -> Known]
      BY <2>3
    <3>2. \A r, s \in Slots : f[r] = f[s] => r = s
      BY <2>1, OneSlot DEF SameKey
    <3>3. \A key \in Known : \E s \in Slots : f[s] = key
      BY <2>4
    <3> HIDE DEF f
    <3> QED
      BY <3>1, <3>2, <3>3 DEF Bijection, Injection, Surjection, IsInjective
  <2>6. Cardinality(Slots) = Cardinality(Known)
    <3>1. ExistsBijection(Slots, Known)
      BY <2>5, Zenon DEF ExistsBijection
    <3> QED
      BY <2>2, <3>1, FS_Bijection
  <2>7. \A s \in Slots : At(s) = latest[At(s).key]
    <3> SUFFICES ASSUME NEW s \in Slots PROVE At(s) = latest[At(s).key]
      OBVIOUS
    <3>1. s[1] \in DOMAIN tree /\ s[2] \in 1..Len(tree[s[1]])
      BY <2>1, SlotFacts
    <3>2. \A x \in DOMAIN tree : Len(x) = 1
      BY <2>1, OneDigit
    <3>3. Deepest(tree, s[1], tree[s[1]][s[2]].key)
      BY <3>1, <3>2 DEF Deepest
    <3> QED
      BY <2>1, <3>1, <3>3 DEF UpToDate, At
  <2>8. {At(slot) : slot \in Slots} = {latest[key] : key \in Known}
    BY <2>3, <2>4, <2>7
  <2> QED
    BY <2>6, <2>8 DEF Closest
<1> QED
  BY <1>1, TableInvariant, PTL

\* As long as no bucket is full, and nothing is removed, update_peer does what add_peer says
\* of it: the record of the peer is replaced, and there is no other.
THEOREM UpdatesWhileRoom == Spec => [](removals = 0 /\ NoneFull => UpdateUpdates)
<1> DEFINE Given == last.op = "update" /\ ~last.panicked => latest[last.peer.key] = last.peer
<1>1. Init => Given
  BY DEF Init
<1>2. TableInv /\ Given /\ [Next]_vars => Given'
  <2> SUFFICES ASSUME TableInv, Given, [Next]_vars PROVE Given'
    OBVIOUS
  <2>1. ASSUME NEW p \in PeerInfos, UpdatePeer(p) PROVE Given'
    <3>1. p.key \in KnownKeys
      BY DEF KnownKeys
    <3>2. CASE last' = [op |-> "update", peer |-> p, panicked |-> TRUE]
      BY <3>2
    <3>3. CASE /\ last' = [op |-> "update", peer |-> p, panicked |-> FALSE]
               /\ latest' = [latest EXCEPT ![p.key] = p]
      <4>1. latest'[p.key] = p
        BY <3>1, <3>3 DEF TableInv, HistoryOK
      <4> QED
        BY <3>3, <4>1
    <3> QED
      BY <2>1, <3>2, <3>3 DEF UpdatePeer, Panic
  <2>2. ASSUME NEW p \in Removable, RemovePeer(p) \/ RemoveLru(p) PROVE Given'
    BY <2>2 DEF RemovePeer, RemoveLru, RemoveFrom, Panic
  <2>3. CASE UNCHANGED vars
    BY <2>3 DEF vars
  <2> QED
    BY <2>1, <2>2, <2>3 DEF Next
<1>3. TableInv /\ Given => (removals = 0 /\ NoneFull => UpdateUpdates)
  <2> SUFFICES ASSUME TableInv, Given, removals = 0, NoneFull,
                      last.op = "update", ~last.panicked,
                      NEW s \in Slots, SameKey(At(s), last.peer)
               PROVE  At(s) = last.peer
    BY DEF UpdateUpdates
  <2>1. Typed(tree) /\ Nested(tree) /\ UpToDate(tree, latest)
    BY DEF TableInv
  <2>2. s[1] \in DOMAIN tree /\ s[2] \in 1..Len(tree[s[1]])
    BY <2>1, SlotFacts
  <2>3. \A x \in DOMAIN tree : Len(x) = 1
    BY <2>1, OneDigit
  <2>4. Deepest(tree, s[1], tree[s[1]][s[2]].key)
    BY <2>2, <2>3 DEF Deepest
  <2>5. At(s) = latest[At(s).key]
    BY <2>1, <2>2, <2>4 DEF UpToDate, At
  <2> QED
    BY <2>5 DEF SameKey
<1> QED
  BY <1>1, <1>2, <1>3, TableInvariant, PTL DEF Spec
==============================================================================
