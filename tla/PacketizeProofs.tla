--------------------------- MODULE PacketizeProofs ---------------------------
(* Proofs about Packetize, for any packet size and any length of message.      *)
EXTENDS Packetize, TLAPS, SequenceTheorems

USE PacketSizeAssumption, LengthsAssumption

\* How far the whole packets reach into the bytes.
LEMMA CountFacts ==
    ASSUME NEW l \in Nat, l >= PacketSize
    PROVE  /\ NumPackets(l) \in Nat \ {0}
           /\ (NumPackets(l) - 1) * PacketSize <= l
           /\ l < (NumPackets(l) + 1) * PacketSize
           /\ l - (NumPackets(l) - 1) * PacketSize < 2 * PacketSize
<1> DEFINE q == l \div PacketSize
<1>1. q \in Nat /\ q * PacketSize <= l /\ l < q * PacketSize + PacketSize
  BY Z3
<1>2. q >= 1
  BY <1>1, Z3
<1>3. NumPackets(l) = q \/ NumPackets(l) = q + 1
  BY DEF NumPackets
<1> HIDE DEF q
<1>4. (q - 1) * PacketSize = q * PacketSize - PacketSize
      /\ (q + 1) * PacketSize = q * PacketSize + PacketSize
      /\ (q + 2) * PacketSize = q * PacketSize + 2 * PacketSize
  BY <1>1, Z3
<1>5. CASE NumPackets(l) = q
  BY <1>1, <1>2, <1>4, <1>5
<1>6. CASE NumPackets(l) = q + 1
  BY <1>1, <1>2, <1>4, <1>6
<1>7. QED
  BY <1>3, <1>5, <1>6

LEMMA Products ==
    ASSUME NEW i \in Int
    PROVE  /\ i * PacketSize \in Int
           /\ (i - 1) * PacketSize = i * PacketSize - PacketSize
           /\ (i + 1) * PacketSize = i * PacketSize + PacketSize
  BY Z3

\* A longer run of packets reaches at least as far.
LEMMA Monotone ==
    ASSUME NEW i \in Int, NEW j \in Int, i <= j
    PROVE  i * PacketSize <= j * PacketSize
<1>1. (j - i) * PacketSize >= 0
  BY Z3
<1>2. (j - i) * PacketSize = j * PacketSize - i * PacketSize
  BY Z3
<1>3. QED
  BY <1>1, <1>2, Products

Safe == TypeOK /\ LoopInv /\ NeverPanics /\ Reassembles /\ PayloadBound

LEMMA InitSafe == Init => Safe
  BY DEF Init, Safe, TypeOK, LoopInv, NeverPanics, Reassembles, PayloadBound, Ranges

\* The next slice is inside the bytes, and the last one is short enough.
LEMMA NextSlice ==
    ASSUME Safe, pc = "loop"
    PROVE  /\ start \in Nat /\ end \in Nat /\ len \in Nat /\ Len(packets) \in Nat
           /\ Len(packets) # total - 1 => InBounds(start, end)
           /\ Len(packets) = total - 1 => InBounds(start, len) /\ len - start < 2 * PacketSize
<1> DEFINE n == Len(packets)
<1>1. /\ n \in Nat /\ total \in Nat /\ start \in Nat /\ end \in Nat /\ len \in Nat
      /\ len >= PacketSize /\ total = NumPackets(len) /\ n < total
      /\ start = n * PacketSize /\ end = start + PacketSize
  BY DEF Safe, TypeOK, LoopInv
<1>2. /\ (total - 1) * PacketSize <= len
      /\ len - (total - 1) * PacketSize < 2 * PacketSize
  BY <1>1, CountFacts
<1>3. ASSUME n # total - 1
      PROVE  InBounds(start, end)
  <2>1. (n + 1) * PacketSize <= (total - 1) * PacketSize
    BY <1>1, <1>3, Monotone
  <2>2. (n + 1) * PacketSize = n * PacketSize + PacketSize
    BY <1>1, Products
  <2>3. (total - 1) * PacketSize \in Int
    BY <1>1, Products
  <2>4. QED
    BY <1>1, <1>2, <2>1, <2>2, <2>3 DEF InBounds
<1>4. ASSUME n = total - 1
      PROVE  InBounds(start, len) /\ len - start < 2 * PacketSize
  BY <1>1, <1>2, <1>4 DEF InBounds
<1>5. QED
  BY <1>1, <1>3, <1>4

LEMMA OneMore ==
    ASSUME NEW s \in Seq(Ranges), NEW r \in Ranges, NEW t, t = Append(s, r)
    PROVE  /\ Len(t) = Len(s) + 1
           /\ t \in Seq(Ranges)
           /\ \A i \in 1..Len(s) : t[i] = s[i]
           /\ t[Len(s) + 1] = r
  BY AppendProperties

LEMMA CutSafe ==
    ASSUME Safe, Cut
    PROVE  Safe'
<1> DEFINE n == Len(packets)
           r == [lo |-> start, hi |-> end]
<1>1. /\ pc = "loop" /\ n # total - 1 /\ InBounds(start, end)
      /\ start \in Nat /\ end \in Nat /\ len \in Nat /\ n \in Nat /\ total \in Nat
  BY NextSlice DEF Cut, Safe, TypeOK
<1>2. /\ packets' = Append(packets, r) /\ pc' = "loop"
      /\ start' = end /\ end' = end + PacketSize /\ len' = len /\ total' = total
  BY <1>1 DEF Cut, Slice
<1>3. /\ len >= PacketSize /\ total = NumPackets(len) /\ n < total
      /\ start = n * PacketSize /\ end = start + PacketSize
      /\ packets \in Seq(Ranges) /\ r \in Ranges
      /\ \A i \in 1..n : packets[i].lo = (i - 1) * PacketSize /\ packets[i].hi = i * PacketSize
  BY <1>1 DEF Safe, TypeOK, LoopInv, Ranges
<1>4. /\ Len(packets') = n + 1
      /\ packets' \in Seq(Ranges)
      /\ \A i \in 1..n : packets'[i] = packets[i]
      /\ packets'[n + 1] = r
  <2>1. packets' = Append(packets, r) /\ packets \in Seq(Ranges) /\ r \in Ranges
    BY <1>2, <1>3
  <2>2. QED
    BY <2>1, OneMore
<1>5. end = (n + 1) * PacketSize
  BY <1>1, <1>3, Products
<1>6. ASSUME NEW i \in 1..Len(packets')
      PROVE  packets'[i].lo = (i - 1) * PacketSize /\ packets'[i].hi = i * PacketSize
  <2>1. CASE i = n + 1
    <3>1. packets'[i].lo = start /\ packets'[i].hi = end
      BY <1>4, <2>1
    <3>2. i - 1 = n
      BY <1>1, <2>1
    <3>3. start = (i - 1) * PacketSize /\ end = i * PacketSize
      <4>1. start = n * PacketSize
        BY <1>3
      <4>2. QED
        BY <1>5, <2>1, <3>2, <4>1
    <3>4. QED
      BY <3>1, <3>3
  <2>2. CASE i # n + 1
    <3>1. i \in 1..n /\ packets'[i] = packets[i]
      BY <1>1, <1>4, <2>2
    <3>2. QED
      BY <1>3, <3>1
  <2>3. QED
    BY <2>1, <2>2
<1>7. LoopInv'
  BY <1>1, <1>2, <1>3, <1>4, <1>5, <1>6 DEF LoopInv, NumPackets
<1>8. TypeOK' /\ NeverPanics' /\ Reassembles'
  BY <1>1, <1>2, <1>4 DEF Safe, TypeOK, NeverPanics, Reassembles
<1>9. PayloadBound'
  <2>1. ASSUME NEW i \in 1..Len(packets')
        PROVE  packets'[i].hi - packets'[i].lo = PacketSize
    <3>1. i \in Int
      BY <1>1, <1>4
    <3>2. QED
      BY <1>6, <3>1, Products
  <2>2. QED
    BY <1>2, <2>1 DEF PayloadBound
<1>10. QED
  BY <1>7, <1>8, <1>9 DEF Safe

LEMMA CutRestSafe ==
    ASSUME Safe, CutRest
    PROVE  Safe'
<1> DEFINE n == Len(packets)
           r == [lo |-> start, hi |-> len]
<1>1. /\ pc = "loop" /\ n = total - 1 /\ InBounds(start, len) /\ len - start < 2 * PacketSize
      /\ start \in Nat /\ end \in Nat /\ len \in Nat /\ n \in Nat /\ total \in Nat
  BY NextSlice DEF CutRest, Safe, TypeOK
<1>2. /\ packets' = Append(packets, r) /\ pc' = "done"
      /\ start' = start /\ end' = end /\ len' = len /\ total' = total
  BY <1>1 DEF CutRest, Slice
<1>3. /\ start = n * PacketSize /\ packets \in Seq(Ranges) /\ r \in Ranges
      /\ \A i \in 1..n : packets[i].lo = (i - 1) * PacketSize /\ packets[i].hi = i * PacketSize
  BY <1>1 DEF Safe, TypeOK, LoopInv, Ranges
<1>4. /\ Len(packets') = n + 1 /\ n + 1 = total
      /\ packets' \in Seq(Ranges)
      /\ \A i \in 1..n : packets'[i] = packets[i]
      /\ packets'[n + 1] = r
  <2>1. packets' = Append(packets, r) /\ packets \in Seq(Ranges) /\ r \in Ranges
    BY <1>2, <1>3
  <2>2. n + 1 = total
    BY <1>1
  <2>3. QED
    BY <2>1, <2>2, OneMore
<1>5. TypeOK' /\ LoopInv' /\ NeverPanics'
  BY <1>1, <1>2, <1>4 DEF Safe, TypeOK, LoopInv, NeverPanics
<1>6. packets'[total].lo = start /\ packets'[total].hi = len
  BY <1>4
<1>7. \A i \in 1..n : packets'[i].lo = (i - 1) * PacketSize /\ packets'[i].hi = i * PacketSize
  BY <1>3, <1>4
<1>8. Reassembles'
  <2>1. packets'[1].lo = 0
    <3>1. CASE n = 0
      BY <1>1, <1>3, <1>4, <1>6, <3>1
    <3>2. CASE n # 0
      <4>1. 1 \in 1..n
        BY <1>1, <3>2
      <4>2. QED
        BY <1>7, <4>1
    <3>3. QED
      BY <3>1, <3>2
  <2>2. ASSUME NEW i \in 1..total - 1
        PROVE  packets'[i].hi = packets'[i + 1].lo
    <3>1. i \in 1..n /\ packets'[i].hi = i * PacketSize
      BY <1>1, <1>4, <1>7
    <3>2. CASE i = n
      BY <1>3, <1>4, <1>6, <3>1, <3>2
    <3>3. CASE i # n
      <4>1. i + 1 \in 1..n /\ (i + 1) - 1 = i
        BY <1>1, <3>1, <3>3
      <4>2. QED
        BY <1>7, <3>1, <4>1
    <3>4. QED
      BY <3>2, <3>3
  <2>3. QED
    BY <1>1, <1>2, <1>4, <1>6, <2>1, <2>2 DEF Reassembles
<1>9. PayloadBound'
  <2>1. ASSUME NEW i \in 1..Len(packets'), i # total
        PROVE  packets'[i].hi - packets'[i].lo = PacketSize
    <3>1. i \in 1..n /\ i \in Int
      BY <1>1, <1>4, <2>1
    <3>2. QED
      BY <1>7, <3>1, Products
  <2>2. packets'[total].hi - packets'[total].lo \in 0..(2 * PacketSize - 1)
    BY <1>1, <1>6 DEF InBounds
  <2>3. QED
    BY <1>2, <2>1, <2>2 DEF PayloadBound
<1>10. QED
  BY <1>5, <1>8, <1>9 DEF Safe

LEMMA SingleSafe ==
    ASSUME Safe, Single
    PROVE  Safe'
<1>1. /\ len \in Nat /\ len < PacketSize /\ pc' = "done" /\ total' = 1
      /\ packets' = <<[lo |-> 0, hi |-> len]>> /\ UNCHANGED <<len, start, end>>
  BY DEF Single, Safe, TypeOK
<1>2. Len(packets') = 1 /\ packets'[1].lo = 0 /\ packets'[1].hi = len /\ packets' \in Seq(Ranges)
  BY <1>1 DEF Ranges
<1>3. TypeOK' /\ LoopInv' /\ NeverPanics'
  BY <1>1, <1>2 DEF Safe, TypeOK, LoopInv, NeverPanics
<1>4. Reassembles' /\ PayloadBound'
  BY <1>1, <1>2 DEF Reassembles, PayloadBound
<1>5. QED
  BY <1>3, <1>4 DEF Safe

LEMMA SplitSafe ==
    ASSUME Safe, Split
    PROVE  Safe'
<1>1. /\ len \in Nat /\ len >= PacketSize /\ pc' = "loop" /\ total' = NumPackets(len)
      /\ packets = <<>> /\ start = 0 /\ end = PacketSize
      /\ UNCHANGED <<len, start, end, packets>>
  BY DEF Split, Safe, TypeOK, LoopInv
<1>2. NumPackets(len) \in Nat \ {0} /\ NumPackets(len') = NumPackets(len)
  BY <1>1, CountFacts
<1>3. Len(packets') = 0
  BY <1>1
<1>4. LoopInv'
  BY <1>1, <1>2, <1>3 DEF LoopInv
<1>5. TypeOK' /\ NeverPanics' /\ Reassembles' /\ PayloadBound'
  BY <1>1, <1>2, <1>3 DEF Safe, TypeOK, NeverPanics, Reassembles, PayloadBound
<1>6. QED
  BY <1>4, <1>5 DEF Safe

\* Between two turns of the loop, and at its end, slices, count and packets agree.
LEMMA SafeAlways == Spec => []Safe
<1>1. Safe /\ [Next]_vars => Safe'
  <2>1. Safe /\ UNCHANGED vars => Safe'
    BY DEF vars, Safe, TypeOK, LoopInv, NeverPanics, Reassembles, PayloadBound, NumPackets
  <2>2. QED
    BY <2>1, SingleSafe, SplitSafe, CutSafe, CutRestSafe DEF Next
<1>2. QED
  BY <1>1, InitSafe, PTL DEF Spec

\* Each turn of the loop starts where the whole packets made so far end, with one packet
\* at least left to make.
THEOREM LoopInvariant == Spec => []LoopInv
<1>1. Safe => LoopInv
  BY DEF Safe
<1>2. QED
  BY <1>1, SafeAlways, PTL

\* packetize never slices outside the bytes, whatever the remainder test does to the count.
THEOREM NeverPanicsAlways == Spec => []NeverPanics
<1>1. Safe => NeverPanics
  BY DEF Safe
<1>2. QED
  BY <1>1, SafeAlways, PTL

\* The packets of a message put together are its bytes.
THEOREM PacketizeCorrect == Spec => []Reassembles
<1>1. Safe => Reassembles
  BY DEF Safe
<1>2. QED
  BY <1>1, SafeAlways, PTL

\* No packet carries twice the packet size.
THEOREM PayloadBoundAlways == Spec => []PayloadBound
<1>1. Safe => PayloadBound
  BY DEF Safe
<1>2. QED
  BY <1>1, SafeAlways, PTL
==============================================================================
