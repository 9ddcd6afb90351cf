------------------------------ MODULE Packetize ------------------------------
(* `packetize` (src/protocol/protocol.rs): the loop that cuts the bytes of a   *)
(* message into packets, on byte positions instead of bytes.  A packet is the  *)
(* half-open range [lo, hi) of positions it carries; its number is its index.  *)
EXTENDS Integers, Sequences

CONSTANTS
    PacketSize,     \* the literal 1024
    Lengths         \* the lengths of the messages

ASSUME PacketSizeAssumption == PacketSize \in Nat \ {0}

ASSUME LengthsAssumption == Lengths \subseteq Nat

VARIABLES
    pc,         \* "call", "loop", "done", or "panicked" after a slice out of bounds
    len,        \* bytes.len()
    total,      \* n_packets
    start, end, \* the bounds of the next slice
    packets     \* the packets made so far; the loop counter n is Len(packets)

vars == <<pc, len, total, start, end, packets>>

Ranges == [lo : Nat, hi : Nat]

TypeOK ==
    /\ pc \in {"call", "loop", "done", "panicked"}
    /\ len \in Lengths
    /\ total \in Nat
    /\ start \in Nat /\ end \in Nat
    /\ packets \in Seq(Ranges)

Init ==
    /\ pc = "call"
    /\ len \in Lengths
    /\ total = 0 /\ start = 0 /\ end = PacketSize
    /\ packets = <<>>

------------------------------------------------------------------------------
\* For mutation: one packet too many.
RoundUpTwice(l) == (l \div PacketSize) + 2

\* The number of packets.  The remainder tested is that of the number of packets by the
\* packet size, so that the count is rounded up even when nothing remains.
NumPackets(l) ==
    LET n == l \div PacketSize IN IF n % PacketSize # 0 THEN n + 1 ELSE n

\* A message shorter than a packet is one packet.
Single ==
    /\ pc = "call"
    /\ len < PacketSize
    /\ packets' = <<[lo |-> 0, hi |-> len]>>
    /\ total' = 1
    /\ pc' = "done"
    /\ UNCHANGED <<len, start, end>>

Split ==
    /\ pc = "call"
    /\ len >= PacketSize
    /\ total' = NumPackets(len)
    /\ pc' = "loop"
    /\ UNCHANGED <<len, start, end, packets>>

\* A slice whose bounds are not those of the bytes panics.
InBounds(lo, hi) == lo <= hi /\ hi <= len

Slice(lo, hi) ==
    packets' = IF InBounds(lo, hi) THEN Append(packets, [lo |-> lo, hi |-> hi]) ELSE packets

\* For mutation: the end of the slice is not advanced; the next slice starts one early.
CutKeepsEnd ==
    /\ pc = "loop"
    /\ Len(packets) # total - 1
    /\ Slice(start, end)
    /\ pc' = IF InBounds(start, end) THEN "loop" ELSE "panicked"
    /\ start' = end
    /\ UNCHANGED <<len, total, end>>

CutOverlaps ==
    /\ pc = "loop"
    /\ Len(packets) # total - 1
    /\ Slice(start, end)
    /\ pc' = IF InBounds(start, end) THEN "loop" ELSE "panicked"
    /\ start' = end - 1
    /\ end' = end + PacketSize
    /\ UNCHANGED <<len, total>>

\* bytes[start..end], and the bounds of the next slice.
Cut ==
    /\ pc = "loop"
    /\ Len(packets) # total - 1
    /\ Slice(start, end)
    /\ pc' = IF InBounds(start, end) THEN "loop" ELSE "panicked"
    /\ start' = end
    /\ end' = end + PacketSize
    /\ UNCHANGED <<len, total>>

\* bytes[start..], after which the loop ends.
CutRest ==
    /\ pc = "loop"
    /\ Len(packets) = total - 1
    /\ Slice(start, len)
    /\ pc' = IF InBounds(start, len) THEN "done" ELSE "panicked"
    /\ UNCHANGED <<len, total, start, end>>

Next == Single \/ Split \/ Cut \/ CutRest

Spec == Init /\ [][Next]_vars

------------------------------------------------------------------------------
\* No slice of packetize leaves the bytes, whatever the remainder test does to the count.
NeverPanics == pc # "panicked"

\* assemble_packets, which concatenates packets 1 to total_n, gets back the bytes: the
\* packets cover them from the first to the last, without gap or overlap.
Reassembles ==
    pc = "done" =>
        /\ Len(packets) = total /\ total > 0
        /\ packets[1].lo = 0 /\ packets[total].hi = len
        /\ \A i \in 1..total - 1 : packets[i].hi = packets[i + 1].lo

\* Every packet but the last carries PacketSize bytes, and the last less than twice that,
\* so a datagram stays below the largest one UDP carries.
PayloadBound ==
    \A i \in 1..Len(packets) :
        LET size == packets[i].hi - packets[i].lo IN
          IF pc = "done" /\ i = total THEN size \in 0..(2 * PacketSize - 1)
                                      ELSE size = PacketSize

------------------------------------------------------------------------------
\* What the loop maintains.
LoopInv ==
    /\ pc = "call" => packets = <<>> /\ start = 0 /\ end = PacketSize
    /\ pc = "loop" =>
         /\ len >= PacketSize
         /\ total = NumPackets(len)
         /\ Len(packets) < total
         /\ start = Len(packets) * PacketSize
         /\ end = start + PacketSize
         /\ \A i \in 1..Len(packets) :
              packets[i].lo = (i - 1) * PacketSize /\ packets[i].hi = i * PacketSize
==============================================================================
