------------------------------- MODULE PeerKey -------------------------------
(* Keys and their XOR distance: src/node/peer_key.rs.  A key is an array of    *)
(* bytes, a byte its bits from the most significant one.                       *)
EXTENDS Naturals, Sequences, FiniteSets

CONSTANTS
    KeyBytes,   \* the literal 32
    ByteBits    \* 8

ASSUME KeyAssumption == KeyBytes \in Nat \ {0} /\ ByteBits \in Nat \ {0}

Bytes == [1..ByteBits -> {0, 1}]

Keys == [1..KeyBytes -> Bytes]

Zero(byte) == \A j \in 1..ByteBits : byte[j] = 0

Xor(a, b) ==
    [i \in 1..KeyBytes |-> [j \in 1..ByteBits |-> IF a[i][j] = b[i][j] THEN 0 ELSE 1]]

\* u8::leading_zeros
ByteZeros(byte) == Cardinality({j \in 1..ByteBits : \A h \in 1..j : byte[h] = 0})

\* Key::leading_zeros: all bits of the zero bytes in front, then those of the next byte.
LeadingZeros(key) ==
    LET front == Cardinality({i \in 1..KeyBytes : \A h \in 1..i : Zero(key[h])})
    IN  IF front = KeyBytes THEN KeyBytes * ByteBits
                            ELSE front * ByteBits + ByteZeros(key[front + 1])

\* `{:b}` of a byte prints its bits without leading zeros, a single 0 for the zero byte;
\* the Binary format of a key prints its bytes one after the other, without padding.
Printed(key) ==
    {at \in (1..KeyBytes) \X (1..ByteBits) :
        at[2] = ByteBits \/ \E h \in 1..at[2] : key[at[1]][h] = 1}

\* How many of the printed bits stand up to a place.
Rank(printed, at) ==
    Cardinality({x \in printed : x[1] < at[1] \/ (x[1] = at[1] /\ x[2] <= at[2])})

Binary(key) ==
    [d \in 1..Cardinality(Printed(key)) |->
        LET at == CHOOSE x \in Printed(key) : Rank(Printed(key), x) = d
        IN  key[at[1]][at[2]]]

\* get_prefix of a binary string: size + 1 digits, a panic when there are not as many.
HasPrefix(digits, size) == size < Len(digits)

\* For mutation: a slice that starts one digit late.
LateSlice(digits, size) ==
    IF size = 0 THEN SubSeq(digits, 1, 1) ELSE SubSeq(digits, 2, size + 1)

Prefix(digits, size) == SubSeq(digits, 1, size + 1)

Bit(key, i) == key[((i - 1) \div ByteBits) + 1][((i - 1) % ByteBits) + 1]

\* The derived order of keys: the first different bit decides.
Less(a, b) ==
    \E i \in 1..KeyBytes * ByteBits :
        /\ Bit(a, i) < Bit(b, i)
        /\ \A h \in 1..i - 1 : Bit(a, h) = Bit(b, h)
==============================================================================
