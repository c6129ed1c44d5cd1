------------------------------- MODULE Cursor -------------------------------
(***************************************************************************)
(* Bounded reading and writing over byte strings: Reader and Writer, the   *)
(* LEB128 integers and the CRC of isha-vector-db-format.  A byte string is *)
(* a sequence of integers and a position is the index of the next byte.    *)
(*                                                                         *)
(* A read is the set of its successful outcomes: {[v, at]} with the value  *)
(* and the position after it, or {} for any FormatError.  Which error is   *)
(* raised is left out; that one is raised, and where, is kept.  Widths are *)
(* constants so that every threshold is met by short strings.              *)
(***************************************************************************)
EXTENDS Integers, Sequences, SequencesExt, Bitwise

CONSTANTS
    ByteBits,       \* bits of a byte (8)
    WordBits,       \* bits of a varint's value (64)
    FloatBytes,     \* bytes of a float (4 and 8)
    MantissaBits,   \* bits of a float's mantissa (23 and 52)
    CrcBytes,       \* bytes of a checksum (4)
    CrcPoly         \* the reflected polynomial (0x82F63B78)

ASSUME WidthsAssumption ==
    /\ ByteBits \in Nat \ {0, 1}
    /\ WordBits \in Nat \ {0}
    /\ FloatBytes \in Nat \ {0}
    /\ MantissaBits \in 1..(FloatBytes * ByteBits - 2)
    /\ CrcBytes \in Nat \ {0}
    /\ CrcPoly \in 1..(2^(CrcBytes * ByteBits) - 1)

ByteBase == 2^ByteBits
Byte == 0..(ByteBase - 1)

\* The top bit of a byte: the varint's continuation bit.
HighBit == ByteBase \div 2

(***************************************************************************)
(* Checksum.                                                               *)
(***************************************************************************)
CrcBase == 2^(CrcBytes * ByteBits)

CrcShift(c) == IF c % 2 = 1 THEN (c \div 2) ^^ CrcPoly ELSE c \div 2

CrcTable ==
    [i \in Byte |-> FoldLeft(LAMBDA c, bit : CrcShift(c), i, [b \in 1..ByteBits |-> b])]

\* One byte fed in, tabulated over every state of the register.
CrcUpdate ==
    [crc \in 0..(CrcBase - 1) |->
        [b \in Byte |-> (crc \div ByteBase) ^^ CrcTable[(crc ^^ b) % ByteBase]]]

Crc32c(data) == (CrcBase - 1) - FoldLeft(LAMBDA crc, b : CrcUpdate[crc][b], CrcBase - 1, data)

(***************************************************************************)
(* Writer.                                                                 *)
(***************************************************************************)
\* n bytes, least significant first.
LittleEndian(v, n) == [i \in 1..n |-> (v \div ByteBase^(i - 1)) % ByteBase]

Zeros(n) == [i \in 1..n |-> 0]

AlignTo(buf, align) ==
    IF Len(buf) % align = 0 THEN buf ELSE buf \o Zeros(align - (Len(buf) % align))

\* The fewest bytes that hold v, PayloadBits at a time.
PayloadBits == ByteBits - 1

MaxVarintLen == (WordBits + PayloadBits - 1) \div PayloadBits

EncodedLen(v) ==
    CHOOSE n \in 1..MaxVarintLen :
        v < HighBit^n /\ \A m \in 1..(n - 1) : v >= HighBit^m

PutVarint(v) ==
    LET n == EncodedLen(v)
    IN  [i \in 1..n |-> ((v \div HighBit^(i - 1)) % HighBit) + (IF i < n THEN HighBit ELSE 0)]

ZigZag(v) == IF v >= 0 THEN 2 * v ELSE -2 * v - 1

UnZigZag(u) == IF u % 2 = 0 THEN u \div 2 ELSE -((u + 1) \div 2)

PutVarintI64(v) == PutVarint(ZigZag(v))

PutBlob(bytes) == PutVarint(Len(bytes)) \o bytes

(***************************************************************************)
(* Reader.                                                                 *)
(***************************************************************************)
Remaining(buf, at) == Len(buf) - at + 1

ReadBytes(buf, at, n) ==
    IF n <= Remaining(buf, at)
    THEN {[v |-> SubSeq(buf, at, at + n - 1), at |-> at + n]}
    ELSE {}

ReadU8(buf, at) == {[v |-> r.v[1], at |-> r.at] : r \in ReadBytes(buf, at, 1)}

FromLittleEndian(bytes) == FoldRight(LAMBDA b, acc : b + ByteBase * acc, bytes, 0)

\* u16, u32 and u64 differ in n only.
ReadWord(buf, at, n) ==
    {[v |-> FromLittleEndian(r.v), at |-> r.at] : r \in ReadBytes(buf, at, n)}

\* A float's bits without its sign, the top one.
Magnitude(bits) == bits % (ByteBase^FloatBytes \div 2)

\* NaN and the infinities have an exponent of all ones.
IsFinite(bits) == Magnitude(bits) < ByteBase^FloatBytes \div 2 - 2^MantissaBits

ReadFloat(buf, at) == {r \in ReadWord(buf, at, FloatBytes) : IsFinite(r.v)}

\* Seeded fault: the decoder accepts a padded encoding.
ReadVarintPadded(buf, at) ==
    LET ends == {i \in 1..Remaining(buf, at) : buf[at + i - 1] < HighBit}
        n == CHOOSE i \in ends : \A j \in ends : i <= j
    IN  IF ends = {} \/ n > MaxVarintLen THEN {}
        ELSE {[v |-> FoldRight(LAMBDA b, acc : (b % HighBit) + HighBit * acc,
                               SubSeq(buf, at, at + n - 1), 0),
               at |-> at + n]}

\* Truncated without a final byte; Overflow past MaxVarintLen or when the last byte carries
\* more than the bits left; NonCanonical when a shorter encoding exists.
ReadVarint(buf, at) ==
    LET ends == {i \in 1..Remaining(buf, at) : buf[at + i - 1] < HighBit}
        n == CHOOSE i \in ends : \A j \in ends : i <= j
        last == buf[at + n - 1]
        value == FoldRight(LAMBDA b, acc : (b % HighBit) + HighBit * acc,
                           SubSeq(buf, at, at + n - 1), 0)
    IN  IF \/ ends = {}
           \/ n > MaxVarintLen
           \/ n = MaxVarintLen /\ last >= 2^(WordBits - PayloadBits * (n - 1))
           \/ n > 1 /\ last = 0
        THEN {}
        ELSE {r \in {[v |-> value, at |-> at + n]} : EncodedLen(value) = n}

ReadVarintI64(buf, at) == {[v |-> UnZigZag(r.v), at |-> r.at] : r \in ReadVarint(buf, at)}

ReadBlob(buf, at) == UNION {ReadBytes(buf, n.at, n.v) : n \in ReadVarint(buf, at)}

\* One-byte characters have a clear top bit; a two-byte one is a lead 11x.. and a
\* continuation 10x...
IsUtf8(bytes) ==
    LET quarter == ByteBase \div 4
        Lead(b) == b >= 3 * quarter
        Continues(b) == HighBit <= b /\ b < 3 * quarter
    IN  \A i \in DOMAIN bytes :
            /\ Lead(bytes[i]) => i < Len(bytes) /\ Continues(bytes[i + 1])
            /\ Continues(bytes[i]) => i > 1 /\ Lead(bytes[i - 1])

ReadString(buf, at) == {r \in ReadBlob(buf, at) : IsUtf8(r.v)}

ReadReserved(buf, at, n) == {r \in ReadBytes(buf, at, n) : r.v = Zeros(n)}

ExpectEnd(buf, results) == {r \in results : Remaining(buf, r.at) = 0}
=============================================================================
