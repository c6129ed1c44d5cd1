----------------------------- MODULE Documents -------------------------------
(***************************************************************************)
(* The data model of isha-vector-db-core: document ids, vectors, metadata, *)
(* the checks every write path makes of them, and what they are in bytes.  *)
(***************************************************************************)
EXTENDS Filter

CONSTANTS
    Dimension,          \* the collection's dimension
    IdKind,             \* the collection's IdKind: "str" or "u64"
    IdWords,            \* bytes of an integer id (8)
    MaxIdLen,           \* the smaller of the catalog's max_len and MAX_DOC_ID_LEN
    ControlBytes,       \* characters an id may not contain
    MaxMetadataBytes    \* MAX_METADATA_BYTES

ASSUME DocumentsAssumption ==
    /\ {Dimension, IdWords, MaxIdLen, MaxMetadataBytes} \subseteq Nat
    /\ IdKind \in {"str", "u64"}
    /\ ControlBytes \subseteq Byte

(***************************************************************************)
(* Ids.                                                                    *)
(***************************************************************************)
StrId(bytes) == [kind |-> "str", bytes |-> bytes, num |-> 0]
U64Id(n) == [kind |-> "u64", bytes |-> <<>>, num |-> n]

\* Ord of DocId: strings by their bytes, below the integers.
DocIdLess(a, b) ==
    \/ a.kind = "str" /\ b.kind = "u64"
    \/ a.kind = b.kind /\ (KeyLess(a.bytes, b.bytes) \/ a.num < b.num)

ToBytes(id) == IF id.kind = "str" THEN id.bytes ELSE LittleEndian(id.num, IdWords)

\* The collection's kind says how to read an id back: {id}, or {} for InvalidDocumentId.
FromBytes(bytes) ==
    IF IdKind = "str" THEN {StrId(b) : b \in {x \in {bytes} : IsUtf8(x)}}
    ELSE {U64Id(FromLittleEndian(b)) : b \in {x \in {bytes} : Len(x) = IdWords}}

ValidateId(id) ==
    /\ id.kind = IdKind
    /\ id.kind = "str" =>
        /\ Len(id.bytes) \in 1..MaxIdLen
        /\ \A i \in DOMAIN id.bytes : id.bytes[i] \notin ControlBytes

(***************************************************************************)
(* Vectors (the bits of their floats) and metadata.                        *)
(***************************************************************************)
ValidateVector(vector) == Len(vector) = Dimension /\ \A i \in DOMAIN vector : IsFinite(vector[i])

\* Metadata::depth leaves the map itself out: a flat map of scalars has depth 1.
MetadataDepth(m) == Depth(m) - 1

ValidateMetadata(m) ==
    /\ MetadataDepth(m) <= MaxValueDepth
    /\ \E bytes \in Encode(m) : Len(bytes) <= MaxMetadataBytes

\* Metadata::decode: only a map is metadata.
DecodeMetadata(bytes) == {m \in Decode(bytes) : m.tag = "map"}
=============================================================================
