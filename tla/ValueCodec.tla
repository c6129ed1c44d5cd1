----------------------------- MODULE ValueCodec -----------------------------
(***************************************************************************)
(* The metadata value model, its canonical encoding, the full decoder, the *)
(* skipper and the lazy path lookup of isha-vector-db-format, over the     *)
(* byte strings of Cursor, and the decoded lookup of the core's Metadata.  *)
(***************************************************************************)
EXTENDS Cursor

CONSTANTS
    MaxValueDepth,      \* MAX_VALUE_DEPTH (16)
    IndexMinEntries,    \* INDEX_MIN_ENTRIES (8)
    IndexEntryBytes     \* INDEX_ENTRY_BYTES (2)

ASSUME CodecAssumption ==
    /\ MaxValueDepth \in Nat \ {0}
    /\ IndexMinEntries \in Nat \ {0}
    /\ IndexEntryBytes \in Nat \ {0}

(***************************************************************************)
(* Values: one record shape for every variant, so that values compare.  A  *)
(* string, a byte string and a key are bytes; a map is its keys, strictly  *)
(* ascending, beside the values they name.                                 *)
(***************************************************************************)
MakeValue(tag, num, bytes, keys, items) ==
    [tag |-> tag, num |-> num, bytes |-> bytes, keys |-> keys, items |-> items]

NullV == MakeValue("null", 0, <<>>, <<>>, <<>>)
BoolV(b) == MakeValue("bool", b, <<>>, <<>>, <<>>)
I64V(n) == MakeValue("i64", n, <<>>, <<>>, <<>>)
F64V(bits) == MakeValue("f64", bits, <<>>, <<>>, <<>>)
StrV(bytes) == MakeValue("str", 0, bytes, <<>>, <<>>)
BytesV(bytes) == MakeValue("bytes", 0, bytes, <<>>, <<>>)
ArrayV(items) == MakeValue("array", 0, <<>>, <<>>, items)
MapV(keys, items) == MakeValue("map", 0, <<>>, keys, items)

\* The tag bytes of the format's table; a boolean's value is in its tag.
Tag == [null |-> 0, false |-> 1, true |-> 2, i64 |-> 3, f64 |-> 4, str |-> 5, bytes |-> 6,
        array |-> 7, map |-> 8, indexed |-> 9]

\* Byte order of two keys.
KeyLess(a, b) ==
    \/ Len(a) < Len(b) /\ \A i \in DOMAIN a : a[i] = b[i]
    \/ \E i \in DOMAIN a \cap DOMAIN b : a[i] < b[i] /\ \A j \in 1..(i - 1) : a[j] = b[j]

RECURSIVE Depth(_)
Depth(v) ==
    1 + FoldLeft(LAMBDA deepest, d : IF d > deepest THEN d ELSE deepest, 0,
                 [i \in DOMAIN v.items |-> Depth(v.items[i])])

(***************************************************************************)
(* Encoding: {bytes}, or {} for a value that is too deep or not finite.    *)
(***************************************************************************)
\* Offset of each part of a map's entries.
Offsets(parts) == [i \in DOMAIN parts |-> Len(FlattenSeq(SubSeq(parts, 1, i - 1)))]

\* A map at or above the threshold carries an offset table, unless its last entry starts
\* beyond what an offset can say.
MapBytes(parts) ==
    LET n == Len(parts)
        offsets == Offsets(parts)
        indexed == n >= IndexMinEntries /\ offsets[n] < ByteBase^IndexEntryBytes
        table == FlattenSeq([i \in DOMAIN parts |-> LittleEndian(offsets[i], IndexEntryBytes)])
    IN  (IF indexed THEN <<Tag.indexed>> \o PutVarint(n) \o table ELSE <<Tag.map>> \o PutVarint(n))
        \o FlattenSeq(parts)

RECURSIVE WriteAt(_, _), WriteParts(_, _, _)
\* The encoded children of v from the i-th on, each behind its key in a map.
WriteParts(v, i, depth) ==
    IF i > Len(v.items) THEN {<<>>}
    ELSE {<<(IF v.tag = "map" THEN PutBlob(v.keys[i]) ELSE <<>>) \o head>> \o tail :
            head \in WriteAt(v.items[i], depth), tail \in WriteParts(v, i + 1, depth)}

WriteAt(v, depth) ==
    IF depth > MaxValueDepth THEN {}
    ELSE CASE v.tag = "null" -> {<<Tag.null>>}
           [] v.tag = "bool" -> {<<IF v.num = 1 THEN Tag.true ELSE Tag.false>>}
           [] v.tag = "i64" -> {<<Tag.i64>> \o PutVarintI64(v.num)}
           [] v.tag = "f64" -> {<<Tag.f64>> \o LittleEndian(b, FloatBytes) :
                                    b \in {x \in {v.num} : IsFinite(x)}}
           [] v.tag = "str" -> {<<Tag.str>> \o PutBlob(v.bytes)}
           [] v.tag = "bytes" -> {<<Tag.bytes>> \o PutBlob(v.bytes)}
           [] v.tag = "array" -> {<<Tag.array>> \o PutVarint(Len(v.items)) \o FlattenSeq(parts) :
                                    parts \in WriteParts(v, 1, depth + 1)}
           [] v.tag = "map" -> {MapBytes(parts) : parts \in WriteParts(v, 1, depth + 1)}

Encode(v) == WriteAt(v, 1)

(***************************************************************************)
(* Decoding.                                                               *)
(***************************************************************************)
\* A container count that the bytes left could satisfy, at perEntry bytes each.
BoundedCount(buf, at, perEntry) ==
    {n \in ReadVarint(buf, at) : n.v <= Remaining(buf, n.at) \div perEntry}

TableOffset(table, i) ==
    FromLittleEndian(SubSeq(table, (i - 1) * IndexEntryBytes + 1, i * IndexEntryBytes))

\* No encoder writes a table below the threshold; a wide map without one is version 1.
TableAllowed(indexed, count) == indexed => count >= IndexMinEntries

RECURSIVE ReadAt(_, _, _), ReadItems(_, _, _, _), ReadEntries(_, _, _, _, _, _)
\* n values in a row.
ReadItems(buf, at, n, depth) ==
    IF n = 0 THEN {[v |-> <<>>, at |-> at]}
    ELSE UNION {{[v |-> <<head.v>> \o tail.v, at |-> tail.at] :
                    tail \in ReadItems(buf, head.at, n - 1, depth)} :
                head \in ReadAt(buf, at, depth)}

\* The entries from the i-th on: each where the table says it is, its key above the last.
ReadEntries(buf, at, base, table, so, depth) ==
    LET i == Len(so.keys) + 1
    IN  IF i > so.count THEN {[v |-> MapV(so.keys, so.items), at |-> at]}
        ELSE IF so.indexed /\ TableOffset(table, i) # at - base THEN {}
        ELSE UNION {UNION {ReadEntries(buf, val.at, base, table,
                              [so EXCEPT !.keys = Append(@, key.v), !.items = Append(@, val.v)],
                              depth) :
                           val \in ReadAt(buf, key.at, depth)} :
                    key \in {k \in ReadString(buf, at) :
                                so.keys = <<>> \/ KeyLess(Last(so.keys), k.v)}}

ReadMap(buf, at, indexed, depth) ==
    UNION {UNION {ReadEntries(buf, table.at, table.at, table.v,
                     [count |-> n.v, indexed |-> indexed, keys |-> <<>>, items |-> <<>>], depth) :
                  table \in ReadBytes(buf, n.at, IF indexed THEN n.v * IndexEntryBytes ELSE 0)} :
           n \in {m \in BoundedCount(buf, at, IF indexed THEN 2 + IndexEntryBytes ELSE 2) :
                    TableAllowed(indexed, m.v)}}

\* The depth is checked before the recursive call is made.
ReadAt(buf, at, depth) ==
    IF depth > MaxValueDepth THEN {}
    ELSE UNION {
        CASE t.v = Tag.null -> {[v |-> NullV, at |-> t.at]}
          [] t.v \in {Tag.false, Tag.true} ->
                {[v |-> BoolV(IF t.v = Tag.true THEN 1 ELSE 0), at |-> t.at]}
          [] t.v = Tag.i64 -> {[v |-> I64V(r.v), at |-> r.at] : r \in ReadVarintI64(buf, t.at)}
          [] t.v = Tag.f64 -> {[v |-> F64V(r.v), at |-> r.at] : r \in ReadFloat(buf, t.at)}
          [] t.v = Tag.str -> {[v |-> StrV(r.v), at |-> r.at] : r \in ReadString(buf, t.at)}
          [] t.v = Tag.bytes -> {[v |-> BytesV(r.v), at |-> r.at] : r \in ReadBlob(buf, t.at)}
          [] t.v = Tag.array ->
                {[v |-> ArrayV(r.v), at |-> r.at] :
                    r \in UNION {ReadItems(buf, n.at, n.v, depth + 1) :
                                    n \in BoundedCount(buf, t.at, 1)}}
          [] t.v \in {Tag.map, Tag.indexed} -> ReadMap(buf, t.at, t.v = Tag.indexed, depth + 1)
          [] OTHER -> {}
        : t \in ReadU8(buf, at)}

Decode(buf) == {r.v : r \in ExpectEnd(buf, ReadAt(buf, 1, 1))}

(***************************************************************************)
(* Skipping: the position after one value, without building it.  Strings,  *)
(* floats, key order and the table are not examined here.                  *)
(***************************************************************************)
RECURSIVE SkipAt(_, _, _), SkipMany(_, _, _, _, _)
SkipMany(buf, at, n, keyed, depth) ==
    IF n = 0 THEN {at}
    ELSE UNION {UNION {SkipMany(buf, next, n - 1, keyed, depth) :
                        next \in SkipAt(buf, start, depth)} :
                start \in IF keyed THEN {k.at : k \in ReadBlob(buf, at)} ELSE {at}}

SkipAt(buf, at, depth) ==
    IF depth > MaxValueDepth THEN {}
    ELSE UNION {
        CASE t.v \in {Tag.null, Tag.false, Tag.true} -> {t.at}
          [] t.v = Tag.i64 -> {r.at : r \in ReadVarint(buf, t.at)}
          [] t.v = Tag.f64 -> {r.at : r \in ReadBytes(buf, t.at, FloatBytes)}
          [] t.v \in {Tag.str, Tag.bytes} -> {r.at : r \in ReadBlob(buf, t.at)}
          [] t.v = Tag.array ->
                UNION {SkipMany(buf, n.at, n.v, FALSE, depth + 1) : n \in BoundedCount(buf, t.at, 1)}
          [] t.v = Tag.map ->
                UNION {SkipMany(buf, n.at, n.v, TRUE, depth + 1) : n \in BoundedCount(buf, t.at, 2)}
          [] t.v = Tag.indexed ->
                UNION {UNION {SkipMany(buf, table.at, n.v, TRUE, depth + 1) :
                              table \in ReadBytes(buf, n.at, n.v * IndexEntryBytes)} :
                       n \in BoundedCount(buf, t.at, 2 + IndexEntryBytes)}
          [] OTHER -> {}
        : t \in ReadU8(buf, at)}

(***************************************************************************)
(* Lookup.  A path is its segments; the empty path is one empty segment.   *)
(* The answer is {value}, or {} where the path does not resolve; an error  *)
(* is {} too, as Fields::resolve makes it.                                 *)
(***************************************************************************)
\* The walk of a plain map for wanted: past smaller keys, until it is found or overtaken.
RECURSIVE WalkKeys(_, _, _, _)
WalkKeys(buf, at, n, wanted) ==
    IF n = 0 THEN {}
    ELSE UNION {
        IF key.v = wanted THEN {key.at}
        ELSE IF KeyLess(wanted, key.v) THEN {}
        ELSE UNION {WalkKeys(buf, next, n - 1, wanted) : next \in SkipAt(buf, key.at, 1)}
        : key \in ReadBlob(buf, at)}

\* The binary search of an indexed map's table, between the entries lo and hi - 1.
RECURSIVE ProbeTable(_, _, _, _, _, _)
ProbeTable(buf, base, table, lo, hi, wanted) ==
    LET mid == lo + ((hi - lo) \div 2)
        entry == base + TableOffset(table, mid)
    IN  IF lo >= hi \/ entry > Len(buf) + 1 THEN {}
        ELSE UNION {
            IF key.v = wanted THEN {key.at}
            ELSE IF KeyLess(key.v, wanted) THEN ProbeTable(buf, base, table, mid + 1, hi, wanted)
            ELSE ProbeTable(buf, base, table, lo, mid, wanted)
            : key \in ReadBlob(buf, entry)}

\* Seeded fault: the search starts below the last entry.
SearchTableShort(buf, base, table, n, wanted) == ProbeTable(buf, base, table, 1, n, wanted)

SearchTable(buf, base, table, n, wanted) == ProbeTable(buf, base, table, 1, n + 1, wanted)

RECURSIVE Descend(_, _, _)
Descend(buf, at, path) ==
    UNION {
        LET found ==
                IF t.v = Tag.indexed
                THEN UNION {UNION {SearchTable(buf, table.at, table.v, n.v, Head(path)) :
                                   table \in ReadBytes(buf, n.at, n.v * IndexEntryBytes)} :
                            n \in BoundedCount(buf, t.at, 2 + IndexEntryBytes)}
                ELSE UNION {WalkKeys(buf, n.at, n.v, Head(path)) : n \in BoundedCount(buf, t.at, 2)}
        IN  UNION {IF Len(path) = 1 THEN {r.v : r \in ReadAt(buf, value, 1)}
                   ELSE Descend(buf, value, Tail(path)) : value \in found}
        : t \in {r \in ReadU8(buf, at) : r.v \in {Tag.map, Tag.indexed}}}

EmptyPath == << <<>> >>

FindPath(buf, path) == IF buf = <<>> \/ path = EmptyPath THEN {} ELSE Descend(buf, 1, path)

RECURSIVE GetPath(_, _)
GetPath(v, path) ==
    UNION {IF Len(path) = 1 THEN {v.items[i]} ELSE GetPath(v.items[i], Tail(path)) :
            i \in {j \in DOMAIN v.keys : v.keys[j] = Head(path)}}
=============================================================================
