--------------------------- MODULE SegmentFormat ----------------------------
(***************************************************************************)
(* The files of a collection as bytes: the header and checksummed block    *)
(* every file is made of, the catalog, and the four files of a segment,    *)
(* with what opening a segment checks and what verify checks.              *)
(***************************************************************************)
EXTENDS ValueCodec, FiniteSets

CONSTANTS
    WordBytes,      \* bytes of a fixed-width integer field (2, 4 and 8)
    DataOffset,     \* VECTOR_DATA_OFFSET (64)
    BitsPerWord,    \* rows per word of the live bitmap (64)
    MaxDimension    \* MAX_DIMENSION (65,536)

ASSUME LayoutAssumption ==
    /\ WordBytes \in Nat \ {0}
    /\ DataOffset \in Nat
    /\ BitsPerWord \in 1..(ByteBits * WordBytes)
    /\ MaxDimension \in Nat \ {0}

(***************************************************************************)
(* Header and block.                                                       *)
(***************************************************************************)
MagicPrefix == 22
FormatVersion == 2
MinReadableVersion == 1
KnownFlags == 0..3

\* The kinds of file used here, by tag.
FileKind == [catalog |-> 2, vectors |-> 4, directory |-> 5, metadata |-> 6, deleted |-> 7]
FileKindTags == 1..8

\* What the header checksum covers: magic, version, flags, header length, payload length.
CoveredLen == 2 + 4 * WordBytes
ReservedLen == 1
HeaderLen == CoveredLen + CrcBytes + ReservedLen

EncodeHeader(kind, payloadLen) ==
    LET covered == <<MagicPrefix, kind>> \o LittleEndian(FormatVersion, WordBytes)
                   \o LittleEndian(0, WordBytes) \o LittleEndian(HeaderLen, WordBytes)
                   \o LittleEndian(payloadLen, WordBytes)
    IN  covered \o LittleEndian(Crc32c(covered), CrcBytes) \o Zeros(ReservedLen)

HeaderIntact(buf) ==
    \A c \in ReadWord(buf, CoveredLen + 1, CrcBytes) : c.v = Crc32c(SubSeq(buf, 1, CoveredLen))

\* {[header_len, payload_len]}, or {} when magic, checksum, version, flags, length or
\* reserved space is refused.
DecodeHeader(buf, kind) ==
    IF Len(buf) < HeaderLen THEN {}
    ELSE LET Field(i) == FromLittleEndian(SubSeq(buf, 3 + i * WordBytes, 2 + (i + 1) * WordBytes))
         IN  IF /\ buf[1] = MagicPrefix
                /\ buf[2] \in FileKindTags
                /\ HeaderIntact(buf)
                /\ Field(0) \in MinReadableVersion..FormatVersion
                /\ Field(1) \in KnownFlags
                /\ Field(2) >= HeaderLen
                /\ ReadReserved(buf, CoveredLen + CrcBytes + 1, ReservedLen) # {}
                /\ buf[2] = kind
             THEN {[header_len |-> Field(2), payload_len |-> Field(3)]}
             ELSE {}

EncodeBlock(kind, payload) ==
    EncodeHeader(kind, Len(payload)) \o payload \o LittleEndian(Crc32c(payload), CrcBytes)

\* The payload and its trailer, bounds checked.  Bytes past the trailer are not looked at.
Locate(buf, kind) ==
    {h \in DecodeHeader(buf, kind) : Len(buf) >= h.header_len + h.payload_len + CrcBytes}

PayloadAt(buf, h) == SubSeq(buf, h.header_len + 1, h.header_len + h.payload_len)

OpenBlock(buf, kind) == {PayloadAt(buf, h) : h \in Locate(buf, kind)}

CheckPayload(buf, h) ==
    \A c \in ReadWord(buf, h.header_len + h.payload_len + 1, CrcBytes) :
        c.v = Crc32c(PayloadAt(buf, h))

\* Seeded fault: decoding a block skips the payload checksum, as opening one does.
DecodeBlockUnchecked(buf, kind) == OpenBlock(buf, kind)

DecodeBlock(buf, kind) ==
    {PayloadAt(buf, h) : h \in {l \in Locate(buf, kind) : CheckPayload(buf, l)}}

VerifyBlock(buf, kind) == \E h \in Locate(buf, kind) : CheckPayload(buf, h)

(***************************************************************************)
(* Catalog.  The metric and the id kind are codes; an absent length is 0.  *)
(***************************************************************************)
Metrics == 1..3
IdStr == 1
IdU64 == 2
DTypeF32 == 1
IndexFlat == 1

ValidCatalog(c) ==
    /\ c.dimension \in 1..MaxDimension
    /\ c.name # <<>>
    /\ c.id_kind = IdStr => c.max_len > 0

EncodeCatalog(c) ==
    {EncodeBlock(FileKind.catalog,
        PutBlob(x.name) \o LittleEndian(x.dimension, WordBytes) \o <<x.metric, DTypeF32, x.id_kind>>
        \o LittleEndian(IF x.id_kind = IdStr THEN x.max_len ELSE 0, WordBytes)
        \o <<IndexFlat>> \o PutBlob(<<>>) \o LittleEndian(x.created_at_ms, WordBytes)
        \o Zeros(ReservedLen))
     : x \in {y \in {c} : ValidCatalog(y)}}

\* The fixed-width middle of a catalog, from its dimension to its index code.
CatalogFixed(buf, at) ==
    {[v |-> [dimension |-> FromLittleEndian(SubSeq(r.v, 1, WordBytes)),
             metric |-> r.v[WordBytes + 1], dtype |-> r.v[WordBytes + 2],
             id_kind |-> r.v[WordBytes + 3],
             max_len |-> FromLittleEndian(SubSeq(r.v, WordBytes + 4, 2 * WordBytes + 3)),
             index |-> r.v[2 * WordBytes + 4]],
      at |-> r.at] : r \in ReadBytes(buf, at, 2 * WordBytes + 4)}

DecodeCatalog(file) ==
    {c \in UNION {UNION {UNION {UNION {UNION {
        {[name |-> name.v, dimension |-> fixed.v.dimension, metric |-> fixed.v.metric,
          id_kind |-> fixed.v.id_kind,
          max_len |-> IF fixed.v.id_kind = IdStr THEN fixed.v.max_len ELSE 0,
          created_at_ms |-> created.v] :
            end \in ExpectEnd(buf, ReadReserved(buf, created.at, ReservedLen))}
        : created \in ReadWord(buf, params.at, WordBytes)}
        : params \in ReadBlob(buf, fixed.at)}
        : fixed \in {f \in CatalogFixed(buf, name.at) :
                        /\ f.v.metric \in Metrics
                        /\ f.v.dtype = DTypeF32
                        /\ f.v.id_kind \in {IdStr, IdU64}
                        /\ f.v.index = IndexFlat}}
        : name \in ReadString(buf, 1)}
        : buf \in DecodeBlock(file, FileKind.catalog)}
     : ValidCatalog(c)}

(***************************************************************************)
(* The vector block: rows of Stride bytes from an aligned offset on.       *)
(***************************************************************************)
EncodeVectors(rows) ==
    LET data == FlattenSeq(rows)
        start == AlignTo(EncodeHeader(FileKind.vectors, DataOffset - HeaderLen + Len(data)), DataOffset)
        body == SubSeq(start, HeaderLen + 1, Len(start)) \o data
    IN  start \o data \o LittleEndian(Crc32c(body), CrcBytes)

\* Opened lazily, when a search or a read needs it; its checksum is left to verify.
OpenVectors(file, stride) ==
    {SubSeq(p, DataOffset - HeaderLen + 1, Len(p)) :
        p \in {q \in OpenBlock(file, FileKind.vectors) :
                /\ Len(q) >= DataOffset - HeaderLen
                /\ (Len(q) - (DataOffset - HeaderLen)) % stride = 0}}

VectorRow(data, stride, r) ==
    IF r * stride <= Len(data) THEN {SubSeq(data, (r - 1) * stride + 1, r * stride)} ELSE {}

(***************************************************************************)
(* The metadata file: records addressed by the directory.                  *)
(***************************************************************************)
\* Flags, the metadata map as a blob when there is one, the content when there is one.
EncodeRecord(row) ==
    {<<Cardinality(row.meta) + 2 * Cardinality(row.content)>>
     \o FlattenSeq(SetToSeq({PutBlob(e) : e \in encoded}))
     \o FlattenSeq(SetToSeq({PutBlob(c) : c \in row.content})) :
        encoded \in {{e} : e \in UNION {Encode(m) : m \in row.meta}}
                    \cup (IF row.meta = {} THEN {{}} ELSE {})}

\* A row with neither occupies no bytes.
RecordBytes(row) == IF row.meta = {} /\ row.content = {} THEN {<<>>} ELSE EncodeRecord(row)

\* The record a directory entry points at; it must lie inside the file.
SliceFor(payload, entry) ==
    IF entry.meta_offset + entry.meta_len <= Len(payload)
    THEN {SubSeq(payload, entry.meta_offset + 1, entry.meta_offset + entry.meta_len)} ELSE {}

\* {[meta, content]}: the metadata decoded in full and the content, each a set of at most one.
DecodeRecord(buf) ==
    UNION {
        UNION {
            {[meta |-> m, content |-> c.v] :
                c \in ExpectEnd(buf, IF flags.v \div 2 = 1
                                     THEN {[v |-> {b.v}, at |-> b.at] : b \in ReadBlob(buf, blob.at)}
                                     ELSE {[v |-> {}, at |-> blob.at]}),
                m \in IF flags.v % 2 = 1 THEN {{v} : v \in Decode(blob.v)} ELSE {{}}}
            : blob \in IF flags.v % 2 = 1 THEN ReadBlob(buf, flags.at)
                       ELSE {[v |-> <<>>, at |-> flags.at]}}
        : flags \in {f \in ReadU8(buf, 1) : f.v \in 0..3}}

EmptyRecord == [meta |-> {}, content |-> {}]

Record(payload, entry) ==
    IF entry.meta_len = 0 THEN {EmptyRecord}
    ELSE UNION {DecodeRecord(s) : s \in SliceFor(payload, entry)}

\* What a filtered scan reads: the encoded map, undecoded.
MetadataBytes(payload, entry) ==
    IF entry.meta_len = 0 THEN {}
    ELSE UNION {UNION {{b.v : b \in ReadBlob(s, f.at)} :
                        f \in {g \in ReadU8(s, 1) : g.v \in {1, 3}}} :
                s \in SliceFor(payload, entry)}

(***************************************************************************)
(* The row directory: fixed entries, then a heap of ids.                   *)
(***************************************************************************)
DirPrefixLen == 2 * WordBytes + ReservedLen
DirEntryLen == 5 * WordBytes + FloatBytes

\* meta_offset, meta_len, inv_norm, id_offset, id_len, flags.
EncodeEntry(e) ==
    LittleEndian(e.meta_offset, WordBytes) \o LittleEndian(e.meta_len, WordBytes)
    \o LittleEndian(e.inv_norm, FloatBytes) \o LittleEndian(e.id_offset, WordBytes)
    \o LittleEndian(e.id_len, WordBytes) \o LittleEndian(0, WordBytes)

EncodeDirectory(entries, heap) ==
    EncodeBlock(FileKind.directory,
        LittleEndian(Len(entries), WordBytes)
        \o LittleEndian(DirPrefixLen + Len(entries) * DirEntryLen, WordBytes)
        \o Zeros(ReservedLen)
        \o FlattenSeq([i \in DOMAIN entries |-> EncodeEntry(entries[i])])
        \o heap)

\* One entry; a norm that is not finite is refused.
EntryAt(buf, at) ==
    LET Field(i) == FromLittleEndian(SubSeq(buf, at + i, at + i + WordBytes - 1))
        norm == ReadFloat(buf, at + 2 * WordBytes)
        after == 2 * WordBytes + FloatBytes
    IN  {[meta_offset |-> Field(0), meta_len |-> Field(WordBytes), inv_norm |-> n.v,
          id_offset |-> Field(after), id_len |-> Field(after + WordBytes)] : n \in norm}

\* {[entries, heap]}: fully validated, so that an id can be read without failing afterwards.
OpenDirectory(file) ==
    UNION {
        LET rows == FromLittleEndian(SubSeq(buf, 1, WordBytes))
            heapOffset == FromLittleEndian(SubSeq(buf, WordBytes + 1, 2 * WordBytes))
            heap == SubSeq(buf, heapOffset + 1, Len(buf))
            At(i) == DirPrefixLen + (i - 1) * DirEntryLen + 1
            InHeap(e) == e.id_offset + e.id_len <= Len(heap)
        IN  IF /\ Len(buf) >= DirPrefixLen
               /\ ReadReserved(buf, 2 * WordBytes + 1, ReservedLen) # {}
               /\ heapOffset = DirPrefixLen + rows * DirEntryLen
               /\ heapOffset <= Len(buf)
               /\ \A i \in 1..rows : \E e \in EntryAt(buf, At(i)) : InHeap(e)
            THEN {[entries |-> [i \in 1..rows |-> CHOOSE e \in EntryAt(buf, At(i)) : TRUE],
                   heap |-> heap]}
            ELSE {}
        : buf \in DecodeBlock(file, FileKind.directory)}

IdOf(dir, r) ==
    SubSeq(dir.heap, dir.entries[r].id_offset + 1,
           dir.entries[r].id_offset + dir.entries[r].id_len)

(***************************************************************************)
(* The live bitmap: BitsPerWord rows to a word, bit r set while row r      *)
(* lives.                                                                  *)
(***************************************************************************)
WordCount(rows) == (rows + BitsPerWord - 1) \div BitsPerWord

\* Word w of the bitmap of the live rows, rows counted from 1.
LiveWord(live, w) ==
    FoldLeft(LAMBDA acc, b : acc + (IF (w - 1) * BitsPerWord + b \in live THEN 2^(b - 1) ELSE 0),
             0, [b \in 1..BitsPerWord |-> b])

EncodeTombstones(rows, generation, live) ==
    EncodeBlock(FileKind.deleted,
        LittleEndian(rows, WordBytes) \o LittleEndian(generation, WordBytes) \o Zeros(ReservedLen)
        \o FlattenSeq([w \in 1..WordCount(rows) |-> LittleEndian(LiveWord(live, w), WordBytes)]))

\* {[rows, generation, live]}; a bit past the last row is refused.
DecodeTombstones(file) ==
    UNION {
        LET rows == FromLittleEndian(SubSeq(buf, 1, WordBytes))
            Word(w) == FromLittleEndian(SubSeq(buf, DirPrefixLen + (w - 1) * WordBytes + 1,
                                               DirPrefixLen + w * WordBytes))
            Bit(r) == (Word((r - 1) \div BitsPerWord + 1) \div 2^((r - 1) % BitsPerWord)) % 2 = 1
        IN  IF /\ Len(buf) >= DirPrefixLen
               /\ ReadReserved(buf, 2 * WordBytes + 1, ReservedLen) # {}
               /\ Len(buf) - DirPrefixLen = WordCount(rows) * WordBytes
               /\ \A r \in (rows + 1)..(WordCount(rows) * BitsPerWord) : ~Bit(r)
            THEN {[rows |-> rows,
                   generation |-> FromLittleEndian(SubSeq(buf, WordBytes + 1, 2 * WordBytes)),
                   live |-> {r \in 1..rows : Bit(r)}]}
            ELSE {}
        : buf \in DecodeBlock(file, FileKind.deleted)}

(***************************************************************************)
(* A segment: written by a flush, opened against the manifest's row count. *)
(***************************************************************************)
SegmentFiles == {"vec", "dir", "meta", "del"}

KindOf == [vec |-> FileKind.vectors, dir |-> FileKind.directory, meta |-> FileKind.metadata,
           del |-> FileKind.deleted]

\* flush_memtable: each row's vector, its record, and its entry pointing at the record.
WriteSegment(rows, live, generation) ==
    LET records == [i \in DOMAIN rows |-> CHOOSE b \in RecordBytes(rows[i]) : TRUE]
        metaOffsets == Offsets(records)
        ids == [i \in DOMAIN rows |-> rows[i].id]
        idOffsets == Offsets(ids)
        entries == [i \in DOMAIN rows |->
                        [meta_offset |-> metaOffsets[i], meta_len |-> Len(records[i]),
                         inv_norm |-> rows[i].inv_norm, id_offset |-> idOffsets[i],
                         id_len |-> Len(ids[i])]]
    IN  [vec |-> EncodeVectors([i \in DOMAIN rows |-> rows[i].vector]),
         dir |-> EncodeDirectory(entries, FlattenSeq(ids)),
         meta |-> EncodeBlock(FileKind.metadata, FlattenSeq(records)),
         del |-> EncodeTombstones(Len(rows), generation, live)]

\* SegmentData::open: the metadata's header, the directory and the bitmap in full, the row
\* counts against the manifest, the ids as strings and no two alike.
OpenSegment(files, manifestRows) ==
    UNION {UNION {
        {[dir |-> dir, meta |-> meta, live |-> del.live, vec |-> files.vec] :
            dir \in {d \in OpenDirectory(files.dir) :
                        /\ Len(d.entries) = manifestRows
                        /\ del.rows = manifestRows
                        /\ \A r \in DOMAIN d.entries : IsUtf8(IdOf(d, r))
                        /\ \A r, s \in DOMAIN d.entries : IdOf(d, r) = IdOf(d, s) => r = s}}
        : del \in DecodeTombstones(files.del)}
        : meta \in OpenBlock(files.meta, FileKind.metadata)}

\* SegmentData::verify_checksums over the four files.
VerifyChecksums(files) == \A f \in SegmentFiles : VerifyBlock(files[f], KindOf[f])

\* SegmentData::document for every live row: {} when one cannot be read.
ReadRow(seg, stride, r) ==
    UNION {UNION {{[id |-> IdOf(seg.dir, r), vector |-> v, inv_norm |-> seg.dir.entries[r].inv_norm,
                    meta |-> rec.meta, content |-> rec.content] :
                   v \in VectorRow(data, stride, r)} :
                  rec \in Record(seg.meta, seg.dir.entries[r])} :
           data \in OpenVectors(seg.vec, stride)}
=============================================================================
