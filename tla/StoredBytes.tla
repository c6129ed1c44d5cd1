----------------------------- MODULE StoredBytes ----------------------------
(***************************************************************************)
(* Files at rest: a metadata value, a catalog and a segment are written,   *)
(* rows are deleted by rewriting the live bitmap, and storage damages the  *)
(* bytes.  What the decoders then make of them is the subject: a decoder   *)
(* may refuse, and may never answer wrongly.                               *)
(***************************************************************************)
EXTENDS SegmentFormat

CONSTANTS
    Subjects,       \* [value, catalog, rows, exposed]: what is written, and which of the
                    \* files this behaviour rewrites or damages
    Paths,          \* paths looked up in the value
    DamageBytes,    \* bytes storage may put in place of another
    MaxDamage,      \* damaging events in a value; a checksummed file suffers one
    SmallFile       \* longest value that suffers more than one

ASSUME DamageAssumption ==
    /\ DamageBytes \subseteq Byte
    /\ MaxDamage \in Nat
    /\ SmallFile \in Nat

VARIABLES
    subject,        \* what was written
    live,           \* rows of the segment not deleted
    generation,     \* of the live bitmap
    store,          \* the bytes of each file
    damage          \* damaging events so far

vars == <<subject, live, generation, store, damage>>

FileNames == SegmentFiles \cup {"value", "catalog"}

Stride(s) == Len(s.rows[1].vector)

\* A value the encoder refuses is never stored.
Init ==
    /\ subject \in {s \in Subjects : Encode(s.value) # {}}
    /\ live = DOMAIN subject.rows
    /\ generation = 0
    /\ store = [value |-> CHOOSE b \in Encode(subject.value) : TRUE,
                catalog |-> CHOOSE b \in EncodeCatalog(subject.catalog) : TRUE]
               @@ WriteSegment(subject.rows, live, 0)
    /\ damage = 0

\* SegmentData::kill and persist_tombstones: the bitmap is the only file rewritten.
Kill(r) ==
    /\ damage = 0
    /\ "del" \in subject.exposed
    /\ r \in live
    /\ live' = live \ {r}
    /\ generation' = generation + 1
    /\ store' = [store EXCEPT !["del"] =
                    EncodeTombstones(Len(subject.rows), generation + 1, live \ {r})]
    /\ UNCHANGED <<subject, damage>>

Damageable(f) ==
    /\ f \in subject.exposed
    /\ \/ damage = 0
       \/ f = "value" /\ Len(store[f]) <= SmallFile /\ damage < MaxDamage

Damage(f, bytes) ==
    /\ Damageable(f)
    /\ store' = [store EXCEPT ![f] = bytes]
    /\ damage' = damage + 1
    /\ UNCHANGED <<subject, live, generation>>

\* A byte reads back as another.
FlipByte(f) ==
    \E i \in DOMAIN store[f], b \in DamageBytes :
        /\ b # store[f][i]
        /\ Damage(f, [store[f] EXCEPT ![i] = b])

\* A write stopped part way.
CutShort(f) == \E n \in 0..(Len(store[f]) - 1) : Damage(f, SubSeq(store[f], 1, n))

\* A longer file under a shorter one.
LeaveTail(f) == \E b \in DamageBytes : Damage(f, Append(store[f], b))

Next ==
    \/ \E r \in live : Kill(r)
    \/ \E f \in FileNames : FlipByte(f)
    \/ \E f \in FileNames : CutShort(f)
    \/ \E f \in FileNames : LeaveTail(f)

Spec == Init /\ [][Next]_vars

(***************************************************************************)
(* Properties.                                                             *)
(***************************************************************************)
RECURSIVE HasWideMap(_)
HasWideMap(v) ==
    \/ Len(v.keys) >= IndexMinEntries
    \/ \E i \in DOMAIN v.items : HasWideMap(v.items[i])

\* One logical value has one byte representation (value.rs, "Canonical encoding"): whatever
\* bytes a full decode accepts are the bytes the encoder writes for the decoded value, except
\* a wide map without a table, which is version 1; and what was written decodes to itself.
DecodeCanonical ==
    /\ damage = 0 => Decode(store.value) = {subject.value}
    /\ \A v \in Decode(store.value) :
            (HasWideMap(v) => store.value[1] = Tag.indexed) => Encode(v) = {store.value}

\* A filter over a segment row reads the same field as a filter over the decoded row: on
\* every byte string the full decoder accepts, the lazy lookup finds what a lookup in the
\* decoded map finds, and skipping ends where decoding ends (find_path, skip_value).
LookupAgrees ==
    \A v \in Decode(store.value) :
        /\ SkipAt(store.value, 1, 1) = {Len(store.value) + 1}
        /\ v.tag = "map" =>
                \A p \in Paths \ {EmptyPath} : FindPath(store.value, p) = GetPath(v, p)

\* Damage is refused on open or reported by verify, and never answers: a segment that still
\* opens has the ids, norms and live rows that were written, its documents are the ones
\* written unless verify_checksums fails, and a catalog that decodes is the one written.
DamageContained ==
    /\ DecodeCatalog(store.catalog) \subseteq {subject.catalog}
    /\ \A seg \in OpenSegment(store, Len(subject.rows)) :
            /\ seg.live = live
            /\ \A r \in DOMAIN subject.rows :
                /\ IdOf(seg.dir, r) = subject.rows[r].id
                /\ seg.dir.entries[r].inv_norm = subject.rows[r].inv_norm
            /\ \/ \A r \in live :
                    /\ ReadRow(seg, Stride(subject), r) = {subject.rows[r]}
                    /\ MetadataBytes(seg.meta, seg.dir.entries[r])
                            = UNION {Encode(m) : m \in subject.rows[r].meta}
               \/ ~VerifyChecksums(store)
    /\ damage = 0 => VerifyChecksums(store) /\ OpenSegment(store, Len(subject.rows)) # {}

\* The lookup's contract without the exception for the empty path: "the same total behaviour
\* a full decode followed by a lookup would give" (value.rs, find_path).
EmptyPathAgrees ==
    \A v \in Decode(store.value) :
        v.tag = "map" => FindPath(store.value, EmptyPath) = GetPath(v, EmptyPath)
=============================================================================
