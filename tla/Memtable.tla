------------------------------ MODULE Memtable -------------------------------
(***************************************************************************)
(* The memtable that buffers accepted documents, and the log records it is *)
(* rebuilt from.  How ids and metadata are turned into bytes and back is   *)
(* for Documents and ValueCodec to say; here it is a parameter.            *)
(***************************************************************************)
EXTENDS Integers, Sequences, SequencesExt

CONSTANTS
    IdBytes(_),     \* DocId::to_bytes
    IdsOf(_),       \* DocId::from_bytes: {id}, or {} for an error
    Encoded(_),     \* Metadata::encode: {bytes}, or {} for an error
    Decoded(_)      \* Metadata::decode: {map}, or {} for an error

(***************************************************************************)
(* Memtable: the live rows in insertion order and the ids deleted here.    *)
(***************************************************************************)
EmptyMemtable == [rows |-> <<>>, deleted |-> {}]

\* The rows without that of a document.
Without(rows, id) ==
    LET at == {i \in DOMAIN rows : rows[i].id = id}
    IN  IF at = {} THEN rows ELSE RemoveAt(rows, CHOOSE i \in at : TRUE)

Put(mem, doc) ==
    [rows |-> Append(Without(mem.rows, doc.id), doc), deleted |-> mem.deleted \ {doc.id}]

Delete(mem, id) == [rows |-> Without(mem.rows, id), deleted |-> mem.deleted \cup {id}]

\* Memtable::get is Some: the memtable has the last word on id.
Holds(mem, id) == id \in mem.deleted \/ \E i \in DOMAIN mem.rows : mem.rows[i].id = id

(***************************************************************************)
(* Log records and their replay.                                           *)
(***************************************************************************)
\* Metadata as it is stored: no bytes at all for none.
StoredMeta(meta) == IF meta = {} THEN {<<>>} ELSE UNION {Encoded(m) : m \in meta}

PutRecord(doc, bytes) ==
    [op |-> "put", id |-> IdBytes(doc.id), vector |-> doc.vector, meta |-> bytes,
     content |-> doc.content]
DeleteRecord(id) ==
    [op |-> "delete", id |-> IdBytes(id), vector |-> <<>>, meta |-> <<>>, content |-> {}]

\* The metadata of a record: {} for an error, {{}} for none.
LoadedMeta(bytes) == IF bytes = <<>> THEN {{}} ELSE {{m} : m \in Decoded(bytes)}

\* replay_into: the memtable one more record gives, {} once one cannot be read.
ReplayRecord(mems, record) ==
    IF record.op = "delete" THEN {Delete(mem, id) : mem \in mems, id \in IdsOf(record.id)}
    ELSE {Put(mem, [id |-> id, vector |-> record.vector, meta |-> meta,
                    content |-> record.content]) :
            mem \in mems, id \in IdsOf(record.id), meta \in LoadedMeta(record.meta)}

Replay(log) ==
    LET after[n \in 0..Len(log)] ==
            IF n = 0 THEN {EmptyMemtable} ELSE ReplayRecord(after[n - 1], log[n])
    IN  after[Len(log)]
=============================================================================
