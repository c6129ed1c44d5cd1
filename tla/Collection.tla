------------------------------ MODULE Collection ------------------------------
(***************************************************************************)
(* One collection of the engine (api/collection.rs) with its files: the    *)
(* write-ahead log, the segments, their deletion bitmaps and its entry in  *)
(* the manifest (persistence/segment.rs, recovery.rs).                     *)
(*                                                                         *)
(* A write operation holds the collection's lock from its first append to  *)
(* the end of the flush it may trigger, so operations do not interleave.   *)
(* What interleaves with their steps is failure: the process dies, the     *)
(* machine loses power, or a storage call returns an error, between any    *)
(* two storage calls.                                                      *)
(*                                                                         *)
(* Documents are abstract: a document is its id, its contents one value.   *)
(* The position of a row in a segment is left out; a segment never holds   *)
(* an id twice, so it is a map from ids to values plus the set of ids      *)
(* whose rows its bitmap marks dead.  Two things are taken from other      *)
(* modules: a manifest commit is atomic (ManifestStore.tla), and the       *)
(* frames of one batch reach the log together or not at all (Wal.tla shows *)
(* where that fails).                                                      *)
(***************************************************************************)
EXTENDS Naturals, Sequences, FiniteSets

CONSTANTS
    Docs,          \* document ids
    Vals,          \* document contents
    NoVal,         \* no document, no row, no memtable entry
    Deleted,       \* a memtable tombstone
    Settings,      \* how the collection is used and what may fail, see Setting
    FlushRows,     \* flush_threshold_bytes, in memtable rows
    Batches,       \* the batches write_batch is called with
    MaxLog,        \* bound on the writes the log holds
    MaxId,         \* bound on segment ids and opened segments
    MaxFailures    \* bound on failures and errors

Entry == Vals \cup {NoVal, Deleted}

\* A set of operations as the memtable sees them: what happens to each id.
\* A batch with two operations on one id has the effect of the later one.
Write == [Docs -> Entry]

\* A setting: the durability of the database, the kinds of failure, the steps
\* at which a storage call may return an error, and the min_dead_ratio values,
\* in %, compact is called with.
Setting ==
    [durability : {"full", "batch", "relaxed"},
     failures : SUBSET {"process", "power"},
     io : SUBSET {"files", "supersede", "persist", "rewrite", "commit",
                  "checkpoint", "compact_files", "compact_swap",
                  "compact_commit", "compact_remove"},
     percents : SUBSET {0, 20, 30, 50, 100}]

ASSUME CollectionAssumption ==
    /\ IsFiniteSet(Docs)
    /\ NoVal \notin Vals /\ Deleted \notin Vals /\ NoVal # Deleted
    /\ Settings \subseteq Setting
    /\ FlushRows \in Nat \ {0}
    /\ Batches \subseteq Write
    /\ MaxLog \in Nat /\ MaxId \in Nat /\ MaxFailures \in Nat

VARIABLES
    setting,     \* the setting of this behaviour
    log,         \* wal/000001.wal: the writes it holds, in order
    synced,      \* how many of them are on stable storage
    files,       \* segment id -> its four files
    manifest,    \* the collection's entry: rows per segment id, live_count
    mode,        \* "open" or "down"
    memtable,    \* id -> entry
    rows,        \* rows in the memtable's arena, overwritten ones included
    segments,    \* the opened segments, oldest first
    nextId,      \* next_segment_id
    pc,          \* the step the operation holding the lock is at
    cur,         \* the segment index the supersede loop is at
    chosen,      \* the segment indices compact rewrites
    fails,       \* failures so far
    kv,          \* ghost: the documents, by the writes made so far
    maybe        \* ghost: what kv was at each point since the last sync

disk == <<log, synced, files, manifest>>
memory == <<memtable, rows, segments, nextId, cur, chosen>>
ghosts == <<kv, maybe>>
vars == <<setting, log, synced, files, manifest, mode, memtable, rows, segments, nextId,
          pc, cur, chosen, fails, kv, maybe>>

SegId == 1..MaxId

NoRows == [d \in Docs |-> NoVal]

\* The .vec, .dir and .meta files as one, and the .del bitmap beside them.
\* A file being written is "partial"; torn is a .del cut short by a rewrite.
SegmentFiles ==
    [state : {"none", "partial", "full"}, rows : [Docs -> Vals \cup {NoVal}],
     dead : SUBSET Docs, torn : BOOLEAN]

NoFiles == [state |-> "none", rows |-> NoRows, dead |-> {}, torn |-> FALSE]
PartialFiles == [NoFiles EXCEPT !.state = "partial"]
FullFiles(r) == [state |-> "full", rows |-> r, dead |-> {}, torn |-> FALSE]

Segment == [id : SegId, rows : [Docs -> Vals \cup {NoVal}], dead : SUBSET Docs]

RowDocs(seg) == {d \in Docs : seg.rows[d] # NoVal}
LiveDocs(seg) == RowDocs(seg) \ seg.dead

HighestId(S) == CHOOSE n \in S : \A m \in S : m <= n

\* A finite set of numbers as a list, the smallest first.
InOrder(S) ==
    CHOOSE s \in [1..Cardinality(S) -> S] :
        \A i, j \in 1..Cardinality(S) : i < j => s[i] < s[j]

-------------------------------------------------------------------------------
(* Reading. *)

\* What a write leaves of the entries before it.
Over(w, entries) == [d \in Docs |-> IF w[d] = NoVal THEN entries[d] ELSE w[d]]

\* The documents a write leaves of the documents before it.
Applied(w, docs) ==
    [d \in Docs |-> CASE w[d] = NoVal -> docs[d]
                      [] w[d] = Deleted -> NoVal
                      [] OTHER -> w[d]]

\* The row of d in the newest of the segments R that holds it live.
NewestRow(R, f, d) ==
    LET holding == {i \in R : d \in LiveDocs(f[i])} IN
    IF holding = {} THEN NoVal ELSE f[HighestId(holding)].rows[d]

\* locate followed by the fetch: the memtable first, then the segments.
Get(d) ==
    CASE memtable[d] = Deleted -> NoVal
      [] memtable[d] \in Vals -> memtable[d]
      [] OTHER -> NewestRow(DOMAIN segments, segments, d)

\* replay_into: the memtable after the whole log, whatever the manifest says
\* was already folded into segments.
Replay(l) ==
    [d \in Docs |->
        LET touching == {i \in DOMAIN l : l[i][d] # NoVal} IN
        IF touching = {} THEN NoVal ELSE l[HighestId(touching)][d]]

Puts(w) == Cardinality({d \in Docs : w[d] \in Vals})

\* The rows replay_into appends to the arena.
ReplayedRows(l) == Cardinality({p \in (DOMAIN l) \X Docs : l[p[1]][p[2]] \in Vals})

\* The segments the manifest names.
Referenced == {i \in SegId : manifest.rows[i] > 0}

\* What an open would present, given the log l and the segment files f.
Contents(l, f) ==
    LET replayed == Replay(l)
    IN [d \in Docs |->
          CASE replayed[d] = Deleted -> NoVal
            [] replayed[d] \in Vals -> replayed[d]
            [] OTHER -> NewestRow(Referenced, f, d)]

\* SegmentData::open succeeds for every segment the manifest names.
Openable ==
    \A i \in Referenced :
        /\ files[i].state = "full" /\ ~files[i].torn
        /\ Cardinality(RowDocs(files[i])) = manifest.rows[i]

-------------------------------------------------------------------------------
TypeOK ==
    /\ setting \in Settings
    /\ log \in Seq(Write)
    /\ synced \in 0..Len(log)
    /\ files \in [SegId -> SegmentFiles]
    /\ manifest \in [rows : [SegId -> Nat], live : Nat]
    /\ mode \in {"open", "down"}
    /\ memtable \in Write
    /\ rows \in Nat
    /\ segments \in Seq(Segment)
    /\ nextId \in 1..(MaxId + 1)
    /\ pc \in {"idle", "sync", "files", "supersede", "persist", "rewrite",
               "commit", "checkpoint", "compact_files", "compact_swap",
               "compact_commit", "compact_remove"}
    /\ cur \in Nat
    /\ chosen \in SUBSET Nat
    /\ fails \in 0..MaxFailures
    /\ kv \in [Docs -> Vals \cup {NoVal}]
    /\ maybe \in SUBSET [Docs -> Vals \cup {NoVal}]

\* A collection just created.
Init ==
    /\ setting \in Settings
    /\ log = <<>>
    /\ synced = 0
    /\ files = [i \in SegId |-> NoFiles]
    /\ manifest = [rows |-> [i \in SegId |-> 0], live |-> 0]
    /\ mode = "open"
    /\ memtable = NoRows
    /\ rows = 0
    /\ segments = <<>>
    /\ nextId = 1
    /\ pc = "idle"
    /\ cur = 0
    /\ chosen = {}
    /\ fails = 0
    /\ kv = NoRows
    /\ maybe = {NoRows}

-------------------------------------------------------------------------------
(* Writing. *)

Idle == mode = "open" /\ pc = "idle"

\* The bound on segments, on their ids and on how many are opened.
Room == nextId <= MaxId /\ Len(segments) <= MaxId

\* The ghost is kept only where power may be lost.
Remember(states) == maybe' = IF "power" \in setting.failures THEN states ELSE maybe

\* maybe_flush: where a write that has reached the memtable goes on.
MaybeFlush ==
    IF rows' >= FlushRows
    THEN /\ pc' = "files"
         /\ files' = [files EXCEPT ![nextId] = PartialFiles]
    ELSE /\ pc' = "idle"
         /\ UNCHANGED files

ApplyToMemtable(w) ==
    /\ memtable' = Over(w, memtable)
    /\ rows' = rows + Puts(w)
    /\ MaybeFlush

\* Log first, then apply: the append, and without a sync the rest as well.
LogWrite(w, syncs) ==
    /\ Idle
    /\ Len(log) < MaxLog /\ Room
    /\ log' = Append(log, w)
    /\ kv' = Applied(w, kv)
    /\ Remember(maybe \cup {Applied(w, kv)})
    /\ IF syncs
       THEN /\ pc' = "sync"
            /\ UNCHANGED <<memtable, rows, files>>
       ELSE ApplyToMemtable(w)
    /\ UNCHANGED <<setting, synced, manifest, mode, segments, nextId, cur, chosen, fails>>

Put(d, v) == [NoRows EXCEPT ![d] = v]

\* insert fails with DuplicateId when the id can be located.
Insert(d, v) == Get(d) = NoVal /\ LogWrite(Put(d, v), setting.durability = "full")

Upsert(d, v) == LogWrite(Put(d, v), setting.durability = "full")

\* delete logs and tombstones even an id that does not exist.
Delete(d) == LogWrite(Put(d, Deleted), setting.durability = "full")

WriteBatch(w) == LogWrite(w, setting.durability \in {"full", "batch"})

\* Seeded fault: the sync is skipped.
SyncSkipped ==
    /\ mode = "open" /\ pc = "sync"
    /\ Remember({kv})
    /\ ApplyToMemtable(log[Len(log)])
    /\ UNCHANGED <<setting, log, synced, manifest, mode, segments, nextId, cur, chosen,
                   fails, kv>>

\* The sync of append and append_group, then the memtable.
Sync ==
    /\ mode = "open" /\ pc = "sync"
    /\ synced' = Len(log)
    /\ Remember({kv})
    /\ ApplyToMemtable(log[Len(log)])
    /\ UNCHANGED <<setting, log, manifest, mode, segments, nextId, cur, chosen, fails, kv>>

-------------------------------------------------------------------------------
(* Flushing. *)

\* flush, when the memtable is not empty.
Flush ==
    /\ Idle
    /\ memtable # NoRows
    /\ Room
    /\ pc' = "files"
    /\ files' = [files EXCEPT ![nextId] = PartialFiles]
    /\ UNCHANGED <<setting, log, synced, manifest, mode, memory, fails, ghosts>>

LiveRows == [d \in Docs |-> IF memtable[d] \in Vals THEN memtable[d] ELSE NoVal]

\* flush_memtable has written and synced the four files of the new segment.
FinishFiles ==
    /\ mode = "open" /\ pc = "files"
    /\ files' = [files EXCEPT ![nextId] = FullFiles(LiveRows)]
    /\ pc' = "supersede"
    /\ UNCHANGED <<setting, log, synced, manifest, mode, memory, fails, ghosts>>

\* Seeded fault: only the rows the memtable replaces are killed.
VictimsReplaced(seg) == {d \in LiveDocs(seg) : memtable[d] \in Vals}

\* Seeded fault: only the rows the memtable deletes are killed.
VictimsDeleted(seg) == {d \in LiveDocs(seg) : memtable[d] = Deleted}

\* The live rows of a segment that the memtable replaces or deletes.
Victims(seg) == {d \in LiveDocs(seg) : memtable[d] # NoVal}

\* The supersede loop reaches the next segment that has such rows and kills them
\* in memory; no storage call is made yet.
KillRows ==
    /\ mode = "open" /\ pc = "supersede"
    /\ \E i \in DOMAIN segments :
         /\ Victims(segments[i]) # {}
         /\ \A j \in 1..(i - 1) : Victims(segments[j]) = {}
         /\ segments' = [segments EXCEPT ![i].dead = @ \cup Victims(segments[i])]
         /\ cur' = i
    /\ pc' = "persist"
    /\ UNCHANGED <<setting, disk, mode, memtable, rows, nextId, chosen, fails, ghosts>>

\* persist_tombstones has opened the .del file and truncated it.
TruncateTombstones ==
    /\ mode = "open" /\ pc = "persist"
    /\ files' = [files EXCEPT ![segments[cur].id].torn = TRUE]
    /\ pc' = "rewrite"
    /\ UNCHANGED <<setting, log, synced, manifest, mode, memory, fails, ghosts>>

\* persist_tombstones has written and synced the .del file.
RewriteTombstones ==
    /\ mode = "open" /\ pc = "rewrite"
    /\ files' = [files EXCEPT ![segments[cur].id].torn = FALSE,
                              ![segments[cur].id].dead = segments[cur].dead]
    /\ pc' = "supersede"
    /\ cur' = 0
    /\ UNCHANGED <<setting, log, synced, manifest, mode, memtable, rows, segments, nextId,
                   chosen, fails, ghosts>>

\* Seeded fault: the log is truncated before the commit.
PushAndTruncate ==
    /\ mode = "open" /\ pc = "supersede"
    /\ \A i \in DOMAIN segments : Victims(segments[i]) = {}
    /\ segments' = Append(segments, [id |-> nextId, rows |-> files[nextId].rows,
                                     dead |-> files[nextId].dead])
    /\ log' = <<>>
    /\ synced' = 0
    /\ pc' = "commit"
    /\ UNCHANGED <<setting, files, manifest, mode, memtable, rows, nextId, cur, chosen,
                   fails, ghosts>>

\* Every bitmap is written: the new segment is opened, or removed if the
\* memtable held only tombstones.
PushSegment ==
    /\ mode = "open" /\ pc = "supersede"
    /\ \A i \in DOMAIN segments : Victims(segments[i]) = {}
    /\ IF LiveRows # NoRows
       THEN /\ segments' = Append(segments, [id |-> nextId,
                                             rows |-> files[nextId].rows,
                                             dead |-> files[nextId].dead])
            /\ UNCHANGED files
       ELSE /\ files' = [files EXCEPT ![nextId] = NoFiles]
            /\ UNCHANGED segments
    /\ pc' = "commit"
    /\ UNCHANGED <<setting, log, synced, manifest, mode, memtable, rows, nextId, cur,
                   chosen, fails, ghosts>>

\* Manifest::validate accepts the segment list.
Ascending ==
    \A i, j \in DOMAIN segments : i < j => segments[i].id < segments[j].id

\* The entry commit_collection records for the opened segments.
RowsOf(Part(_)) ==
    Cardinality({p \in (DOMAIN segments) \X Docs : p[2] \in Part(segments[p[1]])})

RowsById(id) ==
    LET at == {i \in DOMAIN segments : segments[i].id = id} IN
    IF at = {} THEN 0 ELSE Cardinality(RowDocs(segments[HighestId(at)]))

EntryOf == [rows |-> [i \in SegId |-> RowsById(i)], live |-> RowsOf(LiveDocs)]

\* commit_collection.
CommitFlush ==
    /\ mode = "open" /\ pc = "commit"
    /\ Ascending
    /\ manifest' = EntryOf
    /\ pc' = "checkpoint"
    /\ UNCHANGED <<setting, log, synced, files, mode, memory, fails, ghosts>>

\* commit_collection, of a flush or a compaction, cannot encode the manifest:
\* the segment list is not in strictly ascending order.
CommitRefused ==
    /\ mode = "open" /\ pc \in {"commit", "compact_commit"}
    /\ ~Ascending
    /\ pc' = "idle"
    /\ chosen' = {}
    /\ UNCHANGED <<setting, disk, mode, memtable, rows, segments, nextId, cur, fails, ghosts>>

\* Seeded fault: the next segment id is not advanced.
CheckpointSameId ==
    /\ mode = "open" /\ pc = "checkpoint"
    /\ log' = <<>>
    /\ synced' = 0
    /\ memtable' = NoRows
    /\ rows' = 0
    /\ Remember({kv})
    /\ pc' = "idle"
    /\ UNCHANGED <<setting, files, manifest, mode, segments, nextId, cur, chosen, fails, kv>>

\* The log is truncated and synced, the memtable cleared, the log reopened.
Checkpoint ==
    /\ mode = "open" /\ pc = "checkpoint"
    /\ log' = <<>>
    /\ synced' = 0
    /\ memtable' = NoRows
    /\ rows' = 0
    /\ nextId' = nextId + 1
    /\ Remember({kv})
    /\ pc' = "idle"
    /\ UNCHANGED <<setting, files, manifest, mode, segments, cur, chosen, fails, kv>>

-------------------------------------------------------------------------------
(* Compacting. *)

\* The segments compact rewrites: those with no rows, and those with at least
\* the given share of dead rows.
Chosen(percent) ==
    {i \in DOMAIN segments :
        100 * Cardinality(RowDocs(segments[i]) \cap segments[i].dead)
            >= percent * Cardinality(RowDocs(segments[i]))}

Compact(percent) ==
    /\ Idle
    /\ Room
    /\ Chosen(percent) # {}
    /\ chosen' = Chosen(percent)
    /\ files' = [files EXCEPT ![nextId] = PartialFiles]
    /\ pc' = "compact_files"
    /\ UNCHANGED <<setting, log, synced, manifest, mode, memtable, rows, segments, nextId,
                   cur, fails, ghosts>>

\* The live rows of the chosen segments.  As long as no document is live twice
\* the choice of segment is immaterial.
Merged == [d \in Docs |-> NewestRow(chosen, segments, d)]

\* compact_segments has written and synced the four files.
FinishCompactFiles ==
    /\ mode = "open" /\ pc = "compact_files"
    /\ files' = [files EXCEPT ![nextId] = FullFiles(Merged)]
    /\ pc' = "compact_swap"
    /\ UNCHANGED <<setting, log, synced, manifest, mode, memory, fails, ghosts>>

\* The segments that stay, in the order they have.
Kept ==
    LET order == InOrder((DOMAIN segments) \ chosen)
    IN [k \in DOMAIN order |-> segments[order[k]]]

\* The segment list is drained and rebuilt from the segments kept and the new
\* one; a new segment without rows is removed instead.
SwapSegments ==
    /\ mode = "open" /\ pc = "compact_swap"
    /\ LET new == [id |-> nextId, rows |-> files[nextId].rows, dead |-> {}]
       IN IF RowDocs(new) # {}
          THEN /\ segments' = Append(Kept, new)
               /\ UNCHANGED files
          ELSE /\ segments' = Kept
               /\ files' = [files EXCEPT ![nextId] = NoFiles]
    /\ chosen' = {segments[i].id : i \in chosen}
    /\ nextId' = nextId + 1
    /\ pc' = "compact_commit"
    /\ UNCHANGED <<setting, log, synced, manifest, mode, memtable, rows, cur, fails, ghosts>>

\* Seeded fault: the old files are removed before the commit.
RemoveThenCommit ==
    /\ mode = "open" /\ pc = "compact_commit"
    /\ files' = [i \in SegId |-> IF i \in chosen THEN NoFiles ELSE files[i]]
    /\ pc' = "compact_remove"
    /\ UNCHANGED <<setting, log, synced, manifest, mode, memory, fails, ghosts>>

CommitCompact ==
    /\ mode = "open" /\ pc = "compact_commit"
    /\ Ascending
    /\ manifest' = EntryOf
    /\ pc' = "compact_remove"
    /\ UNCHANGED <<setting, log, synced, files, mode, memory, fails, ghosts>>

\* The rewritten segments' files are removed (chosen holds their ids by now).
RemoveOld ==
    /\ mode = "open" /\ pc = "compact_remove"
    /\ files' = [i \in SegId |-> IF i \in chosen THEN NoFiles ELSE files[i]]
    /\ chosen' = {}
    /\ pc' = "idle"
    /\ UNCHANGED <<setting, log, synced, manifest, mode, memtable, rows, segments, nextId,
                   cur, fails, ghosts>>

-------------------------------------------------------------------------------
(* Failures and recovery. *)

\* A storage call of the current step returns an error, which the operation
\* passes on.  At "supersede" that is the opening or removing of the new segment,
\* after the last bitmap; at "persist" the rows are dead in memory and the bitmap
\* is as it was; at "rewrite" it has been cut.  A failed commit may have reached
\* the slot file all the same (ManifestStore.tla), a failed checkpoint may have
\* truncated the log, and compact has drained the segment list before it opens
\* the new segment.
IoError ==
    /\ mode = "open" /\ pc \in setting.io /\ fails < MaxFailures
    /\ pc = "supersede" => \A i \in DOMAIN segments : Victims(segments[i]) = {}
    /\ manifest' \in IF pc \in {"commit", "compact_commit"} /\ Ascending
                     THEN {manifest, EntryOf} ELSE {manifest}
    /\ log' \in IF pc = "checkpoint" THEN {log, <<>>} ELSE {log}
    /\ synced' = IF log' = log THEN synced ELSE 0
    /\ segments' = IF pc = "compact_swap" THEN <<>> ELSE segments
    /\ cur' = 0
    /\ chosen' = {}
    /\ pc' = "idle"
    /\ fails' = fails + 1
    /\ UNCHANGED <<setting, files, mode, memtable, rows, nextId, ghosts>>

ForgetMemory ==
    /\ mode' = "down"
    /\ pc' = "idle"
    /\ memtable' = NoRows
    /\ rows' = 0
    /\ segments' = <<>>
    /\ nextId' = 1
    /\ cur' = 0
    /\ chosen' = {}
    /\ fails' = fails + 1

\* The process ends, at any instant.  What it has written stays.
Killed ==
    /\ "process" \in setting.failures /\ fails < MaxFailures
    /\ mode = "open"
    /\ ForgetMemory
    /\ UNCHANGED <<setting, disk, ghosts>>

\* The logs a power loss may leave: the synced writes and some that follow.
Survivors == {SubSeq(log, 1, k) : k \in synced..Len(log)}

\* The segment files a power loss may leave: of a bitmap being rewritten, the
\* old contents, the new, or neither.
SurvivingFiles ==
    IF pc = "rewrite"
    THEN {files, [files EXCEPT ![segments[cur].id].torn = FALSE],
          [files EXCEPT ![segments[cur].id].torn = FALSE,
                        ![segments[cur].id].dead = segments[cur].dead]}
    ELSE {files}

PowerLoss ==
    /\ "power" \in setting.failures /\ fails < MaxFailures
    /\ mode = "open"
    /\ ForgetMemory
    /\ log' \in Survivors
    /\ files' \in SurvivingFiles
    /\ synced' = Len(log')
    /\ kv' = Contents(log', files')
    /\ maybe' = {kv'}
    /\ UNCHANGED <<setting, manifest>>

\* SegmentData::open for every reference, in the manifest's order.
OpenedSegments ==
    LET order == InOrder(Referenced)
    IN [k \in DOMAIN order |->
          [id |-> order[k], rows |-> files[order[k]].rows, dead |-> files[order[k]].dead]]

\* Seeded fault: files nothing refers to are left alone.
OpenKeepsOrphans ==
    /\ mode = "down"
    /\ Openable
    /\ mode' = "open"
    /\ segments' = OpenedSegments
    /\ memtable' = Replay(log)
    /\ rows' = ReplayedRows(log)
    /\ nextId' = IF Referenced = {} THEN 1 ELSE HighestId(Referenced) + 1
    /\ UNCHANGED <<setting, disk, pc, cur, chosen, fails, ghosts>>

\* CollInner::open: orphan segment files are removed, the referenced segments
\* opened, the log replayed over them.  Each step may be repeated by the next
\* open, so a death inside it leaves nothing new.
Open ==
    /\ mode = "down"
    /\ Openable
    /\ mode' = "open"
    /\ files' = [i \in SegId |-> IF i \in Referenced THEN files[i] ELSE NoFiles]
    /\ segments' = OpenedSegments
    /\ memtable' = Replay(log)
    /\ rows' = ReplayedRows(log)
    /\ nextId' = IF Referenced = {} THEN 1 ELSE HighestId(Referenced) + 1
    /\ UNCHANGED <<setting, log, synced, manifest, pc, cur, chosen, fails, ghosts>>

-------------------------------------------------------------------------------
WriteStep ==
    \/ \E d \in Docs, v \in Vals : Insert(d, v) \/ Upsert(d, v)
    \/ \E d \in Docs : Delete(d)
    \/ \E w \in Batches : WriteBatch(w)

FlushStep ==
    \/ Sync
    \/ FinishFiles
    \/ KillRows
    \/ TruncateTombstones
    \/ RewriteTombstones
    \/ PushSegment
    \/ CommitFlush
    \/ CommitRefused
    \/ Checkpoint

CompactStep ==
    \/ FinishCompactFiles
    \/ SwapSegments
    \/ CommitCompact
    \/ RemoveOld

Next ==
    \/ WriteStep
    \/ Flush \/ FlushStep
    \/ (\E p \in setting.percents : Compact(p)) \/ CompactStep
    \/ IoError
    \/ Killed
    \/ PowerLoss
    \/ Open

Spec == Init /\ [][Next]_vars

-------------------------------------------------------------------------------
(* Reports. *)

\* live_count, behind count and stats: rows on disk and in the memtable, less
\* the segment rows the memtable shadows or hides.
HasLive(d) == \E i \in DOMAIN segments : d \in LiveDocs(segments[i])

\* Seeded fault: shadowed rows are subtracted, rows hidden by a tombstone are
\* not.
LiveCountHidden ==
    RowsOf(LiveDocs) + Puts(memtable)
        - Cardinality({d \in Docs : memtable[d] \in Vals /\ HasLive(d)})

LiveCount ==
    RowsOf(LiveDocs) + Puts(memtable)
        - Cardinality({d \in Docs : memtable[d] # NoVal /\ HasLive(d)})

\* The segments verify at level Full finds damaged, and the documents it finds
\* live twice.
DamagedSegments ==
    {i \in DOMAIN segments :
        files[segments[i].id].state # "full" \/ files[segments[i].id].torn}

LiveTwice ==
    {d \in Docs : \E i, j \in DOMAIN segments :
        i # j /\ d \in LiveDocs(segments[i]) \cap LiveDocs(segments[j])}

\* The segments on disk that nothing refers to, of which verify warns.
Unreferenced ==
    {i \in SegId : files[i].state # "none"
                   /\ \A k \in DOMAIN segments : segments[k].id # i}

\* The manifest's row counts are those of the segments.
RowsAgree == manifest.rows = EntryOf.rows

-------------------------------------------------------------------------------
\* No storage call returns an error: one that does leaves files behind, and a
\* commit that failed but reached the slot has its segment rewritten in place.
StorageSound == setting.io = {}

\* Between operations every document reads as the writes made so far left it:
\* memtable shadowing, superseding flushes, compaction and replay included.
ReadsAreCurrent == Idle => \A d \in Docs : Get(d) = kv[d]

\* At every instant, in the middle of a flush or a compaction too, the files
\* alone reconstruct every write made: a kill anywhere loses nothing, applies
\* nothing twice and brings nothing back.  (AlwaysOpens asks whether the files
\* can be opened at all.)
RecoveryExact == Contents(log, files) = kv

\* What a power loss may take back are writes made since the last sync, newest
\* first: no survivor state is one the collection was never in, after failed
\* flushes too.
PowerLossBounded ==
    "power" \in setting.failures =>
        \A l \in Survivors, f \in SurvivingFiles : Contents(l, f) \in maybe

\* count() is the number of documents, whatever share of them is buffered,
\* shadowed or hidden.
CountExact ==
    StorageSound /\ Idle => LiveCount = Cardinality({d \in Docs : kv[d] # NoVal})

\* Between operations verify at its deepest level reports no error: no damaged
\* file, no document live in two segments, no disagreement about row counts.
VerifyClean == StorageSound /\ Idle => DamagedSegments = {} /\ LiveTwice = {} /\ RowsAgree

\* The manifest never names a segment whose files are not complete: they are
\* written before the commit that names them and removed after the one that
\* no longer does.
ReferencedIntact ==
    StorageSound =>
        \A i \in Referenced :
            /\ files[i].state = "full"
            /\ Cardinality(RowDocs(files[i])) = manifest.rows[i]

\* Between operations no segment files are left that nothing refers to, after
\* any number of kills in the middle of flushes and compactions.
NoOrphans == StorageSound /\ Idle => Unreferenced = {}

\* A referenced segment is immutable but for its bitmap, and the bitmap never
\* revives a row.
SegmentsImmutable ==
    [][\A i \in Referenced :
          StorageSound /\ manifest'.rows[i] > 0 =>
              /\ files'[i].rows = files[i].rows
              /\ files[i].dead \subseteq files'[i].dead]_vars

\* The files hold one map of documents, which changes only when a caller writes,
\* by that write and at once: no flush, compaction, failed storage call, kill or
\* open loses a document or brings one back, and no write is applied in part.
Map == INSTANCE DocumentMap WITH written <- kv, docs <- Contents(log, files)

ImplementsDocumentMap == Map!Spec

\* A kill never leaves a collection that refuses to open.
AlwaysOpens == Openable

\* compact removes the files of a segment only when the manifest no longer
\* names it.
RemovesOnlyUnnamed == pc = "compact_remove" => chosen \cap Referenced = {}
===============================================================================
