# isha-vector-db: TLA+ models and proofs

isha-vector-db is an embedded vector database: a Rust core without I/O of its own, a storage trait
with OS, memory and web backends, two indexes, three native surfaces (C ABI, JNI, Node) and SDKs on
top of them. Acknowledged writes survive, a kill at any instant leaves a database that opens, a
search answers from the documents there are, and every SDK means the same by a query: these promises
depend on the order of storage calls, on what an interrupted one leaves, on threads that meet in
shared state, and on several hand-written versions of one rule. That is what these modules model.

## The system

| Part | State | Operations | Works with |
|---|---|---|---|
| Manifest store (`core/persistence/manifest.rs`, `format/manifest.rs`) | slot files MANIFEST-A and -B, the current manifest and its slot | load, create, commit | everything that changes the root: flush, compact, create, drop |
| Write-ahead log (`core/persistence/wal.rs`, `recovery.rs`, `format/wal.rs`) | log file; next sequence, next transaction, expected length | append, append_group, sync, scan, replay, truncate_tail | collection writes, flush, open |
| Collection (`core/api/collection.rs`, `write/memtable.rs`, `persistence/segment.rs`) | memtable, opened segments, next segment id; segment files and bitmaps | insert, upsert, delete, write_batch, get, count, flush, compact, verify, open | log, manifest through `commit_collection` |
| Database (`core/api/database.rs`) | registry of open collections, manifest mutex, lock file, closed flag | open, create, drop, flush, close, verify | collections, manifest, directory tree |
| Search path, flat index (`search/`, `index/mod.rs`, `index-flat`) | top-k heap, budget shared by callers | search, exact scan, cancel | collection state under its read lock |
| HNSW index (`index-hnsw`) | one graph behind a lock, shared by all collections; snapshot files | prepare, search | collection rows |
| Filters, metadata, documents, validation | none | evaluation, limits | search, writes |
| Format (`format/`) | none | encoders, decoders, lazy lookup, checksums | every file |
| Storage backends (`storage-os`, `-memory`, `-web`, `sdk/web/src/adapters`) | files, handles; OPFS slots; IndexedDB cache, pending sets, timer | the storage trait | everything persistent |
| C ABI, JNI, Node (`ffi`, `jni`, `node`) | boxes owned by the caller | one function per operation, filter and metadata builders | database and collection API |
| SDKs (`sdk/`) | wrappers with closed flags, handle tables | methods, filter compilers | a surface |
| Command line, benchmarks, test kit | none | front ends | the same API |

What makes each part correct:

- manifest store: the two slots act as one record that changes atomically and never goes back;
- log: what was acknowledged is replayed, in order; a batch is replayed whole or not at all;
- collection: the files at any instant reconstruct exactly the writes made; reads, `count` and
  `verify` agree with them; files in force are neither removed nor changed;
- database: acknowledged writes of every collection survive what other threads do to the shared
  manifest, and the database can be opened again after any step;
- search: an answer is the best of the documents that match, wherever their rows are; a budget holds
  for all who share it;
- HNSW index: a search never answers from a graph that stands for other rows;
- format: a decoder refuses or answers rightly, and all ways to read one field agree;
- web storage: the engine sees what the in-memory backend would show it, and what is stored is one
  moment of it;
- surfaces and SDKs: no order of calls misuses native memory, a close leaves nothing behind, a query
  means one thing everywhere.

`PROJECT.json` lists the hazards behind these with the line where each bites and the properties that
watch it.

## Modules

| Module | Models |
|---|---|
| `AtomicRoot` | abstract: one root record, changed atomically by attempts |
| `ManifestStore` | the two-slot protocol |
| `Wal` | one log file and its writer, replay and repair |
| `DocumentMap` | abstract: one map of documents, changed by atomic writes |
| `Collection` | one collection over log, segments, bitmaps and manifest entry |
| `Database` | threads creating, dropping, writing and flushing several collections |
| `Cursor`, `ValueCodec`, `SegmentFormat` | operators: readers and writers, the value encoding, the files |
| `StoredBytes` | files at rest and what storage may do to them |
| `Filter`, `Documents` | operators: filter evaluation; ids, vectors, metadata and their checks |
| `Memtable` | operators: the memtable, log records and their replay |
| `Search` | searches on several threads between writes, flushes and reopens |
| `HnswIndex` | the shared graph and its snapshots |
| `MemoryStorage`, `OpfsPool`, `IndexedDbCache` | operators: the reference backend and the two web adapters |
| `WebStorage` | the web backend over either adapter, beside the reference |
| `Engine` | operators: the outcome of every public operation of the core |
| `Surfaces`, `QueryFilter` | operators: the functions of the three surfaces; filter and metadata compilers and builders |
| `Bindings` | applications that use wrappers of the six SDKs |
| `MC*` | the same modules with symmetry sets and input sets for TLC |
| `ManifestProofs`, `WalProofs`, `DatabaseProofs`, `CollectionProofs`, `SearchProofs`, `WebStorageProofs`, `HnswIndexProofs`, `BindingsProofs` | theorems about the module named, with their proofs |

`StoredBytes` stands on the codec modules. `Search` stands on `Memtable` and takes ids, metadata and
filters as constant operators; `MCSearch` gives them the definitions of `Documents` and `Filter`, and
those stand on the codec modules. `WebStorage` composes the three storage modules; `Bindings` composes
`Engine` and `Surfaces` and takes the compilers as constant operators; `MCBindings` gives them the
definitions of `QueryFilter`, which compiles to the trees of `Filter`.

Definitions called "Seeded fault" are single plausible mistakes in the code. None is used by a
specification. Each is put in place of the definition that follows it to see that a property fails.

### ManifestStore

`store` is the `ManifestStore` struct. `live` is what a reader of each slot file sees, reduced to
`SlotStatus`; `disk` is the set of contents a power loss may leave: a write adds to it, a sync
collapses it. `pc` steps through `write`: truncate, write, sync. `Create` is `ManifestStore::create`
under the emptiness test of `Database::open`, `Load` is `load`, `BeginCommit` is `commit`. `faults` is
the set of failures of a behaviour, one of `FaultSets`. `IoError` returns an error from any call of
`write`, leaving the in-memory store unchanged as the code does; `Crash` ends the process;
`PowerLoss` picks one of the possible contents for each file.

### Wal

The file is a sequence of frames, whole or cut; a frame carries its write call, sequence, transaction
and whether it is a commit record. `Write` is `WalWriter::write` when the append lands where
expected, `AppendMisplaced` when it does not. A failing or killed append leaves any prefix of the
buffer. `Scan` and `Committed` are `wal::scan` and `WalScan::committed`; `Reopen` is the part of
`CollInner::open` that replays, repairs and reopens. When bytes follow a cut frame the scan takes them
for the rest of it, and reports corruption or a torn tail, depending on lengths: `Tails` is the set of
both. A torn tail is repaired (`Reopen`); with a corrupt one the open fails, nothing is replayed, and so
does every later open (`OpenRefused`).

### Collection

A write is a map from document to value, deletion or nothing. The log is the sequence of writes since
the last checkpoint. A segment's `.vec`, `.dir` and `.meta` files are one map from document to value
(a segment never has an id twice); its `.del` bitmap is the set of dead documents, with `torn` while
it is rewritten in place. An operation holds the collection's lock from its first append to the end
of the flush it triggers, so `pc` is a single program counter and failures are what interleaves. Every
storage step of `do_flush` and `compact` is its own action: files, one bitmap at a time (rows killed in
memory, file truncated, file written), opening the new segment, manifest commit, log truncation; for
compaction files, swap, commit, removal.
`maybe_flush` is part of the write. `setting` fixes the durability of a behaviour, its failures, the
steps at which a storage call may return an error (`IoError`) and the ratios compact is called with.
A manifest commit is atomic here, which is what the `ManifestStore` theorems justify. Batches reach
the log whole: `Wal` shows where that fails. After a storage error the code leaves files behind and
may rewrite a committed segment, so the properties of counts, orphans and files in force are stated
for sound storage (`StorageSound`); those of contents are not.

`DocumentMap`, the abstract specification, has what the callers have written beside what the
collection holds. Each of its steps is one write of theirs and changes both in the same way, so a
flush, compaction or recovery that loses, revives or half applies one document is no step of it.

### Database

Each collection is the set of writes in its log, memtable and segments. `create_collection` is
catalog, manifest commit, open and register; `drop_collection` is manifest snapshot, commit,
unregister, directory removal; each is an action. `commit_collection` reads and writes the manifest
under one mutex and is one action; drop takes that mutex twice and is two, and may overlap any call on
another collection. Ghosts number the creations of a name, so that writes to an earlier collection of
the same name can be told apart. `taken` is a ghost too: the names whose entry a drop of another
collection put back to what its snapshot had (`TakenBack`), until they are dropped or created again.
That drop is a defect (`database_drop_race`), and what is promised is promised of the other names.

### Cursor, ValueCodec, SegmentFormat, StoredBytes

A byte string is a sequence of integers below `2^ByteBits`. A read is the set of its outcomes, `{}`
for any `FormatError`: which error is left out, that there is one is kept. Widths are constants, so
that overflow, the table threshold and the depth limit are met by short strings. `SegmentFormat` has
the header, the checksummed block, the catalog and the four files of a segment with the checks of
`SegmentData::open` and `verify_checksums`. `StoredBytes` writes a value, a catalog and a segment;
rows are killed by rewriting the bitmap, and a byte changes, an end is lost or a tail is left.

### Filter, Documents, Memtable, Search

`MatchesFields` is `matches_fields` over decoded metadata (buffered rows) or encoded bytes (segment
rows, through `FindPath`). `Documents` has the checks every write makes and what ids and metadata are
in bytes, `Memtable` the memtable and the log records with what replay makes of them. In `Search` a
search holds the read lock from `Begin` to `Return`, one `Visit` per row; the budget is charged every
`BudgetStride` rows and at the end; `Cancel` comes from any thread. Vectors have one component and
scores are exact. What turns ids and metadata into bytes and back, checks a document or evaluates a
filter is a constant operator of `Memtable` or `Search`: the search depends on no more of it than that
what was written is read back (`BytesAssumption`), that a filter finds the same in encoded and in
decoded metadata (`FiltersAssumption`) and that valid ids are ordered (`OrderAssumption`). The run
puts the definitions of `Documents` and `Filter` there and TLC evaluates the assumptions for them.

### HnswIndex

A search checks the graph under its read lock, loads a snapshot, extends the graph or builds one,
stores a snapshot, installs its graph under the write lock and only then searches, each an action, so
searches of other collections or metrics come between. A vector is the number of its write: an answer
from a superseded vector is visible. A graph that passes the checks of `search` finds any set of its
live nodes as large as was asked for; one that does not falls back to the scan. The rows of a
collection are a set, listed in the order of `for_each` (`InRowOrder`). Those checks compare metric,
dimension and number of rows, and collections of one database mostly agree in the first two. The ghost
`of` says whose rows a graph has, and `misled` marks a search that used a graph with rows of another
collection because all three agree (`Mistaken`): its answer is wrong, and is the exception the
properties name.

### WebStorage

The engine's calls go to one adapter and, in the same step, to `ref`, the in-memory backend. On OPFS
an open writes a slot's header and then cuts the slot, a release clears the header and then cuts it,
and a Worker can die in between: `HalfOpened` and `HalfReleased` are the pools it may leave inside an
open and inside the release of any number of slots, `Interrupted` all of them (`OpfsTabDies`).
After a reload the reference takes over what the adapter found. It has an object for every file and
every open handle (`HandlesAssumption`): in the source they are reference-counted and never run out.
On IndexedDB the cache is changed at once and `Flush` drains the pending sets in a transaction;
`TimerFires`, `CallFlush`, `TxCompletes` and `TxAborts` are the callbacks of the event loop, between
which the engine goes on writing. `lostFiles` and `lostBlocks` remember what an abort lost. The timer is
always on: `autoFlushMs = 0`, which leaves draining to the application, is not modelled.

### Engine, Surfaces, QueryFilter, Bindings

`Engine` gives the outcome (error code or answer, and the engine after it) of every operation, with
registry, lock file, read-only and closed instances. `Surfaces` is one operator per native function
over it. `QueryFilter` has the compiler of the React Native SDK to postfix steps, that of the Node
addon to a filter, the trees of the Android and the iOS SDK, the builders of C and JNI they are
replayed on, and the metadata builders; `Means` is the reference: what a query object says of a
document as the application wrote it. In `Bindings` a call reads the box of its wrapper (`Begin`),
enters the native function (`Enter`), takes effect (`Leave`) and, for a search, copies its results
(`CopyResults`); other threads come between, and wrappers are also freed by deinit, finalizers and
teardown. An application is one of `Plans`: an SDK, its threads and wrappers, and the calls it makes.
How an SDK compiles metadata and filters, how the engine evaluates a filter and what a query means are
constant operators of `Engine` and `Bindings`; `CompilersMean` says that they fit together, and TLC
evaluates it in `MCBindings` for every query, tree and document of the applications.
`BindingsAssumption` says what the SDKs pass: strings that are UTF-8, string ids (vdb_bridge.cpp:301,
`__init__.py`:206, vdb.js:214, Database.swift:83), at most one filter. Searches with a filter are made
by applications of one thread, so that an answer can be compared with the documents of one moment.

## Runs

| Run | Bounds | Shows |
|---|---|---|
| `manifest_faults` | 3 roots, sequences to 4; kills and errors, or power losses | commits atomic, no ties, no way back, refinement of `AtomicRoot` |
| `wal_failures` | 4 writes, single or batches of 1 and 2, 2 failures | acknowledged writes replay in full or the open refuses the log, which takes a failed append; sequences ascend, kills leave cut frames last, half a batch needs a reused transaction number |
| `collection_failures` | 2 documents, 2 values, 2 logged writes, 3 segment ids, 2 failures; kills with compactions, or power losses with full durability and failing flushes | reads, recovery, counts, verify, files in force, orphans, immutability, bounded survivors |
| `collection_compact_io` | one value, failing flush and compaction steps, kills | refinement of `DocumentMap`: documents change with the writes asked for and with nothing else |
| `database_threads` | 2 threads, 2 names, 3 writes, 3 creations, 2 crashes; drops beside other calls | durability and opening but for the names in `taken`; no old data without an interrupted drop |
| `hnsw_shared_graph` | 2 collections of one dimension, 2 metrics, 2 documents, 2 threads, 3 writes | answers right while rows are only added, a prepared graph is used, unless another collection's graph passes for it |
| `web_backends` | OPFS: 3 files, 2 slots, 2 deaths; IndexedDB: blocks of 2 bytes, one abort, one waiting flush; 3 bytes | agreement with the in-memory backend, foreign bytes, one moment stored, nothing forgotten, pending work scheduled; liveness: what is written reaches the store |
| `stored_bytes` | 5-bit bytes; 7 values with up to 2 damages, a catalog and a segment of 2 rows with one | canonical decoding, lookup and decode agree, damage contained |
| `search_exact` | 2 searches, 4 writes, 8 requests, 10 inputs of which 6 are refused, stride 2, ceiling 3 or none | exact answers, shared ceiling, cancellation, log rebuilds the memtable |
| `bindings` | 13 applications: two threads on Android, iOS, Python and React Native; every call alone; every query and tree of the sets in `MCBindings` | native memory sound, nothing left behind, queries mean what they say, surfaces agree |
| `collection_torn_bitmap` | kills | violation of `AlwaysOpens` |
| `database_drop_race` | 2 writes, 2 creations, no crash | violation of `ThreadsKeepWrites` |

The bounds are the smallest at which the cases meet. Four sequences let both manifest slots be
overwritten twice, with a failed attempt between. Two documents give overwrites, deletes and batches
that touch an older segment; three segment ids let two flushes be followed by a compaction; two
failures let a crash hit the recovery of an earlier one. Three writes to two collections let a graph
be built, outgrown and extended while another thread holds its rows. Two slots for three files make a
released slot be claimed by another file, and three bytes in blocks of two cross a block boundary. At
five bits a byte, varints take two bytes, maps get a table from three entries on, and every damaging
byte meets a length, a tag, a key or an offset. A stride of two and a ceiling of three put charges on
both sides of the ceiling. Numbers below 32 with three significant bits let an integer and its float
differ (9 and 8), which is what compiling numbers must get right.

Deadlock is not checked: every model has counters that run out, and a closed database may stay
closed. Symmetry is not used where liveness is checked.

**Fairness.** Only `web_backends` assumes any (`FairSpec`): weak fairness of `TimerFires` and of
`TxCompletes`. The browser runs a timer that is due and IndexedDB settles a transaction whatever the
application does. Calls of the engine, calls of `flush()`, aborts and dying tabs are not fair. Under
this, `WritesReachTheStore` says that once the engine stops writing IndexedDB comes to hold the whole
cache without anybody calling `flush()`, up to the first abort; the seeded fault that fails it is a
waiting `flush()` that does not look again at what became pending (indexeddb.js:84 is a loop and a
test after it). The steps of the core are a lock holder's straight line: there is no liveness in them
to state.

### What the violations show

- `collection_torn_bitmap`: the bitmap of a segment in force is truncated and rewritten in place. A
  kill in between leaves a segment that does not open, and the database with it.
- `database_drop_race`: a drop commits a manifest it read before another thread's commit. The other
  collection's entry goes back to the old one while its log has been, or is about to be, truncated, or
  is gone while the caller still has the handle its create returned. The other runs and the proofs do
  not exclude this race; they say what holds of every collection it has not hit.

### Stated, and not among the runs

Each of these is what a comment or a doc says, stated in the module named; TLC refutes it under the
configuration given. The runs check the weaker statement that holds.

| Property | Says | Fails because |
|---|---|---|
| `ReturnedCommitSurvives` (`ManifestStore`, `FaultSets = {{"process","power"}}`) | manifest.rs:7-8, a crash leaves an intact slot | load adopts a slot that was never synced; the next commit overwrites the durable one, and power is lost |
| `AckedReplayed` without its first case (`Wal`) | format wal.rs:276-278, an incomplete frame is expected: recovery truncates the log there and carries on | a failed append leaves a cut frame, a later one adds frames behind it, and the open refuses the log |
| `GroupAtomic` (`Wal`) | collection.rs:252, a batch is all or nothing | transaction numbers restart at 1: a later commit record completes a torn batch |
| `RemovesOnlyUnnamed` (`Collection`, io `{"commit"}` with compactions) | collection.rs:681, files are removed when no longer named | a failed commit leaves its segment under an id that compact reuses and then removes |
| `NoResurrection` (`Database`) | a new collection is empty | a crash inside a drop leaves the old log for it |
| `AnswersCurrent` (`HnswIndex`) | index-hnsw search.rs:49-52, a stale graph gives no wrong results | a replace keeps the row count, so the old vector is scored |
| `CleanMeansStored` (`WebStorage`, IndexedDB) | indexeddb.js:81, flush drains everything pending | keys of an aborted transaction are no longer pending |
| `EmptyPathAgrees` (`StoredBytes`) | format value.rs:447-451, as a full decode and a lookup | the empty path is never the key "" |
| `AlwaysReplays` (`Search`) | collection.rs:234-241, deleting an absent document is a no-op | an id of the other kind is logged, and replay refuses it |
| `ShapeAsAsked` (`Bindings`) | react-native index.js:136-138, and its like in the web and Python SDKs | create answers 4001 for another shape too, and the SDK then opens what is there |

The models reach further cases that no property states; the hazards in `PROJECT.json` note them: a
failed bitmap rewrite that is never repeated, a failed segment open that empties a collection in
memory, batch durability that lets a bitmap reach the disk before its log frame, rows a filter turns
away that are never charged, empty filters that Node accepts and React Native refuses.

## Proofs

Every theorem holds for all values of the constants that satisfy the assumptions of its module and
the hypotheses named here. Each rests on an inductive invariant that TLC checked on the instances of
the runs before it was proved; the proof that a step preserves it has one lemma per action.

| Module | Theorems | Hypotheses |
|---|---|---|
| `ManifestProofs` | `TypeCorrect`, `RootHeld`, `CommitIsAtomic`, `SlotsNeverTie`, `RootOnlyAdvances`, `SlotsImplementRoot` | `PowerAlone` |
| `WalProofs` | `TypeCorrect`, `AcknowledgedWritesReplay`, `SequencesStayAscending`, `KillsNeverCorrupt`, `HalfBatchesNeedReuse` | none |
| `DatabaseProofs` | `TypeCorrect`, `AcknowledgedWritesDurable`, `DatabaseAlwaysOpens`, `OnlyCrashesResurrect` | none |
| `CollectionProofs` | `TypeCorrect`, `FilesReconstructWrites`, `ReadsFindTheLastWrite`, `NamedFilesAreWhole`, `VerifyFindsNothing`, `NothingIsOrphaned`, `CountsAreExact`, `NamedSegmentsAreImmutable`, `FilesImplementDocumentMap`, `PowerTakesBackUnsyncedWrites` | `HandledErrors`; the last two also `NoPowerLoss` and `PowerAfterSync` |
| `SearchProofs` | `AnswersAreExact`, `LogRebuildsMemtable`, `BudgetSharesCeiling`, `CancellationStops` | none |
| `WebStorageProofs` | `StoreHoldsOneMoment`, `NothingElseIsMissing`, `NothingPendingIsStored`, `PendingWorkIsScheduled`, `AdaptersMatchReference`, `ForeignBytesTakeTwoDeaths` | none |
| `HnswIndexProofs` | `SharedGraphAnswersRight`, `PreparedGraphIsUsed` | none |
| `BindingsProofs` | `TypeCorrect`, `SoundMemory`, `CleanAtRest`, `SameSurfaces`, `AnswersMeanQueries` | none; the last `CompilersMean` |

**Manifest.** `PowerAlone`: a behaviour with power losses has no kills and errors. With both,
`ReturnedCommitSurvives` shows the statement false: a root adopted without a sync is not on disk.
`CommitAtomic` alone is not inductive: it says nothing of which slot is in force, so a commit could
overwrite it. `Inv` adds that the slot recorded in the store holds the acknowledged manifest, and
nothing else can be found there after a failure, while what can be found in the other slot never ties
with it and, where it has a higher sequence, is an attempt begun since (`InForce`, `Holds`, `Yields`);
that every readable manifest has been numbered (`Numbered`); that before the first commit returns only
slot A has been written, and with attempts only (`Fresh`); that the manifest being written is the next
in sequence and what its slot reads as at each `pc` (`Writing`); and that a closed store has nothing
unsynced left to lose (`AtRest`).

**Log.** The properties speak of what a scan would find; what steps preserve is where frames lie. `Inv`
says that the frames of each write call are a run of consecutive frames, the beginning of its buffer,
all of it if the call returned Ok, with nothing cut up to its end (`Placed`); that the writer's length
covers whole frames only (`Covered`); and, while no append has failed, that only the last frame may be
cut and sequence numbers ascend below the writer's next one (`CutIsLast`, `Ascending`). The first part
makes an open that goes through replay all that was acknowledged; the last makes kills alone unable to
leave a log that an open refuses.

**Database.** Drops overlap everything but calls on their own collection, and the theorems have no
hypothesis: what a stale snapshot may undo is in `taken`, and each theorem speaks of the names outside
it. `Inv` says what the next open would find of each name (`Stored`), whose
writes those are (`Own`), and what holds of a collection while a thread is at each step of a call on it
(`Stage`) or none is (`Rest`): this is the bookkeeping that lets one thread's step be shown harmless to
another's. For a drop that means: committing its snapshot changes the entries in `TakenBack` and no
other.

**Collection.** `HandledErrors`: storage calls fail only in the steps "files", "supersede" (the opening
of the new segment, after the last bitmap), "compact_files", "compact_commit" and "compact_remove". For
each of the other five ("persist", "rewrite", "commit", "checkpoint", "compact_swap") TLC finds
`RecoveryExact` violated, with kills and one such error: the code does not survive these errors, and the
theorems do not say that it does. "persist" is the opening or truncating of a bitmap whose rows are
already dead in memory: the retry finds nothing to kill, never writes the bitmap, and the rows return
after the next checkpoint and restart. `RecoveryExact` is not inductive, since memory could then write
anything to the files. `Inv` relates the two sides: on disk, that named files are complete, no document
is live in two of them and log and files show what was written (`OnDisk`); in memory, that ids in use
lie below the next one (`Below`), that each opened segment is its files but for the bitmap being
rewritten (`Matching`), that the list is ascending and free of double rows, that list and named files
agree on every document the memtable leaves alone (`Aligned`), that the memtable is the log replayed
(`Buffered`), and what a flush or compaction has achieved by each step (`Flushed`, `Compacted`). Two
layers stand on it: `Tidy` (row counts agree, files have an owner) and `Durable` (all but the write
being synced is on stable storage). `PowerAfterSync` has power losses only with full durability and
without kills: otherwise a flush may rewrite a bitmap for a write whose log frame is not synced, and TLC
finds `PowerLossBounded` violated, with batch durability and also with full durability after a kill
between an append and its sync.

**Search.** The theorems hold for any searchers, requests, documents, stride and ceilings, and for any
operators in place of the codec and the filter that satisfy the assumptions of `Search`; that the real
ones do is model-checked, on the inputs of `search_exact` and, for the codec, in `stored_bytes`.
`CeilingShared` is about answered searches only and is not inductive: `BudgetInv` counts the rows that
every search has paid for so far (considered, less those since its last charge) and says that these
and the answered ones together are no more than `scanned`, and less than a stride is ever unpaid. For
answers, `SearchInv` has three parts, up to the first replay of a deletion by an id of the other kind
(`diverged`). `StoreSound`: documents, memtable and segments have each id live at most once, a document
is shown by exactly one of the rows that are live and not shadowed, and each row shown is that of a
document. `Leads`: there is a trail of memtables, one for each record of the log, each of which the
record turns into the next, from the empty one to the one in memory; `LogRebuilds` says the same of the
recursion of `Replay`, which such a trail unfolds. `SearcherSound`: the heap of a search has the
`top_k` best, by score and row, of the rows it has passed that match. That the order of hits ends by id
while the heap keeps by row, and that the two agree on what may be left out, is the last step
(`Right`). The order is any strict one: that a finite set has a last member and exactly one sorted list
under it (`LastExists`, `OrderedListExists`) is what makes `WorstOf` and `Ranked` defined.

**IndexedDB cache.** The first four theorems of `WebStorageProofs` are about the IndexedDB adapter, for
any files, block size, calls, aborts and tabs that die. What they say of the store is not inductive,
because a transaction takes effect only when it completes, and by then the cache has moved on. `Inv`
adds what the pending sets and a running transaction promise: a key waits to be put only if the cache
has it and to be deleted only if it has not (`WellFormed`), a transaction says of its keys what the
cache says of those that were not touched again (`Carries`), a key that is neither pending, carried nor
lost is stored as the cache has it (`Settled`), and, with no abort so far, completing the transaction
brings the store to the image its drain took. One lemma per call of the adapter shows that whatever the
call changes it also makes pending, with a drain scheduled (`Journaled`). `NothingPendingIsStored` is
`CleanMeansStored` up to the first abort; after one it is false, as the table above says.

**Web backends and their reference.** `AdaptersMatchReference` compares each adapter with the in-memory
backend for any files, directories, slots, block size, calls and deaths. Equal contents do not stay
equal by themselves: a call goes through a handle, to a slot on OPFS, to a path on IndexedDB and to an
object in the reference, and the three must be the same file. `RefInv` says, until a handle is written
through after its file was removed, that no two slots have one path and each header names what the
slot is in memory (`PoolOK`), that no two files share an object (`RefOK`), that an open handle whose
file is there has the object and the slot of that file (`HandlesOK`, `Bound`), that sizes are numbers
and blocks hold bytes of their own file in the cache, in IndexedDB and in the transaction under way
(`IdbOK`), and that contents and directories are the reference's (`Matches`). For IndexedDB the central
lemmas compute what a reader assembles from blocks after a write at the end and after a cut: the bytes
`Overwrite` and `Resize` give, block boundaries included. For OPFS a directory read back from headers
is there with its ancestors (`Upward`), which takes `Ancestors` as the least set closed under `Parent`.
`ForeignBytesTakeTwoDeaths` needs to know how far a death gets (`OwnBytes`): with none, a slot without
a name is empty; a first one may leave bytes in such a slot (cleared, not cut), but every named slot
still has its own; only a second one can name a slot that has not been cut.

**HNSW index.** The index is one per database, and row count, metric and dimension are all that tells
the graph of one collection from that of another. The theorems make no assumption on dimensions: they
except the searches that met a graph with rows of another collection and the same metric, dimension
and count (`misled`), and a prepared graph replaced by one of the same metric and dimension
(`Mistakable`). That answers are right is not inductive, since the graph could be anything that passes
the checks. `Inv` says that until rows move a graph of one collection has the first rows of that
collection, vectors included (`FirstRows`, in `GraphInv`); that a graph made outside the lock is that of
the rows as they still are, because the search holds its collection's read lock (`MadeOf`); that the
graph fits a search that has been alone since it checked or installed it, or is `Foreign`: of other
collections, in its metric and dimension (`Fits`); and that a document
is live in one row of the segments and buffered in one of the memtable (`Sound`). The last is kept by
every kind of write and makes the number of hits come out: different nodes are different documents. An
insert adds one row at the end of what `for_each` presents (`InsertAppends`), so a graph that has the
first rows keeps them.

**Bindings.** For any SDKs, threads, wrappers, calls and compilers. `MisuseNeedsOverlap` is not
inductive: a handle could point at any box. `Inv` says, as long as nothing was misused, that a live
wrapper has a live box, and a box whose wrapper is closed is live only while the close that took it has
not freed it (`DbBox`, `ColBox`); that an instance is open exactly until that close returns; that a
wrapper that is live or in use names a collection that is registered (`Named`); that a drop and the
making of a wrapper do not meet another call on the same (`DropAlone`, `MakesAlone`); and, unless the
application was careless, that a call has its wrapper as it found it and a close has it alone
(`UsedOpen`, `ClosesAlone`): this is what makes each free the only one. `SurfacesAgree` compares three
sets of functions; each is shown equal to one meaning of a call (`SurfaceCall`), the outcome of the
engine, except that a discriminant out of range is refused. `AnswersMeanQueries` carries with `Inv` that
an answer just computed is what the compiled filter selects of the documents held (`Answered`), and that
every document held was compiled from one that some call wrote (`IsDoc`); `CompilersMean` turns the one
into the other. Without that hypothesis it cannot hold for any compilers, and the compilers themselves
are recursive.

The attempt to prove reads correct found that `Get` and `Contents` were written with overlapping
CASE arms, of which TLC takes the first and TLA+ leaves the choice open; they now share `NewestRow`.
Modules that only TLC uses still have such arms; they are meant, and evaluated, in order. The attempt
to prove the web adapters found `UNION` and `SUBSET` applied next to `\cup` and `\` without
parentheses, which the parser of the checker and that of the prover group differently; every such
place now has them.

**Model-checked only.** Liveness (`WritesReachTheStore`): fairness and ENABLED are beyond the proof
system used. `StoredBytes` and its three properties, with the modules under it: what they say is about
recursive decoders and encoders, and induction over data is out of its reach. For the same reason, that
the codec and the filter satisfy what `Search` assumes of them, and the compilers what `CompilersMean`
says, is checked on bounded inputs, not proved. Everything else the runs check is a theorem, except the
two statements they refute.

## Not modelled

- Floating point: rounding of scores, the SIMD kernels, the choice of edges and the traversal of the
  HNSW graph. They are one exact score and one arbitrary set of nodes here.
- The OS backend beyond what interrupted calls leave; directory entries are as durable as their files.
- Inside the engine: two creates of one name at the same instant, a call that overlaps close, and the
  directory tree under a handle kept after a drop. `Engine` has close, locks, read-only instances and
  stale handles, one operation at a time.
- Error messages, plain getters, argument marshalling beyond filters and metadata.
- The command line, benchmarks and test kit: front ends and test support over the same API.

## Plan

1. Done: manifest store, log, collection, database, codecs, search, filters, HNSW index, web storage,
   surfaces and SDKs; proofs of the first four, of search, the web adapters, the HNSW index and the SDKs.
2. Model: overlapping creates and close inside `Database`, and its directory tree for stale handles.
