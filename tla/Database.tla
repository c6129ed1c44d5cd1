------------------------------- MODULE Database -------------------------------
(***************************************************************************)
(* The database over its collections (api/database.rs): threads create,    *)
(* drop, write and flush collections that share one manifest, one registry *)
(* of open collections and one directory tree.                             *)
(*                                                                         *)
(* What a collection holds is the set of writes made to it, in its log, in *)
(* its memtable or in its segments; Collection.tla has the detail.  Each   *)
(* action is what one thread does under one lock: the manifest mutex, the  *)
(* registry's lock, or one change of the directory tree.  A flush keeps    *)
(* its collection's lock over several of them.                             *)
(*                                                                         *)
(* Callers overlap calls on different collections freely, drops included.  *)
(* They create or drop a collection while no other call on it is running,  *)
(* and use no handle of a dropped one.                                     *)
(*                                                                         *)
(* A drop commits a snapshot of the manifest that may be stale by then, so *)
(* it can take back what another collection's create, flush or drop has    *)
(* committed since: the ghost taken names those collections.               *)
(***************************************************************************)
EXTENDS Naturals, Sequences

CONSTANTS
    Threads,     \* the application's threads
    Names,       \* collection names
    MaxWrites,   \* bound on writes
    MaxCreates,  \* bound on collections ever created
    MaxCrashes   \* bound on crashes

ASSUME DatabaseAssumption ==
    MaxWrites \in Nat /\ MaxCreates \in Nat /\ MaxCrashes \in Nat

VARIABLES
    manifest,    \* name -> is it named, and the writes its segments hold
    dirs,        \* name -> its directory: catalog, log, segment files
    colls,       \* the registry: name -> the open collection
    call,        \* thread -> the call it is in
    running,     \* the process is up
    crashes,     \* crashes so far
    writes,      \* ghost: for each write, the creation it went to
    current,     \* ghost: name -> the creation it stands for, 0 for none
    created,     \* ghost: how many collections have been created
    left,        \* ghost: names whose directory may hold files of a collection
                 \* they no longer stand for
    taken        \* ghost: names whose entry a drop of another collection has
                 \* taken back, until they are dropped or created again

vars == <<manifest, dirs, colls, call, running, crashes, writes, current,
          created, left, taken>>

ghosts == <<writes, current, created, left, taken>>

WriteId == 1..MaxWrites

Entry == [named : BOOLEAN, folded : SUBSET WriteId]
NoEntry == [named |-> FALSE, folded |-> {}]

Directory == [catalog : BOOLEAN, logged : SUBSET WriteId, segments : SUBSET WriteId]
NoDirectory == [catalog |-> FALSE, logged |-> {}, segments |-> {}]

CollInner == [open : BOOLEAN, memtable : SUBSET WriteId, segments : SUBSET WriteId]
NotOpen == [open |-> FALSE, memtable |-> {}, segments |-> {}]

CreateSteps == {"create_catalog", "create_commit", "create_open"}
DropSteps == {"drop_snapshot", "drop_commit", "drop_unregister", "drop_remove"}
FlushSteps == {"flush_commit", "flush_checkpoint"}

Idle == [step |-> "idle"]

Call ==
    {Idle}
    \cup [step : CreateSteps \cup FlushSteps \cup (DropSteps \ {"drop_commit"}),
          name : Names]
    \cup [step : {"drop_commit"}, name : Names, snapshot : [Names -> Entry]]

TypeOK ==
    /\ manifest \in [Names -> Entry]
    /\ dirs \in [Names -> Directory]
    /\ colls \in [Names -> CollInner]
    /\ call \in [Threads -> Call]
    /\ running \in BOOLEAN
    /\ crashes \in 0..MaxCrashes
    /\ writes \in Seq(0..MaxCreates)
    /\ current \in [Names -> 0..MaxCreates]
    /\ created \in 0..MaxCreates
    /\ left \subseteq Names /\ taken \subseteq Names

\* A new database, just opened.
Init ==
    /\ manifest = [n \in Names |-> NoEntry]
    /\ dirs = [n \in Names |-> NoDirectory]
    /\ colls = [n \in Names |-> NotOpen]
    /\ call = [t \in Threads |-> Idle]
    /\ running = TRUE
    /\ crashes = 0
    /\ writes = <<>>
    /\ current = [n \in Names |-> 0]
    /\ created = 0
    /\ left = {} /\ taken = {}

-------------------------------------------------------------------------------
At(t, step) == running /\ call[t].step = step

Goes(t, step) == call' = [call EXCEPT ![t] = [step |-> step, name |-> call[t].name]]

Returns(t) == call' = [call EXCEPT ![t] = Idle]

\* Thread t may begin a call on n: the collection's lock is free and no create
\* or drop of n is running.
MayCall(t, n) ==
    /\ At(t, "idle")
    /\ \A u \in Threads : call[u] # Idle => call[u].name # n

-------------------------------------------------------------------------------
(* create_collection. *)

\* collection_exists looks in the registry only.
CreateCheck(t, n) ==
    /\ MayCall(t, n)
    /\ ~colls[n].open
    /\ created < MaxCreates
    /\ call' = [call EXCEPT ![t] = [step |-> "create_catalog", name |-> n]]
    /\ UNCHANGED <<manifest, dirs, colls, running, crashes, ghosts>>

\* write_catalog, and the log's directory.  Whatever else is there stays.
CreateCatalog(t) ==
    /\ At(t, "create_catalog")
    /\ dirs' = [dirs EXCEPT ![call[t].name].catalog = TRUE]
    /\ Goes(t, "create_commit")
    /\ UNCHANGED <<manifest, colls, running, crashes, ghosts>>

\* commit_collection, with an entry that names no segments.  A directory that
\* was there before keeps its log.
CreateCommit(t) ==
    /\ At(t, "create_commit")
    /\ created < MaxCreates
    /\ manifest' = [manifest EXCEPT ![call[t].name] = [named |-> TRUE, folded |-> {}]]
    /\ created' = created + 1
    /\ current' = [current EXCEPT ![call[t].name] = created + 1]
    /\ left' = left \cup ({call[t].name} \cap taken)
    /\ taken' = taken \ {call[t].name}
    /\ Goes(t, "create_open")
    /\ UNCHANGED <<dirs, colls, running, crashes, writes>>

\* CollInner::open of an entry: segment files it does not name are removed, the
\* log is replayed.
OpenedDirectory(d, entry) == [d EXCEPT !.segments = @ \cap entry.folded]
Opened(d, entry) == [open |-> TRUE, memtable |-> d.logged, segments |-> entry.folded]

\* CollInner::open, and the collection enters the registry.
CreateOpen(t) ==
    /\ At(t, "create_open")
    /\ LET n == call[t].name
           entry == [named |-> TRUE, folded |-> {}]
       IN /\ dirs' = [dirs EXCEPT ![n] = OpenedDirectory(@, entry)]
          /\ colls' = [colls EXCEPT ![n] = Opened(dirs[n], entry)]
    /\ Returns(t)
    /\ UNCHANGED <<manifest, running, crashes, ghosts>>

-------------------------------------------------------------------------------
(* drop_collection. *)

DropCheck(t, n) ==
    /\ MayCall(t, n)
    /\ colls[n].open
    /\ call' = [call EXCEPT ![t] = [step |-> "drop_snapshot", name |-> n]]
    /\ UNCHANGED <<manifest, dirs, colls, running, crashes, ghosts>>

\* Seeded fault: the files are removed before the manifest is committed.
FilesFirst(t) ==
    /\ At(t, "drop_snapshot")
    /\ dirs' = [dirs EXCEPT ![call[t].name] = NoDirectory]
    /\ call' = [call EXCEPT ![t] = [step |-> "drop_commit", name |-> call[t].name,
                                    snapshot |-> manifest]]
    /\ UNCHANGED <<manifest, colls, running, crashes, ghosts>>

\* manifest_snapshot: the mutex is taken and released again.
DropSnapshot(t) ==
    /\ At(t, "drop_snapshot")
    /\ call' = [call EXCEPT ![t] = [step |-> "drop_commit", name |-> call[t].name,
                                    snapshot |-> manifest]]
    /\ UNCHANGED <<manifest, dirs, colls, running, crashes, ghosts>>

\* The names other than n whose entry is not the one in the snapshot any more.
TakenBack(snapshot, n) == {m \in Names \ {n} : snapshot[m] # manifest[m]}

\* The mutex is taken again and the snapshot without the collection committed:
\* what others committed since goes back to what the snapshot has.
DropCommit(t) ==
    /\ At(t, "drop_commit")
    /\ manifest' = [call[t].snapshot EXCEPT ![call[t].name] = NoEntry]
    /\ current' = [current EXCEPT ![call[t].name] = 0]
    /\ left' = left \cup {call[t].name}
    /\ taken' = (taken \ {call[t].name}) \cup TakenBack(call[t].snapshot, call[t].name)
    /\ Goes(t, "drop_unregister")
    /\ UNCHANGED <<dirs, colls, running, crashes, writes, created>>

DropUnregister(t) ==
    /\ At(t, "drop_unregister")
    /\ colls' = [colls EXCEPT ![call[t].name] = NotOpen]
    /\ Goes(t, "drop_remove")
    /\ UNCHANGED <<manifest, dirs, running, crashes, ghosts>>

\* Seeded fault: only the segments are removed, not the log.
RemoveSegmentsOnly(t) ==
    /\ At(t, "drop_remove")
    /\ dirs' = [dirs EXCEPT ![call[t].name].segments = {}]
    /\ left' = left \ {call[t].name}
    /\ Returns(t)
    /\ UNCHANGED <<manifest, colls, running, crashes, writes, current, created, taken>>

\* remove_dir_all.
DropRemove(t) ==
    /\ At(t, "drop_remove")
    /\ dirs' = [dirs EXCEPT ![call[t].name] = NoDirectory]
    /\ left' = left \ {call[t].name}
    /\ Returns(t)
    /\ UNCHANGED <<manifest, colls, running, crashes, writes, current, created, taken>>

-------------------------------------------------------------------------------
(* Calls through a collection handle. *)

\* insert, upsert, delete, write_batch: logged, then in the memtable.  The
\* flush that a full memtable brings on is FlushFiles, which may follow any write.
Write(t, n) ==
    /\ MayCall(t, n) /\ colls[n].open
    /\ Len(writes) < MaxWrites
    /\ LET w == Len(writes) + 1 IN
         /\ writes' = Append(writes, current[n])
         /\ colls' = [colls EXCEPT ![n].memtable = @ \cup {w}]
         /\ dirs' = [dirs EXCEPT ![n].logged = @ \cup {w}]
    /\ UNCHANGED <<manifest, call, running, crashes, current, created, left, taken>>

\* do_flush: the segment files, which the handle adds to its segments.
FlushFiles(t, n) ==
    /\ MayCall(t, n) /\ colls[n].open
    /\ colls[n].memtable # {}
    /\ dirs' = [dirs EXCEPT ![n].segments = @ \cup colls[n].memtable]
    /\ colls' = [colls EXCEPT ![n].segments = @ \cup colls[n].memtable]
    /\ call' = [call EXCEPT ![t] = [step |-> "flush_commit", name |-> n]]
    /\ UNCHANGED <<manifest, running, crashes, ghosts>>

\* Seeded fault: the log is truncated before the manifest names the segment.
CheckpointThenCommit(t) ==
    /\ At(t, "flush_commit")
    /\ dirs' = [dirs EXCEPT ![call[t].name].logged = {}]
    /\ Goes(t, "flush_checkpoint")
    /\ UNCHANGED <<manifest, colls, running, crashes, ghosts>>

\* commit_collection: under the mutex, the entry of that name is replaced.
FlushCommit(t) ==
    /\ At(t, "flush_commit")
    /\ manifest' = [manifest EXCEPT ![call[t].name] =
                      [named |-> TRUE, folded |-> colls[call[t].name].segments]]
    /\ Goes(t, "flush_checkpoint")
    /\ UNCHANGED <<dirs, colls, running, crashes, ghosts>>

\* The log is truncated, the memtable cleared.
FlushCheckpoint(t) ==
    /\ At(t, "flush_checkpoint")
    /\ dirs' = [dirs EXCEPT ![call[t].name].logged = {}]
    /\ colls' = [colls EXCEPT ![call[t].name].memtable = {}]
    /\ Returns(t)
    /\ UNCHANGED <<manifest, running, crashes, ghosts>>

-------------------------------------------------------------------------------
(* The process ends, at any instant, and the database is opened again. *)

Crash ==
    /\ running /\ crashes < MaxCrashes
    /\ running' = FALSE
    /\ crashes' = crashes + 1
    /\ colls' = [n \in Names |-> NotOpen]
    /\ call' = [t \in Threads |-> Idle]
    /\ UNCHANGED <<manifest, dirs, ghosts>>

\* open_with_index finds the catalog and the segments of n, if the manifest names
\* it.
Findable(n) ==
    manifest[n].named => dirs[n].catalog /\ manifest[n].folded \subseteq dirs[n].segments

\* One collection that is not found fails the open of the whole database.
Openable == \A n \in Names : Findable(n)

\* Every collection the manifest names is opened and registered.
Open ==
    /\ ~running /\ Openable
    /\ running' = TRUE
    /\ colls' = [n \in Names |-> IF manifest[n].named
                                 THEN Opened(dirs[n], manifest[n]) ELSE NotOpen]
    /\ dirs' = [n \in Names |-> IF manifest[n].named
                                THEN OpenedDirectory(dirs[n], manifest[n]) ELSE dirs[n]]
    /\ UNCHANGED <<manifest, call, crashes, ghosts>>

Next ==
    \/ \E t \in Threads, n \in Names :
         CreateCheck(t, n) \/ DropCheck(t, n) \/ Write(t, n) \/ FlushFiles(t, n)
    \/ \E t \in Threads : CreateCatalog(t) \/ CreateCommit(t) \/ CreateOpen(t)
    \/ \E t \in Threads :
         DropSnapshot(t) \/ DropCommit(t) \/ DropUnregister(t) \/ DropRemove(t)
    \/ \E t \in Threads : FlushCommit(t) \/ FlushCheckpoint(t)
    \/ Crash
    \/ Open

Spec == Init /\ [][Next]_vars

-------------------------------------------------------------------------------
\* What the collection n stands for was written to it, and acknowledged, is
\* found by the next open: the manifest names the collection, and the write is in
\* the log or in a segment the manifest names and the directory has.
Durable(n) ==
    \A w \in DOMAIN writes : current[n] # 0 /\ writes[w] = current[n] =>
        /\ manifest[n].named
        /\ w \in dirs[n].logged \cup (manifest[n].folded \cap dirs[n].segments)

\* A write acknowledged by a collection that has not been dropped is found by
\* the next open, whatever the other threads create, drop, write and flush and
\* wherever they are stopped, unless a drop of another collection has committed
\* a snapshot older than the collection's own last commit.
AckedDurable == \A n \in Names \ taken : Durable(n)

\* The same without that exception, as the C guide promises: "the engine
\* serialises writes internally" (docs/getting-started/c.md:125-126).
ThreadsKeepWrites == \A n \in Names : Durable(n)

\* At every instant, inside a create or a drop too, no collection stands in the
\* way of the next open: the manifest names nothing whose files are not there yet
\* or are gone ("manifest first, files second"), except where a drop's stale
\* snapshot has put an entry back.
AlwaysOpenable == \A n \in Names \ taken : Findable(n)

\* What an open collection shows was written to it since it was created.
NoResurrection ==
    \A n \in Names : colls[n].open /\ current[n] # 0 =>
        \A w \in colls[n].memtable \cup colls[n].segments : writes[w] = current[n]

\* A collection shows writes from before it was created only if a crash came
\* between the manifest commit and the directory removal of a drop of that name,
\* or the drop of another collection took the entry of its name back.
ResurrectionNeedsCrash ==
    \A n \in Names \ (left \cup taken) : colls[n].open /\ current[n] # 0 =>
        \A w \in colls[n].memtable \cup colls[n].segments : writes[w] = current[n]
===============================================================================
