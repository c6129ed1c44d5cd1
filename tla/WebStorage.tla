------------------------------ MODULE WebStorage ------------------------------
(***************************************************************************)
(* The engine's storage in a browser: the Storage backend of the web, the   *)
(* host functions it calls, and under them one of two adapters, the OPFS    *)
(* slot pool or the IndexedDB write-back cache.  `ref` is the file system   *)
(* the in-memory backend would have after the same calls; it is the         *)
(* reference the adapters are compared with.                                *)
(*                                                                          *)
(* The calls are the ones the engine makes: a file is opened under a        *)
(* directory that is there, bytes are appended, and a file is cut to a      *)
(* length it already has or to nothing.  A handle can outlive its file (a   *)
(* collection that is used after it was dropped still holds its log), and   *)
(* the tab can go away at any time.                                         *)
(***************************************************************************)
EXTENDS OpfsPool, IndexedDbCache

CONSTANTS
    Adapters,       \* the adapters of this instance, of "opfs" and "indexeddb"
    Used,           \* bound: the files the engine uses on each of them
    Handles,        \* numbers the host gives to open files
    AppendSizes,    \* bound: how many bytes one append writes
    MaxLen,         \* bound: bytes in all files together, one less for each aborted transaction
    MaxDeaths,      \* bound: how often the tab goes away on OPFS
    MaxFailures,    \* bound: transactions IndexedDB aborts
    MaxWaiting      \* bound: flush() calls that wait at one time

ASSUME WebAssumption ==
    /\ Adapters \subseteq {"opfs", "indexeddb"}
    /\ \A a \in Adapters : Used[a] \subseteq Files
    /\ AppendSizes \subseteq Nat /\ MaxLen \in Nat

\* The reference has an object for every file and every open handle: one that
\* is about to be opened has none yet.
ASSUME HandlesAssumption ==
    /\ IsFiniteSet(Handles) /\ Handles # {}
    /\ Cardinality(Files) + Cardinality(Handles) <= Cardinality(Objects) + 1

VARIABLES
    adapter,        \* which adapter the host drives; never changes
    pool,           \* the OPFS slots and the directories kept in memory
    cache, store,   \* the IndexedDB adapter's memory, and IndexedDB
    inFlight,       \* the transactions running: none or one
    waiting,        \* flush() calls waiting for it to settle
    handles,        \* what the engine's open files refer to
    ref,            \* the reference file system
    disagreed,      \* history: a call was answered as the reference would not
    image,          \* history: the cache as the last completed drain saw it
    lostFiles,      \* history: keys of an aborted transaction, since not stored
    lostBlocks,
    failures,       \* history: transactions that aborted
    misused,        \* history: a handle was written through after its removal
    deaths          \* history: how often the tab has gone away, on OPFS

idbVars == <<cache, store, inFlight, waiting, image, lostFiles, lostBlocks, failures>>
vars == <<adapter, pool, idbVars, handles, ref, disagreed, misused, deaths>>

NoHandle == [path |-> NoPath, slot |-> 0, object |-> NoObject, gone |-> FALSE]

Init ==
    /\ adapter \in Adapters
    /\ pool = FreshPool
    /\ cache = EmptyCache /\ store = EmptyStore
    /\ inFlight = {} /\ waiting = 0
    /\ handles = [h \in Handles |-> NoHandle]
    /\ ref = EmptyFs
    /\ disagreed = FALSE
    /\ image = EmptyStore
    /\ lostFiles = {} /\ lostBlocks = {} /\ failures = 0
    /\ misused = FALSE
    /\ deaths = 0

-----------------------------------------------------------------------------
\* What the adapter's stat, read and listing answer.
Exists(p) ==
    IF adapter = "opfs" THEN OpfsExists(pool, p)
    ELSE p = Root \/ p \in DOMAIN cache.files

WebContents(p) ==
    IF adapter = "opfs" THEN OpfsContents(pool, p) ELSE CachedContents(cache, p)

WebDirs == {d \in Dirs : Exists(d)}

HeldObjects == {handles[h].object : h \in Handles}

Size(h) ==
    IF adapter = "opfs" THEN OpfsSize(pool, handles[h].slot)
    ELSE IdbSize(cache, handles[h].path)

Only(poolAfter, cacheAfter) ==
    /\ pool' = poolAfter
    /\ cache' = cacheAfter
    /\ UNCHANGED <<adapter, store, inFlight, waiting, image, lostFiles, lostBlocks,
                   failures, deaths>>

\* vdb_host_open under WebStorage::open_file: what exists decides against the
\* mode before the adapter is asked.
HostOpen(p, mode) ==
    LET refused(rc) == [rc |-> rc, slot |-> 0, pool |-> pool, cache |-> cache]
        opened      == OpfsOpen(pool, p)
    IN  IF ~ Exists(p) /\ mode \in {"Read", "ReadWrite"} THEN refused("not found")
        ELSE IF Exists(p) /\ mode = "CreateNew" THEN refused("exists")
        ELSE IF adapter = "opfs"
             THEN [rc |-> opened.rc, slot |-> opened.slot, pool |-> opened.pool,
                   cache |-> cache]
             ELSE [rc |-> "ok", slot |-> 0, pool |-> pool, cache |-> IdbOpen(cache, p)]

\* A pool that is full is the one refusal the reference does not know, and a
\* path too long for a slot header is outside what the two agree on: its first
\* open fails and leaves the slot claimed, so that the file seems to be there.
Answered(p, web, want) ==
    disagreed' = (disagreed \/ (/\ web \notin {want, "quota"}
                                /\ p \notin LongPaths /\ ~ misused))

\* A file opened for reading is read whole and closed; other handles are kept.
Open(h, p, mode) ==
    /\ handles[h] = NoHandle
    /\ Parent[p] \in WebDirs
    /\ LET web  == HostOpen(p, mode)
           want == OpenFile(ref, p, IF p \in LongPaths THEN "Create" ELSE mode, HeldObjects)
       IN  /\ Only(web.pool, web.cache)
           /\ Answered(p, web.rc, want.rc)
           /\ ref' = IF web.rc = "ok" THEN want.fs ELSE ref
           /\ handles' = IF web.rc # "ok" \/ ~ IsWritable(mode) THEN handles
                ELSE [handles EXCEPT ![h] = [path |-> p, slot |-> web.slot,
                                             object |-> want.value, gone |-> FALSE]]
    /\ UNCHANGED misused

TotalBytes == Cardinality(UNION {{o} \X (1..Len(ref.live[o])) : o \in Objects})

\* WebFile::append: the length, then a write there.  `buf` is the file's own
\* byte, n times.
AppendBytes(h, n) ==
    LET f    == handles[h]
        buf  == [i \in 1..n |-> f.path]
    IN  /\ f # NoHandle
        /\ TotalBytes + n <= MaxLen - failures /\ Size(h) + n <= MaxLen - failures
        /\ IF adapter = "opfs"
           THEN Only(OpfsWrite(pool, f.slot, buf, Size(h)), cache)
           ELSE Only(pool, IdbWrite(cache, f.path, buf, Size(h)))
        /\ ref' = AppendTo(ref, f.object, TRUE, buf).fs
        /\ misused' = (misused \/ f.gone)
        /\ UNCHANGED <<handles, disagreed>>

\* WebFile::truncate: to nothing before a file is written again, to the valid
\* prefix of a log at recovery.
Cut(h, len) ==
    LET f == handles[h]
    IN  /\ f # NoHandle
        /\ len < Size(h)
        /\ IF adapter = "opfs" THEN Only(OpfsTruncate(pool, f.slot, len), cache)
           ELSE Only(pool, IdbTruncate(cache, f.path, len))
        /\ ref' = Truncate(ref, f.object, TRUE, len).fs
        /\ misused' = (misused \/ f.gone)
        /\ UNCHANGED <<handles, disagreed>>

\* WebFile::sync_data: on IndexedDB it only makes sure a drain is scheduled.
SyncData(h) ==
    /\ handles[h] # NoHandle
    /\ adapter = "indexeddb" /\ ~ cache.timer /\ ~ Clean(cache)
    /\ Only(pool, Schedule(cache))
    /\ UNCHANGED <<handles, ref, disagreed, misused>>

\* Drop for WebFile: the host forgets the handle, the adapter does nothing.
Close(h) ==
    /\ handles[h] # NoHandle
    /\ handles' = [handles EXCEPT ![h] = NoHandle]
    /\ ref' = [ref EXCEPT !.live =
                [o \in Objects |->
                    IF o \in FreeObjects(ref, HeldObjects \ {handles[h].object})
                    THEN <<>> ELSE ref.live[o]]]
    /\ Only(pool, cache) /\ UNCHANGED <<disagreed, misused>>

\* The handles whose file an operation removes.
Orphaned(S) ==
    [h \in Handles |-> IF handles[h].path \in S THEN [handles[h] EXCEPT !.gone = TRUE]
                       ELSE handles[h]]

\* vdb_host_remove_file.
Remove(p) ==
    LET want == RemoveFile(ref, p)
    IN  /\ IF ~ Exists(p) THEN Only(pool, cache) /\ UNCHANGED handles
           ELSE /\ IF adapter = "opfs" THEN Only(OpfsRemoveFile(pool, p), cache)
                   ELSE Only(pool, IdbRemoveFile(cache, p))
                /\ handles' = Orphaned({p})
        /\ ref' = want.fs
        /\ Answered(p, IF Exists(p) THEN "ok" ELSE "not found", want.rc)
        /\ UNCHANGED misused

\* vdb_host_create_dir_all and vdb_host_remove_dir_all; the engine removes the
\* directory of a collection it drops.
CreateDir(d) ==
    LET want == CreateDirAll(ref, d)
    IN  /\ IF adapter = "opfs" THEN Only(OpfsCreateDirAll(pool, d), cache)
           ELSE Only(pool, IdbCreateDirAll(cache, d))
        /\ ref' = want.fs
        /\ Answered(d, "ok", want.rc)
        /\ UNCHANGED <<handles, misused>>

RemoveDir(d) ==
    LET want == RemoveDirAll(ref, d)
    IN  /\ d # Root
        /\ IF ~ Exists(d) THEN Only(pool, cache) /\ UNCHANGED handles
           ELSE /\ IF adapter = "opfs" THEN Only(OpfsRemoveDirAll(pool, d), cache)
                   ELSE Only(pool, IdbRemoveDirAll(cache, d))
                /\ handles' = Orphaned({f \in Files : Inside(f, d)})
        /\ ref' = want.fs
        /\ Answered(d, IF Exists(d) THEN "ok" ELSE "not found", want.rc)
        /\ UNCHANGED misused

-----------------------------------------------------------------------------
(***************************************************************************)
(* flush() of the IndexedDB adapter: the debounce timer calls it, the       *)
(* application calls it, and so do pagehide and visibilitychange.           *)
(***************************************************************************)
Image(c)  == IF failures = 0 THEN [files |-> c.files, blocks |-> c.blocks] ELSE EmptyStore
Starts(c) == {[tx |-> Transaction(c), image |-> Image(c)]}

\* Seeded fault: a call that comes while a transaction runs returns instead of
\* waiting for it.
FlushReturnsEarly(c) ==
    IF inFlight # {} \/ Clean(c) THEN cache' = c /\ UNCHANGED <<inFlight, waiting>>
    ELSE cache' = Drained(c) /\ inFlight' = Starts(c) /\ UNCHANGED waiting

Flush(c) ==
    IF inFlight # {} THEN /\ waiting' = waiting + 1 /\ cache' = c
                          /\ UNCHANGED inFlight
    ELSE IF Clean(c) THEN cache' = c /\ UNCHANGED <<inFlight, waiting>>
    ELSE cache' = Drained(c) /\ inFlight' = Starts(c) /\ UNCHANGED waiting

TimerFires ==
    /\ adapter = "indexeddb" /\ cache.timer
    /\ waiting < MaxWaiting
    /\ Flush([cache EXCEPT !.timer = FALSE])
    /\ UNCHANGED <<adapter, pool, store, handles, ref, disagreed, image, lostFiles,
                   lostBlocks, failures, misused, deaths>>

CallFlush ==
    /\ adapter = "indexeddb" /\ (inFlight # {} \/ ~ Clean(cache))
    /\ waiting < MaxWaiting
    /\ Flush(cache)
    /\ UNCHANGED <<adapter, pool, store, handles, ref, disagreed, image, lostFiles,
                   lostBlocks, failures, misused, deaths>>

\* Seeded fault: a call that waited for the transaction returns with it, without
\* a look at what became pending meanwhile.
WaitersReturn ==
    \E t \in inFlight :
        /\ store' = Commit(store, t.tx)
        /\ image' = IF failures = 0 THEN t.image ELSE EmptyStore
        /\ lostFiles' = lostFiles \ TxFiles(t.tx)
        /\ lostBlocks' = lostBlocks \ TxBlocks(t.tx)
        /\ inFlight' = {} /\ waiting' = 0
        /\ UNCHANGED <<adapter, pool, cache, handles, ref, disagreed, failures, misused, deaths>>

\* The transaction completes.  Of the calls that waited, the first to wake
\* drains what is pending by now and the others wait again; with nothing
\* pending they all return.
TxCompletes ==
    \E t \in inFlight :
        /\ store' = Commit(store, t.tx)
        /\ image' = IF failures = 0 THEN t.image ELSE EmptyStore
        /\ lostFiles' = lostFiles \ TxFiles(t.tx)
        /\ lostBlocks' = lostBlocks \ TxBlocks(t.tx)
        /\ IF waiting > 0 /\ ~ Clean(cache)
           THEN /\ inFlight' = Starts(cache) /\ cache' = Drained(cache)
                /\ waiting' = waiting - 1
           ELSE inFlight' = {} /\ waiting' = 0 /\ UNCHANGED cache
        /\ UNCHANGED <<adapter, pool, handles, ref, disagreed, failures, misused, deaths>>

\* The transaction aborts (a full quota, a store that went away): flush()
\* rejects, and so does every call that waited on it.  The keys it carried
\* were already taken off the pending sets.
TxAborts ==
    \E t \in inFlight :
        /\ failures < MaxFailures
        /\ failures' = failures + 1
        /\ inFlight' = {} /\ waiting' = 0
        /\ lostFiles' = lostFiles \cup TxFiles(t.tx)
        /\ lostBlocks' = lostBlocks \cup TxBlocks(t.tx)
        /\ UNCHANGED <<adapter, pool, cache, store, handles, ref, disagreed, image,
                       misused, deaths>>

-----------------------------------------------------------------------------
\* The reference file system that holds what the adapter holds after a reload.
Rebased(dirs, contents) ==
    LET present == {f \in Files : contents[f] # {}}
        place   == CHOOSE m \in [present -> Objects] :
                        \A f, g \in present : f # g => m[f] # m[g]
    IN  [dirs  |-> dirs,
         entry |-> [f \in Files |-> IF f \in present THEN place[f] ELSE NoObject],
         live  |-> [o \in Objects |->
                        IF \E f \in present : place[f] = o
                        THEN CHOOSE b \in UNION {contents[f] : f \in
                                {g \in present : place[g] = o}} : TRUE
                        ELSE <<>>]]

\* The pools a dying Worker may leave: it was between two calls, or in the
\* middle of an open or of a removal.
Interrupted ==
    LET opened  == {f \in Files : ~ Exists(f) /\ Parent[f] \in WebDirs
                                   /\ SlotsOf(pool, NoPath) # {}}
        removed == {f \in Files : Exists(f)}
        dropped == WebDirs \ {Root}
    IN  {pool}
        \cup (UNION {HalfOpened(pool, p) : p \in opened})
        \cup (UNION {HalfReleased(pool, {Find(pool, p)}) : p \in removed})
        \cup (UNION {HalfReleased(pool, Doomed(pool, d)) : d \in dropped})

Restart ==
    /\ handles' = [h \in Handles |-> NoHandle]
    /\ UNCHANGED <<adapter, disagreed, misused>>

\* The tab goes away and comes back, OPFS: every call that reached a slot
\* stands, the one in the middle is half done.
OpfsTabDies ==
    /\ adapter = "opfs"
    /\ deaths < MaxDeaths
    /\ deaths' = deaths + 1
    /\ Restart
    /\ \E left \in Interrupted :
        LET after == OpfsReload(left)
        IN  /\ pool' = after
            /\ ref' = Rebased(after.dirs, [f \in Files |-> OpfsContents(after, f)])
    /\ UNCHANGED idbVars

\* IndexedDB: what is pending is gone, and the transaction that was running
\* has completed or has not.
IdbTabDies ==
    /\ adapter = "indexeddb"
    /\ Restart
    /\ \E done \in SUBSET inFlight :
        /\ store' = IF done = {} THEN store
                    ELSE Commit(store, (CHOOSE t \in done : TRUE).tx)
        /\ image' = IF done = {} THEN image ELSE (CHOOSE t \in done : TRUE).image
    /\ cache' = IdbReload(store')
    /\ inFlight' = {} /\ waiting' = 0
    /\ lostFiles' = {} /\ lostBlocks' = {}
    /\ ref' = Rebased({Root} \cup (DOMAIN cache'.files \cap Dirs),
                      [f \in Files |-> CachedContents(cache', f)])
    /\ UNCHANGED <<pool, failures, deaths>>

EngineCalls ==
    \/ \E h \in Handles :
        \/ \E p \in Used[adapter], mode \in Modes : Open(h, p, mode)
        \/ \E n \in AppendSizes : AppendBytes(h, n)
        \/ \E len \in 0..MaxLen : Cut(h, len)
        \/ SyncData(h)
        \/ Close(h)
    \/ \E p \in Used[adapter] : Remove(p)
    \/ \E d \in Dirs : CreateDir(d) \/ RemoveDir(d)

\* A run ends with the first write through a handle whose file is gone.
Next ==
    \/ ~ misused /\ EngineCalls
    \/ TimerFires \/ CallFlush \/ TxCompletes \/ TxAborts
    \/ ~ misused /\ (OpfsTabDies \/ IdbTabDies)

Spec == Init /\ [][Next]_vars

\* The browser runs a timer that is due, and IndexedDB settles a transaction:
\* neither waits for the application.
FairSpec == Spec /\ WF_vars(TimerFires) /\ WF_vars(TxCompletes)

-----------------------------------------------------------------------------
TypeOK ==
    /\ adapter \in Adapters
    /\ DOMAIN pool.slot = Slots /\ pool.dirs \subseteq Dirs
    /\ DOMAIN cache.files \subseteq Paths /\ DOMAIN store.files \subseteq Paths
    /\ Cardinality(inFlight) <= 1 /\ waiting \in 0..MaxWaiting
    /\ \A h \in Handles : handles[h].path \in Files \cup {NoPath}
    /\ ref.dirs \subseteq Dirs

\* No two slots hold the same path and no reader of a file, by its path or
\* through a handle that was open before, sees anything but what the in-memory
\* backend would show it; every call gets the reference's answer, save for a
\* pool that is full.  A handle written through after its file was removed is
\* the exception: on OPFS its slot may be another file's by then.
MatchesReference ==
    ~ misused =>
        /\ ~ disagreed
        /\ \A f \in Files \ LongPaths : WebContents(f) = Contents(ref, f)
        /\ WebDirs = ref.dirs
        /\ \A h \in Handles :
              (handles[h] # NoHandle /\ ~ handles[h].gone /\ handles[h].path \notin LongPaths)
              => Size(h) = Len(ref.live[handles[h].object])

\* A file holds only bytes that were written to it, unless a handle outlived
\* its file or the tab died twice: once between the two halves of a release
\* (the slot keeps its bytes and loses its name), once between the two halves
\* of the next claim (it has a new name and has not been cut).
ForeignBytesNeedTwoDeaths ==
    (\E f \in Files \ LongPaths : \E b \in WebContents(f) : \E i \in 1..Len(b) : b[i] \notin {Zero, f})
    => misused \/ deaths >= 2

\* As long as no transaction has aborted, IndexedDB holds the whole cache as it
\* was at one moment, never a mixture of two: a manifest and the segments it
\* names come back together.
StoreIsOneMoment == failures = 0 => store = image

\* A key that is not pending, not on its way and not lost with an aborted
\* transaction has in IndexedDB the value it has in memory.
OnlyLostKeysMissing ==
    LET txFiles  == UNION {TxFiles(t.tx) : t \in inFlight}
        txBlocks == UNION {TxBlocks(t.tx) : t \in inFlight}
        same(f, g, k) == /\ (k \in DOMAIN f) = (k \in DOMAIN g)
                         /\ k \in DOMAIN f => f[k] = g[k]
    IN  /\ \A p \in Paths \ (cache.dirtyFiles \cup cache.deletedFiles \cup txFiles
                             \cup lostFiles) : same(cache.files, store.files, p)
        /\ \A k \in (DOMAIN cache.blocks \cup DOMAIN store.blocks)
                    \ (cache.dirtyBlocks \cup cache.deletedBlocks \cup txBlocks
                       \cup lostBlocks) : same(cache.blocks, store.blocks, k)

\* When nothing is pending and nothing is on its way, flush() returns at once:
\* by then everything is stored.
CleanMeansStored ==
    (adapter = "indexeddb" /\ Clean(cache) /\ inFlight = {})
    => store = [files |-> cache.files, blocks |-> cache.blocks]

\* What is pending is on its way out: the debounce timer is set or a call
\* waits for the transaction to settle.  Only an abort breaks this: the calls
\* that waited reject with it, and the timer that made them has fired.
PendingIsScheduled ==
    (~ Clean(cache) /\ failures = 0) => cache.timer \/ waiting > 0

\* Everything the cache holds is in IndexedDB, and nothing is on its way.
AllStored ==
    /\ Clean(cache) /\ inFlight = {}
    /\ store = [files |-> cache.files, blocks |-> cache.blocks]

CacheChanges == cache'.files # cache.files \/ cache'.blocks # cache.blocks

\* Once the engine writes no more, what it wrote reaches IndexedDB without
\* anybody calling flush(): the debounce timer, the transaction that runs when it
\* fires and the call that waits for it see to that, whatever was written while
\* they were at work.  An aborted transaction may lose what it carried.
WritesReachTheStore ==
    []<><<CacheChanges>>_cache \/ <>[](adapter = "opfs" \/ failures > 0 \/ AllStored)
=============================================================================
