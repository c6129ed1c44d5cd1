---------------------------- MODULE IndexedDbCache ----------------------------
(***************************************************************************)
(* The storage adapter over IndexedDB: the whole database is resident in    *)
(* memory, in blocks, and a write-back queue carries what changed to the    *)
(* object stores in one transaction at a time.                              *)
(*                                                                          *)
(* `cache` is the resident state with the four sets of pending keys and the *)
(* debounce timer; `store` is what IndexedDB holds.  A block key is a file  *)
(* and a block number.  IndexedDB itself (a transaction is all or nothing,  *)
(* and takes effect when it completes) is external.                         *)
(***************************************************************************)
EXTENDS MemoryStorage

CONSTANT BlockBytes     \* BLOCK_BYTES

ASSUME BlockAssumption == BlockBytes \in Nat \ {0}

Paths == Files \cup (Dirs \ {Root})

EmptyStore == [files |-> <<>>, blocks |-> <<>>]

EmptyCache ==
    [files |-> <<>>, blocks |-> <<>>, dirtyFiles |-> {}, dirtyBlocks |-> {},
     deletedFiles |-> {}, deletedBlocks |-> {}, timer |-> FALSE]

Put(f, k, v) == [x \in DOMAIN f \cup {k} |-> IF x = k THEN v ELSE f[x]]
Drop(f, S)   == [x \in DOMAIN f \ S |-> f[x]]

Schedule(c) == [c EXCEPT !.timer = TRUE]

TouchFile(c, p) ==
    Schedule([c EXCEPT !.dirtyFiles = @ \cup {p}, !.deletedFiles = @ \ {p}])

TouchBlocks(c, ks) ==
    Schedule([c EXCEPT !.dirtyBlocks = @ \cup ks, !.deletedBlocks = @ \ ks])

\* readInto over the whole file: an absent block, and the part of a block past
\* its stored length, read as zeroes.
CachedBytes(c, p) ==
    [i \in 1..c.files[p].size |->
        LET n      == (i - 1) \div BlockBytes
            within == ((i - 1) % BlockBytes) + 1
        IN  IF <<p, n>> \in DOMAIN c.blocks /\ within <= Len(c.blocks[<<p, n>>])
            THEN c.blocks[<<p, n>>][within] ELSE Zero]

CachedContents(c, p) == {CachedBytes(c, x) : x \in {p} \cap DOMAIN c.files}

\* writeFrom: every block the write overlaps is grown to what it needs.
WriteFrom(c, p, src, offset) ==
    LET end  == offset + Len(src)
        keys == {<<p, n>> : n \in (offset \div BlockBytes)..((end - 1) \div BlockBytes)}
        old(k) == IF k \in DOMAIN c.blocks THEN c.blocks[k] ELSE <<>>
        base(k) == k[2] * BlockBytes
        needed(k) == IF end - base(k) < BlockBytes THEN end - base(k) ELSE BlockBytes
        new(k) ==
            [i \in 1..(IF Len(old(k)) > needed(k) THEN Len(old(k)) ELSE needed(k)) |->
                LET at == base(k) + i
                IN  IF at > offset /\ at <= end THEN src[at - offset]
                    ELSE IF i <= Len(old(k)) THEN old(k)[i] ELSE Zero]
    IN  TouchBlocks([c EXCEPT !.blocks =
            [k \in DOMAIN c.blocks \cup keys |->
                IF k \in keys THEN new(k) ELSE c.blocks[k]]], keys)

\* Seeded fault: the block that the cut runs through is dropped too.
DropBlocksFromFloor(c, p, size) ==
    LET gone == {k \in DOMAIN c.blocks : k[1] = p /\ k[2] >= size \div BlockBytes}
    IN  [c EXCEPT !.blocks = Drop(@, gone), !.dirtyBlocks = @ \ gone,
                  !.deletedBlocks = @ \cup gone]

\* dropBlocksFrom: the blocks that lie wholly past the new size.
DropBlocksFrom(c, p, size) ==
    LET first == (size + BlockBytes - 1) \div BlockBytes
        gone  == {k \in DOMAIN c.blocks : k[1] = p /\ k[2] >= first}
    IN  [c EXCEPT !.blocks = Drop(@, gone), !.dirtyBlocks = @ \ gone,
                  !.deletedBlocks = @ \cup gone]

\* The adapter's open: a missing file appears with size 0.
IdbOpen(c, p) ==
    IF p \in DOMAIN c.files THEN c
    ELSE TouchFile([c EXCEPT !.files = Put(@, p, [size |-> 0, directory |-> FALSE])], p)

IdbSize(c, p) == IF p \in DOMAIN c.files THEN c.files[p].size ELSE 0

\* write: the size follows only a file that is still there.
IdbWrite(c, p, src, offset) ==
    LET w   == WriteFrom(c, p, src, offset)
        end == offset + Len(src)
    IN  IF p \in DOMAIN w.files /\ end > w.files[p].size
        THEN TouchFile([w EXCEPT !.files[p].size = end], p) ELSE w

IdbTruncate(c, p, len) ==
    IF p \notin DOMAIN c.files THEN c
    ELSE TouchFile(DropBlocksFrom([c EXCEPT !.files[p].size = len], p, len), p)

\* Seeded fault: a removed file's pending puts stay queued.
ForgetKeepsPuts(c, S) ==
    LET blocks == {k \in DOMAIN c.blocks : k[1] \in S}
    IN  Schedule([c EXCEPT !.files = Drop(@, S), !.blocks = Drop(@, blocks)])

\* Forget the paths of S: their entries, their blocks and their pending puts.
Forget(c, S) ==
    LET blocks == {k \in DOMAIN c.blocks : k[1] \in S}
    IN  Schedule([c EXCEPT !.files = Drop(@, S), !.dirtyFiles = @ \ S,
                           !.deletedFiles = @ \cup S,
                           !.blocks = Drop(@, blocks), !.dirtyBlocks = @ \ blocks,
                           !.deletedBlocks = @ \cup blocks])

IdbRemoveFile(c, p) == Forget(c, {p})

IdbCreateDirAll(c, d) ==
    LET new   == (Ancestors(d) \ {Root}) \ DOMAIN c.files
        entry == [size |-> 0, directory |-> TRUE]
    IN  IF new = {} THEN c
        ELSE Schedule([c EXCEPT !.files = [x \in DOMAIN c.files \cup new |->
                                IF x \in new THEN entry ELSE c.files[x]],
                           !.dirtyFiles = @ \cup new, !.deletedFiles = @ \ new])

IdbRemoveDirAll(c, d) == Forget(c, {p \in DOMAIN c.files : Inside(p, d)})

(***************************************************************************)
(* The drain.  The keys are taken from the sets and their values read in    *)
(* the same turn, before the first await, so a transaction carries one      *)
(* moment of the cache; a write that comes while it runs stays pending.     *)
(***************************************************************************)
Clean(c) ==
    /\ c.dirtyFiles = {} /\ c.dirtyBlocks = {}
    /\ c.deletedFiles = {} /\ c.deletedBlocks = {}

\* Seeded fault: what was deleted is never told to the store.
TransactionWithoutDeletes(c) ==
    [putFiles  |-> [p \in c.dirtyFiles \cap DOMAIN c.files |-> c.files[p]],
     putBlocks |-> [k \in c.dirtyBlocks \cap DOMAIN c.blocks |-> c.blocks[k]],
     goneFiles |-> {}, goneBlocks |-> {}]

Transaction(c) ==
    [putFiles  |-> [p \in c.dirtyFiles \cap DOMAIN c.files |-> c.files[p]],
     putBlocks |-> [k \in c.dirtyBlocks \cap DOMAIN c.blocks |-> c.blocks[k]],
     goneFiles |-> c.deletedFiles, goneBlocks |-> c.deletedBlocks]

Drained(c) ==
    [c EXCEPT !.dirtyFiles = {}, !.dirtyBlocks = {},
              !.deletedFiles = {}, !.deletedBlocks = {}]

Merge(f, g) ==
    [k \in DOMAIN f \cup DOMAIN g |-> IF k \in DOMAIN g THEN g[k] ELSE f[k]]

\* Puts first, deletes after: the two never name the same key.
Commit(store, tx) ==
    [files  |-> Drop(Merge(store.files, tx.putFiles), tx.goneFiles),
     blocks |-> Drop(Merge(store.blocks, tx.putBlocks), tx.goneBlocks)]

\* The keys a transaction carries.
TxFiles(tx)  == DOMAIN tx.putFiles \cup tx.goneFiles
TxBlocks(tx) == DOMAIN tx.putBlocks \cup tx.goneBlocks

\* openDatabase and readAll: everything is loaded, nothing is pending.
IdbReload(store) ==
    [EmptyCache EXCEPT !.files = store.files, !.blocks = store.blocks]
=============================================================================
