------------------------------- MODULE OpfsPool -------------------------------
(***************************************************************************)
(* The storage adapter over the Origin Private File System.  The sync       *)
(* access handles are acquired before the engine runs, as a pool of slots;  *)
(* a file lives in the slot whose header names its path.  Directories are   *)
(* not stored: they are kept in memory and derived from the paths in use.   *)
(*                                                                          *)
(* The calls on a slot (write the header, clear it, truncate, write) reach  *)
(* the host one at a time, and the Worker can be terminated between any two *)
(* of them: what it can leave behind of an operation is stated beside the   *)
(* operation.                                                               *)
(***************************************************************************)
EXTENDS MemoryStorage

CONSTANTS
    Slots,      \* 1..n: the slots of the pool, in pool order
    LongPaths   \* the files whose path does not fit a slot header

NoPath == "no path"

ASSUME OpfsAssumption ==
    Slots \subseteq Nat /\ LongPaths \subseteq Files /\ NoPath \notin Files \cup Dirs

FreshSlot == [path |-> NoPath, header |-> NoPath, bytes |-> <<>>]

FreshPool == [slot |-> [s \in Slots |-> FreshSlot], dirs |-> {Root}]

FirstOf(S) == CHOOSE s \in S : \A t \in S : s <= t

SlotsOf(pool, p) == {s \in Slots : pool.slot[s].path = p}

\* `find` and `free`: the first slot that holds the path, or no path.
Find(pool, p) == FirstOf(SlotsOf(pool, p))
Free(pool)    == FirstOf(SlotsOf(pool, NoPath))

\* stat: a slot first, a directory next.
OpfsExists(pool, p) == SlotsOf(pool, p) # {} \/ p \in pool.dirs

OpfsContents(pool, p) == {pool.slot[s].bytes : s \in SlotsOf(pool, p)}

(***************************************************************************)
(* What the calls of an operation do to the files behind the slots.         *)
(* Claiming and releasing a slot in memory goes with the header call that   *)
(* follows it; a path too long for the header is claimed and then refused,  *)
(* the claim stays.                                                         *)
(***************************************************************************)
\* The first calls of an open that no slot answers: the first free slot is
\* claimed and its header written; it still holds what it held before.
Claimed(pool, p) ==
    [pool EXCEPT !.slot[Free(pool)] =
        [path |-> p, header |-> IF p \in LongPaths THEN @.header ELSE p, bytes |-> @.bytes]]

\* Then the slot is cut.
Opened(pool, p) ==
    IF p \in LongPaths THEN Claimed(pool, p)
    ELSE [pool EXCEPT !.slot[Free(pool)] = [path |-> p, header |-> p, bytes |-> <<>>]]

\* A slot is released by clearing its header, and then cut.
Cleared(pool, s) ==
    [pool EXCEPT !.slot[s] = [path |-> NoPath, header |-> NoPath, bytes |-> @.bytes]]

\* Seeded fault: a released slot keeps its bytes.
ReleasedUncut(pool, S) ==
    [pool EXCEPT !.slot = [s \in Slots |->
        IF s \in S THEN [FreshSlot EXCEPT !.bytes = pool.slot[s].bytes]
        ELSE pool.slot[s]]]

Released(pool, S) ==
    [pool EXCEPT !.slot = [s \in Slots |-> IF s \in S THEN FreshSlot ELSE pool.slot[s]]]

\* removeDirAll releases the slots inside the directory.
Doomed(pool, d) == {s \in Slots : pool.slot[s].path \in {f \in Files : Inside(f, d)}}

\* What a Worker that dies can leave of an open, and of the release of the
\* slots S, which go in pool order.
HalfOpened(pool, p)   == {Claimed(pool, p), Opened(pool, p)}
HalfReleased(pool, S) ==
    UNION {LET before == Released(pool, {t \in S : t < s})
           IN  {Cleared(before, s), Released(before, {s})} : s \in S}

\* The adapter's open.  `rc` is what host.js makes of it: a full pool throws
\* QuotaExceededError, a path too long an error without a name.
OpfsOpen(pool, p) ==
    IF SlotsOf(pool, p) # {} THEN [rc |-> "ok", pool |-> pool, slot |-> Find(pool, p)]
    ELSE IF SlotsOf(pool, NoPath) = {} THEN [rc |-> "quota", pool |-> pool, slot |-> 0]
    ELSE IF p \in LongPaths THEN [rc |-> "io", pool |-> Opened(pool, p), slot |-> 0]
    ELSE [rc |-> "ok", slot |-> Free(pool),
          pool |-> [Opened(pool, p) EXCEPT !.dirs = @ \cup Ancestors(Parent[p])]]

OpfsRemoveFile(pool, p) == Released(pool, {Find(pool, p)})

OpfsCreateDirAll(pool, d) == [pool EXCEPT !.dirs = @ \cup Ancestors(d)]

OpfsRemoveDirAll(pool, d) ==
    [Released(pool, Doomed(pool, d)) EXCEPT !.dirs = {x \in @ : ~ Inside(x, d)}]

\* The file interface of an open handle: it is bound to the slot, not the path.
OpfsWrite(pool, s, buf, offset) ==
    [pool EXCEPT !.slot[s].bytes = Overwrite(@, buf, offset)]

OpfsTruncate(pool, s, len) == [pool EXCEPT !.slot[s].bytes = Resize(@, len)]

OpfsSize(pool, s) == Len(pool.slot[s].bytes)

\* Opening the adapter again: the header of every slot says what it holds, and
\* the directories are the ancestors of those paths.
OpfsReload(pool) ==
    LET named == [s \in Slots |-> [pool.slot[s] EXCEPT !.path = pool.slot[s].header]]
        used  == {named[s].path : s \in Slots} \ {NoPath}
    IN  [slot |-> named,
         dirs |-> {Root} \cup UNION {Ancestors(Parent[f]) : f \in used}]
=============================================================================
