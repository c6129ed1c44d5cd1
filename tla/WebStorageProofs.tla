--------------------------- MODULE WebStorageProofs ---------------------------
(***************************************************************************)
(* Proofs about WebStorage for any files, directories, slots, handles,      *)
(* calls, block size, aborted transactions and deaths: what the IndexedDB   *)
(* adapter still has to store is on its way, and what it no longer has to   *)
(* store is stored, unless an aborted transaction lost it; both adapters    *)
(* show the engine what the in-memory backend would; and a file holds only  *)
(* its own bytes until the tab has died twice.                              *)
(***************************************************************************)
EXTENDS WebStorage, FiniteSetTheorems, WellFoundedInduction, TLAPS

-------------------------------------------------------------------------------
(* Finite sets. *)

LEMMA LeastNatural ==
    ASSUME NEW S \in SUBSET Nat, S # {}
    PROVE  \E n \in S : \A m \in S : n <= m
<1> DEFINE R == {p \in Nat \X Nat : p[1] < p[2]}
<1>1. IsWellFoundedOn(R, Nat)
  BY NatLessThanWellFounded DEF OpToRel
<1> HIDE DEF R
<1>2. PICK n \in S : \A m \in S : ~ (<<m, n>> \in R)
  BY <1>1, WFMin, Zenon
<1>3. \A m \in S : ~ (m < n)
  BY <1>2 DEF R
<1> QED
  BY <1>3

\* The image of a finite set.
LEMMA ImageFinite ==
    ASSUME NEW S, NEW T, NEW f \in [S -> T], IsFiniteSet(S), \A y \in T : \E x \in S : f[x] = y
    PROVE  /\ IsFiniteSet(T) /\ Cardinality(T) <= Cardinality(S)
           /\ (\A x, y \in S : f[x] = f[y] => x = y) => Cardinality(T) = Cardinality(S)
<1>1. f \in Surjection(S, T)
  BY DEF Surjection
<1>2. (\A x, y \in S : f[x] = f[y] => x = y) => f \in Injection(S, T)
  BY DEF Injection, IsInjective
<1> QED
  BY <1>1, <1>2, FS_Surjection

-------------------------------------------------------------------------------
(* What is still to be stored: the inductive invariant. *)

IsFcn(f) == f = [x \in DOMAIN f |-> f[x]]

\* f and g say the same of k.
Agree(f, g, k) == (k \in DOMAIN f <=> k \in DOMAIN g) /\ (k \in DOMAIN f => f[k] = g[k])

PendingFiles(c) == c.dirtyFiles \cup c.deletedFiles
PendingBlocks(c) == c.dirtyBlocks \cup c.deletedBlocks

CacheFields ==
    {"files", "blocks", "dirtyFiles", "dirtyBlocks", "deletedFiles", "deletedBlocks", "timer"}

\* A key waits to be put only if it is there, and to be deleted only if not.
WellFormed(c) ==
    /\ DOMAIN c = CacheFields
    /\ IsFcn(c.files) /\ IsFcn(c.blocks)
    /\ c.dirtyFiles \subseteq DOMAIN c.files /\ c.deletedFiles \cap DOMAIN c.files = {}
    /\ c.dirtyBlocks \subseteq DOMAIN c.blocks /\ c.deletedBlocks \cap DOMAIN c.blocks = {}

IsStore(s) ==
    /\ s = [files |-> s.files, blocks |-> s.blocks]
    /\ IsFcn(s.files) /\ IsFcn(s.blocks)

\* A transaction says of its keys what the cache c does, save for those that
\* changed since; with no abort before it, it brings the store s to its image.
Carries(t, c, s, n) ==
    /\ IsFcn(t.tx.putFiles) /\ IsFcn(t.tx.putBlocks)
    /\ DOMAIN t.tx.putFiles \cap t.tx.goneFiles = {}
    /\ DOMAIN t.tx.putBlocks \cap t.tx.goneBlocks = {}
    /\ \A p \in TxFiles(t.tx) \ PendingFiles(c) : Agree(c.files, t.tx.putFiles, p)
    /\ \A k \in TxBlocks(t.tx) \ PendingBlocks(c) : Agree(c.blocks, t.tx.putBlocks, k)
    /\ n = 0 => Commit(s, t.tx) = t.image

\* Keys that are not pending, carried or lost are stored as they are.
Settled(c, s, txs, lf, lb) ==
    /\ \A p : p \notin PendingFiles(c) /\ p \notin lf /\ (\A t \in txs : p \notin TxFiles(t.tx))
              => Agree(c.files, s.files, p)
    /\ \A k : k \notin PendingBlocks(c) /\ k \notin lb /\ (\A t \in txs : k \notin TxBlocks(t.tx))
              => Agree(c.blocks, s.blocks, k)

\* The invariant for a cache c, a store s, the running transactions txs, w
\* waiting calls, n aborts, the lost keys and the image of the last drain.
Good(c, s, txs, w, n, lf, lb, im) ==
    /\ WellFormed(c)
    /\ IsStore(s)
    /\ w \in Nat /\ n \in Nat
    /\ \A t, u \in txs : t = u
    /\ \A t \in txs : Carries(t, c, s, n)
    /\ Settled(c, s, txs, lf, lb)
    /\ n = 0 => lf = {} /\ lb = {} /\ s = im
    /\ (~ Clean(c) /\ n = 0) => c.timer = TRUE \/ w > 0

Inv == Good(cache, store, inFlight, waiting, failures, lostFiles, lostBlocks, image)

-------------------------------------------------------------------------------
(* Calls. *)

\* What a call makes of the cache c: what it changes is pending, and a drain is
\* scheduled.
Journaled(c, e) ==
    /\ WellFormed(e)
    /\ e = c \/ e.timer = TRUE
    /\ PendingFiles(c) \subseteq PendingFiles(e)
    /\ PendingBlocks(c) \subseteq PendingBlocks(e)
    /\ \A p : p \notin PendingFiles(e) => Agree(c.files, e.files, p)
    /\ \A k : k \notin PendingBlocks(e) => Agree(c.blocks, e.blocks, k)


LEMMA ScheduleJournaled ==
    ASSUME NEW c, WellFormed(c)
    PROVE  Journaled(c, Schedule(c))
<1> DEFINE e == Schedule(c)
<1>1. /\ DOMAIN e = CacheFields
      /\ e.files = c.files /\ e.blocks = c.blocks /\ e.dirtyFiles = c.dirtyFiles
      /\ e.dirtyBlocks = c.dirtyBlocks /\ e.deletedFiles = c.deletedFiles
      /\ e.deletedBlocks = c.deletedBlocks /\ e.timer = TRUE
  BY DEF Schedule, WellFormed, CacheFields
<1> HIDE DEF e
<1>2. WellFormed(e)
  BY <1>1 DEF WellFormed
<1> QED
  BY <1>1, <1>2 DEF Journaled, PendingFiles, PendingBlocks, Agree, e

\* A change of one file's entry.
LEMMA FileTouched ==
    ASSUME NEW c, WellFormed(c), NEW f, NEW p, IsFcn(f), p \in DOMAIN f,
           DOMAIN f = DOMAIN c.files \cup {p},
           \A x \in DOMAIN c.files : x # p => f[x] = c.files[x]
    PROVE  Journaled(c, TouchFile([c EXCEPT !.files = f], p))
<1> DEFINE e == TouchFile([c EXCEPT !.files = f], p)
<1>1. /\ DOMAIN e = CacheFields
      /\ e.files = f /\ e.blocks = c.blocks
      /\ e.dirtyFiles = c.dirtyFiles \cup {p} /\ e.deletedFiles = c.deletedFiles \ {p}
      /\ e.dirtyBlocks = c.dirtyBlocks /\ e.deletedBlocks = c.deletedBlocks /\ e.timer = TRUE
  BY DEF TouchFile, Schedule, WellFormed, CacheFields
<1> HIDE DEF e
<1>2. WellFormed(e)
  BY <1>1 DEF WellFormed
<1> QED
  BY <1>1, <1>2 DEF Journaled, PendingFiles, PendingBlocks, Agree, WellFormed, e

LEMMA OpenJournaled ==
    ASSUME NEW c, WellFormed(c), NEW p
    PROVE  Journaled(c, IdbOpen(c, p))
<1>1. CASE p \in DOMAIN c.files
  BY <1>1 DEF IdbOpen, Journaled, Agree
<1>2. CASE p \notin DOMAIN c.files
  <2> DEFINE f == Put(c.files, p, [size |-> 0, directory |-> FALSE])
  <2>1. /\ IsFcn(f) /\ DOMAIN f = DOMAIN c.files \cup {p}
        /\ \A x \in DOMAIN c.files : x # p => f[x] = c.files[x]
    BY DEF Put, IsFcn
  <2>2. IdbOpen(c, p) = TouchFile([c EXCEPT !.files = f], p)
    BY <1>2 DEF IdbOpen, WellFormed, CacheFields
  <2> HIDE DEF f
  <2> QED
    BY <2>1, <2>2, FileTouched
<1> QED
  BY <1>1, <1>2

LEMMA JournaledTwice ==
    ASSUME NEW c, NEW d, NEW e, Journaled(c, d), Journaled(d, e)
    PROVE  Journaled(c, e)
<1>1. \A p : p \notin PendingFiles(e) => Agree(c.files, e.files, p)
  BY DEF Journaled, Agree
<1>2. \A k : k \notin PendingBlocks(e) => Agree(c.blocks, e.blocks, k)
  BY DEF Journaled, Agree
<1> QED
  BY <1>1, <1>2 DEF Journaled

LEMMA WriteJournaled ==
    ASSUME NEW c, WellFormed(c), NEW p, NEW src, NEW offset
    PROVE  Journaled(c, IdbWrite(c, p, src, offset))
<1> DEFINE w == WriteFrom(c, p, src, offset)
           end == offset + Len(src)
<1>1. Journaled(c, w)
  <2> DEFINE keys == {<<p, n>> : n \in (offset \div BlockBytes)..((end - 1) \div BlockBytes)}
  <2>1. PICK g : /\ IsFcn(g) /\ DOMAIN g = DOMAIN c.blocks \cup keys
                 /\ \A k \in DOMAIN c.blocks : k \notin keys => g[k] = c.blocks[k]
                 /\ w = TouchBlocks([c EXCEPT !.blocks = g], keys)
    <3> HIDE DEF keys
    <3> QED
      BY DEF WriteFrom, IsFcn, keys
  <2>2. /\ DOMAIN w = CacheFields
        /\ w.files = c.files /\ w.blocks = g
        /\ w.dirtyFiles = c.dirtyFiles /\ w.deletedFiles = c.deletedFiles
        /\ w.dirtyBlocks = c.dirtyBlocks \cup keys
        /\ w.deletedBlocks = c.deletedBlocks \ keys /\ w.timer = TRUE
    <3> HIDE DEF keys, w
    <3> QED
      BY <2>1 DEF TouchBlocks, Schedule, WellFormed, CacheFields
  <2> HIDE DEF keys, w
  <2>3. WellFormed(w)
    BY <2>1, <2>2 DEF WellFormed
  <2> QED
    BY <2>1, <2>2, <2>3 DEF Journaled, PendingFiles, PendingBlocks, Agree, WellFormed
<1>2. WellFormed(w)
  BY <1>1 DEF Journaled
<1>3. IdbWrite(c, p, src, offset) =
        IF p \in DOMAIN w.files /\ end > w.files[p].size
        THEN TouchFile([w EXCEPT !.files[p].size = end], p) ELSE w
  BY DEF IdbWrite
<1> HIDE DEF w, end
<1>4. CASE p \in DOMAIN w.files /\ end > w.files[p].size
  <2> DEFINE f == [w.files EXCEPT ![p].size = end]
  <2>1. [w EXCEPT !.files[p].size = end] = [w EXCEPT !.files = f]
    BY <1>2 DEF WellFormed, CacheFields
  <2>2. /\ IsFcn(f) /\ DOMAIN f = DOMAIN w.files
        /\ \A x \in DOMAIN w.files : x # p => f[x] = w.files[x]
    BY DEF IsFcn
  <2> HIDE DEF f
  <2>3. Journaled(w, TouchFile([w EXCEPT !.files = f], p))
    BY <1>2, <1>4, <2>2, FileTouched
  <2> QED
    BY <1>1, <1>3, <1>4, <2>1, <2>3, JournaledTwice
<1>5. CASE ~(p \in DOMAIN w.files /\ end > w.files[p].size)
  BY <1>1, <1>3, <1>5
<1> QED
  BY <1>4, <1>5

LEMMA TruncateJournaled ==
    ASSUME NEW c, WellFormed(c), NEW p, NEW len
    PROVE  Journaled(c, IdbTruncate(c, p, len))
<1>1. CASE p \notin DOMAIN c.files
  BY <1>1 DEF IdbTruncate, Journaled, Agree
<1>2. CASE p \in DOMAIN c.files
  <2> DEFINE f == [c.files EXCEPT ![p].size = len]
             gone == {k \in DOMAIN c.blocks :
                        k[1] = p /\ k[2] >= (len + BlockBytes - 1) \div BlockBytes}
             d == [c EXCEPT !.files[p].size = len]
             e == TouchFile(DropBlocksFrom(d, p, len), p)
  <2>1. DOMAIN d = CacheFields /\ d.files = f /\ d.blocks = c.blocks
        /\ d.dirtyFiles = c.dirtyFiles /\ d.dirtyBlocks = c.dirtyBlocks
        /\ d.deletedFiles = c.deletedFiles /\ d.deletedBlocks = c.deletedBlocks
    BY DEF WellFormed, CacheFields
  <2>2. /\ IsFcn(f) /\ DOMAIN f = DOMAIN c.files
        /\ \A x \in DOMAIN c.files : x # p => f[x] = c.files[x]
    BY DEF IsFcn
  <2>3. DropBlocksFrom(d, p, len) =
          [d EXCEPT !.blocks = Drop(@, gone), !.dirtyBlocks = @ \ gone,
                    !.deletedBlocks = @ \cup gone]
    <3> HIDE DEF d
    <3> QED
      BY <2>1 DEF DropBlocksFrom
  <2>4. gone \subseteq DOMAIN c.blocks
    OBVIOUS
  <2> HIDE DEF d, gone, f
  <2>5. /\ DOMAIN e = CacheFields /\ e.timer = TRUE
        /\ e.files = f /\ e.blocks = Drop(c.blocks, gone)
        /\ e.dirtyFiles = c.dirtyFiles \cup {p} /\ e.deletedFiles = c.deletedFiles \ {p}
        /\ e.dirtyBlocks = c.dirtyBlocks \ gone
        /\ e.deletedBlocks = c.deletedBlocks \cup gone
    BY <2>1, <2>3 DEF TouchFile, Schedule, CacheFields
  <2>6. IdbTruncate(c, p, len) = e
    BY <1>2 DEF IdbTruncate, d
  <2> HIDE DEF e
  <2>7. /\ IsFcn(Drop(c.blocks, gone)) /\ DOMAIN Drop(c.blocks, gone) = DOMAIN c.blocks \ gone
        /\ \A k \in DOMAIN c.blocks \ gone : Drop(c.blocks, gone)[k] = c.blocks[k]
    BY DEF Drop, IsFcn
  <2>8. WellFormed(e)
    BY <1>2, <2>2, <2>5, <2>7 DEF WellFormed
  <2>9. Journaled(c, e)
    BY <2>2, <2>4, <2>5, <2>7, <2>8 DEF Journaled, PendingFiles, PendingBlocks, Agree, WellFormed
  <2> QED
    BY <2>6, <2>9
<1> QED
  BY <1>1, <1>2

LEMMA ForgetJournaled ==
    ASSUME NEW c, WellFormed(c), NEW S
    PROVE  Journaled(c, Forget(c, S))
<1> DEFINE gone == {k \in DOMAIN c.blocks : k[1] \in S}
           e == Forget(c, S)
<1>1. gone \subseteq DOMAIN c.blocks
  OBVIOUS
<1>2. e = Schedule([c EXCEPT !.files = Drop(@, S), !.dirtyFiles = @ \ S,
                             !.deletedFiles = @ \cup S,
                             !.blocks = Drop(@, gone), !.dirtyBlocks = @ \ gone,
                             !.deletedBlocks = @ \cup gone])
  BY DEF Forget
<1> HIDE DEF gone, e
<1>3. /\ DOMAIN e = CacheFields /\ e.timer = TRUE
      /\ e.files = Drop(c.files, S) /\ e.blocks = Drop(c.blocks, gone)
      /\ e.dirtyFiles = c.dirtyFiles \ S /\ e.deletedFiles = c.deletedFiles \cup S
      /\ e.dirtyBlocks = c.dirtyBlocks \ gone
      /\ e.deletedBlocks = c.deletedBlocks \cup gone
  BY <1>2 DEF Schedule, WellFormed, CacheFields
<1>4. /\ IsFcn(Drop(c.files, S)) /\ DOMAIN Drop(c.files, S) = DOMAIN c.files \ S
      /\ \A p \in DOMAIN c.files \ S : Drop(c.files, S)[p] = c.files[p]
      /\ IsFcn(Drop(c.blocks, gone)) /\ DOMAIN Drop(c.blocks, gone) = DOMAIN c.blocks \ gone
      /\ \A k \in DOMAIN c.blocks \ gone : Drop(c.blocks, gone)[k] = c.blocks[k]
  BY DEF Drop, IsFcn
<1>5. WellFormed(e)
  BY <1>3, <1>4 DEF WellFormed
<1>6. Journaled(c, e)
  BY <1>1, <1>3, <1>4, <1>5 DEF Journaled, PendingFiles, PendingBlocks, Agree, WellFormed
<1> QED
  BY <1>6 DEF e

LEMMA CreateDirJournaled ==
    ASSUME NEW c, WellFormed(c), NEW d
    PROVE  Journaled(c, IdbCreateDirAll(c, d))
<1> DEFINE new == (Ancestors(d) \ {Root}) \ DOMAIN c.files
           entry == [size |-> 0, directory |-> TRUE]
           f == [x \in DOMAIN c.files \cup new |-> IF x \in new THEN entry ELSE c.files[x]]
           e == Schedule([c EXCEPT !.files = f, !.dirtyFiles = @ \cup new,
                                   !.deletedFiles = @ \ new])
<1>1. IdbCreateDirAll(c, d) = IF new = {} THEN c ELSE e
  BY DEF IdbCreateDirAll
<1>2. new \cap DOMAIN c.files = {}
  OBVIOUS
<1> HIDE DEF new, entry
<1>3. /\ IsFcn(f) /\ DOMAIN f = DOMAIN c.files \cup new
      /\ \A x \in DOMAIN c.files : f[x] = c.files[x]
  BY <1>2 DEF IsFcn
<1> HIDE DEF f
<1>4. /\ DOMAIN e = CacheFields /\ e.timer = TRUE
      /\ e.files = f /\ e.blocks = c.blocks
      /\ e.dirtyFiles = c.dirtyFiles \cup new /\ e.deletedFiles = c.deletedFiles \ new
      /\ e.dirtyBlocks = c.dirtyBlocks /\ e.deletedBlocks = c.deletedBlocks
  BY DEF Schedule, WellFormed, CacheFields
<1> HIDE DEF e
<1>5. WellFormed(e)
  BY <1>2, <1>3, <1>4 DEF WellFormed
<1>6. Journaled(c, e)
  BY <1>2, <1>3, <1>4, <1>5 DEF Journaled, PendingFiles, PendingBlocks, Agree, WellFormed
<1>7. Journaled(c, c)
  BY DEF Journaled, Agree
<1> QED
  BY <1>1, <1>6, <1>7

-------------------------------------------------------------------------------
(* Transactions. *)

\* A commit in one object store.
Stored(f, put, gone) == Drop(Merge(f, put), gone)

LEMMA StoredIs ==
    ASSUME NEW f, NEW put, NEW gone, DOMAIN put \cap gone = {}
    PROVE  /\ IsFcn(Stored(f, put, gone))
           /\ \A k : k \notin DOMAIN put \cup gone => Agree(f, Stored(f, put, gone), k)
           /\ \A k \in DOMAIN put \cup gone : Agree(put, Stored(f, put, gone), k)
<1>1. /\ DOMAIN Stored(f, put, gone) = (DOMAIN f \cup DOMAIN put) \ gone
      /\ \A k \in (DOMAIN f \cup DOMAIN put) \ gone :
            Stored(f, put, gone)[k] = IF k \in DOMAIN put THEN put[k] ELSE f[k]
      /\ IsFcn(Stored(f, put, gone))
  BY DEF Stored, Drop, Merge, IsFcn
<1> QED
  BY <1>1 DEF Agree

\* Functions that agree on every key are equal.
LEMMA SameFcn ==
    ASSUME NEW f, NEW g, IsFcn(f), IsFcn(g), \A k : Agree(f, g, k)
    PROVE  f = g
<1>1. DOMAIN f = DOMAIN g
  BY DEF Agree
<1>2. \A k \in DOMAIN f : f[k] = g[k]
  BY DEF Agree
<1> QED
  BY <1>1, <1>2 DEF IsFcn

LEMMA CommitIs ==
    ASSUME NEW s, NEW tx
    PROVE  /\ Commit(s, tx).files = Stored(s.files, tx.putFiles, tx.goneFiles)
           /\ Commit(s, tx).blocks = Stored(s.blocks, tx.putBlocks, tx.goneBlocks)
           /\ Commit(s, tx) = [files |-> Commit(s, tx).files, blocks |-> Commit(s, tx).blocks]
  BY DEF Commit, Stored

LEMMA TransactionIs ==
    ASSUME NEW c, WellFormed(c)
    PROVE  LET tx == Transaction(c)
           IN  /\ IsFcn(tx.putFiles) /\ IsFcn(tx.putBlocks)
               /\ DOMAIN tx.putFiles \cap tx.goneFiles = {}
               /\ DOMAIN tx.putBlocks \cap tx.goneBlocks = {}
               /\ TxFiles(tx) = PendingFiles(c) /\ TxBlocks(tx) = PendingBlocks(c)
               /\ \A p \in TxFiles(tx) : Agree(c.files, tx.putFiles, p)
               /\ \A k \in TxBlocks(tx) : Agree(c.blocks, tx.putBlocks, k)
<1> DEFINE tx == Transaction(c)
<1>1. /\ tx.putFiles = [p \in c.dirtyFiles \cap DOMAIN c.files |-> c.files[p]]
      /\ tx.putBlocks = [k \in c.dirtyBlocks \cap DOMAIN c.blocks |-> c.blocks[k]]
      /\ tx.goneFiles = c.deletedFiles /\ tx.goneBlocks = c.deletedBlocks
  BY DEF Transaction
<1> HIDE DEF tx
<1>2. /\ IsFcn(tx.putFiles) /\ IsFcn(tx.putBlocks)
      /\ DOMAIN tx.putFiles = c.dirtyFiles /\ DOMAIN tx.putBlocks = c.dirtyBlocks
      /\ \A p \in c.dirtyFiles : tx.putFiles[p] = c.files[p]
      /\ \A k \in c.dirtyBlocks : tx.putBlocks[k] = c.blocks[k]
  BY <1>1 DEF IsFcn, WellFormed
<1>3. TxFiles(tx) = PendingFiles(c) /\ TxBlocks(tx) = PendingBlocks(c)
  BY <1>1, <1>2 DEF TxFiles, TxBlocks, PendingFiles, PendingBlocks
<1>4. /\ \A p \in TxFiles(tx) : Agree(c.files, tx.putFiles, p)
      /\ \A k \in TxBlocks(tx) : Agree(c.blocks, tx.putBlocks, k)
  BY <1>1, <1>2 DEF TxFiles, TxBlocks, Agree, WellFormed
<1>5. /\ DOMAIN tx.putFiles \cap tx.goneFiles = {}
      /\ DOMAIN tx.putBlocks \cap tx.goneBlocks = {}
  BY <1>1, <1>2 DEF WellFormed
<1> QED
  BY <1>2, <1>3, <1>4, <1>5 DEF tx

\* A drain that begins with everything else stored brings the store to the
\* cache as it is at that moment.
LEMMA DrainWhole ==
    ASSUME NEW c, NEW s, WellFormed(c), IsStore(s),
           \A p : p \notin PendingFiles(c) => Agree(c.files, s.files, p),
           \A k : k \notin PendingBlocks(c) => Agree(c.blocks, s.blocks, k)
    PROVE  Commit(s, Transaction(c)) = [files |-> c.files, blocks |-> c.blocks]
<1> DEFINE tx == Transaction(c)
           F == Stored(s.files, tx.putFiles, tx.goneFiles)
           B == Stored(s.blocks, tx.putBlocks, tx.goneBlocks)
<1>1. /\ DOMAIN tx.putFiles \cap tx.goneFiles = {}
      /\ DOMAIN tx.putBlocks \cap tx.goneBlocks = {}
      /\ TxFiles(tx) = PendingFiles(c) /\ TxBlocks(tx) = PendingBlocks(c)
      /\ \A p \in TxFiles(tx) : Agree(c.files, tx.putFiles, p)
      /\ \A k \in TxBlocks(tx) : Agree(c.blocks, tx.putBlocks, k)
  BY TransactionIs
<1> HIDE DEF tx
<1>2. /\ IsFcn(F)
      /\ \A p : p \notin TxFiles(tx) => Agree(s.files, F, p)
      /\ \A p \in TxFiles(tx) : Agree(tx.putFiles, F, p)
  BY <1>1, StoredIs DEF TxFiles
<1>3. /\ IsFcn(B)
      /\ \A k : k \notin TxBlocks(tx) => Agree(s.blocks, B, k)
      /\ \A k \in TxBlocks(tx) : Agree(tx.putBlocks, B, k)
  BY <1>1, StoredIs DEF TxBlocks
<1> HIDE DEF F, B
<1>4. F = c.files
  <2>1. \A p : Agree(F, c.files, p)
    BY <1>1, <1>2 DEF Agree
  <2> QED
    BY <1>2, <2>1, SameFcn DEF WellFormed
<1>5. B = c.blocks
  <2>1. \A k : Agree(B, c.blocks, k)
    BY <1>1, <1>3 DEF Agree
  <2> QED
    BY <1>3, <2>1, SameFcn DEF WellFormed
<1> QED
  BY <1>4, <1>5, CommitIs DEF F, B, tx

-------------------------------------------------------------------------------
(* What each kind of step keeps. *)

\* A call of the engine.
LEMMA CallKeeps ==
    ASSUME NEW c, NEW s, NEW txs, NEW w, NEW n, NEW lf, NEW lb, NEW im, NEW e,
           Good(c, s, txs, w, n, lf, lb, im), Journaled(c, e)
    PROVE  Good(e, s, txs, w, n, lf, lb, im)
<1>1. \A t \in txs : Carries(t, e, s, n)
  <2> SUFFICES ASSUME NEW t \in txs
               PROVE  Carries(t, e, s, n)
    OBVIOUS
  <2>1. Carries(t, c, s, n)
    BY DEF Good
  <2>2. \A p \in TxFiles(t.tx) \ PendingFiles(e) : Agree(e.files, t.tx.putFiles, p)
    BY <2>1 DEF Carries, Journaled, Agree
  <2>3. \A k \in TxBlocks(t.tx) \ PendingBlocks(e) : Agree(e.blocks, t.tx.putBlocks, k)
    BY <2>1 DEF Carries, Journaled, Agree
  <2> QED
    BY <2>1, <2>2, <2>3 DEF Carries
<1>2. Settled(e, s, txs, lf, lb)
  <2>1. \A p : p \notin PendingFiles(e) /\ p \notin lf /\ (\A t \in txs : p \notin TxFiles(t.tx))
               => Agree(e.files, s.files, p)
    BY DEF Good, Settled, Journaled, Agree
  <2>2. \A k : k \notin PendingBlocks(e) /\ k \notin lb /\ (\A t \in txs : k \notin TxBlocks(t.tx))
               => Agree(e.blocks, s.blocks, k)
    BY DEF Good, Settled, Journaled, Agree
  <2> QED
    BY <2>1, <2>2 DEF Settled
<1>3. WellFormed(e) /\ (e = c \/ e.timer = TRUE)
  BY DEF Journaled
<1> QED
  BY <1>1, <1>2, <1>3 DEF Good

LEMMA DrainedIs ==
    ASSUME NEW c, WellFormed(c)
    PROVE  /\ WellFormed(Drained(c)) /\ Clean(Drained(c))
           /\ PendingFiles(Drained(c)) = {} /\ PendingBlocks(Drained(c)) = {}
           /\ Drained(c).files = c.files /\ Drained(c).blocks = c.blocks
<1> DEFINE e == Drained(c)
<1>1. /\ DOMAIN e = CacheFields /\ e.files = c.files /\ e.blocks = c.blocks
      /\ e.dirtyFiles = {} /\ e.dirtyBlocks = {} /\ e.deletedFiles = {} /\ e.deletedBlocks = {}
  BY DEF Drained, WellFormed, CacheFields
<1> HIDE DEF e
<1>2. WellFormed(e)
  BY <1>1 DEF WellFormed
<1> QED
  BY <1>1, <1>2 DEF Clean, PendingFiles, PendingBlocks, e

\* A drain that begins while no transaction runs: one transaction takes every
\* pending key.
LEMMA DrainKeeps ==
    ASSUME NEW c, NEW s, NEW w \in Nat, NEW n \in Nat, NEW lf, NEW lb, NEW im, NEW t,
           WellFormed(c), IsStore(s),
           Settled(c, s, {}, lf, lb),
           n = 0 => lf = {} /\ lb = {} /\ s = im,
           t.tx = Transaction(c),
           n = 0 => t.image = [files |-> c.files, blocks |-> c.blocks]
    PROVE  Good(Drained(c), s, {t}, w, n, lf, lb, im)
<1> DEFINE d == Drained(c)
           tx == Transaction(c)
<1>1. /\ WellFormed(d) /\ Clean(d) /\ PendingFiles(d) = {} /\ PendingBlocks(d) = {}
      /\ d.files = c.files /\ d.blocks = c.blocks
  BY DrainedIs
<1>2. /\ IsFcn(tx.putFiles) /\ IsFcn(tx.putBlocks)
      /\ DOMAIN tx.putFiles \cap tx.goneFiles = {}
      /\ DOMAIN tx.putBlocks \cap tx.goneBlocks = {}
      /\ TxFiles(tx) = PendingFiles(c) /\ TxBlocks(tx) = PendingBlocks(c)
      /\ \A p \in TxFiles(tx) : Agree(c.files, tx.putFiles, p)
      /\ \A k \in TxBlocks(tx) : Agree(c.blocks, tx.putBlocks, k)
  BY TransactionIs
<1>3. n = 0 => Commit(s, tx) = t.image
  <2> SUFFICES ASSUME n = 0
               PROVE  Commit(s, tx) = t.image
    OBVIOUS
  <2>1. /\ \A p : p \notin PendingFiles(c) => Agree(c.files, s.files, p)
        /\ \A k : k \notin PendingBlocks(c) => Agree(c.blocks, s.blocks, k)
    BY DEF Settled
  <2> QED
    BY <2>1, DrainWhole
<1> HIDE DEF d, tx
<1>4. Carries(t, d, s, n)
  BY <1>1, <1>2, <1>3 DEF Carries, tx
<1>5. Settled(d, s, {t}, lf, lb)
  <2>1. \A p : p \notin PendingFiles(d) /\ p \notin lf /\ p \notin TxFiles(t.tx)
               => Agree(d.files, s.files, p)
    BY <1>1, <1>2 DEF Settled, tx
  <2>2. \A k : k \notin PendingBlocks(d) /\ k \notin lb /\ k \notin TxBlocks(t.tx)
               => Agree(d.blocks, s.blocks, k)
    BY <1>1, <1>2 DEF Settled, tx
  <2> QED
    BY <2>1, <2>2 DEF Settled
<1>6. Good(d, s, {t}, w, n, lf, lb, im)
  BY <1>1, <1>4, <1>5 DEF Good
<1> QED
  BY <1>6 DEF d

\* The store after the running transaction t has taken effect.
LEMMA CommitSettles ==
    ASSUME NEW c, NEW s, NEW txs, NEW w, NEW n, NEW lf, NEW lb, NEW im, NEW t, NEW after,
           t \in txs, Good(c, s, txs, w, n, lf, lb, im), after = Commit(s, t.tx)
    PROVE  /\ IsStore(after)
           /\ Settled(c, after, {}, lf \ TxFiles(t.tx), lb \ TxBlocks(t.tx))
<1>1. Carries(t, c, s, n) /\ txs = {t}
  BY DEF Good
<1>2. /\ after.files = Stored(s.files, t.tx.putFiles, t.tx.goneFiles)
      /\ after.blocks = Stored(s.blocks, t.tx.putBlocks, t.tx.goneBlocks)
  BY CommitIs
<1>3. /\ IsFcn(after.files)
      /\ \A p : p \notin TxFiles(t.tx) => Agree(s.files, after.files, p)
      /\ \A p \in TxFiles(t.tx) : Agree(t.tx.putFiles, after.files, p)
  BY <1>1, <1>2, StoredIs DEF TxFiles, Carries
<1>4. /\ IsFcn(after.blocks)
      /\ \A k : k \notin TxBlocks(t.tx) => Agree(s.blocks, after.blocks, k)
      /\ \A k \in TxBlocks(t.tx) : Agree(t.tx.putBlocks, after.blocks, k)
  BY <1>1, <1>2, StoredIs DEF TxBlocks, Carries
<1>5. \A p : p \notin PendingFiles(c) /\ p \notin lf \ TxFiles(t.tx)
             => Agree(c.files, after.files, p)
  <2> SUFFICES ASSUME NEW p, p \notin PendingFiles(c), p \notin lf \ TxFiles(t.tx)
               PROVE  Agree(c.files, after.files, p)
    OBVIOUS
  <2>1. CASE p \in TxFiles(t.tx)
    BY <1>1, <1>3, <2>1 DEF Carries, Agree
  <2>2. CASE p \notin TxFiles(t.tx)
    <3>1. Agree(c.files, s.files, p)
      BY <1>1, <2>2 DEF Good, Settled
    <3> QED
      BY <1>3, <2>2, <3>1 DEF Agree
  <2> QED
    BY <2>1, <2>2
<1>6. \A k : k \notin PendingBlocks(c) /\ k \notin lb \ TxBlocks(t.tx)
             => Agree(c.blocks, after.blocks, k)
  <2> SUFFICES ASSUME NEW k, k \notin PendingBlocks(c), k \notin lb \ TxBlocks(t.tx)
               PROVE  Agree(c.blocks, after.blocks, k)
    OBVIOUS
  <2>1. CASE k \in TxBlocks(t.tx)
    BY <1>1, <1>4, <2>1 DEF Carries, Agree
  <2>2. CASE k \notin TxBlocks(t.tx)
    <3>1. Agree(c.blocks, s.blocks, k)
      BY <1>1, <2>2 DEF Good, Settled
    <3> QED
      BY <1>4, <2>2, <3>1 DEF Agree
  <2> QED
    BY <2>1, <2>2
<1>7. Settled(c, after, {}, lf \ TxFiles(t.tx), lb \ TxBlocks(t.tx))
  BY <1>5, <1>6 DEF Settled
<1>8. IsStore(after)
  <2>1. after = [files |-> after.files, blocks |-> after.blocks]
    BY CommitIs
  <2> QED
    BY <1>3, <1>4, <2>1 DEF IsStore
<1> QED
  BY <1>7, <1>8

\* flush() called on a cache c that differs from the invariant's at most in
\* its timer, which may have fired.
LEMMA FlushKeeps ==
    ASSUME Inv, NEW c, WellFormed(c),
           c.files = cache.files, c.blocks = cache.blocks,
           c.dirtyFiles = cache.dirtyFiles, c.deletedFiles = cache.deletedFiles,
           c.dirtyBlocks = cache.dirtyBlocks, c.deletedBlocks = cache.deletedBlocks,
           Flush(c), UNCHANGED <<store, image, lostFiles, lostBlocks, failures>>
    PROVE  Inv'
<1>1. /\ PendingFiles(c) = PendingFiles(cache) /\ PendingBlocks(c) = PendingBlocks(cache)
      /\ Clean(c) <=> Clean(cache)
  BY DEF PendingFiles, PendingBlocks, Clean
<1>2. /\ Good(cache, store, inFlight, waiting, failures, lostFiles, lostBlocks, image)
      /\ waiting \in Nat /\ failures \in Nat
  BY DEF Inv, Good
<1>3. Settled(c, store, inFlight, lostFiles, lostBlocks)
  BY <1>1, <1>2 DEF Good, Settled
<1>4. \A t \in inFlight : Carries(t, c, store, failures)
  BY <1>1, <1>2 DEF Good, Carries
<1>5. CASE inFlight # {}
  <2>1. waiting' = waiting + 1 /\ cache' = c /\ inFlight' = inFlight
    BY <1>5 DEF Flush
  <2>2. waiting + 1 \in Nat /\ waiting + 1 > 0
    BY <1>2
  <2>3. Good(c, store, inFlight, waiting + 1, failures, lostFiles, lostBlocks, image)
    BY <1>2, <1>3, <1>4, <2>2 DEF Good
  <2> QED
    BY <2>1, <2>3 DEF Inv
<1>6. CASE inFlight = {} /\ Clean(c)
  <2>1. waiting' = waiting /\ cache' = c /\ inFlight' = inFlight
    BY <1>6 DEF Flush
  <2>2. Good(c, store, inFlight, waiting, failures, lostFiles, lostBlocks, image)
    BY <1>2, <1>3, <1>4, <1>6 DEF Good
  <2> QED
    BY <2>1, <2>2 DEF Inv
<1>7. CASE inFlight = {} /\ ~ Clean(c)
  <2> DEFINE t == [tx |-> Transaction(c), image |-> Image(c)]
  <2>1. waiting' = waiting /\ cache' = Drained(c) /\ inFlight' = {t}
    BY <1>7 DEF Flush, Starts
  <2>2. /\ t.tx = Transaction(c)
        /\ failures = 0 => t.image = [files |-> c.files, blocks |-> c.blocks]
    BY DEF Image
  <2> HIDE DEF t
  <2>3. Good(Drained(c), store, {t}, waiting, failures, lostFiles, lostBlocks, image)
    <3>1. /\ IsStore(store)
          /\ failures = 0 => lostFiles = {} /\ lostBlocks = {} /\ store = image
      BY <1>2 DEF Good
    <3>2. Settled(c, store, {}, lostFiles, lostBlocks)
      BY <1>3, <1>7
    <3> QED
      BY <1>2, <2>2, <3>1, <3>2, DrainKeeps
  <2> QED
    BY <2>1, <2>3 DEF Inv
<1> QED
  BY <1>5, <1>6, <1>7

LEMMA TimerKeeps ==
    ASSUME Inv, TimerFires
    PROVE  Inv'
<1> DEFINE c == [cache EXCEPT !.timer = FALSE]
<1>1. /\ DOMAIN c = CacheFields
      /\ c.files = cache.files /\ c.blocks = cache.blocks
      /\ c.dirtyFiles = cache.dirtyFiles /\ c.deletedFiles = cache.deletedFiles
      /\ c.dirtyBlocks = cache.dirtyBlocks /\ c.deletedBlocks = cache.deletedBlocks
  BY DEF Inv, Good, WellFormed, CacheFields
<1>2. Flush(c) /\ UNCHANGED <<store, image, lostFiles, lostBlocks, failures>>
  BY DEF TimerFires
<1> HIDE DEF c
<1>3. WellFormed(c)
  BY <1>1 DEF Inv, Good, WellFormed
<1> QED
  BY <1>1, <1>2, <1>3, FlushKeeps

LEMMA CallFlushKeeps ==
    ASSUME Inv, CallFlush
    PROVE  Inv'
<1>1. WellFormed(cache)
  BY DEF Inv, Good
<1> QED
  BY <1>1, FlushKeeps DEF CallFlush

LEMMA CompleteKeeps ==
    ASSUME Inv, TxCompletes
    PROVE  Inv'
<1>1. PICK t \in inFlight :
        /\ store' = Commit(store, t.tx)
        /\ image' = IF failures = 0 THEN t.image ELSE EmptyStore
        /\ lostFiles' = lostFiles \ TxFiles(t.tx)
        /\ lostBlocks' = lostBlocks \ TxBlocks(t.tx)
        /\ IF waiting > 0 /\ ~ Clean(cache)
           THEN /\ inFlight' = Starts(cache) /\ cache' = Drained(cache)
                /\ waiting' = waiting - 1
           ELSE inFlight' = {} /\ waiting' = 0 /\ UNCHANGED cache
        /\ failures' = failures
  BY DEF TxCompletes
<1> DEFINE after == Commit(store, t.tx)
           lf == lostFiles \ TxFiles(t.tx)
           lb == lostBlocks \ TxBlocks(t.tx)
<1>2. /\ Good(cache, store, inFlight, waiting, failures, lostFiles, lostBlocks, image)
      /\ waiting \in Nat /\ failures \in Nat /\ WellFormed(cache)
  BY DEF Inv, Good
<1>3. /\ IsStore(after)
      /\ Settled(cache, after, {}, lf, lb)
  <2>1. after = Commit(store, t.tx)
    OBVIOUS
  <2> HIDE DEF after
  <2> QED
    BY <1>1, <1>2, <2>1, CommitSettles
<1>4. failures = 0 => lf = {} /\ lb = {} /\ after = image'
  <2>1. failures = 0 => after = t.image
    BY <1>1, <1>2 DEF Good, Carries
  <2> QED
    BY <1>1, <1>2, <2>1 DEF Good
<1>5. store' = after /\ lostFiles' = lf /\ lostBlocks' = lb
  BY <1>1
<1> HIDE DEF after, lf, lb
<1>6. CASE waiting > 0 /\ ~ Clean(cache)
  <2> DEFINE u == [tx |-> Transaction(cache), image |-> Image(cache)]
  <2>1. waiting' = waiting - 1 /\ cache' = Drained(cache) /\ inFlight' = {u}
    BY <1>1, <1>6 DEF Starts
  <2>2. /\ u.tx = Transaction(cache)
        /\ failures = 0 => u.image = [files |-> cache.files, blocks |-> cache.blocks]
    BY DEF Image
  <2> HIDE DEF u
  <2>3. waiting - 1 \in Nat
    BY <1>2, <1>6
  <2>4. Good(Drained(cache), after, {u}, waiting - 1, failures, lf, lb, image')
    BY <1>2, <1>3, <1>4, <2>2, <2>3, DrainKeeps
  <2> QED
    BY <1>1, <1>5, <2>1, <2>4 DEF Inv
<1>7. CASE ~(waiting > 0 /\ ~ Clean(cache))
  <2>1. waiting' = 0 /\ cache' = cache /\ inFlight' = {}
    BY <1>1, <1>7
  <2>2. (~ Clean(cache) /\ failures = 0) => cache.timer = TRUE
    BY <1>2, <1>7 DEF Good
  <2>3. Good(cache, after, {}, 0, failures, lf, lb, image')
    BY <1>2, <1>3, <1>4, <2>2 DEF Good
  <2> QED
    BY <1>1, <1>5, <2>1, <2>3 DEF Inv
<1> QED
  BY <1>6, <1>7

LEMMA AbortKeeps ==
    ASSUME Inv, TxAborts
    PROVE  Inv'
<1>1. PICK t \in inFlight :
        /\ failures' = failures + 1 /\ inFlight' = {} /\ waiting' = 0
        /\ lostFiles' = lostFiles \cup TxFiles(t.tx)
        /\ lostBlocks' = lostBlocks \cup TxBlocks(t.tx)
        /\ cache' = cache /\ store' = store /\ image' = image
  BY DEF TxAborts
<1> DEFINE lf == lostFiles \cup TxFiles(t.tx)
           lb == lostBlocks \cup TxBlocks(t.tx)
<1>2. /\ Good(cache, store, inFlight, waiting, failures, lostFiles, lostBlocks, image)
      /\ failures + 1 \in Nat /\ failures + 1 # 0 /\ inFlight = {t}
  BY DEF Inv, Good
<1>3. Settled(cache, store, {}, lf, lb)
  <2>1. \A p : p \notin PendingFiles(cache) /\ p \notin lf => Agree(cache.files, store.files, p)
    BY <1>2 DEF Good, Settled
  <2>2. \A k : k \notin PendingBlocks(cache) /\ k \notin lb => Agree(cache.blocks, store.blocks, k)
    BY <1>2 DEF Good, Settled
  <2> QED
    BY <2>1, <2>2 DEF Settled
<1> HIDE DEF lf, lb
<1>4. Good(cache, store, {}, 0, failures + 1, lf, lb, image)
  BY <1>2, <1>3 DEF Good
<1> QED
  BY <1>1, <1>4 DEF Inv, lf, lb

\* A cache loaded from the store s.
LEMMA ReloadKeeps ==
    ASSUME NEW s, NEW n \in Nat, NEW im,
           IsStore(s), n = 0 => s = im
    PROVE  Good(IdbReload(s), s, {}, 0, n, {}, {}, im)
<1> DEFINE c == IdbReload(s)
<1>1. /\ DOMAIN c = CacheFields /\ c.files = s.files /\ c.blocks = s.blocks
      /\ c.dirtyFiles = {} /\ c.dirtyBlocks = {} /\ c.deletedFiles = {} /\ c.deletedBlocks = {}
  BY DEF IdbReload, EmptyCache, CacheFields
<1> HIDE DEF c
<1>2. WellFormed(c) /\ Clean(c)
  BY <1>1 DEF WellFormed, Clean, IsStore
<1>3. Settled(c, s, {}, {}, {})
  BY <1>1 DEF Settled, Agree
<1>4. Good(c, s, {}, 0, n, {}, {}, im)
  BY <1>2, <1>3 DEF Good
<1> QED
  BY <1>4 DEF c

LEMMA IdbDeathKeeps ==
    ASSUME Inv, IdbTabDies
    PROVE  Inv'
<1>1. PICK done \in SUBSET inFlight :
        /\ store' = IF done = {} THEN store
                    ELSE Commit(store, (CHOOSE t \in done : TRUE).tx)
        /\ image' = IF done = {} THEN image ELSE (CHOOSE t \in done : TRUE).image
  BY DEF IdbTabDies
<1>2. /\ cache' = IdbReload(store') /\ inFlight' = {} /\ waiting' = 0
      /\ lostFiles' = {} /\ lostBlocks' = {} /\ failures' = failures
  BY DEF IdbTabDies
<1>3. /\ Good(cache, store, inFlight, waiting, failures, lostFiles, lostBlocks, image)
      /\ failures \in Nat
  BY DEF Inv, Good
<1>4. /\ IsStore(store') /\ (failures = 0 => store' = image')
  <2>1. CASE done = {}
    BY <1>1, <1>3, <2>1 DEF Good
  <2>2. CASE done # {}
    <3> DEFINE t == CHOOSE u \in done : TRUE
    <3>1. t \in inFlight
      BY <2>2
    <3>2. store' = Commit(store, t.tx) /\ image' = t.image
      BY <1>1, <2>2
    <3> HIDE DEF t
    <3> DEFINE after == store'
    <3>3. after = Commit(store, t.tx)
      BY <3>2
    <3> HIDE DEF after
    <3>4. IsStore(after)
      BY <1>3, <3>1, <3>3, CommitSettles
    <3>5. failures = 0 => after = t.image
      BY <1>3, <3>1, <3>3 DEF Good, Carries
    <3> QED
      BY <3>2, <3>4, <3>5 DEF after
  <2> QED
    BY <2>1, <2>2
<1>5. Good(IdbReload(store'), store', {}, 0, failures, {}, {}, image')
  BY <1>3, <1>4, ReloadKeeps
<1> QED
  BY <1>2, <1>5 DEF Inv

-------------------------------------------------------------------------------
(* The engine's calls. *)

\* Only the cache changes, and what changed in it is pending.
LEMMA OnlyKeeps ==
    ASSUME Inv, NEW q, NEW e, Only(q, e), Journaled(cache, e)
    PROVE  Inv'
<1>1. Good(e, store, inFlight, waiting, failures, lostFiles, lostBlocks, image)
  BY CallKeeps DEF Inv
<1> QED
  BY <1>1 DEF Only, Inv

LEMMA OpenKeeps ==
    ASSUME Inv, NEW h, NEW p, NEW mode, Open(h, p, mode)
    PROVE  Inv'
<1> DEFINE web == HostOpen(p, mode)
<1>1. Only(web.pool, web.cache)
  BY DEF Open
<1>2. web.cache = cache \/ web.cache = IdbOpen(cache, p)
  BY DEF HostOpen
<1>3. WellFormed(cache)
  BY DEF Inv, Good
<1>4. Journaled(cache, cache)
  BY <1>3 DEF Journaled, Agree
<1> HIDE DEF web
<1>5. Journaled(cache, web.cache)
  BY <1>2, <1>3, <1>4, OpenJournaled
<1> QED
  BY <1>1, <1>5, OnlyKeeps

LEMMA EngineKeeps ==
    ASSUME Inv, EngineCalls
    PROVE  Inv'
<1>1. WellFormed(cache)
  BY DEF Inv, Good
<1>2. Journaled(cache, cache)
  BY <1>1 DEF Journaled, Agree
<1>3. ASSUME NEW h \in Handles, NEW p \in Used[adapter], NEW mode \in Modes, Open(h, p, mode)
      PROVE  Inv'
  BY <1>3, OpenKeeps
<1>4. ASSUME NEW h \in Handles, NEW n \in AppendSizes, AppendBytes(h, n)
      PROVE  Inv'
  <2>1. PICK q, p, src, offset : Only(q, cache) \/ Only(q, IdbWrite(cache, p, src, offset))
    BY <1>4 DEF AppendBytes
  <2> QED
    BY <1>1, <1>2, <2>1, WriteJournaled, OnlyKeeps
<1>5. ASSUME NEW h \in Handles, NEW len \in 0..MaxLen, Cut(h, len)
      PROVE  Inv'
  <2>1. PICK q, p : Only(q, cache) \/ Only(q, IdbTruncate(cache, p, len))
    BY <1>5 DEF Cut
  <2> QED
    BY <1>1, <1>2, <2>1, TruncateJournaled, OnlyKeeps
<1>6. ASSUME NEW h \in Handles, SyncData(h)
      PROVE  Inv'
  BY <1>1, <1>6, ScheduleJournaled, OnlyKeeps DEF SyncData
<1>7. ASSUME NEW h \in Handles, Close(h)
      PROVE  Inv'
  BY <1>2, <1>7, OnlyKeeps DEF Close
<1>8. ASSUME NEW p \in Used[adapter], Remove(p)
      PROVE  Inv'
  <2>1. PICK q : Only(q, cache) \/ Only(q, Forget(cache, {p}))
    BY <1>8 DEF Remove, IdbRemoveFile
  <2> QED
    BY <1>1, <1>2, <2>1, ForgetJournaled, OnlyKeeps
<1>9. ASSUME NEW d \in Dirs, CreateDir(d)
      PROVE  Inv'
  <2>1. PICK q : Only(q, cache) \/ Only(q, IdbCreateDirAll(cache, d))
    BY <1>9 DEF CreateDir
  <2> QED
    BY <1>1, <1>2, <2>1, CreateDirJournaled, OnlyKeeps
<1>10. ASSUME NEW d \in Dirs, RemoveDir(d)
       PROVE  Inv'
  <2>1. PICK q, S : Only(q, cache) \/ Only(q, Forget(cache, S))
    BY <1>10 DEF RemoveDir, IdbRemoveDirAll
  <2> QED
    BY <1>1, <1>2, <2>1, ForgetJournaled, OnlyKeeps
<1> QED
  BY <1>3, <1>4, <1>5, <1>6, <1>7, <1>8, <1>9, <1>10 DEF EngineCalls

-------------------------------------------------------------------------------
(* The theorems. *)

LEMMA InitInv ==
    Init => Inv
<1> SUFFICES ASSUME Init
             PROVE  Inv
  OBVIOUS
<1>1. /\ DOMAIN cache = CacheFields /\ cache.files = <<>> /\ cache.blocks = <<>>
      /\ cache.dirtyFiles = {} /\ cache.dirtyBlocks = {}
      /\ cache.deletedFiles = {} /\ cache.deletedBlocks = {}
      /\ store.files = <<>> /\ store.blocks = <<>> /\ store = image
      /\ inFlight = {} /\ waiting = 0 /\ failures = 0 /\ lostFiles = {} /\ lostBlocks = {}
  BY DEF Init, EmptyCache, EmptyStore, CacheFields
<1>2. IsFcn(<<>>)
  BY DEF IsFcn
<1>3. WellFormed(cache) /\ Clean(cache)
  BY <1>1, <1>2 DEF WellFormed, Clean
<1>4. Settled(cache, store, inFlight, lostFiles, lostBlocks)
  BY <1>1 DEF Settled, Agree
<1>5. IsStore(store)
  BY <1>1, <1>2 DEF Init, EmptyStore, IsStore
<1> QED
  BY <1>1, <1>3, <1>4, <1>5 DEF Inv, Good

LEMMA NextInv ==
    Inv /\ [Next]_vars => Inv'
<1> SUFFICES ASSUME Inv, [Next]_vars
             PROVE  Inv'
  OBVIOUS
<1>1. CASE ~ misused /\ EngineCalls
  BY <1>1, EngineKeeps
<1>2. CASE TimerFires
  BY <1>2, TimerKeeps
<1>3. CASE CallFlush
  BY <1>3, CallFlushKeeps
<1>4. CASE TxCompletes
  BY <1>4, CompleteKeeps
<1>5. CASE TxAborts
  BY <1>5, AbortKeeps
<1>6. CASE ~ misused /\ OpfsTabDies
  BY <1>6 DEF OpfsTabDies, idbVars, Inv
<1>7. CASE ~ misused /\ IdbTabDies
  BY <1>7, IdbDeathKeeps
<1>8. CASE UNCHANGED vars
  BY <1>8 DEF vars, idbVars, Inv
<1> QED
  BY <1>1, <1>2, <1>3, <1>4, <1>5, <1>6, <1>7, <1>8 DEF Next

LEMMA AlwaysInv ==
    Spec => []Inv
<1>1. Init => Inv
  BY InitInv
<1>2. Inv /\ [Next]_vars => Inv'
  BY NextInv
<1> QED
  BY <1>1, <1>2, PTL DEF Spec

\* Until a transaction has aborted, IndexedDB holds the whole cache as one
\* drain saw it, wherever the tab goes away.
THEOREM StoreHoldsOneMoment ==
    Spec => []StoreIsOneMoment
<1>1. Inv => StoreIsOneMoment
  BY DEF Inv, Good, StoreIsOneMoment
<1> QED
  BY <1>1, AlwaysInv, PTL

\* A key that IndexedDB does not have as the cache does is pending, carried by
\* the running transaction, or lost with an aborted one.
THEOREM NothingElseIsMissing ==
    Spec => []OnlyLostKeysMissing
<1>1. Inv => OnlyLostKeysMissing
  <2> SUFFICES ASSUME Inv
               PROVE  OnlyLostKeysMissing
    OBVIOUS
  <2>1. Settled(cache, store, inFlight, lostFiles, lostBlocks)
    BY DEF Inv, Good
  <2>2. /\ \A p : p \notin UNION {TxFiles(t.tx) : t \in inFlight} =>
                    \A t \in inFlight : p \notin TxFiles(t.tx)
        /\ \A k : k \notin UNION {TxBlocks(t.tx) : t \in inFlight} =>
                    \A t \in inFlight : k \notin TxBlocks(t.tx)
    OBVIOUS
  <2> QED
    BY <2>1, <2>2 DEF OnlyLostKeysMissing, Settled, Agree, PendingFiles, PendingBlocks
<1> QED
  BY <1>1, AlwaysInv, PTL

\* When nothing is pending and nothing is on its way, flush() has nothing left
\* to do: with no abort before, IndexedDB holds what the cache holds.
THEOREM NothingPendingIsStored ==
    Spec => [](failures = 0 => CleanMeansStored)
<1>1. Inv => (failures = 0 => CleanMeansStored)
  <2> SUFFICES ASSUME Inv, failures = 0, Clean(cache), inFlight = {}
               PROVE  store = [files |-> cache.files, blocks |-> cache.blocks]
    BY DEF CleanMeansStored
  <2>1. /\ WellFormed(cache) /\ IsStore(store)
        /\ Settled(cache, store, {}, {}, {})
    BY DEF Inv, Good
  <2>2. PendingFiles(cache) = {} /\ PendingBlocks(cache) = {}
    BY DEF Clean, PendingFiles, PendingBlocks
  <2>3. /\ \A p : Agree(store.files, cache.files, p)
        /\ \A k : Agree(store.blocks, cache.blocks, k)
    BY <2>1, <2>2 DEF Settled, Agree
  <2>4. store.files = cache.files /\ store.blocks = cache.blocks
    BY <2>1, <2>3, SameFcn DEF IsStore, WellFormed
  <2> QED
    BY <2>1, <2>4 DEF IsStore
<1> QED
  BY <1>1, AlwaysInv, PTL

\* Until a transaction has aborted, what is pending is on its way out: the
\* debounce timer is set or a flush() waits for the running transaction.
THEOREM PendingWorkIsScheduled ==
    Spec => []PendingIsScheduled
<1>1. Inv => PendingIsScheduled
  BY DEF Inv, Good, PendingIsScheduled
<1> QED
  BY <1>1, AlwaysInv, PTL

-------------------------------------------------------------------------------
(* What the engine is shown: the inductive invariant. *)

Bytes == Files \cup {Zero}
Own(p) == Seq({Zero, p})

SlotFields == {"path", "header", "bytes"}
PoolFields == {"slot", "dirs"}

\* A slot is stored under the name it has in memory, unless that is too long.
IsSlot(x) ==
    /\ DOMAIN x = SlotFields
    /\ x.path \in Files \cup {NoPath} /\ x.bytes \in Seq(Bytes)
    /\ x.header = IF x.path \in LongPaths THEN NoPath ELSE x.path

OneSlotEach(q) ==
    \A s, t \in Slots : q.slot[s].path = q.slot[t].path /\ q.slot[s].path # NoPath => s = t

\* With a directory its ancestors are there.
Upward(D) == D \subseteq Dirs /\ Root \in D /\ \A d \in D : Ancestors(d) \subseteq D

PoolOK(q) ==
    /\ DOMAIN q = PoolFields
    /\ q.slot = [s \in Slots |-> q.slot[s]]
    /\ \A s \in Slots : IsSlot(q.slot[s])
    /\ OneSlotEach(q)
    /\ Upward(q.dirs)

\* No two files share an object.
RefOK(r) ==
    /\ r = [dirs |-> r.dirs, entry |-> r.entry, live |-> r.live]
    /\ r.dirs \subseteq Dirs
    /\ r.entry \in [Files -> Objects \cup {NoObject}]
    /\ r.live \in [Objects -> Seq(Bytes)]
    /\ \A f, g \in Files : r.entry[f] = r.entry[g] /\ r.entry[f] # NoObject => f = g

HandleFields == {"path", "slot", "object", "gone"}

\* An open handle whose file is there has the file's object.
IsHandle(r, x) ==
    /\ DOMAIN x = HandleFields
    /\ x.path \in Files /\ x.object \in Objects /\ x.gone \in BOOLEAN
    /\ ~ x.gone => r.entry[x.path] = x.object

HandlesOK(r, hs) ==
    /\ hs = [h \in Handles |-> hs[h]]
    /\ \A h \in Handles : hs[h] = NoHandle \/ IsHandle(r, hs[h])

\* The contents W of every file are those of the reference.
Matches(r, W) ==
    \A f \in Files : /\ f \notin LongPaths => W[f] = Contents(r, f)
                     /\ r.entry[f] # NoObject => W[f] # {}

\* On OPFS an open handle whose file is there has the file's slot.
Bound(q, hs) ==
    \A h \in Handles : (hs[h] # NoHandle /\ ~ hs[h].gone) =>
        /\ hs[h].slot \in Slots /\ hs[h].path \in Files
        /\ q.slot[hs[h].slot].path = hs[h].path

\* After n deaths: a first one leaves bytes in a slot without a name, a second
\* one gives such a slot a name.
Cut0(q) == \A s \in Slots : q.slot[s].path = NoPath => q.slot[s].bytes = <<>>
Cut1(q) == \A s \in Slots : q.slot[s].path \in Files \ LongPaths
                              => q.slot[s].bytes \in Own(q.slot[s].path)
OwnBytes(q, n) == (n = 0 => Cut0(q)) /\ (n <= 1 => Cut1(q))

\* Sizes and blocks, in memory, in IndexedDB and in a transaction.
SizesOK(f)  == \A p \in DOMAIN f : "size" \in DOMAIN f[p] /\ f[p].size \in Nat
BlocksOK(b) == \A k \in DOMAIN b : b[k] \in Own(k[1])

KeptFields ==
    {"files", "blocks", "dirtyFiles", "dirtyBlocks", "deletedFiles", "deletedBlocks", "timer"}
CacheOK(c) == DOMAIN c = KeptFields /\ SizesOK(c.files) /\ BlocksOK(c.blocks)

StoreOK(st) == SizesOK(st.files) /\ BlocksOK(st.blocks)
TxsOK(txs)  == \A t \in txs : SizesOK(t.tx.putFiles) /\ BlocksOK(t.tx.putBlocks)

IdbOK(c, st, txs) == CacheOK(c) /\ StoreOK(st) /\ TxsOK(txs)

OpfsShows(q) == [f \in Files |-> OpfsContents(q, f)]
IdbShows(c)  == [f \in Files |-> CachedContents(c, f)]
IdbDirs(c)   == {Root} \cup (DOMAIN c.files \cap Dirs)

\* A reference r and handles hs that an adapter showing the contents W and the
\* directories D is true to.
True(r, hs, W, D) == RefOK(r) /\ HandlesOK(r, hs) /\ Matches(r, W) /\ D = r.dirs

OpfsTrue(q, r, hs, n) ==
    /\ PoolOK(q) /\ Bound(q, hs) /\ OwnBytes(q, n)
    /\ True(r, hs, OpfsShows(q), q.dirs)

IdbTrue(c, st, txs, r, hs) ==
    /\ IdbOK(c, st, txs)
    /\ True(r, hs, IdbShows(c), IdbDirs(c))

RefInv ==
    \/ misused
    \/ /\ ~ disagreed /\ adapter \in Adapters /\ deaths \in Nat
       /\ adapter = "opfs" => OpfsTrue(pool, ref, handles, deaths)
       /\ adapter = "indexeddb" => IdbTrue(cache, store, inFlight, ref, handles)

-------------------------------------------------------------------------------
(* Directories. *)

LEMMA AncestorsAre ==
    ASSUME NEW d \in Dirs
    PROVE  /\ d \in Ancestors(d) /\ Ancestors(d) \subseteq Dirs
           /\ \A y \in Ancestors(d) \ {Root} : Parent[y] \in Ancestors(d)
<1>1. d \in Ancestors(d) /\ Ancestors(d) \subseteq Dirs
  BY DEF Ancestors
<1>2. ASSUME NEW y \in Ancestors(d) \ {Root}
      PROVE  Parent[y] \in Ancestors(d)
  <2>1. y \in Dirs \ {Root}
    BY <1>1
  <2>2. Parent[y] \in Dirs
    BY <2>1, PathsAssumption
  <2>3. ASSUME NEW S \in SUBSET Dirs, d \in S, \A x \in S \ {Root} : Parent[x] \in S
        PROVE  Parent[y] \in S
    <3>1. y \in S
      BY <2>3 DEF Ancestors
    <3> QED
      BY <2>1, <2>3, <3>1
  <2> QED
    BY <2>2, <2>3 DEF Ancestors
<1> QED
  BY <1>1, <1>2

LEMMA AncestorsOfAncestor ==
    ASSUME NEW d \in Dirs, NEW e \in Ancestors(d)
    PROVE  Ancestors(e) \subseteq Ancestors(d)
<1>1. /\ Ancestors(d) \in SUBSET Dirs
      /\ \A y \in Ancestors(d) \ {Root} : Parent[y] \in Ancestors(d)
  BY AncestorsAre
<1> DEFINE S == Ancestors(d)
<1>2. S \in SUBSET Dirs /\ e \in S /\ \A y \in S \ {Root} : Parent[y] \in S
  BY <1>1
<1> HIDE DEF S
<1>3. Ancestors(e) \subseteq S
  BY <1>2 DEF Ancestors
<1> QED
  BY <1>3 DEF S

LEMMA AncestorsOfRoot ==
    Ancestors(Root) = {Root}
<1>1. Root \in Dirs
  BY PathsAssumption
<1> DEFINE S == {Root}
<1>2. S \in SUBSET Dirs /\ Root \in S /\ \A y \in S \ {Root} : Parent[y] \in S
  BY <1>1
<1>3. Ancestors(Root) \subseteq S
  <2> HIDE DEF S
  <2> QED
    BY <1>2 DEF Ancestors
<1> QED
  BY <1>1, <1>3, AncestorsAre

LEMMA InsideIs ==
    ASSUME NEW x \in Dirs, NEW d
    PROVE  Inside(x, d) <=> d \in Ancestors(x)
BY PathsAssumption DEF Inside

LEMMA UpwardAdd ==
    ASSUME NEW D, Upward(D), NEW d \in Dirs
    PROVE  Upward(D \cup Ancestors(d))
<1>1. Ancestors(d) \subseteq Dirs /\ \A e \in Ancestors(d) : Ancestors(e) \subseteq Ancestors(d)
  BY AncestorsAre, AncestorsOfAncestor
<1> QED
  BY <1>1 DEF Upward

LEMMA UpwardWithout ==
    ASSUME NEW D, Upward(D), NEW d \in Dirs, d # Root
    PROVE  /\ Upward({x \in D : ~ Inside(x, d)})
           /\ {x \in D : ~ Inside(x, d)} \cup {Root} = {x \in D : ~ Inside(x, d)}
<1>1. Root \in D /\ D \subseteq Dirs /\ \A x \in D : Ancestors(x) \subseteq D
  BY DEF Upward
<1>2. \A x \in D : Inside(x, d) <=> d \in Ancestors(x)
  BY <1>1, InsideIs
<1>3. ~ Inside(Root, d)
  BY <1>1, <1>2, AncestorsOfRoot
<1>4. ASSUME NEW x \in D, ~ Inside(x, d), NEW y \in Ancestors(x)
      PROVE  y \in D /\ ~ Inside(y, d)
  <2>1. Ancestors(y) \subseteq Ancestors(x) /\ y \in D
    BY <1>1, AncestorsOfAncestor
  <2> QED
    BY <1>2, <1>4, <2>1
<1> QED
  BY <1>1, <1>3, <1>4 DEF Upward

-------------------------------------------------------------------------------
(* Bytes. *)

LEMMA SeqOf ==
    ASSUME NEW n \in Nat, NEW S, NEW f \in [1..n -> S]
    PROVE  f \in Seq(S) /\ Len(f) = n /\ DOMAIN f = 1..n
OBVIOUS

LEMMA SeqIs ==
    ASSUME NEW S, NEW b \in Seq(S)
    PROVE  Len(b) \in Nat /\ b \in [1..Len(b) -> S]
OBVIOUS

LEMMA SameSeq ==
    ASSUME NEW n \in Nat, NEW S, NEW a \in [1..n -> S], NEW b \in [1..n -> S],
           \A i \in 1..n : a[i] = b[i]
    PROVE  a = b
OBVIOUS

\* A cut or an extension with zeroes.
LEMMA ResizeIs ==
    ASSUME NEW S, Zero \in S, NEW b \in Seq(S), NEW n \in Nat
    PROVE  /\ Resize(b, n) \in Seq(S) /\ Len(Resize(b, n)) = n
           /\ Resize(b, n) \in [1..n -> S]
           /\ \A i \in 1..n : Resize(b, n)[i] = IF i <= Len(b) THEN b[i] ELSE Zero
<1>1. Resize(b, n) = [i \in 1..n |-> IF i <= Len(b) THEN b[i] ELSE Zero]
  BY DEF Resize
<1>2. \A i \in 1..n : (IF i <= Len(b) THEN b[i] ELSE Zero) \in S
  BY SeqIs
<1>3. Resize(b, n) \in [1..n -> S]
  BY <1>1, <1>2
<1> QED
  BY <1>1, <1>3, SeqOf

\* A write at the end appends.
LEMMA OverwriteAtEnd ==
    ASSUME NEW S, Zero \in S, NEW b \in Seq(S), NEW buf \in Seq(S)
    PROVE  Overwrite(b, buf, Len(b)) = b \o buf
<1> DEFINE n == Len(b)
           end == n + Len(buf)
           room == IF Len(b) < end THEN Resize(b, end) ELSE b
           w == [i \in 1..Len(room) |->
                    IF i > n /\ i <= end THEN buf[i - n] ELSE room[i]]
<1>1. n \in Nat /\ Len(buf) \in Nat /\ end \in Nat /\ n <= end
  BY SeqIs
<1>2. Overwrite(b, buf, Len(b)) = w
  BY DEF Overwrite
<1>3. Len(room) = end /\ \A i \in 1..n : room[i] = b[i]
  <2>1. CASE n < end
    <3>1. Resize(b, end) \in Seq(S) /\ Len(Resize(b, end)) = end
          /\ \A i \in 1..end : Resize(b, end)[i] = IF i <= Len(b) THEN b[i] ELSE Zero
      BY <1>1, ResizeIs
    <3>2. room = Resize(b, end)
      BY <2>1
    <3> HIDE DEF room
    <3>3. \A i \in 1..n : i \in 1..end
      BY <1>1
    <3> QED
      BY <3>1, <3>2, <3>3
  <2>2. CASE n = end
    BY <1>1, <2>2
  <2> QED
    BY <1>1, <2>1, <2>2
<1> HIDE DEF room
<1>4. \A i \in 1..end : w[i] = (b \o buf)[i]
  <2> SUFFICES ASSUME NEW i \in 1..end PROVE w[i] = (b \o buf)[i]
    OBVIOUS
  <2>1. w[i] = IF i > n /\ i <= end THEN buf[i - n] ELSE room[i]
    BY <1>3
  <2>2. i <= n => i \in 1..n /\ (b \o buf)[i] = b[i]
    BY <1>1
  <2>3. i > n => (b \o buf)[i] = buf[i - n]
    BY <1>1
  <2> HIDE DEF w
  <2> QED
    BY <1>1, <1>3, <2>1, <2>2, <2>3
<1>5. w \in [1..end -> S] /\ b \o buf \in [1..end -> S]
  <2>1. b \o buf \in Seq(S) /\ Len(b \o buf) = end
    OBVIOUS
  <2>2. b \o buf \in [1..end -> S]
    BY <2>1, SeqIs
  <2>3. DOMAIN w = 1..end /\ w = [i \in 1..end |-> w[i]]
    BY <1>3
  <2> HIDE DEF w, end
  <2> QED
    BY <1>4, <2>2, <2>3
<1> HIDE DEF w, end
<1>6. w = b \o buf
  BY <1>1, <1>4, <1>5, SameSeq
<1> QED
  BY <1>2, <1>6

-------------------------------------------------------------------------------
(* Blocks of the IndexedDB cache. *)

LEMMA DivIs ==
    ASSUME NEW B \in Nat \ {0}, NEW x \in Nat
    PROVE  /\ x \div B \in Nat /\ x % B \in 0..(B - 1)
           /\ x = (x \div B) * B + (x % B)
<1>1. x \div B \in Nat /\ x % B \in 0..(B - 1)
  OBVIOUS
<1>2. x = (x \div B) * B + (x % B)
  BY Z3T(30)
<1> QED
  BY <1>1, <1>2

LEMMA DivMonotone ==
    ASSUME NEW B \in Nat \ {0}, NEW x \in Nat, NEW y \in Nat, x <= y
    PROVE  x \div B <= y \div B
OBVIOUS

\* The first block that a cut to y bytes drops lies past byte x, for x < y.
LEMMA DivBelow ==
    ASSUME NEW B \in Nat \ {0}, NEW x \in Nat, NEW y \in Nat, x < y
    PROVE  x \div B < (y + B - 1) \div B
OBVIOUS

\* The byte a reader finds at place j of a block: zero past its end.
ByteAt(b, j) == IF j <= Len(b) THEN b[j] ELSE Zero

BlockOf(bl, k) == IF k \in DOMAIN bl THEN bl[k] ELSE <<>>

\* The byte at place i of the file p.
Cell(bl, p, i) ==
    ByteAt(BlockOf(bl, <<p, (i - 1) \div BlockBytes>>), ((i - 1) % BlockBytes) + 1)

LEMMA ByteAtIs ==
    ASSUME NEW p, NEW b \in Own(p), NEW j \in Nat \ {0}
    PROVE  ByteAt(b, j) \in {Zero, p}
BY DEF ByteAt, Own

LEMMA BlockOfIs ==
    ASSUME NEW bl, BlocksOK(bl), NEW p, NEW n
    PROVE  BlockOf(bl, <<p, n>>) \in Own(p)
<1>1. <<>> \in Own(p)
  BY DEF Own
<1> QED
  BY <1>1 DEF BlockOf, BlocksOK

LEMMA CellIs ==
    ASSUME NEW bl, BlocksOK(bl), NEW p, NEW i \in Nat \ {0}
    PROVE  Cell(bl, p, i) \in {Zero, p}
<1>1. i - 1 \in Nat /\ BlockBytes \in Nat \ {0}
  BY BlockAssumption
<1>2. (i - 1) % BlockBytes \in 0..(BlockBytes - 1)
  BY <1>1, DivIs
<1>3. ((i - 1) % BlockBytes) + 1 \in Nat \ {0}
  BY <1>1, <1>2
<1> QED
  BY <1>3, BlockOfIs, ByteAtIs DEF Cell

LEMMA CachedIs ==
    ASSUME NEW c, SizesOK(c.files), BlocksOK(c.blocks), NEW p \in DOMAIN c.files
    PROVE  /\ CachedBytes(c, p) \in Own(p) /\ Len(CachedBytes(c, p)) = c.files[p].size
           /\ CachedBytes(c, p) \in [1..c.files[p].size -> {Zero, p}]
           /\ \A i \in 1..c.files[p].size : CachedBytes(c, p)[i] = Cell(c.blocks, p, i)
<1> DEFINE n == c.files[p].size
<1>1. n \in Nat
  BY DEF SizesOK
<1>2. CachedBytes(c, p) = [i \in 1..n |-> Cell(c.blocks, p, i)]
  <2>1. \A i \in 1..n : Cell(c.blocks, p, i) =
            LET m      == (i - 1) \div BlockBytes
                within == ((i - 1) % BlockBytes) + 1
            IN  IF <<p, m>> \in DOMAIN c.blocks /\ within <= Len(c.blocks[<<p, m>>])
                THEN c.blocks[<<p, m>>][within] ELSE Zero
    <3> SUFFICES ASSUME NEW i \in 1..n
                 PROVE  Cell(c.blocks, p, i) =
                        LET m      == (i - 1) \div BlockBytes
                            within == ((i - 1) % BlockBytes) + 1
                        IN  IF <<p, m>> \in DOMAIN c.blocks
                               /\ within <= Len(c.blocks[<<p, m>>])
                            THEN c.blocks[<<p, m>>][within] ELSE Zero
      OBVIOUS
    <3> DEFINE m == (i - 1) \div BlockBytes
               within == ((i - 1) % BlockBytes) + 1
    <3>1. within \in Nat \ {0}
      <4>1. i - 1 \in Nat /\ BlockBytes \in Nat \ {0}
        BY <1>1, BlockAssumption
      <4>2. (i - 1) % BlockBytes \in 0..(BlockBytes - 1)
        BY <4>1, DivIs
      <4> QED
        BY <4>1, <4>2
    <3>2. Cell(c.blocks, p, i) = ByteAt(BlockOf(c.blocks, <<p, m>>), within)
      BY DEF Cell
    <3>3. Len(<<>>) = 0
      OBVIOUS
    <3> HIDE DEF m, within
    <3>4. Cell(c.blocks, p, i) =
            IF <<p, m>> \in DOMAIN c.blocks /\ within <= Len(c.blocks[<<p, m>>])
            THEN c.blocks[<<p, m>>][within] ELSE Zero
      BY <3>1, <3>2, <3>3 DEF ByteAt, BlockOf
    <3> QED
      BY <3>4 DEF m, within
  <2> HIDE DEF n
  <2> QED
    BY <2>1, Zenon DEF CachedBytes, n
<1> HIDE DEF n
<1>3. \A i \in 1..n : Cell(c.blocks, p, i) \in {Zero, p}
  BY <1>1, CellIs
<1>4. CachedBytes(c, p) \in [1..n -> {Zero, p}]
  BY <1>2, <1>3
<1>5. CachedBytes(c, p) \in Own(p) /\ Len(CachedBytes(c, p)) = n
  BY <1>1, <1>4, SeqOf DEF Own
<1> QED
  BY <1>2, <1>4, <1>5 DEF n

\* What a write makes of one block that begins at byte `base`.
Patched(old, base, src, offset) ==
    LET end    == offset + Len(src)
        needed == IF end - base < BlockBytes THEN end - base ELSE BlockBytes
    IN  [i \in 1..(IF Len(old) > needed THEN Len(old) ELSE needed) |->
            LET at == base + i
            IN  IF at > offset /\ at <= end THEN src[at - offset]
                ELSE IF i <= Len(old) THEN old[i] ELSE Zero]

LEMMA PatchedIs ==
    ASSUME NEW p, NEW old \in Own(p), NEW src \in Own(p), NEW offset \in Nat, NEW base \in Int
    PROVE  /\ Patched(old, base, src, offset) \in Own(p)
           /\ \A j \in 1..BlockBytes :
                ByteAt(Patched(old, base, src, offset), j) =
                    IF base + j > offset /\ base + j <= offset + Len(src)
                    THEN src[base + j - offset] ELSE ByteAt(old, j)
<1> DEFINE end    == offset + Len(src)
           needed == IF end - base < BlockBytes THEN end - base ELSE BlockBytes
           L      == IF Len(old) > needed THEN Len(old) ELSE needed
           new    == [i \in 1..L |-> IF base + i > offset /\ base + i <= end
                                     THEN src[base + i - offset] ELSE ByteAt(old, i)]
<1>1. /\ Len(old) \in Nat /\ Len(src) \in Nat /\ end \in Nat /\ needed \in Int /\ L \in Nat
      /\ L >= Len(old) /\ L >= needed /\ BlockBytes \in Nat \ {0}
  <2>1. Len(old) \in Nat /\ Len(src) \in Nat /\ BlockBytes \in Nat \ {0}
    BY BlockAssumption DEF Own
  <2>2. end \in Nat
    BY <2>1
  <2> HIDE DEF end
  <2>3. needed \in Int
    BY <2>1, <2>2
  <2> HIDE DEF needed
  <2> QED
    BY <2>1, <2>2, <2>3
<1>2. Patched(old, base, src, offset) = new
  BY DEF Patched, ByteAt
<1>3. \A i \in Nat \ {0} : ByteAt(old, i) \in {Zero, p}
  BY ByteAtIs
<1>4. \A i \in Int : i > offset /\ i <= end => src[i - offset] \in {Zero, p}
  <2> SUFFICES ASSUME NEW i \in Int, i > offset, i <= end
               PROVE  src[i - offset] \in {Zero, p}
    OBVIOUS
  <2>1. i - offset \in 1..Len(src)
    BY <1>1
  <2> QED
    BY <2>1 DEF Own
<1> HIDE DEF needed, end, L
<1>5. new \in [1..L -> {Zero, p}]
  <2>1. \A i \in 1..L : (IF base + i > offset /\ base + i <= end
                         THEN src[base + i - offset] ELSE ByteAt(old, i)) \in {Zero, p}
    <3> SUFFICES ASSUME NEW i \in 1..L
                 PROVE (IF base + i > offset /\ base + i <= end
                         THEN src[base + i - offset] ELSE ByteAt(old, i)) \in {Zero, p}
      OBVIOUS
    <3>1. base + i \in Int /\ i \in Nat \ {0}
      BY <1>1
    <3> QED
      BY <1>3, <1>4, <3>1
  <2> QED
    BY <2>1
<1>6. new \in Own(p) /\ Len(new) = L
  <2> HIDE DEF new
  <2> QED
    BY <1>1, <1>5, SeqOf DEF Own
<1>7. ASSUME NEW j \in 1..BlockBytes
      PROVE  ByteAt(new, j) = IF base + j > offset /\ base + j <= end
                              THEN src[base + j - offset] ELSE ByteAt(old, j)
  <2>1. CASE j <= L
    <3>1. j \in 1..L
      BY <1>1, <2>1
    <3>2. ByteAt(new, j) = new[j]
      <4> HIDE DEF new
      <4> QED
        BY <1>6, <2>1 DEF ByteAt
    <3> QED
      BY <3>1, <3>2
  <2>2. CASE ~ (j <= L)
    <3>1. j > needed /\ j > Len(old)
      BY <1>1, <2>2
    <3>2. ~ (base + j <= end)
      BY <1>1, <3>1 DEF needed
    <3>3. ByteAt(old, j) = Zero /\ ByteAt(new, j) = Zero
      <4> HIDE DEF new
      <4> QED
        BY <1>1, <1>6, <2>2, <3>1 DEF ByteAt
    <3> QED
      BY <3>2, <3>3
  <2> QED
    BY <1>1, <2>1, <2>2
<1> HIDE DEF new
<1> QED
  BY <1>2, <1>6, <1>7 DEF end

\* What writing src at an offset makes of the cache c.
Wrote(c, w, p, src, offset) ==
    /\ CacheOK(w) /\ w.files = c.files
    /\ \A q, i : q # p => Cell(w.blocks, q, i) = Cell(c.blocks, q, i)
    /\ \A i \in Nat \ {0} : i <= offset => Cell(w.blocks, p, i) = Cell(c.blocks, p, i)
    /\ \A i \in Nat : i > offset /\ i <= offset + Len(src)
                        => Cell(w.blocks, p, i) = src[i - offset]

LEMMA WriteFromIs ==
    ASSUME NEW c, CacheOK(c), NEW p, NEW src \in Own(p), NEW offset \in Nat
    PROVE  Wrote(c, WriteFrom(c, p, src, offset), p, src, offset)
<1> DEFINE end  == offset + Len(src)
           keys == {<<p, n>> : n \in (offset \div BlockBytes)..((end - 1) \div BlockBytes)}
           g    == [k \in DOMAIN c.blocks \cup keys |->
                        IF k \in keys
                        THEN Patched(BlockOf(c.blocks, k), k[2] * BlockBytes, src, offset)
                        ELSE c.blocks[k]]
           w    == WriteFrom(c, p, src, offset)
<1>1. w = TouchBlocks([c EXCEPT !.blocks = g], keys)
  BY DEF WriteFrom, Patched, BlockOf
<1>2. DOMAIN w = KeptFields /\ w.files = c.files /\ w.blocks = g
  <2> HIDE DEF w, g, keys
  <2> QED
    BY <1>1 DEF TouchBlocks, Schedule, CacheOK, KeptFields
<1> HIDE DEF w
<1>3. BlockBytes \in Nat \ {0} /\ Len(src) \in Nat /\ end \in Nat
  BY BlockAssumption DEF Own
<1>4. ASSUME NEW k \in keys
      PROVE  \E n \in Int : k = <<p, n>>
  <2>1. PICK n \in (offset \div BlockBytes)..((end - 1) \div BlockBytes) : k = <<p, n>>
    OBVIOUS
  <2>2. n \in Int
    BY <2>1
  <2> QED
    BY <2>1, <2>2
\* A block of g.
<1>5. ASSUME NEW n \in Int
      PROVE  /\ BlockOf(g, <<p, n>>) \in Own(p)
             /\ \A j \in 1..BlockBytes : ByteAt(BlockOf(g, <<p, n>>), j) =
                    IF <<p, n>> \in keys /\ n * BlockBytes + j > offset
                                        /\ n * BlockBytes + j <= end
                    THEN src[n * BlockBytes + j - offset]
                    ELSE ByteAt(BlockOf(c.blocks, <<p, n>>), j)
  <2> DEFINE k == <<p, n>>
             old == BlockOf(c.blocks, k)
             base == n * BlockBytes
  <2>1. old \in Own(p) /\ base \in Int
    BY <1>3, BlockOfIs DEF CacheOK
  <2>2. CASE k \in keys
    <3>1. k \in DOMAIN g /\ g[k] = Patched(old, base, src, offset)
      <4> HIDE DEF keys
      <4> QED
        BY <2>2
    <3> HIDE DEF g, keys, old, base
    <3>2. BlockOf(g, k) = Patched(old, base, src, offset)
      BY <3>1 DEF BlockOf
    <3>3. /\ Patched(old, base, src, offset) \in Own(p)
          /\ \A j \in 1..BlockBytes :
                ByteAt(Patched(old, base, src, offset), j) =
                    IF base + j > offset /\ base + j <= offset + Len(src)
                    THEN src[base + j - offset] ELSE ByteAt(old, j)
      BY <2>1, PatchedIs
    <3> QED
      BY <2>2, <3>2, <3>3 DEF old, base
  <2>3. CASE k \notin keys
    <3>1. BlockOf(g, k) = old
      <4> HIDE DEF keys
      <4> QED
        BY <2>3 DEF BlockOf
    <3> HIDE DEF g, keys, old
    <3> QED
      BY <2>1, <2>3, <3>1 DEF old
  <2> QED
    BY <2>2, <2>3
<1>6. ASSUME NEW q, q # p, NEW n
      PROVE  BlockOf(g, <<q, n>>) = BlockOf(c.blocks, <<q, n>>)
  <2>1. <<q, n>> \notin keys
    BY <1>4, <1>6
  <2> HIDE DEF keys
  <2> QED
    BY <2>1 DEF BlockOf
<1>7. BlocksOK(g)
  <2> SUFFICES ASSUME NEW k \in DOMAIN g PROVE g[k] \in Own(k[1])
    BY DEF BlocksOK
  <2>1. CASE k \in keys
    <3>1. PICK n \in Int : k = <<p, n>>
      BY <1>4, <2>1
    <3>2. BlockOf(g, <<p, n>>) \in Own(p)
      BY <1>5
    <3> HIDE DEF g
    <3> QED
      BY <3>1, <3>2 DEF BlockOf
  <2>2. CASE k \notin keys
    <3>1. k \in DOMAIN c.blocks /\ g[k] = c.blocks[k]
      <4> HIDE DEF keys
      <4> QED
        BY <2>2
    <3> HIDE DEF g
    <3> QED
      BY <3>1 DEF CacheOK, BlocksOK
  <2> QED
    BY <2>1, <2>2
<1>8. ASSUME NEW q, q # p, NEW i
      PROVE  Cell(g, q, i) = Cell(c.blocks, q, i)
  <2> HIDE DEF g
  <2> QED
    BY <1>6, <1>8 DEF Cell
<1>9. ASSUME NEW i \in Nat \ {0}
      PROVE  Cell(g, p, i) = IF <<p, (i - 1) \div BlockBytes>> \in keys /\ i > offset /\ i <= end
                             THEN src[i - offset] ELSE Cell(c.blocks, p, i)
  <2> DEFINE n == (i - 1) \div BlockBytes
             j == ((i - 1) % BlockBytes) + 1
  <2>1. /\ n \in Nat /\ (i - 1) % BlockBytes \in 0..(BlockBytes - 1)
        /\ i - 1 = n * BlockBytes + ((i - 1) % BlockBytes)
    <3>1. i - 1 \in Nat
      OBVIOUS
    <3> HIDE DEF keys, g, end
    <3> QED
      BY <1>3, <3>1, DivIs
  <2>2. j \in 1..BlockBytes /\ n * BlockBytes \in Nat /\ n * BlockBytes + j = i
    <3>1. n * BlockBytes \in Nat
      BY <1>3, <2>1
    <3> HIDE DEF n
    <3> QED
      BY <1>3, <2>1, <3>1
  <2>3. /\ Cell(g, p, i) = ByteAt(BlockOf(g, <<p, n>>), j)
        /\ Cell(c.blocks, p, i) = ByteAt(BlockOf(c.blocks, <<p, n>>), j)
    BY DEF Cell
  <2> HIDE DEF n, j, g, keys, end
  <2>4. n \in Int
    BY <2>1
  <2>5. ByteAt(BlockOf(g, <<p, n>>), j) =
            IF <<p, n>> \in keys /\ n * BlockBytes + j > offset /\ n * BlockBytes + j <= end
            THEN src[n * BlockBytes + j - offset]
            ELSE ByteAt(BlockOf(c.blocks, <<p, n>>), j)
    BY <1>5, <2>2, <2>4
  <2>6. Cell(g, p, i) = IF <<p, n>> \in keys /\ i > offset /\ i <= end
                        THEN src[i - offset] ELSE Cell(c.blocks, p, i)
    BY <2>2, <2>3, <2>5
  <2> QED
    BY <2>6 DEF n
<1>10. ASSUME NEW i \in Nat, i > offset, i <= end
       PROVE  <<p, (i - 1) \div BlockBytes>> \in keys
  <2>1. i - 1 \in Nat /\ end - 1 \in Nat /\ offset <= i - 1 /\ i - 1 <= end - 1
    BY <1>3, <1>10
  <2> HIDE DEF end
  <2>2. /\ offset \div BlockBytes <= (i - 1) \div BlockBytes
        /\ (i - 1) \div BlockBytes <= (end - 1) \div BlockBytes
    BY <1>3, <2>1, DivMonotone
  <2>3. /\ (i - 1) \div BlockBytes \in Nat /\ offset \div BlockBytes \in Nat
        /\ (end - 1) \div BlockBytes \in Nat
    BY <1>3, <2>1, DivIs
  <2> QED
    BY <2>2, <2>3
<1> HIDE DEF g, keys
<1>11. \A i \in Nat \ {0} : i <= offset => Cell(g, p, i) = Cell(c.blocks, p, i)
  <2> SUFFICES ASSUME NEW i \in Nat \ {0}, i <= offset
               PROVE  Cell(g, p, i) = Cell(c.blocks, p, i)
    OBVIOUS
  <2>1. ~ (i > offset)
    OBVIOUS
  <2> QED
    BY <1>9, <2>1
<1>12. \A i \in Nat : i > offset /\ i <= end => Cell(g, p, i) = src[i - offset]
  <2> SUFFICES ASSUME NEW i \in Nat, i > offset, i <= end
               PROVE  Cell(g, p, i) = src[i - offset]
    OBVIOUS
  <2>1. i \in Nat \ {0}
    OBVIOUS
  <2> QED
    BY <1>9, <1>10, <2>1
<1>13. CacheOK(w)
  BY <1>2, <1>7 DEF CacheOK
<1>14. Wrote(c, w, p, src, offset)
  BY <1>2, <1>8, <1>11, <1>12, <1>13 DEF Wrote, end
<1> QED
  BY <1>14 DEF w

LEMMA CachedContentsIs ==
    ASSUME NEW c, NEW p
    PROVE  CachedContents(c, p) = IF p \in DOMAIN c.files THEN {CachedBytes(c, p)} ELSE {}
BY DEF CachedContents

\* A cache shows what another does of a file whose size and bytes are the same.
LEMMA CachedSame ==
    ASSUME NEW c, NEW d, CacheOK(c), CacheOK(d), NEW p,
           p \in DOMAIN c.files <=> p \in DOMAIN d.files,
           p \in DOMAIN c.files => d.files[p].size = c.files[p].size,
           \A i \in Nat \ {0} : p \in DOMAIN c.files /\ i <= c.files[p].size
                                    => Cell(d.blocks, p, i) = Cell(c.blocks, p, i)
    PROVE  CachedContents(d, p) = CachedContents(c, p)
<1>1. CASE p \in DOMAIN c.files
  <2> DEFINE n == c.files[p].size
  <2>1. n \in Nat /\ d.files[p].size = n
    BY <1>1 DEF CacheOK, SizesOK
  <2>2. /\ CachedBytes(c, p) \in [1..n -> {Zero, p}]
        /\ \A i \in 1..n : CachedBytes(c, p)[i] = Cell(c.blocks, p, i)
    BY <1>1, CachedIs DEF CacheOK
  <2>3. /\ CachedBytes(d, p) \in [1..n -> {Zero, p}]
        /\ \A i \in 1..n : CachedBytes(d, p)[i] = Cell(d.blocks, p, i)
    <3>1. p \in DOMAIN d.files /\ SizesOK(d.files) /\ BlocksOK(d.blocks)
      BY <1>1 DEF CacheOK
    <3>2. /\ CachedBytes(d, p) \in [1..d.files[p].size -> {Zero, p}]
          /\ \A i \in 1..d.files[p].size : CachedBytes(d, p)[i] = Cell(d.blocks, p, i)
      BY <3>1, CachedIs
    <3> QED
      BY <2>1, <3>2
  <2>4. \A i \in 1..n : Cell(d.blocks, p, i) = Cell(c.blocks, p, i)
    <3>1. \A i \in 1..n : i \in Nat \ {0} /\ i <= n
      BY <2>1
    <3> QED
      BY <1>1, <3>1
  <2> HIDE DEF n
  <2>5. \A i \in 1..n : CachedBytes(d, p)[i] = CachedBytes(c, p)[i]
    BY <2>2, <2>3, <2>4
  <2>6. CachedBytes(d, p) = CachedBytes(c, p)
    BY <2>1, <2>2, <2>3, <2>5, SameSeq
  <2> QED
    BY <1>1, <2>6, CachedContentsIs
<1>2. CASE p \notin DOMAIN c.files
  BY <1>2, CachedContentsIs
<1> QED
  BY <1>1, <1>2

LEMMA TouchFileIs ==
    ASSUME NEW c, DOMAIN c = KeptFields, NEW p
    PROVE  /\ DOMAIN TouchFile(c, p) = KeptFields
           /\ TouchFile(c, p).files = c.files /\ TouchFile(c, p).blocks = c.blocks
BY DEF TouchFile, Schedule, KeptFields

LEMMA IdbOpenIs ==
    ASSUME NEW c, CacheOK(c), NEW p
    PROVE  /\ CacheOK(IdbOpen(c, p))
           /\ DOMAIN IdbOpen(c, p).files = DOMAIN c.files \cup {p}
           /\ \A q : q # p \/ p \in DOMAIN c.files
                     => CachedContents(IdbOpen(c, p), q) = CachedContents(c, q)
           /\ p \notin DOMAIN c.files => CachedContents(IdbOpen(c, p), p) = {<<>>}
<1>1. CASE p \in DOMAIN c.files
  BY <1>1 DEF IdbOpen
<1>2. CASE p \notin DOMAIN c.files
  <2> DEFINE f == Put(c.files, p, [size |-> 0, directory |-> FALSE])
             b == [c EXCEPT !.files = f]
             e == IdbOpen(c, p)
  <2>1. /\ DOMAIN f = DOMAIN c.files \cup {p} /\ f[p] = [size |-> 0, directory |-> FALSE]
        /\ \A q \in DOMAIN c.files : f[q] = c.files[q]
    BY <1>2 DEF Put
  <2>2. e = TouchFile(b, p)
    BY <1>2 DEF IdbOpen
  <2> HIDE DEF f, e
  <2>3. DOMAIN b = KeptFields /\ b.files = f /\ b.blocks = c.blocks
    BY DEF CacheOK, KeptFields
  <2> HIDE DEF b
  <2>4. DOMAIN e = KeptFields /\ e.files = f /\ e.blocks = c.blocks
    BY <2>2, <2>3, TouchFileIs
  <2>5. SizesOK(f)
    <3>1. "size" \in DOMAIN f[p] /\ f[p].size = 0
      BY <2>1
    <3>2. \A q \in DOMAIN c.files : "size" \in DOMAIN f[q] /\ f[q].size \in Nat
      BY <2>1 DEF CacheOK, SizesOK
    <3> QED
      BY <2>1, <3>1, <3>2 DEF SizesOK
  <2>6. CacheOK(e)
    BY <2>4, <2>5 DEF CacheOK
  <2>7. ASSUME NEW q, q # p
        PROVE  CachedContents(e, q) = CachedContents(c, q)
    <3>1. /\ q \in DOMAIN c.files <=> q \in DOMAIN e.files
          /\ q \in DOMAIN c.files => e.files[q].size = c.files[q].size
      BY <2>1, <2>4, <2>7
    <3> QED
      BY <2>4, <2>6, <3>1, CachedSame
  <2>8. CachedContents(e, p) = {<<>>}
    <3>1. p \in DOMAIN e.files /\ e.files[p].size = 0
      BY <2>1, <2>4
    <3>2. CachedBytes(e, p) \in Seq({Zero, p}) /\ Len(CachedBytes(e, p)) = 0
      BY <2>6, <3>1, CachedIs DEF CacheOK, Own
    <3>3. CachedBytes(e, p) = <<>>
      BY <3>2
    <3> QED
      BY <3>1, <3>3, CachedContentsIs
  <2> QED
    BY <1>2, <2>1, <2>4, <2>6, <2>7, <2>8 DEF e
<1> QED
  BY <1>1, <1>2

\* A write at the end of a file that is there.
LEMMA IdbAppendIs ==
    ASSUME NEW c, CacheOK(c), NEW p \in DOMAIN c.files, NEW src \in Own(p)
    PROVE  LET e == IdbWrite(c, p, src, c.files[p].size)
           IN  /\ CacheOK(e) /\ DOMAIN e.files = DOMAIN c.files
               /\ CachedBytes(e, p) = CachedBytes(c, p) \o src
               /\ \A q : q # p => CachedContents(e, q) = CachedContents(c, q)
<1> DEFINE n   == c.files[p].size
           end == n + Len(src)
           w   == WriteFrom(c, p, src, n)
           f   == [w.files EXCEPT ![p].size = end]
           b   == [w EXCEPT !.files[p].size = end]
           e   == IdbWrite(c, p, src, n)
<1>1. n \in Nat /\ Len(src) \in Nat /\ end \in Nat
  BY DEF CacheOK, SizesOK, Own
<1>2. e = IF p \in DOMAIN w.files /\ end > w.files[p].size THEN TouchFile(b, p) ELSE w
  BY DEF IdbWrite
<1> HIDE DEF n
<1>3. /\ CacheOK(w) /\ w.files = c.files
      /\ \A q, i : q # p => Cell(w.blocks, q, i) = Cell(c.blocks, q, i)
      /\ \A i \in Nat \ {0} : i <= n => Cell(w.blocks, p, i) = Cell(c.blocks, p, i)
      /\ \A i \in Nat : i > n /\ i <= end => Cell(w.blocks, p, i) = src[i - n]
  <2>1. Wrote(c, w, p, src, n)
    BY <1>1, WriteFromIs
  <2> QED
    BY <2>1 DEF Wrote
<1> HIDE DEF w, e
<1>4. /\ DOMAIN f = DOMAIN c.files /\ f[p].size = end /\ "size" \in DOMAIN f[p]
      /\ \A q \in DOMAIN c.files : q # p => f[q] = c.files[q]
  BY <1>3 DEF CacheOK, SizesOK
<1>5. DOMAIN b = KeptFields /\ b.files = f /\ b.blocks = w.blocks
  BY <1>3 DEF CacheOK, KeptFields
<1> HIDE DEF f, b
<1>6. /\ DOMAIN e = KeptFields /\ e.blocks = w.blocks
      /\ DOMAIN e.files = DOMAIN c.files /\ e.files[p].size = end /\ "size" \in DOMAIN e.files[p]
      /\ \A q \in DOMAIN c.files : q # p => e.files[q] = c.files[q]
  <2>1. CASE end > n
    <3>1. e = TouchFile(b, p)
      BY <1>2, <1>3, <2>1 DEF n
    <3> QED
      BY <1>4, <1>5, <3>1, TouchFileIs
  <2>2. CASE end = n
    <3>1. e = w
      BY <1>1, <1>2, <1>3, <2>2 DEF n
    <3> QED
      BY <1>3, <2>2, <3>1 DEF n, CacheOK, SizesOK
  <2> QED
    BY <1>1, <2>1, <2>2
<1>7. CacheOK(e)
  <2>1. SizesOK(e.files)
    BY <1>1, <1>6 DEF CacheOK, SizesOK
  <2> QED
    BY <1>3, <1>6, <2>1 DEF CacheOK
<1>8. CachedBytes(e, p) = CachedBytes(c, p) \o src
  <2> DEFINE old == CachedBytes(c, p)
             new == CachedBytes(e, p)
  <2>1. /\ old \in Seq({Zero, p}) /\ Len(old) = n
        /\ \A i \in 1..n : old[i] = Cell(c.blocks, p, i)
    BY CachedIs DEF CacheOK, n, Own
  <2>2. /\ new \in [1..end -> {Zero, p}]
        /\ \A i \in 1..end : new[i] = Cell(w.blocks, p, i)
    <3>1. p \in DOMAIN e.files /\ SizesOK(e.files) /\ BlocksOK(e.blocks)
      BY <1>6, <1>7 DEF CacheOK
    <3>2. /\ CachedBytes(e, p) \in [1..e.files[p].size -> {Zero, p}]
          /\ \A i \in 1..e.files[p].size : CachedBytes(e, p)[i] = Cell(e.blocks, p, i)
      BY <3>1, CachedIs
    <3> QED
      BY <1>6, <3>2
  <2> HIDE DEF old, new
  <2>3. src \in Seq({Zero, p})
    BY DEF Own
  <2>4. old \o src \in [1..end -> {Zero, p}]
    <3>1. old \o src \in Seq({Zero, p}) /\ Len(old \o src) = end
      BY <2>1, <2>3
    <3> QED
      BY <3>1, SeqIs
  <2>5. ASSUME NEW i \in 1..end
        PROVE  new[i] = (old \o src)[i]
    <3>1. CASE i <= n
      <4>1. i \in 1..n /\ i \in Nat \ {0}
        BY <1>1, <3>1
      <4>2. (old \o src)[i] = old[i]
        BY <2>1, <2>3, <4>1
      <4>3. new[i] = Cell(c.blocks, p, i)
        BY <1>3, <2>2, <3>1, <4>1
      <4> QED
        BY <2>1, <4>1, <4>2, <4>3
    <3>2. CASE i > n
      <4>1. i \in Nat /\ i <= end
        BY <1>1
      <4>2. new[i] = src[i - n]
        BY <1>3, <2>2, <3>2, <4>1
      <4>3. (old \o src)[i] = src[i - n]
        BY <1>1, <2>1, <2>3, <3>2, <4>1
      <4> QED
        BY <4>2, <4>3
    <3>3. i <= n \/ i > n
      BY <1>1
    <3> QED
      BY <3>1, <3>2, <3>3
  <2>6. new = old \o src
    <3> HIDE DEF end
    <3> QED
      BY <1>1, <2>2, <2>4, <2>5, SameSeq
  <2> QED
    BY <2>6 DEF old, new
<1>9. ASSUME NEW q, q # p
      PROVE  CachedContents(e, q) = CachedContents(c, q)
  <2>1. /\ q \in DOMAIN c.files <=> q \in DOMAIN e.files
        /\ q \in DOMAIN c.files => e.files[q].size = c.files[q].size
    BY <1>6, <1>9
  <2>2. \A i \in Nat \ {0} : Cell(e.blocks, q, i) = Cell(c.blocks, q, i)
    BY <1>3, <1>6, <1>9
  <2> QED
    BY <1>7, <2>1, <2>2, CachedSame
<1> QED
  BY <1>6, <1>7, <1>8, <1>9 DEF e, n

\* A cut to a length the file has or exceeds.
LEMMA IdbCutIs ==
    ASSUME NEW c, CacheOK(c), NEW p \in DOMAIN c.files, NEW len \in Nat, len <= c.files[p].size
    PROVE  LET e == IdbTruncate(c, p, len)
           IN  /\ CacheOK(e) /\ DOMAIN e.files = DOMAIN c.files
               /\ CachedBytes(e, p) = Resize(CachedBytes(c, p), len)
               /\ \A q : q # p => CachedContents(e, q) = CachedContents(c, q)
<1> DEFINE b     == [c EXCEPT !.files[p].size = len]
           f     == [c.files EXCEPT ![p].size = len]
           first == (len + BlockBytes - 1) \div BlockBytes
           gone  == {k \in DOMAIN c.blocks : k[1] = p /\ k[2] >= first}
           e     == IdbTruncate(c, p, len)
<1>1. e = TouchFile(DropBlocksFrom(b, p, len), p)
  BY DEF IdbTruncate
<1>2. DOMAIN b = KeptFields /\ b.files = f /\ b.blocks = c.blocks
  BY DEF CacheOK, KeptFields
<1>3. /\ DOMAIN f = DOMAIN c.files /\ f[p].size = len /\ "size" \in DOMAIN f[p]
      /\ \A q \in DOMAIN c.files : q # p => f[q] = c.files[q]
  BY DEF CacheOK, SizesOK
<1> HIDE DEF b, f, e
<1>4. DropBlocksFrom(b, p, len) =
        [b EXCEPT !.blocks = Drop(@, gone), !.dirtyBlocks = @ \ gone,
                  !.deletedBlocks = @ \cup gone]
  BY <1>2 DEF DropBlocksFrom
<1> HIDE DEF gone
<1>5. /\ DOMAIN DropBlocksFrom(b, p, len) = KeptFields
      /\ DropBlocksFrom(b, p, len).files = f
      /\ DropBlocksFrom(b, p, len).blocks = Drop(c.blocks, gone)
  BY <1>2, <1>4 DEF KeptFields
<1>6. DOMAIN e = KeptFields /\ e.files = f /\ e.blocks = Drop(c.blocks, gone)
  BY <1>1, <1>5, TouchFileIs
<1>7. /\ DOMAIN e.blocks = DOMAIN c.blocks \ gone
      /\ \A k \in DOMAIN c.blocks \ gone : e.blocks[k] = c.blocks[k]
  BY <1>6 DEF Drop
<1>8. CacheOK(e)
  <2>1. SizesOK(f)
    BY <1>3 DEF CacheOK, SizesOK
  <2>2. BlocksOK(e.blocks)
    BY <1>7 DEF CacheOK, BlocksOK
  <2> QED
    BY <1>6, <2>1, <2>2 DEF CacheOK
<1>9. ASSUME NEW q, NEW i, <<q, (i - 1) \div BlockBytes>> \notin gone
      PROVE  Cell(e.blocks, q, i) = Cell(c.blocks, q, i)
  <2> DEFINE k == <<q, (i - 1) \div BlockBytes>>
  <2>1. BlockOf(e.blocks, k) = BlockOf(c.blocks, k)
    <3>1. k \in DOMAIN e.blocks <=> k \in DOMAIN c.blocks
      BY <1>7, <1>9
    <3> HIDE DEF k
    <3> QED
      BY <1>7, <3>1 DEF BlockOf
  <2> QED
    BY <2>1 DEF Cell
<1>10. ASSUME NEW q, q # p
       PROVE  CachedContents(e, q) = CachedContents(c, q)
  <2>1. \A i : <<q, (i - 1) \div BlockBytes>> \notin gone
    BY <1>10 DEF gone
  <2>2. \A i \in Nat \ {0} : Cell(e.blocks, q, i) = Cell(c.blocks, q, i)
    BY <1>9, <2>1
  <2>3. /\ q \in DOMAIN c.files <=> q \in DOMAIN e.files
        /\ q \in DOMAIN c.files => e.files[q].size = c.files[q].size
    BY <1>3, <1>6, <1>10
  <2> QED
    BY <1>8, <2>2, <2>3, CachedSame
<1>11. CachedBytes(e, p) = Resize(CachedBytes(c, p), len)
  <2> DEFINE old == CachedBytes(c, p)
             new == CachedBytes(e, p)
             n   == c.files[p].size
  <2>1. n \in Nat
    BY DEF CacheOK, SizesOK
  <2>2. /\ old \in Seq({Zero, p}) /\ Len(old) = n
        /\ \A i \in 1..n : old[i] = Cell(c.blocks, p, i)
    BY CachedIs DEF CacheOK, Own
  <2>3. /\ new \in [1..len -> {Zero, p}]
        /\ \A i \in 1..len : new[i] = Cell(e.blocks, p, i)
    <3>1. p \in DOMAIN e.files /\ SizesOK(e.files) /\ BlocksOK(e.blocks)
      BY <1>3, <1>6, <1>8 DEF CacheOK
    <3>2. /\ CachedBytes(e, p) \in [1..e.files[p].size -> {Zero, p}]
          /\ \A i \in 1..e.files[p].size : CachedBytes(e, p)[i] = Cell(e.blocks, p, i)
      BY <3>1, CachedIs
    <3> QED
      BY <1>3, <1>6, <3>2
  <2> HIDE DEF old, new, n
  <2>4. /\ Resize(old, len) \in [1..len -> {Zero, p}]
        /\ \A i \in 1..len : Resize(old, len)[i] = IF i <= n THEN old[i] ELSE Zero
    <3>1. Zero \in {Zero, p}
      OBVIOUS
    <3> QED
      BY <2>2, <3>1, ResizeIs
  <2>5. ASSUME NEW i \in 1..len
        PROVE  new[i] = Resize(old, len)[i]
    <3>1. i \in 1..n /\ i <= n /\ i - 1 \in Nat /\ i - 1 < len
      BY <2>1 DEF n
    <3>2. (i - 1) \div BlockBytes < first
      BY <3>1, BlockAssumption, DivBelow
    <3>3. (i - 1) \div BlockBytes \in Nat /\ first \in Nat
      <4>1. len + BlockBytes - 1 \in Nat
        BY BlockAssumption
      <4> QED
        BY <3>1, <4>1, BlockAssumption, DivIs
    <3>4. <<p, (i - 1) \div BlockBytes>> \notin gone
      <4> DEFINE m == (i - 1) \div BlockBytes
      <4>1. ~ (m >= first)
        BY <3>2, <3>3
      <4> HIDE DEF m, first
      <4>2. <<p, m>> \notin gone
        BY <4>1 DEF gone
      <4> QED
        BY <4>2 DEF m
    <3>5. new[i] = Cell(c.blocks, p, i)
      BY <1>9, <2>3, <3>4
    <3> QED
      BY <2>2, <2>4, <3>1, <3>5
  <2>6. new = Resize(old, len)
    BY <2>3, <2>4, <2>5, SameSeq
  <2> QED
    BY <2>6 DEF old, new
<1> QED
  BY <1>3, <1>6, <1>8, <1>10, <1>11 DEF e

LEMMA ForgetIs ==
    ASSUME NEW c, CacheOK(c), NEW S
    PROVE  LET e == Forget(c, S)
           IN  /\ CacheOK(e) /\ DOMAIN e.files = DOMAIN c.files \ S
               /\ \A q : q \in S => CachedContents(e, q) = {}
               /\ \A q : q \notin S => CachedContents(e, q) = CachedContents(c, q)
<1> DEFINE gone == {k \in DOMAIN c.blocks : k[1] \in S}
           e == Forget(c, S)
<1>1. e = Schedule([c EXCEPT !.files = Drop(@, S), !.dirtyFiles = @ \ S,
                             !.deletedFiles = @ \cup S,
                             !.blocks = Drop(@, gone), !.dirtyBlocks = @ \ gone,
                             !.deletedBlocks = @ \cup gone])
  BY DEF Forget
<1> HIDE DEF e, gone
<1>2. DOMAIN e = KeptFields /\ e.files = Drop(c.files, S) /\ e.blocks = Drop(c.blocks, gone)
  BY <1>1 DEF Schedule, CacheOK, KeptFields
<1>3. /\ DOMAIN e.files = DOMAIN c.files \ S
      /\ \A q \in DOMAIN c.files \ S : e.files[q] = c.files[q]
      /\ DOMAIN e.blocks = DOMAIN c.blocks \ gone
      /\ \A k \in DOMAIN c.blocks \ gone : e.blocks[k] = c.blocks[k]
  BY <1>2 DEF Drop
<1>4. CacheOK(e)
  <2>1. SizesOK(e.files)
    BY <1>3 DEF CacheOK, SizesOK
  <2>2. BlocksOK(e.blocks)
    BY <1>3 DEF CacheOK, BlocksOK
  <2> QED
    BY <1>2, <2>1, <2>2 DEF CacheOK
<1>5. ASSUME NEW q, q \notin S
      PROVE  CachedContents(e, q) = CachedContents(c, q)
  <2>1. /\ q \in DOMAIN c.files <=> q \in DOMAIN e.files
        /\ q \in DOMAIN c.files => e.files[q].size = c.files[q].size
    BY <1>3, <1>5
  <2>2. ASSUME NEW i
        PROVE  Cell(e.blocks, q, i) = Cell(c.blocks, q, i)
    <3> DEFINE k == <<q, (i - 1) \div BlockBytes>>
    <3>1. k \notin gone
      BY <1>5 DEF gone
    <3>2. BlockOf(e.blocks, k) = BlockOf(c.blocks, k)
      <4>1. k \in DOMAIN e.blocks <=> k \in DOMAIN c.blocks
        BY <1>3, <3>1
      <4> HIDE DEF k
      <4> QED
        BY <1>3, <4>1 DEF BlockOf
    <3> QED
      BY <3>2 DEF Cell
  <2> QED
    BY <1>4, <2>1, <2>2, CachedSame
<1>6. ASSUME NEW q, q \in S
      PROVE  CachedContents(e, q) = {}
  BY <1>3, <1>6, CachedContentsIs
<1> QED
  BY <1>3, <1>4, <1>5, <1>6 DEF e

LEMMA IdbCreateDirIs ==
    ASSUME NEW c, CacheOK(c), NEW d
    PROVE  LET e == IdbCreateDirAll(c, d)
           IN  /\ CacheOK(e) /\ DOMAIN e.files = DOMAIN c.files \cup (Ancestors(d) \ {Root})
               /\ \A q : q \notin Ancestors(d) => CachedContents(e, q) = CachedContents(c, q)
<1> DEFINE new   == (Ancestors(d) \ {Root}) \ DOMAIN c.files
           entry == [size |-> 0, directory |-> TRUE]
           f     == [x \in DOMAIN c.files \cup new |-> IF x \in new THEN entry ELSE c.files[x]]
           b     == Schedule([c EXCEPT !.files = f, !.dirtyFiles = @ \cup new,
                                       !.deletedFiles = @ \ new])
           e     == IdbCreateDirAll(c, d)
<1>1. e = IF new = {} THEN c ELSE b
  BY DEF IdbCreateDirAll
<1>2. /\ new \cap DOMAIN c.files = {} /\ new \subseteq Ancestors(d)
      /\ DOMAIN c.files \cup new = DOMAIN c.files \cup (Ancestors(d) \ {Root})
  OBVIOUS
<1>3. "size" \in DOMAIN entry /\ entry.size = 0
  OBVIOUS
<1> HIDE DEF new, entry, e
<1>4. /\ DOMAIN f = DOMAIN c.files \cup new
      /\ \A x \in DOMAIN c.files : f[x] = c.files[x]
      /\ \A x \in new : f[x] = entry
  BY <1>2
<1> HIDE DEF f
<1>5. DOMAIN b = KeptFields /\ b.files = f /\ b.blocks = c.blocks
  BY DEF Schedule, CacheOK, KeptFields
<1> HIDE DEF b
<1>6. CacheOK(b)
  <2>1. SizesOK(f)
    BY <1>3, <1>4 DEF CacheOK, SizesOK
  <2> QED
    BY <1>5, <2>1 DEF CacheOK
<1>7. ASSUME NEW q, q \notin Ancestors(d)
      PROVE  CachedContents(b, q) = CachedContents(c, q)
  <2>1. /\ q \in DOMAIN c.files <=> q \in DOMAIN b.files
        /\ q \in DOMAIN c.files => b.files[q].size = c.files[q].size
    BY <1>2, <1>4, <1>5, <1>7
  <2> QED
    BY <1>5, <1>6, <2>1, CachedSame
<1>8. CASE new = {}
  BY <1>1, <1>2, <1>8 DEF e
<1>9. CASE new # {}
  BY <1>1, <1>2, <1>4, <1>5, <1>6, <1>7, <1>9 DEF e
<1> QED
  BY <1>8, <1>9

-------------------------------------------------------------------------------
(* The reference. *)

Fs(d, e, l) == [dirs |-> d, entry |-> e, live |-> l]

LEMMA FsIs ==
    ASSUME NEW d, NEW e, NEW l
    PROVE  /\ Fs(d, e, l).dirs = d /\ Fs(d, e, l).entry = e /\ Fs(d, e, l).live = l
           /\ Fs(d, e, l) = [dirs |-> Fs(d, e, l).dirs, entry |-> Fs(d, e, l).entry,
                             live |-> Fs(d, e, l).live]
BY DEF Fs

LEMMA ContentsIs ==
    ASSUME NEW r, NEW f
    PROVE  Contents(r, f) = IF r.entry[f] = NoObject THEN {} ELSE {r.live[r.entry[f]]}
BY DEF Contents

\* Files and their contents, said of the parts of a reference.
Placed(e, l) ==
    /\ e \in [Files -> Objects \cup {NoObject}] /\ l \in [Objects -> Seq(Bytes)]
    /\ \A f, g \in Files : e[f] = e[g] /\ e[f] # NoObject => f = g

Shown(e, l, W) ==
    \A f \in Files :
        /\ f \notin LongPaths =>
              W[f] = IF e[f] = NoObject THEN {} ELSE {l[e[f]]}
        /\ e[f] # NoObject => W[f] # {}

LEMMA ShownIs ==
    ASSUME NEW r, NEW W
    PROVE  /\ RefOK(r) <=> (/\ r = Fs(r.dirs, r.entry, r.live) /\ r.dirs \subseteq Dirs
                            /\ Placed(r.entry, r.live))
           /\ Matches(r, W) <=> Shown(r.entry, r.live, W)
BY ContentsIs DEF RefOK, Fs, Placed, Matches, Shown

LEMMA PathFacts ==
    /\ Root \in Dirs /\ Files \cap Dirs = {} /\ NoPath \notin Files /\ NoObject \notin Objects
    /\ LongPaths \subseteq Files
    /\ \A f \in Files : Parent[f] \in Dirs
BY PathsAssumption, ObjectsAssumption, OpfsAssumption

\* A file appears, with a new object o.
WithFile(r, p, o) == [r EXCEPT !.entry[p] = o, !.live[o] = <<>>]

FileAppears(r, W, V, p, o) ==
    /\ r.entry[p] = NoObject /\ \A f \in Files : r.entry[f] # o
    /\ V[p] # {} /\ (p \notin LongPaths => V[p] = {<<>>})
    /\ \A f \in Files : f # p => V[f] = W[f]

LEMMA RefOpens ==
    ASSUME NEW r, NEW hs, NEW W, NEW V, NEW p \in Files, NEW o \in Objects,
           RefOK(r), HandlesOK(r, hs), Matches(r, W), FileAppears(r, W, V, p, o)
    PROVE  LET z == WithFile(r, p, o)
           IN  /\ RefOK(z) /\ HandlesOK(z, hs) /\ Matches(z, V)
               /\ z.dirs = r.dirs /\ z.entry[p] = o
<1> USE DEF FileAppears
<1> DEFINE e == [r.entry EXCEPT ![p] = o]
           l == [r.live EXCEPT ![o] = <<>>]
           z == WithFile(r, p, o)
<1>1. Shown(r.entry, r.live, W)
  BY ShownIs
<1>2. r = Fs(r.dirs, r.entry, r.live) /\ r.dirs \subseteq Dirs /\ Placed(r.entry, r.live)
  BY ShownIs
<1>3. z = Fs(r.dirs, e, l)
  <2> DEFINE y == [r EXCEPT !.entry[p] = o]
  <2>1. y = Fs(r.dirs, e, r.live)
    BY <1>2 DEF Fs
  <2>2. y.live = r.live
    BY <2>1, FsIs
  <2>3. z = [y EXCEPT !.live[o] = <<>>]
    BY DEF WithFile
  <2> HIDE DEF y, e
  <2>4. [y EXCEPT !.live[o] = <<>>] = Fs(r.dirs, e, l)
    BY <2>1, <2>2 DEF Fs
  <2> QED
    BY <2>3, <2>4
<1>4. z.dirs = r.dirs /\ z.entry = e /\ z.live = l
  BY <1>3, FsIs
<1> HIDE DEF z
<1>5. /\ e \in [Files -> Objects \cup {NoObject}] /\ l \in [Objects -> Seq(Bytes)]
      /\ e[p] = o /\ l[o] = <<>>
      /\ \A f \in Files : f # p => e[f] = r.entry[f]
      /\ \A x \in Objects : x # o => l[x] = r.live[x]
  BY <1>2 DEF Placed
<1> HIDE DEF e, l
<1>6. Placed(e, l)
  <2>1. ASSUME NEW f \in Files, NEW g \in Files, e[f] = e[g], e[f] # NoObject
        PROVE  f = g
    <3>1. r.entry[f] # o /\ r.entry[g] # o
      OBVIOUS
    <3> QED
      BY <1>2, <1>5, <2>1, <3>1 DEF Placed
  <2> QED
    BY <1>5, <2>1 DEF Placed
<1>7. Shown(e, l, V)
  <2> SUFFICES ASSUME NEW f \in Files
               PROVE  /\ f \notin LongPaths =>
                            V[f] = IF e[f] = NoObject THEN {} ELSE {l[e[f]]}
                      /\ e[f] # NoObject => V[f] # {}
    BY DEF Shown
  <2>1. CASE f = p
    BY <1>5, <2>1, PathFacts
  <2>2. CASE f # p
    <3>1. e[f] = r.entry[f] /\ V[f] = W[f] /\ r.entry[f] \in Objects \cup {NoObject}
      BY <1>2, <1>5, <2>2 DEF Placed
    <3>2. r.entry[f] # NoObject => l[e[f]] = r.live[r.entry[f]]
      BY <1>5, <3>1
    <3>3. /\ f \notin LongPaths =>
                W[f] = IF r.entry[f] = NoObject THEN {} ELSE {r.live[r.entry[f]]}
          /\ r.entry[f] # NoObject => W[f] # {}
      BY <1>1 DEF Shown
    <3> QED
      BY <3>1, <3>2, <3>3
  <2> QED
    BY <2>1, <2>2
<1>8. RefOK(z) /\ Matches(z, V)
  BY <1>2, <1>3, <1>4, <1>6, <1>7, ShownIs
<1>9. HandlesOK(z, hs)
  <2> SUFFICES ASSUME NEW h \in Handles, hs[h] # NoHandle
               PROVE  IsHandle(z, hs[h])
    BY DEF HandlesOK
  <2>1. IsHandle(r, hs[h])
    BY DEF HandlesOK
  <2>2. ~ hs[h].gone => hs[h].path # p
    BY <2>1, PathFacts DEF IsHandle
  <2> QED
    BY <1>4, <1>5, <2>1, <2>2 DEF IsHandle
<1> QED
  BY <1>4, <1>5, <1>8, <1>9 DEF z

\* A handle is given out for a file that is there.
LEMMA RefHands ==
    ASSUME NEW r, NEW hs, NEW h \in Handles, NEW p \in Files, NEW s,
           RefOK(r), HandlesOK(r, hs), r.entry[p] # NoObject
    PROVE  HandlesOK(r, [hs EXCEPT ![h] = [path |-> p, slot |-> s, object |-> r.entry[p],
                                           gone |-> FALSE]])
<1> DEFINE x == [path |-> p, slot |-> s, object |-> r.entry[p], gone |-> FALSE]
           k == [hs EXCEPT ![h] = x]
<1>1. r.entry[p] \in Objects
  BY DEF RefOK
<1>2. IsHandle(r, x)
  BY <1>1 DEF IsHandle, HandleFields
<1> HIDE DEF x
<1>3. k = [g \in Handles |-> k[g]] /\ k[h] = x /\ \A g \in Handles : g # h => k[g] = hs[g]
  BY DEF HandlesOK
<1> HIDE DEF k
<1>4. HandlesOK(r, k)
  BY <1>2, <1>3 DEF HandlesOK
<1> QED
  BY <1>4 DEF k, x

\* The bytes of a file change.
WithLive(r, o, b)  == [r EXCEPT !.live[o] = b]

FileChanges(r, W, V, p, b) ==
    /\ p \in Files /\ b \in Seq(Bytes) /\ r.entry[p] # NoObject
    /\ V[p] # {} /\ (p \notin LongPaths => V[p] = {b})
    /\ \A f \in Files : f # p => V[f] = W[f]

LEMMA RefWrites ==
    ASSUME NEW r, NEW hs, NEW W, NEW V, NEW p, NEW b,
           RefOK(r), HandlesOK(r, hs), Matches(r, W), FileChanges(r, W, V, p, b)
    PROVE  LET z == WithLive(r, r.entry[p], b)
           IN  RefOK(z) /\ HandlesOK(z, hs) /\ Matches(z, V) /\ z.dirs = r.dirs
<1> USE DEF FileChanges
<1> DEFINE o == r.entry[p]
           l == [r.live EXCEPT ![o] = b]
           z == WithLive(r, o, b)
<1>1. Shown(r.entry, r.live, W)
  BY ShownIs
<1>2. r = Fs(r.dirs, r.entry, r.live) /\ r.dirs \subseteq Dirs /\ Placed(r.entry, r.live)
  BY ShownIs
<1>3. z = Fs(r.dirs, r.entry, l)
  BY <1>2 DEF Fs, WithLive
<1>4. z.dirs = r.dirs /\ z.entry = r.entry /\ z.live = l
  BY <1>3, FsIs
<1> HIDE DEF z
<1>5. o \in Objects
  BY <1>2 DEF Placed
<1>6. l \in [Objects -> Seq(Bytes)] /\ l[o] = b /\ \A x \in Objects : x # o => l[x] = r.live[x]
  BY <1>2, <1>5 DEF Placed
<1>7. \A f \in Files : f # p => r.entry[f] # o
  BY <1>2 DEF Placed
<1> HIDE DEF l
<1>8. Placed(r.entry, l)
  BY <1>2, <1>6 DEF Placed
<1>9. Shown(r.entry, l, V)
  <2> SUFFICES ASSUME NEW f \in Files
               PROVE  /\ f \notin LongPaths =>
                            V[f] = IF r.entry[f] = NoObject THEN {} ELSE {l[r.entry[f]]}
                      /\ r.entry[f] # NoObject => V[f] # {}
    BY DEF Shown
  <2>1. /\ f \notin LongPaths =>
              W[f] = IF r.entry[f] = NoObject THEN {} ELSE {r.live[r.entry[f]]}
        /\ r.entry[f] # NoObject => W[f] # {}
    BY <1>1 DEF Shown
  <2>2. CASE f = p
    BY <1>6, <2>2
  <2>3. CASE f # p
    <3>1. r.entry[f] # NoObject => l[r.entry[f]] = r.live[r.entry[f]]
      BY <1>2, <1>6, <1>7, <2>3 DEF Placed
    <3> QED
      BY <2>1, <2>3, <3>1
  <2> QED
    BY <2>2, <2>3
<1>10. RefOK(z) /\ Matches(z, V)
  BY <1>2, <1>3, <1>4, <1>8, <1>9, ShownIs
<1>11. HandlesOK(z, hs)
  BY <1>4 DEF HandlesOK, IsHandle
<1> QED
  BY <1>4, <1>10, <1>11 DEF z

\* Files are removed, and perhaps directories; the handles open on them know.
Without(r, S, D) == Fs(D, [f \in Files |-> IF f \in S THEN NoObject ELSE r.entry[f]], r.live)

MarkedGone(hs, S) ==
    [h \in Handles |-> IF hs[h].path \in S THEN [hs[h] EXCEPT !.gone = TRUE] ELSE hs[h]]

Emptied(W, V, S) == \A f \in Files : V[f] = IF f \in S THEN {} ELSE W[f]

LEMMA RefRemoves ==
    ASSUME NEW r, NEW hs, NEW W, NEW V, NEW S \in SUBSET Files, NEW D \in SUBSET Dirs,
           RefOK(r), HandlesOK(r, hs), Matches(r, W), Emptied(W, V, S)
    PROVE  LET z == Without(r, S, D)
               k == MarkedGone(hs, S)
           IN  RefOK(z) /\ HandlesOK(z, k) /\ Matches(z, V) /\ z.dirs = D
<1> DEFINE e == [f \in Files |-> IF f \in S THEN NoObject ELSE r.entry[f]]
           z == Fs(D, e, r.live)
           k == MarkedGone(hs, S)
<1> USE DEF Without, MarkedGone, Emptied
<1>1. Placed(r.entry, r.live) /\ Shown(r.entry, r.live, W)
  BY ShownIs
<1>2. z.dirs = D /\ z.entry = e /\ z.live = r.live
  BY FsIs
<1>3. /\ e \in [Files -> Objects \cup {NoObject}]
      /\ \A f \in S : e[f] = NoObject
      /\ \A f \in Files \ S : e[f] = r.entry[f]
  BY <1>1 DEF Placed
<1> HIDE DEF e
<1>4. Placed(e, r.live)
  BY <1>1, <1>3 DEF Placed
<1>5. Shown(e, r.live, V)
  BY <1>1, <1>3 DEF Shown
<1>6. RefOK(z) /\ Matches(z, V)
  BY <1>2, <1>4, <1>5, ShownIs
<1> HIDE DEF z
<1>7. HandlesOK(z, k)
  <2>1. k = [h \in Handles |-> k[h]]
    OBVIOUS
  <2>2. ASSUME NEW h \in Handles
        PROVE  k[h] = NoHandle \/ IsHandle(z, k[h])
    <3>1. CASE hs[h] = NoHandle
      <4>1. hs[h].path \notin S
        BY <3>1, PathFacts DEF NoHandle
      <4> QED
        BY <3>1, <4>1
    <3>2. CASE hs[h] # NoHandle
      <4> DEFINE x == hs[h]
      <4>1. IsHandle(r, x)
        BY <3>2 DEF HandlesOK
      <4>2. CASE x.path \in S
        <5> DEFINE y == [x EXCEPT !.gone = TRUE]
        <5>1. /\ DOMAIN y = HandleFields
              /\ y.path = x.path /\ y.object = x.object /\ y.gone = TRUE
          <6> HIDE DEF x
          <6> QED
            BY <4>1 DEF IsHandle, HandleFields
        <5>2. k[h] = y
          BY <4>2
        <5> HIDE DEF y, x, k
        <5> QED
          BY <4>1, <5>1, <5>2 DEF IsHandle
      <4>3. CASE x.path \notin S
        <5>1. k[h] = x
          BY <4>3
        <5> HIDE DEF x, k
        <5> QED
          BY <1>2, <1>3, <4>1, <4>3, <5>1 DEF IsHandle
      <4> QED
        BY <4>2, <4>3
    <3> QED
      BY <3>1, <3>2
  <2> HIDE DEF k
  <2> QED
    BY <2>1, <2>2 DEF HandlesOK
<1> QED
  BY <1>2, <1>6, <1>7 DEF z, k, e

\* A handle is closed; the objects the entries name keep their bytes.
WithLives(r, l) == [r EXCEPT !.live = l]

KeepsPlaced(r, l) ==
    /\ l \in [Objects -> Seq(Bytes)]
    /\ \A f \in Files : r.entry[f] # NoObject => l[r.entry[f]] = r.live[r.entry[f]]

LEMMA RefCloses ==
    ASSUME NEW r, NEW hs, NEW W, NEW h \in Handles, NEW l,
           RefOK(r), HandlesOK(r, hs), Matches(r, W), KeepsPlaced(r, l)
    PROVE  LET z == WithLives(r, l)
           IN  /\ RefOK(z) /\ HandlesOK(z, [hs EXCEPT ![h] = NoHandle])
               /\ Matches(z, W) /\ z.dirs = r.dirs
<1> USE DEF WithLives, KeepsPlaced
<1> DEFINE z == WithLives(r, l)
           k == [hs EXCEPT ![h] = NoHandle]
<1>1. r = Fs(r.dirs, r.entry, r.live) /\ r.dirs \subseteq Dirs /\ Placed(r.entry, r.live)
  BY ShownIs
<1>2. Shown(r.entry, r.live, W)
  BY ShownIs
<1>3. z = Fs(r.dirs, r.entry, l)
  BY <1>1 DEF Fs
<1>4. z.dirs = r.dirs /\ z.entry = r.entry /\ z.live = l
  BY <1>3, FsIs
<1> HIDE DEF z
<1>5. Placed(r.entry, l) /\ Shown(r.entry, l, W)
  BY <1>1, <1>2 DEF Placed, Shown
<1>6. RefOK(z) /\ Matches(z, W)
  BY <1>1, <1>3, <1>4, <1>5, ShownIs
<1>7. k = [g \in Handles |-> k[g]] /\ k[h] = NoHandle /\ \A g \in Handles : g # h => k[g] = hs[g]
  BY DEF HandlesOK
<1> HIDE DEF k
<1>8. HandlesOK(z, k)
  BY <1>4, <1>7 DEF HandlesOK, IsHandle
<1> QED
  BY <1>4, <1>6, <1>8 DEF z, k

\* Directories appear.
WithDirs(r, D) == [r EXCEPT !.dirs = D]

LEMMA RefDirs ==
    ASSUME NEW r, NEW hs, NEW W, NEW D \in SUBSET Dirs,
           RefOK(r), HandlesOK(r, hs), Matches(r, W)
    PROVE  LET z == WithDirs(r, D)
           IN  RefOK(z) /\ HandlesOK(z, hs) /\ Matches(z, W) /\ z.dirs = D
<1> USE DEF WithDirs
<1> DEFINE z == WithDirs(r, D)
<1>1. r = Fs(r.dirs, r.entry, r.live) /\ Placed(r.entry, r.live) /\ Shown(r.entry, r.live, W)
  BY ShownIs
<1>2. z = Fs(D, r.entry, r.live)
  BY <1>1 DEF Fs
<1>3. z.dirs = D /\ z.entry = r.entry /\ z.live = r.live
  BY <1>2, FsIs
<1> HIDE DEF z
<1>4. RefOK(z) /\ Matches(z, W)
  BY <1>1, <1>2, <1>3, ShownIs
<1>5. HandlesOK(z, hs)
  BY <1>3 DEF HandlesOK, IsHandle
<1> QED
  BY <1>3, <1>4, <1>5 DEF z

LEMMA InjectionFits ==
    ASSUME NEW S, NEW T, IsFiniteSet(S), IsFiniteSet(T), Cardinality(S) <= Cardinality(T)
    PROVE  \E m \in [S -> T] : \A x, y \in S : x # y => m[x] # m[y]
<1> DEFINE a == Cardinality(S)
           b == Cardinality(T)
<1>1. a \in Nat /\ b \in Nat /\ a <= b /\ ExistsBijection(1..a, S) /\ ExistsBijection(1..b, T)
  BY FS_CardinalityType
<1> HIDE DEF a, b
<1>2. PICK f \in [1..a -> S] : \A x \in S : \E i \in 1..a : f[i] = x
  BY <1>1 DEF ExistsBijection, Bijection, Injection, Surjection
<1>3. PICK g \in [1..b -> T] : \A i, j \in 1..b : g[i] = g[j] => i = j
  BY <1>1 DEF ExistsBijection, Bijection, Injection, IsInjective
<1> DEFINE at == [x \in S |-> CHOOSE i \in 1..a : f[i] = x]
           m  == [x \in S |-> g[at[x]]]
<1>4. \A x \in S : at[x] \in 1..a /\ f[at[x]] = x
  BY <1>2
<1> HIDE DEF at
<1>5. \A x \in S : at[x] \in 1..b
  BY <1>1, <1>4
<1>6. m \in [S -> T]
  BY <1>3, <1>5
<1>7. \A x, y \in S : x # y => m[x] # m[y]
  BY <1>3, <1>4, <1>5
<1> QED
  BY <1>6, <1>7

\* One sequence of bytes for a file that is there, none for another.
Contained(W) ==
    \A f \in Files : W[f] = {} \/ \E b \in Seq(Bytes) : W[f] = {b}

\* After a reload the reference is what the adapter shows.
LEMMA RebasedIs ==
    ASSUME NEW D \in SUBSET Dirs, NEW W, Contained(W)
    PROVE  True(Rebased(D, W), [h \in Handles |-> NoHandle], W, D)
<1> DEFINE present == {f \in Files : W[f] # {}}
           place   == CHOOSE m \in [present -> Objects] :
                          \A f, g \in present : f # g => m[f] # m[g]
           e == [f \in Files |-> IF f \in present THEN place[f] ELSE NoObject]
           l == [o \in Objects |->
                    IF \E f \in present : place[f] = o
                    THEN CHOOSE b \in UNION {W[f] : f \in
                            {g \in present : place[g] = o}} : TRUE
                    ELSE <<>>]
           r == Rebased(D, W)
           hs == [h \in Handles |-> NoHandle]
<1>1. \E m \in [present -> Objects] : \A f, g \in present : f # g => m[f] # m[g]
  <2>1. IsFiniteSet(Files) /\ IsFiniteSet(Objects) /\ present \subseteq Files
    BY ObjectsAssumption
  <2> HIDE DEF present
  <2>2. IsFiniteSet(present) /\ Cardinality(present) <= Cardinality(Files)
    BY <2>1, FS_Subset
  <2>3. Cardinality(Handles) # 0 /\ Cardinality(Handles) \in Nat
    BY HandlesAssumption, FS_EmptySet, FS_CardinalityType
  <2>4. Cardinality(Files) \in Nat /\ Cardinality(Objects) \in Nat /\ Cardinality(present) \in Nat
    BY <2>1, <2>2, FS_CardinalityType
  <2>5. Cardinality(present) <= Cardinality(Objects)
    BY <2>2, <2>3, <2>4, HandlesAssumption
  <2> QED
    BY <2>1, <2>2, <2>5, InjectionFits
<1>2. place \in [present -> Objects] /\ \A f, g \in present : f # g => place[f] # place[g]
  <2> HIDE DEF present
  <2> QED
    BY <1>1
<1>3. r = Fs(D, e, l)
  BY DEF Rebased, Fs
<1>4. present \subseteq Files /\ \A f \in Files : f \in present <=> W[f] # {}
  OBVIOUS
<1> HIDE DEF present, place, r, hs
<1>5. /\ e \in [Files -> Objects \cup {NoObject}]
      /\ \A f \in present : e[f] = place[f] /\ e[f] \in Objects
      /\ \A f \in Files \ present : e[f] = NoObject
  BY <1>2, <1>4
<1>6. ASSUME NEW f \in present
      PROVE  l[place[f]] \in Seq(Bytes) /\ W[f] = {l[place[f]]}
  <2> DEFINE o == place[f]
             G == {g \in present : place[g] = o}
  <2>1. PICK b \in Seq(Bytes) : W[f] = {b}
    BY <1>4 DEF Contained
  <2>2. o \in Objects
    BY <1>2
  <2>3. G = {f}
    BY <1>2
  <2>4. UNION {W[g] : g \in G} = {b}
    <3> HIDE DEF G, o
    <3> QED
      BY <2>1, <2>3
  <2>5. l[o] = CHOOSE x \in UNION {W[g] : g \in G} : TRUE
    BY <2>2
  <2> HIDE DEF G, l, o
  <2>6. l[o] = b
    BY <2>4, <2>5
  <2> QED
    BY <2>1, <2>6 DEF o
<1>7. l \in [Objects -> Seq(Bytes)]
  <2>1. ASSUME NEW o \in Objects
        PROVE  l[o] \in Seq(Bytes)
    <3>1. CASE \E f \in present : place[f] = o
      <4> HIDE DEF l
      <4> QED
        BY <1>6, <3>1
    <3>2. CASE ~ \E f \in present : place[f] = o
      <4>1. l[o] = <<>>
        BY <3>2
      <4> HIDE DEF l
      <4> QED
        BY <4>1
    <3> QED
      BY <3>1, <3>2
  <2>2. l = [o \in Objects |-> l[o]]
    OBVIOUS
  <2> HIDE DEF l
  <2> QED
    BY <2>1, <2>2
<1> HIDE DEF e, l
<1>8. Placed(e, l)
  <2>1. ASSUME NEW f \in Files, NEW g \in Files, e[f] = e[g], e[f] # NoObject
        PROVE  f = g
    <3>1. f \in present /\ g \in present
      BY <1>5, <2>1
    <3> QED
      BY <1>2, <1>5, <2>1, <3>1
  <2> QED
    BY <1>5, <1>7, <2>1 DEF Placed
<1>9. Shown(e, l, W)
  <2> SUFFICES ASSUME NEW f \in Files
               PROVE  /\ f \notin LongPaths => W[f] = IF e[f] = NoObject THEN {} ELSE {l[e[f]]}
                      /\ e[f] # NoObject => W[f] # {}
    BY DEF Shown
  <2>1. CASE f \in present
    <3>1. e[f] = place[f] /\ e[f] # NoObject
      BY <1>5, <2>1, PathFacts
    <3> QED
      BY <1>4, <1>6, <2>1, <3>1
  <2>2. CASE f \notin present
    BY <1>4, <1>5, <2>2
  <2> QED
    BY <2>1, <2>2
<1>10. r.dirs = D /\ r.entry = e /\ r.live = l
  BY <1>3, FsIs
<1>11. RefOK(r) /\ Matches(r, W)
  BY <1>3, <1>8, <1>9, <1>10, ShownIs
<1>12. HandlesOK(r, hs)
  BY DEF HandlesOK, hs
<1> QED
  BY <1>10, <1>11, <1>12 DEF True, r, hs

\* There is an object for a file that has none, when a handle is there for it.
LEMMA ObjectIsFree ==
    ASSUME NEW r, NEW hs, NEW p \in Files, NEW h \in Handles,
           RefOK(r), HandlesOK(r, hs), r.entry[p] = NoObject, hs[h] = NoHandle
    PROVE  FreeObjects(r, {hs[g].object : g \in Handles}) # {}
<1> DEFINE F == Files \ {p}
           H == Handles \ {h}
           A == {r.entry[f] : f \in F}
           B == {hs[g].object : g \in H}
           free == FreeObjects(r, {hs[g].object : g \in Handles})
<1>1. /\ IsFiniteSet(F) /\ Cardinality(F) = Cardinality(Files) - 1
      /\ IsFiniteSet(H) /\ Cardinality(H) = Cardinality(Handles) - 1
  BY ObjectsAssumption, HandlesAssumption, FS_RemoveElement
<1>2. IsFiniteSet(A) /\ Cardinality(A) <= Cardinality(F)
  <2> DEFINE m == [f \in F |-> r.entry[f]]
  <2>1. m \in [F -> A] /\ \A y \in A : \E x \in F : m[x] = y
    OBVIOUS
  <2> HIDE DEF m, F, A
  <2> QED
    BY <1>1, <2>1, ImageFinite
<1>3. IsFiniteSet(B) /\ Cardinality(B) <= Cardinality(H)
  <2> DEFINE m == [g \in H |-> hs[g].object]
  <2>1. m \in [H -> B] /\ \A y \in B : \E x \in H : m[x] = y
    OBVIOUS
  <2> HIDE DEF m, H, B
  <2> QED
    BY <1>1, <2>1, ImageFinite
<1>4. free = Objects \ (A \cup B)
  <2>1. NoHandle.object = NoObject
    BY DEF NoHandle
  <2>2. {r.entry[f] : f \in Files} = A \cup {NoObject}
    OBVIOUS
  <2>3. {hs[g].object : g \in Handles} = B \cup {NoObject}
    BY <2>1
  <2> HIDE DEF A, B
  <2> QED
    BY <2>2, <2>3, PathFacts DEF FreeObjects
<1> HIDE DEF A, B, F, H, free
<1>5. /\ IsFiniteSet(A \cup B)
      /\ Cardinality(A \cup B) = Cardinality(A) + Cardinality(B) - Cardinality(A \cap B)
  BY <1>2, <1>3, FS_Union
<1>6. IsFiniteSet(A \cap B)
  BY <1>2, FS_Subset
<1>7. /\ Cardinality(A) \in Nat /\ Cardinality(B) \in Nat /\ Cardinality(A \cap B) \in Nat
      /\ Cardinality(Files) \in Nat /\ Cardinality(Handles) \in Nat /\ Cardinality(Objects) \in Nat
      /\ Cardinality(F) \in Nat /\ Cardinality(H) \in Nat
  BY <1>1, <1>2, <1>3, <1>6, FS_CardinalityType, ObjectsAssumption, HandlesAssumption
<1>8. Cardinality(A \cup B) < Cardinality(Objects)
  BY <1>1, <1>2, <1>3, <1>5, <1>7, HandlesAssumption
<1>9. ~ (Objects \subseteq A \cup B)
  <2> SUFFICES ASSUME Objects \subseteq A \cup B PROVE FALSE
    OBVIOUS
  <2>1. Cardinality(Objects) <= Cardinality(A \cup B)
    BY <1>5, FS_Subset
  <2>2. Cardinality(A \cup B) \in Nat
    BY <1>5, FS_CardinalityType
  <2> QED
    BY <1>7, <1>8, <2>1, <2>2
<1>10. free # {}
  BY <1>4, <1>9
<1> QED
  BY <1>10 DEF free

-------------------------------------------------------------------------------
(* Slots. *)

LEMMA FirstIs ==
    ASSUME NEW S \in SUBSET Slots, S # {}
    PROVE  FirstOf(S) \in S
<1>1. S \in SUBSET Nat
  BY OpfsAssumption
<1>2. \E s \in S : \A t \in S : s <= t
  BY <1>1, LeastNatural
<1> QED
  BY <1>2 DEF FirstOf

LEMMA FoundSlot ==
    ASSUME NEW q, PoolOK(q), NEW p \in Files, SlotsOf(q, p) # {}
    PROVE  /\ Find(q, p) \in Slots /\ q.slot[Find(q, p)].path = p
           /\ SlotsOf(q, p) = {Find(q, p)}
<1>1. Find(q, p) \in SlotsOf(q, p)
  BY FirstIs DEF Find, SlotsOf
<1>2. Find(q, p) \in Slots /\ q.slot[Find(q, p)].path = p
  BY <1>1 DEF SlotsOf
<1>3. \A s \in SlotsOf(q, p) : s = Find(q, p)
  BY <1>2, PathFacts DEF SlotsOf, PoolOK, OneSlotEach
<1> QED
  BY <1>1, <1>2, <1>3

LEMMA FreeSlot ==
    ASSUME NEW q, SlotsOf(q, NoPath) # {}
    PROVE  Free(q) \in Slots /\ q.slot[Free(q)].path = NoPath
<1>1. Free(q) \in SlotsOf(q, NoPath)
  BY FirstIs DEF Free, SlotsOf
<1> QED
  BY <1>1 DEF SlotsOf

\* What a slot that has a file's name shows.
LEMMA ShownBySlot ==
    ASSUME NEW q, PoolOK(q), NEW s \in Slots, q.slot[s].path \in Files
    PROVE  /\ OpfsContents(q, q.slot[s].path) = {q.slot[s].bytes}
           /\ SlotsOf(q, q.slot[s].path) = {s}
<1>1. SlotsOf(q, q.slot[s].path) = {s}
  BY PathFacts DEF SlotsOf, PoolOK, OneSlotEach
<1> QED
  BY <1>1 DEF OpfsContents

LEMMA ShownEmpty ==
    ASSUME NEW q, NEW p
    PROVE  OpfsContents(q, p) = {} <=> SlotsOf(q, p) = {}
BY DEF OpfsContents

\* One slot changes.
SlotSet(q, z, s, x) ==
    /\ PoolOK(q) /\ IsSlot(x) /\ s \in Slots
    /\ DOMAIN z = PoolFields /\ z.slot = [q.slot EXCEPT ![s] = x] /\ Upward(z.dirs)
    /\ \A t \in Slots : t # s /\ x.path # NoPath => q.slot[t].path # x.path

SlotShown(q, z, s, x) ==
    /\ z.slot[s] = x /\ \A t \in Slots : t # s => z.slot[t] = q.slot[t]
    /\ \A f : f # x.path /\ f # q.slot[s].path => OpfsContents(z, f) = OpfsContents(q, f)
    /\ x.path \in Files => OpfsContents(z, x.path) = {x.bytes}
    /\ q.slot[s].path \in Files /\ q.slot[s].path # x.path
            => OpfsContents(z, q.slot[s].path) = {}

LEMMA SlotChanges ==
    ASSUME NEW q, NEW z, NEW s, NEW x, SlotSet(q, z, s, x)
    PROVE  PoolOK(z) /\ SlotShown(q, z, s, x)
<1> USE DEF SlotSet
<1>1. /\ z.slot = [t \in Slots |-> z.slot[t]]
      /\ z.slot[s] = x /\ \A t \in Slots : t # s => z.slot[t] = q.slot[t]
  BY DEF PoolOK
<1>2. PoolOK(z)
  <2>1. OneSlotEach(z)
    BY <1>1 DEF PoolOK, OneSlotEach
  <2>2. \A t \in Slots : IsSlot(z.slot[t])
    BY <1>1 DEF PoolOK
  <2> QED
    BY <1>1, <2>1, <2>2 DEF PoolOK
<1>3. ASSUME NEW f, f # x.path, f # q.slot[s].path
      PROVE  OpfsContents(z, f) = OpfsContents(q, f)
  <2>1. SlotsOf(z, f) = SlotsOf(q, f) /\ s \notin SlotsOf(q, f)
    BY <1>1, <1>3 DEF SlotsOf
  <2>2. \A t \in SlotsOf(q, f) : t \in Slots /\ t # s
    BY <2>1 DEF SlotsOf
  <2>3. \A t \in SlotsOf(q, f) : z.slot[t].bytes = q.slot[t].bytes
    BY <1>1, <2>2
  <2> QED
    BY <2>1, <2>3 DEF OpfsContents
<1>4. x.path \in Files => OpfsContents(z, x.path) = {x.bytes}
  BY <1>1, <1>2, ShownBySlot
<1>5. ASSUME q.slot[s].path \in Files, q.slot[s].path # x.path
      PROVE  OpfsContents(z, q.slot[s].path) = {}
  <2>1. \A t \in Slots : t # s => q.slot[t].path # q.slot[s].path
    BY <1>5, PathFacts DEF PoolOK, OneSlotEach
  <2>2. SlotsOf(z, q.slot[s].path) = {}
    BY <1>1, <1>5, <2>1 DEF SlotsOf
  <2> QED
    BY <2>2, ShownEmpty
<1> QED
  BY <1>1, <1>2, <1>3, <1>4, <1>5 DEF SlotShown

PoolKept(q, hs, n) == PoolOK(q) /\ Bound(q, hs) /\ OwnBytes(q, n)

LEMMA FreshIs == IsSlot(FreshSlot) /\ FreshSlot.path = NoPath /\ FreshSlot.bytes = <<>>
<1>1. /\ DOMAIN FreshSlot = SlotFields /\ FreshSlot.path = NoPath
      /\ FreshSlot.header = NoPath /\ FreshSlot.bytes = <<>>
  BY DEF FreshSlot, SlotFields
<1> QED
  BY <1>1, PathFacts DEF IsSlot

\* Slots are released.
Freeing(q, z, S) ==
    /\ PoolOK(q) /\ S \in SUBSET Slots
    /\ DOMAIN z = PoolFields /\ Upward(z.dirs)
    /\ z.slot = [s \in Slots |-> IF s \in S THEN FreshSlot ELSE q.slot[s]]

Freed(q, z, S) ==
    /\ \A s \in Slots : z.slot[s] = IF s \in S THEN FreshSlot ELSE q.slot[s]
    /\ \A f \in Files : OpfsContents(z, f) =
         IF \E s \in S : q.slot[s].path = f THEN {} ELSE OpfsContents(q, f)

LEMMA SlotsReleased ==
    ASSUME NEW q, NEW z, NEW S, Freeing(q, z, S)
    PROVE  PoolOK(z) /\ Freed(q, z, S)
<1> USE DEF Freeing
<1>1. /\ z.slot = [s \in Slots |-> z.slot[s]]
      /\ \A s \in Slots : z.slot[s] = IF s \in S THEN FreshSlot ELSE q.slot[s]
  OBVIOUS
<1>2. PoolOK(z)
  <2>1. \A s \in Slots : IsSlot(z.slot[s])
    BY <1>1, FreshIs DEF PoolOK
  <2>2. OneSlotEach(z)
    BY <1>1, FreshIs DEF PoolOK, OneSlotEach
  <2> QED
    BY <1>1, <2>1, <2>2 DEF PoolOK
<1>3. ASSUME NEW f \in Files
      PROVE  OpfsContents(z, f) =
                IF \E s \in S : q.slot[s].path = f THEN {} ELSE OpfsContents(q, f)
  <2>1. SlotsOf(z, f) = SlotsOf(q, f) \ S
    BY <1>1, FreshIs, PathFacts DEF SlotsOf
  <2>2. CASE \E s \in S : q.slot[s].path = f
    <3>1. PICK s \in S : q.slot[s].path = f
      BY <2>2
    <3>2. SlotsOf(q, f) = {s}
      BY <3>1, ShownBySlot
    <3>3. SlotsOf(z, f) = {}
      BY <2>1, <3>1, <3>2
    <3> QED
      BY <2>2, <3>3, ShownEmpty
  <2>3. CASE ~ \E s \in S : q.slot[s].path = f
    <3>1. SlotsOf(z, f) = SlotsOf(q, f)
      BY <2>1, <2>3 DEF SlotsOf
    <3>2. \A s \in SlotsOf(q, f) : z.slot[s].bytes = q.slot[s].bytes
      BY <1>1, <2>3 DEF SlotsOf
    <3>3. OpfsContents(z, f) = OpfsContents(q, f)
      BY <3>1, <3>2 DEF OpfsContents
    <3> QED
      BY <2>3, <3>3
  <2> QED
    BY <2>2, <2>3
<1> QED
  BY <1>1, <1>2, <1>3 DEF Freed

LEMMA OwnEmpty == \A p : <<>> \in Own(p)
BY DEF Own

LEMMA OpfsOpenedIs ==
    ASSUME NEW q, NEW hs, NEW n, PoolKept(q, hs, n), NEW p \in Files, p \notin LongPaths,
           SlotsOf(q, p) = {}, SlotsOf(q, NoPath) # {}, Ancestors(Parent[p]) \subseteq q.dirs
    PROVE  LET a == OpfsOpen(q, p)
           IN  /\ a.rc = "ok" /\ PoolKept(a.pool, hs, n) /\ a.pool.dirs = q.dirs
               /\ a.slot \in Slots /\ a.pool.slot[a.slot].path = p
               /\ OpfsContents(a.pool, p) = {<<>>}
               /\ \A f \in Files : f # p => OpfsContents(a.pool, f) = OpfsContents(q, f)
<1> DEFINE s == Free(q)
           x == [path |-> p, header |-> p, bytes |-> <<>>]
           z == [Opened(q, p) EXCEPT !.dirs = @ \cup Ancestors(Parent[p])]
           a == OpfsOpen(q, p)
<1>1. a.rc = "ok" /\ a.pool = z /\ a.slot = s
  BY DEF OpfsOpen
<1>2. Opened(q, p) = [q EXCEPT !.slot[s] = x]
  BY DEF Opened
<1>3. s \in Slots /\ q.slot[s].path = NoPath
  BY FreeSlot
<1>4. IsSlot(x) /\ x.path = p /\ x.bytes = <<>>
  <2>1. DOMAIN x = SlotFields /\ x.path = p /\ x.header = p /\ x.bytes = <<>>
    BY DEF SlotFields
  <2> HIDE DEF x
  <2> QED
    BY <2>1 DEF IsSlot
<1> HIDE DEF a, x, s
<1>5. DOMAIN z = PoolFields /\ z.slot = [q.slot EXCEPT ![s] = x] /\ z.dirs = q.dirs
  BY <1>2 DEF PoolKept, PoolOK, PoolFields
<1> HIDE DEF z
<1>6. \A t \in Slots : q.slot[t].path # p
  BY DEF SlotsOf
<1>7. /\ PoolOK(z) /\ z.slot[s] = x /\ \A t \in Slots : t # s => z.slot[t] = q.slot[t]
      /\ \A f : f # p /\ f # NoPath => OpfsContents(z, f) = OpfsContents(q, f)
      /\ OpfsContents(z, p) = {<<>>}
  <2>1. SlotSet(q, z, s, x)
    BY <1>3, <1>4, <1>5, <1>6 DEF SlotSet, PoolKept, PoolOK
  <2>2. PoolOK(z) /\ SlotShown(q, z, s, x)
    BY <2>1, SlotChanges
  <2> QED
    BY <1>3, <1>4, <2>2 DEF SlotShown
<1>8. Bound(z, hs)
  <2> SUFFICES ASSUME NEW h \in Handles, hs[h] # NoHandle, ~ hs[h].gone
               PROVE  /\ hs[h].slot \in Slots /\ hs[h].path \in Files
                      /\ z.slot[hs[h].slot].path = hs[h].path
    BY DEF Bound
  <2>1. hs[h].slot \in Slots /\ hs[h].path \in Files /\ q.slot[hs[h].slot].path = hs[h].path
    BY DEF PoolKept, Bound
  <2>2. CASE hs[h].slot # s
    BY <1>7, <2>1, <2>2
  <2>3. CASE hs[h].slot = s
    BY <1>3, <2>1, <2>3, PathFacts
  <2> QED
    BY <2>2, <2>3
<1>9. OwnBytes(z, n)
  BY <1>4, <1>7, PathFacts, OwnEmpty DEF PoolKept, OwnBytes, Cut0, Cut1
<1> QED
  BY <1>1, <1>3, <1>4, <1>5, <1>7, <1>8, <1>9, PathFacts DEF PoolKept, a

\* A path too long for a header: the slot is claimed, and stays as it was.
LEMMA OpfsClaimedIs ==
    ASSUME NEW q, NEW hs, NEW n, PoolKept(q, hs, n), NEW p \in LongPaths,
           SlotsOf(q, p) = {}, SlotsOf(q, NoPath) # {}
    PROVE  LET z == Opened(q, p)
           IN  /\ PoolKept(z, hs, n) /\ z.dirs = q.dirs
               /\ OpfsContents(z, p) # {}
               /\ \A f \in Files : f # p => OpfsContents(z, f) = OpfsContents(q, f)
<1> DEFINE s == Free(q)
           y == q.slot[s]
           x == [path |-> p, header |-> y.header, bytes |-> y.bytes]
           z == Opened(q, p)
<1>1. p \in Files
  BY PathFacts
<1>2. s \in Slots /\ y.path = NoPath
  BY FreeSlot
<1>3. z = [q EXCEPT !.slot[s] = x]
  BY DEF Opened, Claimed
<1>4. IsSlot(y)
  BY <1>2 DEF PoolKept, PoolOK
<1>5. IsSlot(x) /\ x.path = p /\ x.bytes = y.bytes
  <2>1. DOMAIN x = SlotFields /\ x.path = p /\ x.header = y.header /\ x.bytes = y.bytes
    BY DEF SlotFields
  <2> HIDE DEF x, y
  <2> QED
    BY <1>1, <1>2, <1>4, <2>1, PathFacts DEF IsSlot
<1> HIDE DEF z, x, s
<1>6. DOMAIN z = PoolFields /\ z.slot = [q.slot EXCEPT ![s] = x] /\ z.dirs = q.dirs
  BY <1>3 DEF PoolKept, PoolOK, PoolFields
<1>7. \A t \in Slots : q.slot[t].path # p
  BY DEF SlotsOf
<1>8. PoolOK(z) /\ SlotShown(q, z, s, x)
  <2>1. SlotSet(q, z, s, x)
    BY <1>2, <1>5, <1>6, <1>7 DEF SlotSet, PoolKept, PoolOK
  <2> QED
    BY <2>1, SlotChanges
<1>9. /\ z.slot[s] = x /\ \A t \in Slots : t # s => z.slot[t] = q.slot[t]
      /\ \A f \in Files : f # p => OpfsContents(z, f) = OpfsContents(q, f)
      /\ OpfsContents(z, p) # {}
  BY <1>1, <1>2, <1>5, <1>8, PathFacts DEF SlotShown
<1>10. Bound(z, hs)
  <2> SUFFICES ASSUME NEW h \in Handles, hs[h] # NoHandle, ~ hs[h].gone
               PROVE  /\ hs[h].slot \in Slots /\ hs[h].path \in Files
                      /\ z.slot[hs[h].slot].path = hs[h].path
    BY DEF Bound
  <2>1. hs[h].slot \in Slots /\ hs[h].path \in Files /\ q.slot[hs[h].slot].path = hs[h].path
    BY DEF PoolKept, Bound
  <2>2. CASE hs[h].slot # s
    BY <1>9, <2>1, <2>2
  <2>3. CASE hs[h].slot = s
    BY <1>2, <2>1, <2>3, PathFacts
  <2> QED
    BY <2>2, <2>3
<1>11. OwnBytes(z, n)
  BY <1>1, <1>5, <1>9, PathFacts DEF PoolKept, OwnBytes, Cut0, Cut1
<1> QED
  BY <1>6, <1>8, <1>9, <1>10, <1>11 DEF PoolKept, z

\* The bytes of a slot that has a file's name change.
WithBytes(q, s, y) == [q EXCEPT !.slot[s].bytes = y]

MayHold(q, n, s, b) ==
    /\ s \in Slots /\ q.slot[s].path \in Files /\ b \in Seq(Bytes)
    /\ n <= 1 /\ q.slot[s].path \notin LongPaths => b \in Own(q.slot[s].path)

LEMMA OpfsBytesAre ==
    ASSUME NEW q, NEW hs, NEW n, PoolKept(q, hs, n), NEW s, NEW b, MayHold(q, n, s, b)
    PROVE  LET z == WithBytes(q, s, b)
           IN  /\ PoolKept(z, hs, n) /\ z.dirs = q.dirs
               /\ OpfsContents(z, q.slot[s].path) = {b}
               /\ \A f \in Files : f # q.slot[s].path => OpfsContents(z, f) = OpfsContents(q, f)
<1> USE DEF MayHold
<1> DEFINE p == q.slot[s].path
           y == q.slot[s]
           x == [y EXCEPT !.bytes = b]
           z == WithBytes(q, s, b)
<1>1. IsSlot(y)
  BY DEF PoolKept, PoolOK
<1>2. IsSlot(x) /\ x.path = p /\ x.bytes = b
  <2>1. DOMAIN x = SlotFields /\ x.path = y.path /\ x.header = y.header /\ x.bytes = b
    <3> HIDE DEF y
    <3> QED
      BY <1>1 DEF IsSlot, SlotFields
  <2> HIDE DEF x
  <2> QED
    BY <1>1, <2>1 DEF IsSlot
<1>3. DOMAIN z = PoolFields /\ z.slot = [q.slot EXCEPT ![s] = x] /\ z.dirs = q.dirs
  BY DEF PoolKept, PoolOK, PoolFields, WithBytes
<1> HIDE DEF z, x
<1>4. \A t \in Slots : t # s => q.slot[t].path # p
  BY PathFacts DEF PoolKept, PoolOK, OneSlotEach
<1>5. PoolOK(z) /\ SlotShown(q, z, s, x)
  <2>1. SlotSet(q, z, s, x)
    BY <1>2, <1>3, <1>4 DEF SlotSet, PoolKept, PoolOK
  <2> QED
    BY <2>1, SlotChanges
<1>6. /\ z.slot[s] = x /\ \A t \in Slots : t # s => z.slot[t] = q.slot[t]
      /\ \A f \in Files : f # p => OpfsContents(z, f) = OpfsContents(q, f)
      /\ OpfsContents(z, p) = {b}
  BY <1>2, <1>5 DEF SlotShown
<1>7. \A t \in Slots : z.slot[t].path = q.slot[t].path
  BY <1>2, <1>6
<1>8. Bound(z, hs)
  BY <1>7 DEF PoolKept, Bound
<1>9. OwnBytes(z, n)
  BY <1>2, <1>6, <1>7, PathFacts DEF PoolKept, OwnBytes, Cut0, Cut1
<1> QED
  BY <1>3, <1>5, <1>6, <1>8, <1>9 DEF PoolKept, z

HandlesTyped(hs) == \A h \in Handles : hs[h] # NoHandle => DOMAIN hs[h] = HandleFields

\* The slots of the files G are released, and the handles open on them know.
ReleasesThem(q, z, G) ==
    /\ DOMAIN z = PoolFields /\ Upward(z.dirs)
    /\ z.slot = [s \in Slots |-> IF s \in {t \in Slots : q.slot[t].path \in G}
                                 THEN FreshSlot ELSE q.slot[s]]

LEMMA OpfsReleasesThem ==
    ASSUME NEW q, NEW hs, NEW n, PoolKept(q, hs, n), HandlesTyped(hs),
           NEW G \in SUBSET Files, NEW z, ReleasesThem(q, z, G)
    PROVE  PoolKept(z, MarkedGone(hs, G), n) /\ Emptied(OpfsShows(q), OpfsShows(z), G)
<1> DEFINE S == {t \in Slots : q.slot[t].path \in G}
           k == MarkedGone(hs, G)
<1> USE DEF ReleasesThem, MarkedGone
<1>1. S \in SUBSET Slots /\ \A s \in Slots : s \in S <=> q.slot[s].path \in G
  OBVIOUS
<1> HIDE DEF S
<1>2. z.slot = [s \in Slots |-> IF s \in S THEN FreshSlot ELSE q.slot[s]]
  BY DEF S
<1>3. /\ PoolOK(z)
      /\ \A s \in Slots : z.slot[s] = IF s \in S THEN FreshSlot ELSE q.slot[s]
      /\ \A f \in Files : OpfsContents(z, f) =
            IF \E s \in S : q.slot[s].path = f THEN {} ELSE OpfsContents(q, f)
  <2>1. PoolOK(q)
    BY DEF PoolKept
  <2>2. Freeing(q, z, S)
    BY <1>1, <1>2, <2>1 DEF Freeing
  <2> QED
    BY <2>2, SlotsReleased DEF Freed
<1>4. ASSUME NEW f \in G
      PROVE  OpfsContents(z, f) = {}
  <2>1. CASE \E s \in S : q.slot[s].path = f
    BY <1>3, <2>1
  <2>2. CASE ~ \E s \in S : q.slot[s].path = f
    <3>1. SlotsOf(q, f) = {}
      BY <1>1, <2>2 DEF SlotsOf
    <3> QED
      BY <1>3, <2>2, <3>1, ShownEmpty
  <2> QED
    BY <2>1, <2>2
<1>5. ASSUME NEW f \in Files \ G
      PROVE  OpfsContents(z, f) = OpfsContents(q, f)
  BY <1>1, <1>3
<1>6. OwnBytes(z, n)
  BY <1>3, FreshIs, PathFacts DEF PoolKept, OwnBytes, Cut0, Cut1
<1>7. Bound(z, k)
  <2> SUFFICES ASSUME NEW h \in Handles, k[h] # NoHandle, ~ k[h].gone
               PROVE  /\ k[h].slot \in Slots /\ k[h].path \in Files
                      /\ z.slot[k[h].slot].path = k[h].path
    BY DEF Bound
  <2>1. CASE hs[h].path \in G
    <3> DEFINE y == hs[h]
    <3>1. y # NoHandle
      BY <2>1, PathFacts DEF NoHandle
    <3>2. DOMAIN y = HandleFields
      BY <3>1 DEF HandlesTyped
    <3> HIDE DEF y
    <3>3. [y EXCEPT !.gone = TRUE].gone = TRUE
      BY <3>2 DEF HandleFields
    <3>4. k[h] = [y EXCEPT !.gone = TRUE]
      BY <2>1 DEF y
    <3> QED
      BY <3>3, <3>4
  <2>2. CASE hs[h].path \notin G
    <3>1. k[h] = hs[h]
      BY <2>2
    <3>2. hs[h].slot \in Slots /\ hs[h].path \in Files /\ q.slot[hs[h].slot].path = hs[h].path
      BY <3>1 DEF PoolKept, Bound
    <3>3. z.slot[hs[h].slot] = q.slot[hs[h].slot]
      BY <1>1, <1>3, <2>2, <3>2
    <3> QED
      BY <3>1, <3>2, <3>3
  <2> QED
    BY <2>1, <2>2
<1>8. Emptied(OpfsShows(q), OpfsShows(z), G)
  BY <1>4, <1>5 DEF Emptied, OpfsShows
<1> QED
  BY <1>3, <1>6, <1>7, <1>8 DEF PoolKept

\* What the adapter's open makes of the pool q.
OpfsOpens(q, a, p) ==
    /\ a.pool.dirs = q.dirs
    /\ \A f \in Files : f # p => OpfsContents(a.pool, f) = OpfsContents(q, f)
    /\ a.rc = "ok" => /\ a.slot \in Slots /\ a.pool.slot[a.slot].path = p
                      /\ OpfsContents(a.pool, p) # {}
    /\ IF SlotsOf(q, p) # {} THEN a.rc = "ok" /\ a.pool = q
       ELSE \/ a.rc = "ok" /\ OpfsContents(a.pool, p) = {<<>>}
            \/ a.rc = "quota" /\ a.pool = q
            \/ a.rc = "io" /\ p \in LongPaths /\ OpfsContents(a.pool, p) # {}

LEMMA OpfsOpenIs ==
    ASSUME NEW q, NEW hs, NEW n, PoolKept(q, hs, n), NEW p \in Files, Parent[p] \in q.dirs
    PROVE  PoolKept(OpfsOpen(q, p).pool, hs, n) /\ OpfsOpens(q, OpfsOpen(q, p), p)
<1> DEFINE a == OpfsOpen(q, p)
<1>1. PoolOK(q) /\ Ancestors(Parent[p]) \subseteq q.dirs
  BY DEF PoolKept, PoolOK, Upward
<1>2. CASE SlotsOf(q, p) # {}
  <2>1. a = [rc |-> "ok", pool |-> q, slot |-> Find(q, p)]
    BY <1>2 DEF OpfsOpen
  <2>2. a.rc = "ok" /\ a.pool = q /\ a.slot = Find(q, p)
    BY <2>1
  <2>3. OpfsContents(q, p) # {}
    BY <1>2, ShownEmpty
  <2>4. Find(q, p) \in Slots /\ q.slot[Find(q, p)].path = p
    BY <1>1, <1>2, FoundSlot
  <2> HIDE DEF a
  <2>5. PoolKept(a.pool, hs, n) /\ OpfsOpens(q, a, p)
    BY <1>2, <2>2, <2>3, <2>4 DEF OpfsOpens
  <2> QED
    BY <2>5 DEF a
<1>3. CASE SlotsOf(q, p) = {} /\ SlotsOf(q, NoPath) = {}
  <2>1. a = [rc |-> "quota", pool |-> q, slot |-> 0]
    BY <1>3 DEF OpfsOpen
  <2>2. a.rc = "quota" /\ a.pool = q
    BY <2>1
  <2> HIDE DEF a
  <2>3. PoolKept(a.pool, hs, n) /\ OpfsOpens(q, a, p)
    BY <1>3, <2>2 DEF OpfsOpens
  <2> QED
    BY <2>3 DEF a
<1>4. CASE SlotsOf(q, p) = {} /\ SlotsOf(q, NoPath) # {} /\ p \in LongPaths
  <2>1. a = [rc |-> "io", pool |-> Opened(q, p), slot |-> 0]
    BY <1>4 DEF OpfsOpen
  <2>2. a.rc = "io" /\ a.pool = Opened(q, p)
    BY <2>1
  <2>3. /\ PoolKept(Opened(q, p), hs, n) /\ Opened(q, p).dirs = q.dirs
        /\ OpfsContents(Opened(q, p), p) # {}
        /\ \A f \in Files : f # p => OpfsContents(Opened(q, p), f) = OpfsContents(q, f)
    BY <1>4, OpfsClaimedIs
  <2> HIDE DEF a
  <2>4. PoolKept(a.pool, hs, n) /\ OpfsOpens(q, a, p)
    BY <1>4, <2>2, <2>3 DEF OpfsOpens
  <2> QED
    BY <2>4 DEF a
<1>5. CASE SlotsOf(q, p) = {} /\ SlotsOf(q, NoPath) # {} /\ p \notin LongPaths
  <2>1. /\ a.rc = "ok" /\ PoolKept(a.pool, hs, n) /\ a.pool.dirs = q.dirs
        /\ a.slot \in Slots /\ a.pool.slot[a.slot].path = p
        /\ OpfsContents(a.pool, p) = {<<>>}
        /\ \A f \in Files : f # p => OpfsContents(a.pool, f) = OpfsContents(q, f)
    BY <1>1, <1>5, OpfsOpenedIs
  <2> HIDE DEF a
  <2>2. PoolKept(a.pool, hs, n) /\ OpfsOpens(q, a, p)
    BY <1>5, <2>1 DEF OpfsOpens
  <2> QED
    BY <2>2 DEF a
<1> QED
  BY <1>2, <1>3, <1>4, <1>5

\* The contents after an open that succeeds.
AfterOpen(r, W, V, p, m) ==
    /\ V[p] # {} /\ \A f \in Files : f # p => V[f] = W[f]
    /\ IF r.entry[p] = NoObject
       THEN m \in {"Create", "CreateNew"} /\ (p \notin LongPaths => V[p] = {<<>>})
       ELSE m # "CreateNew" /\ V[p] = W[p]

LEMMA RefAfterOpen ==
    ASSUME NEW r, NEW hs, NEW W, NEW V, NEW D, True(r, hs, W, D), NEW p \in Files,
           Parent[p] \in D, NEW h \in Handles, hs[h] = NoHandle, NEW m,
           AfterOpen(r, W, V, p, m)
    PROVE  LET want == OpenFile(r, p, m, {hs[g].object : g \in Handles})
           IN  /\ want.rc = "ok" /\ True(want.fs, hs, V, D)
               /\ want.value = want.fs.entry[p] /\ want.fs.entry[p] # NoObject
<1> DEFINE held == {hs[g].object : g \in Handles}
           want == OpenFile(r, p, m, held)
           o == CHOOSE x \in FreeObjects(r, held) : TRUE
           z == WithFile(r, p, o)
<1>1. RefOK(r) /\ HandlesOK(r, hs) /\ Matches(r, W) /\ D = r.dirs
  BY DEF True
<1>2. p \notin r.dirs
  BY <1>1, PathFacts DEF RefOK
<1>3. CASE r.entry[p] # NoObject
  <2>1. m # "CreateNew" /\ \A f \in Files : V[f] = W[f]
    BY <1>3 DEF AfterOpen
  <2>2. want = Ok(r, r.entry[p])
    BY <1>2, <1>3, <2>1 DEF OpenFile
  <2>3. want.rc = "ok" /\ want.fs = r /\ want.value = r.entry[p]
    BY <2>2 DEF Ok
  <2>4. Matches(r, V)
    BY <1>1, <2>1 DEF Matches
  <2> HIDE DEF want
  <2> QED
    BY <1>1, <1>3, <2>3, <2>4 DEF True, want
<1>4. CASE r.entry[p] = NoObject
  <2>1. m \in {"Create", "CreateNew"} /\ (p \notin LongPaths => V[p] = {<<>>})
        /\ V[p] # {} /\ \A f \in Files : f # p => V[f] = W[f]
    BY <1>4 DEF AfterOpen
  <2>2. want = Ok(z, o)
    BY <1>1, <1>2, <1>4, <2>1 DEF OpenFile, WithFile
  <2> HIDE DEF want, z
  <2>3. want.rc = "ok" /\ want.fs = z /\ want.value = o
    BY <2>2 DEF Ok
  <2>4. o \in FreeObjects(r, held)
    BY <1>1, <1>4, ObjectIsFree
  <2>5. o \in Objects /\ \A f \in Files : r.entry[f] # o
    BY <2>4 DEF FreeObjects
  <2> HIDE DEF o
  <2>6. FileAppears(r, W, V, p, o)
    BY <1>4, <2>1, <2>5 DEF FileAppears
  <2>7. RefOK(z) /\ HandlesOK(z, hs) /\ Matches(z, V) /\ z.dirs = r.dirs /\ z.entry[p] = o
    BY <1>1, <2>5, <2>6, RefOpens DEF z
  <2> QED
    BY <1>1, <2>3, <2>5, <2>7, PathFacts DEF True, want
<1> QED
  BY <1>3, <1>4

-------------------------------------------------------------------------------
(* What the engine sees. *)

\* The contents and the directories of the adapter of this instance.
Seen == [f \in Files |-> WebContents(f)]

LEMMA OpfsSees ==
    ASSUME adapter = "opfs", OpfsTrue(pool, ref, handles, deaths)
    PROVE  /\ Seen = OpfsShows(pool) /\ WebDirs = pool.dirs
           /\ \A p \in Files : Exists(p) <=> SlotsOf(pool, p) # {}
           /\ \A d \in Dirs : Exists(d) <=> d \in pool.dirs
<1>1. \A d \in Dirs : SlotsOf(pool, d) = {}
  <2> SUFFICES ASSUME NEW d \in Dirs, NEW s \in Slots, pool.slot[s].path = d PROVE FALSE
    BY DEF SlotsOf
  <2>1. d \in Files \cup {NoPath}
    BY DEF OpfsTrue, PoolOK, IsSlot
  <2> QED
    BY <2>1, PathsAssumption, OpfsAssumption
<1>2. pool.dirs \subseteq Dirs
  BY DEF OpfsTrue, PoolOK, Upward
<1>3. \A d \in Dirs : Exists(d) <=> d \in pool.dirs
  BY <1>1 DEF Exists, OpfsExists
<1>4. \A p \in Files : Exists(p) <=> SlotsOf(pool, p) # {}
  BY <1>2, PathFacts DEF Exists, OpfsExists
<1>5. Seen = OpfsShows(pool)
  BY DEF Seen, WebContents, OpfsShows
<1> QED
  BY <1>2, <1>3, <1>4, <1>5 DEF WebDirs

LEMMA IdbSees ==
    ASSUME adapter = "indexeddb"
    PROVE  /\ Seen = IdbShows(cache) /\ WebDirs = IdbDirs(cache)
           /\ \A p \in Files : Exists(p) <=> p \in DOMAIN cache.files
           /\ \A d \in Dirs : Exists(d) <=> d \in IdbDirs(cache)
<1>1. Seen = IdbShows(cache)
  BY DEF Seen, WebContents, IdbShows
<1> QED
  BY <1>1, PathFacts DEF WebDirs, Exists, IdbDirs

\* Both adapters, in a state before the misuse of a handle.
LEMMA AdapterSees ==
    ASSUME RefInv, ~ misused
    PROVE  /\ ~ disagreed /\ adapter \in {"opfs", "indexeddb"} /\ deaths \in Nat
           /\ True(ref, handles, Seen, WebDirs)
           /\ \A p \in Files : Exists(p) <=> Seen[p] # {}
           /\ \A d \in Dirs : Exists(d) <=> d \in WebDirs
           /\ \A p \in Files : ref.entry[p] # NoObject => Exists(p)
           /\ \A p \in Files \ LongPaths : Exists(p) => ref.entry[p] # NoObject
<1>1. ~ disagreed /\ adapter \in {"opfs", "indexeddb"} /\ deaths \in Nat
  BY WebAssumption DEF RefInv
<1>2. /\ True(ref, handles, Seen, WebDirs)
      /\ \A p \in Files : Exists(p) <=> Seen[p] # {}
      /\ \A d \in Dirs : Exists(d) <=> d \in WebDirs
  <2>1. CASE adapter = "opfs"
    <3>1. OpfsTrue(pool, ref, handles, deaths)
      BY <2>1 DEF RefInv
    <3>2. \A p \in Files : OpfsShows(pool)[p] = {} <=> SlotsOf(pool, p) = {}
      BY ShownEmpty DEF OpfsShows
    <3> QED
      BY <2>1, <3>1, <3>2, OpfsSees DEF OpfsTrue
  <2>2. CASE adapter = "indexeddb"
    <3>1. IdbTrue(cache, store, inFlight, ref, handles)
      BY <2>2 DEF RefInv
    <3>2. \A p \in Files : IdbShows(cache)[p] # {} <=> p \in DOMAIN cache.files
      BY CachedContentsIs DEF IdbShows
    <3> QED
      BY <2>2, <3>1, <3>2, IdbSees DEF IdbTrue
  <2> QED
    BY <1>1, <2>1, <2>2
<1>3. Matches(ref, Seen)
  BY <1>2 DEF True
<1>4. \A p \in Files \ LongPaths : Seen[p] = IF ref.entry[p] = NoObject THEN {}
                                             ELSE {ref.live[ref.entry[p]]}
  BY <1>3, ContentsIs DEF Matches
<1>5. \A p \in Files : ref.entry[p] # NoObject => Seen[p] # {}
  BY <1>3 DEF Matches
<1>6. \A p \in Files \ LongPaths : Exists(p) => ref.entry[p] # NoObject
  BY <1>2, <1>4
<1> QED
  BY <1>1, <1>2, <1>5, <1>6

-------------------------------------------------------------------------------
(* The initial states. *)

NoHandles == [h \in Handles |-> NoHandle]

LEMMA EmptyIsTrue ==
    ASSUME NEW W, \A f \in Files : W[f] = {}
    PROVE  True(EmptyFs, NoHandles, W, {Root})
<1>1. /\ EmptyFs.dirs = {Root} /\ EmptyFs.entry = [f \in Files |-> NoObject]
      /\ EmptyFs.live = [o \in Objects |-> <<>>]
      /\ EmptyFs = Fs(EmptyFs.dirs, EmptyFs.entry, EmptyFs.live)
  BY DEF EmptyFs, Fs
<1> DEFINE e == [f \in Files |-> NoObject]
           l == [o \in Objects |-> <<>>]
<1>2. /\ e \in [Files -> Objects \cup {NoObject}] /\ l \in [Objects -> Seq(Bytes)]
      /\ \A f \in Files : e[f] = NoObject
  <2>1. <<>> \in Seq(Bytes)
    OBVIOUS
  <2> QED
    BY <2>1
<1> HIDE DEF e, l
<1>3. Placed(e, l) /\ Shown(e, l, W)
  BY <1>2 DEF Placed, Shown
<1>4. RefOK(EmptyFs) /\ Matches(EmptyFs, W)
  BY <1>1, <1>3, ShownIs, PathFacts DEF e, l
<1>5. HandlesOK(EmptyFs, NoHandles)
  BY DEF HandlesOK, NoHandles
<1> QED
  BY <1>1, <1>4, <1>5 DEF True

LEMMA RefInvInit == Init => RefInv
<1> SUFFICES ASSUME Init PROVE RefInv
  OBVIOUS
<1>1. ~ disagreed /\ adapter \in Adapters /\ deaths = 0 /\ handles = NoHandles /\ ref = EmptyFs
  BY DEF Init, NoHandles
<1>2. OpfsTrue(pool, ref, handles, deaths)
  <2>1. /\ DOMAIN pool = PoolFields /\ pool.dirs = {Root}
        /\ pool.slot = [s \in Slots |-> FreshSlot]
    BY DEF Init, FreshPool, PoolFields
  <2>2. Upward({Root})
    BY AncestorsOfRoot, PathFacts DEF Upward
  <2>3. \A s \in Slots : pool.slot[s] = FreshSlot
    BY <2>1
  <2>4. PoolOK(pool)
    BY <2>1, <2>2, <2>3, FreshIs DEF PoolOK, OneSlotEach
  <2>5. OwnBytes(pool, deaths)
    BY <2>3, FreshIs, PathFacts DEF OwnBytes, Cut0, Cut1
  <2>6. \A f \in Files : SlotsOf(pool, f) = {}
    BY <2>3, FreshIs, PathFacts DEF SlotsOf
  <2>7. \A f \in Files : OpfsShows(pool)[f] = {}
    BY <2>6, ShownEmpty DEF OpfsShows
  <2>8. Bound(pool, handles)
    BY <1>1 DEF Bound, NoHandles
  <2> QED
    BY <1>1, <2>1, <2>4, <2>5, <2>7, <2>8, EmptyIsTrue DEF OpfsTrue
<1>3. IdbTrue(cache, store, inFlight, ref, handles)
  <2>1. /\ DOMAIN cache = KeptFields /\ cache.files = <<>> /\ cache.blocks = <<>>
        /\ store.files = <<>> /\ store.blocks = <<>> /\ inFlight = {}
    BY DEF Init, EmptyCache, EmptyStore, KeptFields
  <2>2. DOMAIN <<>> = {}
    OBVIOUS
  <2>3. IdbOK(cache, store, inFlight)
    BY <2>1, <2>2 DEF IdbOK, CacheOK, StoreOK, TxsOK, SizesOK, BlocksOK
  <2>4. \A f \in Files : IdbShows(cache)[f] = {}
    BY <2>1, <2>2, CachedContentsIs DEF IdbShows
  <2>5. IdbDirs(cache) = {Root}
    BY <2>1, <2>2 DEF IdbDirs
  <2> QED
    BY <1>1, <2>3, <2>4, <2>5, EmptyIsTrue DEF IdbTrue
<1> QED
  BY <1>1, <1>2, <1>3 DEF RefInv

-------------------------------------------------------------------------------
(* Opening a file. *)

\* The mode the reference is asked with.
Asked(p, mode) == IF p \in LongPaths THEN "Create" ELSE mode

\* What the host refuses before it asks the adapter.
Refused(p, mode) ==
    \/ ~ Exists(p) /\ mode \in {"Read", "ReadWrite"}
    \/ Exists(p) /\ mode = "CreateNew"

LEMMA HostOpenRefuses ==
    ASSUME NEW p, NEW mode, Refused(p, mode)
    PROVE  LET web == HostOpen(p, mode)
           IN  /\ web.pool = pool /\ web.cache = cache
               /\ Exists(p) => web.rc = "exists"
               /\ ~ Exists(p) => web.rc = "not found"
<1> DEFINE web == HostOpen(p, mode)
<1>1. CASE Exists(p) /\ mode = "CreateNew"
  <2>1. web = [rc |-> "exists", slot |-> 0, pool |-> pool, cache |-> cache]
    BY <1>1 DEF HostOpen
  <2> HIDE DEF web
  <2>2. web.pool = pool /\ web.cache = cache /\ web.rc = "exists"
    BY <2>1
  <2> QED
    BY <1>1, <2>2 DEF web
<1>2. CASE ~ Exists(p) /\ mode \in {"Read", "ReadWrite"}
  <2>1. web = [rc |-> "not found", slot |-> 0, pool |-> pool, cache |-> cache]
    BY <1>2 DEF HostOpen
  <2> HIDE DEF web
  <2>2. web.pool = pool /\ web.cache = cache /\ web.rc = "not found"
    BY <2>1
  <2> QED
    BY <1>2, <2>2 DEF web
<1> QED
  BY <1>1, <1>2 DEF Refused

LEMMA HostOpenOnOpfs ==
    ASSUME NEW p, NEW mode, ~ Refused(p, mode), adapter = "opfs"
    PROVE  LET web == HostOpen(p, mode)
               a   == OpfsOpen(pool, p)
           IN  /\ web.rc = a.rc /\ web.slot = a.slot
               /\ web.pool = a.pool /\ web.cache = cache
<1> DEFINE web == HostOpen(p, mode)
           a   == OpfsOpen(pool, p)
<1>1. web = [rc |-> a.rc, slot |-> a.slot, pool |-> a.pool, cache |-> cache]
  BY DEF HostOpen, Refused
<1> HIDE DEF web, a
<1>2. web.rc = a.rc /\ web.slot = a.slot /\ web.pool = a.pool /\ web.cache = cache
  BY <1>1
<1> QED
  BY <1>2 DEF web, a

LEMMA HostOpenOnIdb ==
    ASSUME NEW p, NEW mode, ~ Refused(p, mode), adapter = "indexeddb"
    PROVE  LET web == HostOpen(p, mode)
           IN  web.rc = "ok" /\ web.pool = pool /\ web.cache = IdbOpen(cache, p)
<1> DEFINE web == HostOpen(p, mode)
<1>1. web = [rc |-> "ok", slot |-> 0, pool |-> pool, cache |-> IdbOpen(cache, p)]
  BY DEF HostOpen, Refused
<1> HIDE DEF web
<1>2. web.rc = "ok" /\ web.pool = pool /\ web.cache = IdbOpen(cache, p)
  BY <1>1
<1> QED
  BY <1>2 DEF web

\* The reference refuses what the host refuses.
LEMMA RefRefuses ==
    ASSUME NEW r, RefOK(r), NEW p \in Files, NEW held, NEW mode \in Modes
    PROVE  LET rc == OpenFile(r, p, mode, held).rc
           IN  /\ r.entry[p] = NoObject /\ mode \in {"Read", "ReadWrite"} => rc = "not found"
               /\ r.entry[p] # NoObject /\ mode = "CreateNew" => rc = "exists"
BY PathFacts DEF RefOK, OpenFile, Fails

\* A handle is given out, or the file was only read.
HandsOut(z, k, h, p, slot, hs) ==
    k \in {hs, [hs EXCEPT ![h] = [path |-> p, slot |-> slot, object |-> z.entry[p],
                                  gone |-> FALSE]]}

LEMMA HandedOut ==
    ASSUME NEW z, NEW hs, NEW k, NEW h \in Handles, NEW p \in Files, NEW slot, NEW W, NEW D,
           True(z, hs, W, D), z.entry[p] # NoObject, HandsOut(z, k, h, p, slot, hs)
    PROVE  /\ True(z, k, W, D)
           /\ \A q : Bound(q, hs) /\ slot \in Slots /\ q.slot[slot].path = p => Bound(q, k)
<1> DEFINE x == [path |-> p, slot |-> slot, object |-> z.entry[p], gone |-> FALSE]
<1>1. RefOK(z) /\ HandlesOK(z, hs)
  BY DEF True
<1>2. HandlesOK(z, [hs EXCEPT ![h] = x])
  BY <1>1, RefHands
<1>3. HandlesOK(z, k)
  BY <1>1, <1>2 DEF HandsOut
<1>4. x.path = p /\ x.slot = slot
  OBVIOUS
<1>5. DOMAIN hs = Handles
  BY <1>1 DEF HandlesOK
<1> HIDE DEF x
<1>6. ASSUME NEW q, Bound(q, hs), slot \in Slots, q.slot[slot].path = p, NEW g \in Handles,
             k[g] # NoHandle, ~ k[g].gone
      PROVE  k[g].slot \in Slots /\ k[g].path \in Files /\ q.slot[k[g].slot].path = k[g].path
  <2>1. k = hs \/ k = [hs EXCEPT ![h] = x]
    BY DEF HandsOut, x
  <2>2. k[g] = hs[g] \/ k[g] = x
    BY <1>5, <2>1
  <2>3. CASE k[g] = hs[g]
    BY <1>6, <2>3 DEF Bound
  <2>4. CASE k[g] = x
    BY <1>4, <1>6, <2>4
  <2> QED
    BY <2>2, <2>3, <2>4
<1>7. \A q : Bound(q, hs) /\ slot \in Slots /\ q.slot[slot].path = p => Bound(q, k)
  BY <1>6 DEF Bound
<1> QED
  BY <1>3, <1>7 DEF True

\* The parts of an open, named.
OpenParts(h, p, mode) ==
    LET web  == HostOpen(p, mode)
        want == OpenFile(ref, p, Asked(p, mode), HeldObjects)
    IN  /\ handles[h] = NoHandle /\ Parent[p] \in WebDirs
        /\ pool' = web.pool /\ cache' = web.cache
        /\ UNCHANGED <<adapter, store, inFlight, deaths, misused>>
        /\ ~ misused => disagreed' = (disagreed \/ (web.rc \notin {want.rc, "quota"}
                                                    /\ p \notin LongPaths))
        /\ web.rc # "ok" => ref' = ref /\ handles' = handles
        /\ web.rc = "ok" =>
            /\ ref' = want.fs
            /\ want.value = want.fs.entry[p]
                    => HandsOut(want.fs, handles', h, p, web.slot, handles)

LEMMA OpenIs ==
    ASSUME NEW h, NEW p, NEW mode, Open(h, p, mode)
    PROVE  OpenParts(h, p, mode)
<1> DEFINE web  == HostOpen(p, mode)
           want == OpenFile(ref, p, Asked(p, mode), HeldObjects)
<1>1. /\ handles[h] = NoHandle /\ Parent[p] \in WebDirs
      /\ Only(web.pool, web.cache) /\ Answered(p, web.rc, want.rc)
      /\ ref' = IF web.rc = "ok" THEN want.fs ELSE ref
      /\ handles' = IF web.rc # "ok" \/ ~ IsWritable(mode) THEN handles
            ELSE [handles EXCEPT ![h] = [path |-> p, slot |-> web.slot,
                                         object |-> want.value, gone |-> FALSE]]
      /\ UNCHANGED misused
  BY DEF Open, Asked
<1> HIDE DEF web, want
<1>2. /\ pool' = web.pool /\ cache' = web.cache
      /\ UNCHANGED <<adapter, store, inFlight, deaths, misused>>
  BY <1>1 DEF Only
<1>3. ~ misused => disagreed' = (disagreed \/ (web.rc \notin {want.rc, "quota"}
                                               /\ p \notin LongPaths))
  BY <1>1, Zenon DEF Answered
<1>4. web.rc # "ok" => ref' = ref /\ handles' = handles
  BY <1>1
<1>5. web.rc = "ok" =>
        /\ ref' = want.fs
        /\ want.value = want.fs.entry[p]
                => HandsOut(want.fs, handles', h, p, web.slot, handles)
  BY <1>1 DEF HandsOut
<1> QED
  BY <1>1, <1>2, <1>3, <1>4, <1>5 DEF OpenParts, web, want

LEMMA OpenRefused ==
    ASSUME RefInv, ~ misused, NEW h \in Handles, NEW p \in Files, NEW mode \in Modes,
           Open(h, p, mode),
           Refused(p, mode)
    PROVE  RefInv'
<1> DEFINE web  == HostOpen(p, mode)
           want == OpenFile(ref, p, Asked(p, mode), HeldObjects)
<1>1. /\ web.pool = pool /\ web.cache = cache
      /\ Exists(p) => web.rc = "exists"
      /\ ~ Exists(p) => web.rc = "not found"
  BY HostOpenRefuses
<1>2. OpenParts(h, p, mode)
  BY OpenIs
<1> HIDE DEF web, want
<1>3. /\ pool' = pool /\ cache' = cache /\ ref' = ref /\ handles' = handles
      /\ UNCHANGED <<adapter, store, inFlight, deaths, misused>>
  BY <1>1, <1>2 DEF OpenParts, web
<1>4. /\ ~ disagreed /\ RefOK(ref)
      /\ \A f \in Files : ref.entry[f] # NoObject => Exists(f)
      /\ \A f \in Files \ LongPaths : Exists(f) => ref.entry[f] # NoObject
  BY AdapterSees DEF True
<1>5. ASSUME p \notin LongPaths
      PROVE  web.rc = want.rc
  <2>1. want = OpenFile(ref, p, mode, HeldObjects)
    BY <1>5 DEF want, Asked
  <2>2. /\ ref.entry[p] = NoObject /\ mode \in {"Read", "ReadWrite"} => want.rc = "not found"
        /\ ref.entry[p] # NoObject /\ mode = "CreateNew" => want.rc = "exists"
    BY <1>4, <2>1, RefRefuses
  <2>3. CASE Exists(p) /\ mode = "CreateNew"
    <3>1. ref.entry[p] # NoObject
      BY <1>4, <1>5, <2>3
    <3> QED
      BY <1>1, <2>2, <2>3, <3>1
  <2>4. CASE ~ Exists(p) /\ mode \in {"Read", "ReadWrite"}
    BY <1>1, <1>4, <2>2, <2>4
  <2> QED
    BY <2>3, <2>4 DEF Refused
<1>6. ~ disagreed'
  BY <1>2, <1>4, <1>5 DEF OpenParts, web, want
<1> QED
  BY <1>3, <1>6 DEF RefInv

\* The mode that is let through agrees with what is there.
LEMMA AskedFits ==
    ASSUME RefInv, ~ misused, NEW p \in Files, NEW mode \in Modes, NEW V,
           ~ Refused(p, mode),
           V[p] # {}, \A f \in Files : f # p => V[f] = Seen[f],
           IF Exists(p) THEN V[p] = Seen[p] ELSE p \notin LongPaths => V[p] = {<<>>}
    PROVE  AfterOpen(ref, Seen, V, p, Asked(p, mode))
<1>1. /\ \A f \in Files : ref.entry[f] # NoObject => Exists(f)
      /\ \A f \in Files \ LongPaths : Exists(f) => ref.entry[f] # NoObject
  BY AdapterSees
<1>2. CASE p \in LongPaths
  <2>1. Asked(p, mode) = "Create"
    BY <1>2 DEF Asked
  <2> QED
    BY <1>1, <1>2, <2>1 DEF AfterOpen, Refused
<1>3. CASE p \notin LongPaths
  <2>1. Asked(p, mode) = mode
    BY <1>3 DEF Asked
  <2> QED
    BY <1>1, <1>3, <2>1 DEF AfterOpen, Modes, Refused
<1> QED
  BY <1>2, <1>3

LEMMA OpenOnOpfs ==
    ASSUME RefInv, ~ misused, NEW h \in Handles, NEW p \in Files, NEW mode \in Modes,
           Open(h, p, mode), adapter = "opfs",
           ~ Refused(p, mode)
    PROVE  RefInv'
<1> DEFINE a    == OpfsOpen(pool, p)
           web  == HostOpen(p, mode)
           m    == Asked(p, mode)
           want == OpenFile(ref, p, m, HeldObjects)
           V    == OpfsShows(a.pool)
<1>1. OpenParts(h, p, mode)
  BY OpenIs
<1>2. /\ web.rc = a.rc /\ web.slot = a.slot /\ web.pool = a.pool /\ web.cache = cache
  BY HostOpenOnOpfs
<1>3. OpfsTrue(pool, ref, handles, deaths)
  BY DEF RefInv
<1>4. /\ Seen = OpfsShows(pool) /\ WebDirs = pool.dirs
      /\ Exists(p) <=> SlotsOf(pool, p) # {}
  BY <1>3, OpfsSees
<1>5. /\ ~ disagreed /\ True(ref, handles, Seen, WebDirs) /\ deaths \in Nat
      /\ adapter \in Adapters
  BY AdapterSees DEF RefInv
<1>6. PoolKept(pool, handles, deaths) /\ Parent[p] \in pool.dirs
  BY <1>1, <1>3, <1>4 DEF OpfsTrue, PoolKept, OpenParts
<1>7. PoolKept(a.pool, handles, deaths) /\ OpfsOpens(pool, a, p)
  BY <1>6, OpfsOpenIs
<1>8. /\ V[p] = OpfsContents(a.pool, p) /\ \A f \in Files : f # p => V[f] = Seen[f]
      /\ Seen[p] = OpfsContents(pool, p)
  BY <1>4, <1>7 DEF OpfsShows, OpfsOpens
<1> HIDE DEF a, web, m, want, V
<1>9. /\ pool' = a.pool /\ a.pool.dirs = pool.dirs
      /\ UNCHANGED <<adapter, deaths, misused>>
  BY <1>1, <1>2, <1>7 DEF OpenParts, web, OpfsOpens
<1>10. CASE a.rc = "ok"
  <2>1. V[p] # {} /\ (IF Exists(p) THEN V[p] = Seen[p] ELSE V[p] = {<<>>})
        /\ a.slot \in Slots /\ a.pool.slot[a.slot].path = p
    <3>1. CASE SlotsOf(pool, p) # {}
      BY <1>4, <1>7, <1>8, <1>10, <3>1 DEF OpfsOpens
    <3>2. CASE SlotsOf(pool, p) = {}
      BY <1>4, <1>7, <1>8, <1>10, <3>2 DEF OpfsOpens
    <3> QED
      BY <3>1, <3>2
  <2>2. AfterOpen(ref, Seen, V, p, m)
    BY <1>8, <2>1, AskedFits DEF m
  <2>3. handles[h] = NoHandle /\ Parent[p] \in WebDirs
    BY <1>1 DEF OpenParts
  <2>4. /\ want.rc = "ok" /\ True(want.fs, handles, V, WebDirs)
        /\ want.value = want.fs.entry[p] /\ want.fs.entry[p] # NoObject
    BY <1>5, <2>2, <2>3, RefAfterOpen DEF want, HeldObjects
  <2>5. ref' = want.fs /\ HandsOut(want.fs, handles', h, p, a.slot, handles)
    BY <1>1, <1>2, <1>10, <2>4 DEF OpenParts, web, want, m
  <2>6. True(ref', handles', V, WebDirs) /\ Bound(a.pool, handles')
    BY <1>7, <2>1, <2>4, <2>5, HandedOut DEF PoolKept
  <2>7. ~ disagreed'
    BY <1>1, <1>2, <1>5, <1>10, <2>4 DEF OpenParts, web, want, m
  <2>8. OpfsTrue(pool', ref', handles', deaths')
    BY <1>4, <1>7, <1>9, <2>6 DEF OpfsTrue, PoolKept, V
  <2> QED
    BY <1>5, <1>9, <2>7, <2>8 DEF RefInv
<1>11. CASE a.rc # "ok"
  <2>1. /\ a.rc = "quota" \/ p \in LongPaths
        /\ a.pool = pool \/ (p \in LongPaths /\ V[p] # {})
    BY <1>7, <1>8, <1>11 DEF OpfsOpens
  <2>2. ref' = ref /\ handles' = handles
    BY <1>1, <1>2, <1>11 DEF OpenParts, web
  <2>3. ~ disagreed'
    BY <1>1, <1>2, <1>5, <2>1 DEF OpenParts, web
  <2>4. Matches(ref, V)
    <3>1. CASE a.pool = pool
      BY <1>4, <1>5, <3>1 DEF True, V
    <3>2. CASE p \in LongPaths /\ V[p] # {}
      BY <1>5, <1>8, <3>2 DEF True, Matches
    <3> QED
      BY <2>1, <3>1, <3>2
  <2>5. OpfsTrue(pool', ref', handles', deaths')
    BY <1>4, <1>5, <1>7, <1>9, <2>2, <2>4 DEF OpfsTrue, PoolKept, True, V
  <2> QED
    BY <1>5, <1>9, <2>3, <2>5 DEF RefInv
<1> QED
  BY <1>10, <1>11

LEMMA OpenOnIdb ==
    ASSUME RefInv, ~ misused, NEW h \in Handles, NEW p \in Files, NEW mode \in Modes,
           Open(h, p, mode), adapter = "indexeddb",
           ~ Refused(p, mode)
    PROVE  RefInv'
<1> DEFINE c    == IdbOpen(cache, p)
           web  == HostOpen(p, mode)
           m    == Asked(p, mode)
           want == OpenFile(ref, p, m, HeldObjects)
           V    == IdbShows(c)
<1>1. OpenParts(h, p, mode)
  BY OpenIs
<1>2. web.rc = "ok" /\ web.cache = c
  BY HostOpenOnIdb
<1>3. IdbTrue(cache, store, inFlight, ref, handles)
  BY DEF RefInv
<1>4. /\ Seen = IdbShows(cache) /\ WebDirs = IdbDirs(cache)
      /\ Exists(p) <=> p \in DOMAIN cache.files
  BY IdbSees
<1>5. /\ ~ disagreed /\ True(ref, handles, Seen, WebDirs) /\ deaths \in Nat
      /\ adapter \in Adapters
  BY AdapterSees DEF RefInv
<1>6. CacheOK(cache)
  BY <1>3 DEF IdbTrue, IdbOK
<1>7. /\ CacheOK(c) /\ DOMAIN c.files = DOMAIN cache.files \cup {p}
      /\ \A q : q # p \/ p \in DOMAIN cache.files
                => CachedContents(c, q) = CachedContents(cache, q)
      /\ p \notin DOMAIN cache.files => CachedContents(c, p) = {<<>>}
  BY <1>6, IdbOpenIs
<1>8. CachedContents(c, p) # {}
  BY <1>7, CachedContentsIs
<1> HIDE DEF c, web, m, want
<1>9. /\ V[p] # {} /\ \A f \in Files : f # p => V[f] = Seen[f]
      /\ Exists(p) => V[p] = Seen[p]
      /\ ~ Exists(p) => V[p] = {<<>>}
  BY <1>4, <1>7, <1>8 DEF IdbShows
<1>10. IdbDirs(c) = WebDirs
  BY <1>4, <1>7, PathFacts DEF IdbDirs
<1> HIDE DEF V
<1>11. AfterOpen(ref, Seen, V, p, m)
  <2>1. IF Exists(p) THEN V[p] = Seen[p] ELSE V[p] = {<<>>}
    BY <1>9
  <2> QED
    BY <1>9, <2>1, AskedFits DEF m
<1>12. handles[h] = NoHandle /\ Parent[p] \in WebDirs /\ cache' = c
       /\ UNCHANGED <<adapter, store, inFlight, deaths, misused>>
  BY <1>1, <1>2 DEF OpenParts, web
<1>13. /\ want.rc = "ok" /\ True(want.fs, handles, V, WebDirs)
       /\ want.value = want.fs.entry[p] /\ want.fs.entry[p] # NoObject
  BY <1>5, <1>11, <1>12, RefAfterOpen DEF want, HeldObjects
<1>14. ref' = want.fs /\ HandsOut(want.fs, handles', h, p, web.slot, handles)
  BY <1>1, <1>2, <1>13 DEF OpenParts, web, want, m
<1>15. True(ref', handles', V, WebDirs)
  BY <1>13, <1>14, HandedOut
<1>16. ~ disagreed'
  BY <1>1, <1>2, <1>5, <1>13 DEF OpenParts, web, want, m
<1>17. IdbTrue(cache', store', inFlight', ref', handles')
  BY <1>3, <1>7, <1>10, <1>12, <1>15 DEF IdbTrue, IdbOK, V
<1> QED
  BY <1>5, <1>12, <1>16, <1>17 DEF RefInv

LEMMA OpenKeepsRef ==
    ASSUME RefInv, ~ misused, NEW h \in Handles, NEW p \in Files, NEW mode \in Modes,
           Open(h, p, mode)
    PROVE  RefInv'
<1>1. adapter \in {"opfs", "indexeddb"}
  BY AdapterSees
<1> QED
  BY <1>1, OpenRefused, OpenOnOpfs, OpenOnIdb

-------------------------------------------------------------------------------
(* Writing through a handle. *)

\* The bytes x of a file become y on the adapter, those of the reference b.
Follows(r, p, x, y, b) ==
    /\ y \in Seq(Bytes) /\ b \in Seq(Bytes)
    /\ x \in Own(p) => y \in Own(p)
    /\ x = r.live[r.entry[p]] => y = b

LEMMA RefFollows ==
    ASSUME NEW r, NEW hs, NEW W, NEW V, NEW D, True(r, hs, W, D), NEW p \in Files,
           r.entry[p] # NoObject, NEW x, NEW y, NEW b, Follows(r, p, x, y, b),
           W[p] = {x}, V[p] = {y}, \A f \in Files : f # p => V[f] = W[f]
    PROVE  True(WithLive(r, r.entry[p], b), hs, V, D)
<1> DEFINE z == WithLive(r, r.entry[p], b)
<1>1. RefOK(r) /\ HandlesOK(r, hs) /\ Matches(r, W) /\ D = r.dirs
  BY DEF True
<1>2. p \notin LongPaths => W[p] = {r.live[r.entry[p]]}
  BY <1>1, ContentsIs DEF Matches
<1>3. p \notin LongPaths => V[p] = {b}
  BY <1>2 DEF Follows
<1>4. V[p] # {} /\ b \in Seq(Bytes)
  BY DEF Follows
<1>5. FileChanges(r, W, V, p, b)
  BY <1>3, <1>4 DEF FileChanges
<1>6. RefOK(z) /\ HandlesOK(z, hs) /\ Matches(z, V) /\ z.dirs = r.dirs
  BY <1>1, <1>5, RefWrites
<1> HIDE DEF z
<1>7. True(z, hs, V, D)
  BY <1>1, <1>6 DEF True
<1> QED
  BY <1>7 DEF z

\* The handle h is open on a file that is there.
OpenOn(r, hs, h) ==
    /\ hs[h] # NoHandle /\ ~ hs[h].gone
    /\ hs[h].path \in Files /\ hs[h].object = r.entry[hs[h].path]
    /\ r.entry[hs[h].path] \in Objects

LEMMA OpenOnIts ==
    ASSUME NEW r, NEW hs, HandlesOK(r, hs), NEW h \in Handles, hs[h] # NoHandle, ~ hs[h].gone
    PROVE  OpenOn(r, hs, h)
BY DEF HandlesOK, IsHandle, OpenOn

LEMMA OpfsChanges ==
    ASSUME NEW q, NEW r, NEW hs, NEW n, OpfsTrue(q, r, hs, n), NEW h \in Handles,
           OpenOn(r, hs, h), NEW y, NEW b,
           Follows(r, hs[h].path, q.slot[hs[h].slot].bytes, y, b)
    PROVE  OpfsTrue(WithBytes(q, hs[h].slot, y), WithLive(r, hs[h].object, b), hs, n)
<1> DEFINE s == hs[h].slot
           p == hs[h].path
           x == q.slot[s].bytes
           z == WithBytes(q, s, y)
<1>1. PoolKept(q, hs, n) /\ True(r, hs, OpfsShows(q), q.dirs)
  BY DEF OpfsTrue, PoolKept
<1>2. s \in Slots /\ p \in Files /\ q.slot[s].path = p
  BY <1>1 DEF PoolKept, Bound, OpenOn
<1>3. y \in Seq(Bytes) /\ (x \in Own(p) => y \in Own(p))
  BY DEF Follows
<1>4. MayHold(q, n, s, y)
  BY <1>1, <1>2, <1>3 DEF PoolKept, OwnBytes, Cut1, MayHold
<1>5. /\ PoolKept(z, hs, n) /\ z.dirs = q.dirs
      /\ OpfsContents(z, q.slot[s].path) = {y}
      /\ \A f \in Files : f # q.slot[s].path => OpfsContents(z, f) = OpfsContents(q, f)
  BY <1>1, <1>4, OpfsBytesAre
<1>6. OpfsContents(q, p) = {x}
  BY <1>1, <1>2, ShownBySlot DEF PoolKept
<1>7. /\ OpfsShows(q)[p] = {x} /\ OpfsShows(z)[p] = {y}
      /\ \A f \in Files : f # p => OpfsShows(z)[f] = OpfsShows(q)[f]
  BY <1>2, <1>5, <1>6 DEF OpfsShows
<1>8. r.entry[p] # NoObject /\ hs[h].object = r.entry[p]
  BY PathFacts DEF OpenOn
<1> HIDE DEF z
<1>9. True(WithLive(r, hs[h].object, b), hs, OpfsShows(z), q.dirs)
  BY <1>1, <1>2, <1>7, <1>8, RefFollows
<1>10. OpfsTrue(z, WithLive(r, hs[h].object, b), hs, n)
  BY <1>5, <1>9 DEF OpfsTrue, PoolKept
<1> QED
  BY <1>10 DEF z

\* The cache e holds y for the file p, and else what c does.
CacheFollows(c, e, p, y) ==
    /\ CacheOK(e) /\ DOMAIN e.files = DOMAIN c.files /\ CachedBytes(e, p) = y
    /\ \A q : q # p => CachedContents(e, q) = CachedContents(c, q)

LEMMA IdbChanges ==
    ASSUME NEW c, NEW st, NEW txs, NEW r, NEW hs, IdbTrue(c, st, txs, r, hs), NEW h \in Handles,
           OpenOn(r, hs, h), NEW y, NEW b, NEW e,
           Follows(r, hs[h].path, CachedBytes(c, hs[h].path), y, b),
           CacheFollows(c, e, hs[h].path, y)
    PROVE  IdbTrue(e, st, txs, WithLive(r, hs[h].object, b), hs)
<1> DEFINE p == hs[h].path
           x == CachedBytes(c, p)
<1>1. IdbOK(c, st, txs) /\ True(r, hs, IdbShows(c), IdbDirs(c))
  BY DEF IdbTrue
<1>2. p \in Files /\ r.entry[p] # NoObject /\ hs[h].object = r.entry[p]
  BY PathFacts DEF OpenOn
<1>3. IdbShows(c)[p] # {}
  BY <1>1, <1>2 DEF True, Matches
<1>4. p \in DOMAIN c.files
  BY <1>2, <1>3, CachedContentsIs DEF IdbShows
<1>5. IdbShows(c)[p] = {x} /\ IdbShows(e)[p] = {y}
  BY <1>2, <1>4, CachedContentsIs DEF CacheFollows, IdbShows
<1>6. \A f \in Files : f # p => IdbShows(e)[f] = IdbShows(c)[f]
  BY DEF CacheFollows, IdbShows
<1>7. IdbDirs(e) = IdbDirs(c)
  BY DEF CacheFollows, IdbDirs
<1> HIDE DEF x
<1>8. True(WithLive(r, hs[h].object, b), hs, IdbShows(e), IdbDirs(e))
  BY <1>1, <1>2, <1>5, <1>6, <1>7, RefFollows DEF x
<1>9. IdbOK(e, st, txs)
  BY <1>1 DEF CacheFollows, IdbOK
<1> QED
  BY <1>8, <1>9 DEF IdbTrue

\* What a handle on a file that is there shows of its size.
LEMMA SizeIs ==
    ASSUME RefInv, ~ misused, NEW h \in Handles, handles[h] # NoHandle, ~ handles[h].gone
    PROVE  LET p == handles[h].path
               x == IF adapter = "opfs" THEN pool.slot[handles[h].slot].bytes
                    ELSE CachedBytes(cache, p)
           IN  /\ OpenOn(ref, handles, h)
               /\ x \in Seq(Bytes) /\ Size(h) = Len(x)
               /\ WebContents(p) = {x}
               /\ adapter = "indexeddb" => p \in DOMAIN cache.files
                                           /\ cache.files[p].size = Len(x)
<1> DEFINE p == handles[h].path
           s == handles[h].slot
<1>1. True(ref, handles, Seen, WebDirs) /\ adapter \in {"opfs", "indexeddb"}
  BY AdapterSees
<1>2. OpenOn(ref, handles, h)
  BY <1>1, OpenOnIts DEF True
<1>3. CASE adapter = "opfs"
  <2>1. PoolOK(pool) /\ Bound(pool, handles)
    BY <1>3 DEF RefInv, OpfsTrue
  <2>2. s \in Slots /\ p \in Files /\ pool.slot[s].path = p
    BY <2>1 DEF Bound
  <2>3. pool.slot[s].bytes \in Seq(Bytes)
    BY <2>1, <2>2 DEF PoolOK, IsSlot
  <2>4. OpfsContents(pool, p) = {pool.slot[s].bytes}
    BY <2>1, <2>2, ShownBySlot
  <2> QED
    BY <1>2, <1>3, <2>3, <2>4 DEF Size, OpfsSize, WebContents
<1>4. CASE adapter = "indexeddb"
  <2>1. CacheOK(cache)
    BY <1>4 DEF RefInv, IdbTrue, IdbOK
  <2>2. p \in Files /\ ref.entry[p] # NoObject
    BY <1>2, PathFacts DEF OpenOn
  <2>3. CachedContents(cache, p) # {}
    BY <1>1, <1>4, <2>2 DEF True, Matches, Seen, WebContents
  <2>4. p \in DOMAIN cache.files /\ CachedContents(cache, p) = {CachedBytes(cache, p)}
    BY <2>3, CachedContentsIs
  <2>5. CachedBytes(cache, p) \in Own(p) /\ Len(CachedBytes(cache, p)) = cache.files[p].size
    BY <2>1, <2>4, CachedIs DEF CacheOK
  <2>6. CachedBytes(cache, p) \in Seq(Bytes)
    BY <2>2, <2>5 DEF Own, Bytes
  <2> QED
    BY <1>2, <1>4, <2>4, <2>5, <2>6 DEF Size, IdbSize, WebContents
<1> QED
  BY <1>1, <1>3, <1>4

\* The bytes a handle on a file that is there reads on the adapter.
HandleBytes(h) ==
    IF adapter = "opfs" THEN pool.slot[handles[h].slot].bytes
    ELSE CachedBytes(cache, handles[h].path)

\* A call through h that makes y of them, and b of the reference's.
Writes(h, y, b) ==
    /\ adapter = "opfs" => pool' = WithBytes(pool, handles[h].slot, y)
    /\ adapter = "indexeddb" => CacheFollows(cache, cache', handles[h].path, y)
    /\ ref' = WithLive(ref, handles[h].object, b)
    /\ UNCHANGED <<adapter, store, inFlight, deaths, handles, disagreed>>

LEMMA WriteKeeps ==
    ASSUME RefInv, ~ misused, NEW h \in Handles, handles[h] # NoHandle, ~ handles[h].gone,
           NEW y, NEW b, Follows(ref, handles[h].path, HandleBytes(h), y, b), Writes(h, y, b)
    PROVE  RefInv'
<1>1. OpenOn(ref, handles, h)
  BY SizeIs
<1>2. ~ disagreed /\ adapter \in {"opfs", "indexeddb"} /\ deaths \in Nat /\ adapter \in Adapters
  BY AdapterSees DEF RefInv
<1>3. CASE adapter = "opfs"
  <2>1. OpfsTrue(pool, ref, handles, deaths)
    BY <1>3 DEF RefInv
  <2>2. Follows(ref, handles[h].path, pool.slot[handles[h].slot].bytes, y, b)
    BY <1>3 DEF HandleBytes
  <2>3. OpfsTrue(WithBytes(pool, handles[h].slot, y), WithLive(ref, handles[h].object, b),
                 handles, deaths)
    BY <1>1, <2>1, <2>2, OpfsChanges
  <2> QED
    BY <1>2, <1>3, <2>3 DEF Writes, RefInv
<1>4. CASE adapter = "indexeddb"
  <2>1. IdbTrue(cache, store, inFlight, ref, handles)
    BY <1>4 DEF RefInv
  <2>2. Follows(ref, handles[h].path, CachedBytes(cache, handles[h].path), y, b)
    BY <1>4 DEF HandleBytes
  <2>3. CacheFollows(cache, cache', handles[h].path, y)
    BY <1>4 DEF Writes
  <2>4. IdbTrue(cache', store, inFlight, WithLive(ref, handles[h].object, b), handles)
    BY <1>1, <2>1, <2>2, <2>3, IdbChanges
  <2> QED
    BY <1>2, <1>4, <2>4 DEF Writes, RefInv
<1> QED
  BY <1>2, <1>3, <1>4

\* The handle's file and its bytes, here and in the reference.
LEMMA HandleIs ==
    ASSUME RefInv, ~ misused, NEW h \in Handles, handles[h] # NoHandle, ~ handles[h].gone
    PROVE  /\ HandleBytes(h) \in Seq(Bytes) /\ Size(h) = Len(HandleBytes(h))
           /\ handles[h].path \in Files
           /\ ref.entry[handles[h].path] = handles[h].object
           /\ ref.live[handles[h].object] \in Seq(Bytes)
<1>1. /\ HandleBytes(h) \in Seq(Bytes) /\ Size(h) = Len(HandleBytes(h))
      /\ OpenOn(ref, handles, h)
  BY SizeIs DEF HandleBytes
<1>2. RefOK(ref)
  BY AdapterSees DEF True
<1> QED
  BY <1>1, <1>2 DEF OpenOn, RefOK

LEMMA AppendKeeps ==
    ASSUME RefInv, ~ misused, NEW h \in Handles, NEW n \in AppendSizes, AppendBytes(h, n)
    PROVE  RefInv'
<1> DEFINE f   == handles[h]
           p   == f.path
           buf == [i \in 1..n |-> p]
           x   == HandleBytes(h)
           y   == x \o buf
           b   == ref.live[f.object] \o buf
<1>1. /\ f # NoHandle /\ misused' = (misused \/ f.gone)
      /\ UNCHANGED <<adapter, store, inFlight, deaths, handles, disagreed>>
      /\ adapter = "opfs" => pool' = OpfsWrite(pool, f.slot, buf, Size(h))
      /\ adapter # "opfs" => cache' = IdbWrite(cache, p, buf, Size(h))
      /\ ref' = AppendTo(ref, f.object, TRUE, buf).fs
  BY DEF AppendBytes, Only
<1>2. CASE f.gone
  BY <1>1, <1>2 DEF RefInv
<1>3. CASE ~ f.gone
  <2>1. /\ x \in Seq(Bytes) /\ Size(h) = Len(x) /\ p \in Files
        /\ ref.entry[p] = f.object /\ ref.live[f.object] \in Seq(Bytes)
    BY <1>1, <1>3, HandleIs
  <2>2. buf \in Own(p) /\ buf \in Seq(Bytes)
    <3>1. n \in Nat
      BY WebAssumption
    <3> QED
      BY <2>1, <3>1 DEF Own, Bytes
  <2> HIDE DEF buf, x
  <2>3. Follows(ref, p, x, y, b)
    <3>1. y \in Seq(Bytes) /\ b \in Seq(Bytes)
      BY <2>1, <2>2
    <3>2. x \in Own(p) => y \in Own(p)
      BY <2>2 DEF Own
    <3>3. x = ref.live[ref.entry[p]] => y = b
      BY <2>1
    <3> QED
      BY <3>1, <3>2, <3>3 DEF Follows
  <2>4. ref' = WithLive(ref, f.object, b)
    BY <1>1 DEF AppendTo, Ok, WithLive
  <2>5. CASE adapter = "opfs"
    <3>1. pool' = WithBytes(pool, f.slot, Overwrite(x, buf, Len(x)))
      BY <1>1, <2>1, <2>5 DEF OpfsWrite, WithBytes, x, HandleBytes
    <3>2. Zero \in Bytes
      BY DEF Bytes
    <3>3. Overwrite(x, buf, Len(x)) = y
      BY <2>1, <2>2, <3>2, OverwriteAtEnd
    <3>4. Writes(h, y, b)
      BY <1>1, <2>4, <2>5, <3>1, <3>3 DEF Writes
    <3> QED
      BY <1>1, <1>3, <2>3, <3>4, WriteKeeps DEF x
  <2>6. CASE adapter = "indexeddb"
    <3>1. p \in DOMAIN cache.files /\ cache.files[p].size = Size(h)
      BY <1>1, <1>3, <2>6, SizeIs
    <3>2. CacheOK(cache)
      BY <2>6 DEF RefInv, IdbTrue, IdbOK
    <3>3. CacheFollows(cache, IdbWrite(cache, p, buf, Size(h)), p, CachedBytes(cache, p) \o buf)
      BY <2>2, <3>1, <3>2, IdbAppendIs DEF CacheFollows
    <3>4. x = CachedBytes(cache, p)
      BY <2>6 DEF x, HandleBytes
    <3>5. Writes(h, y, b)
      BY <1>1, <2>4, <2>6, <3>3, <3>4 DEF Writes
    <3> QED
      BY <1>1, <1>3, <2>3, <3>5, WriteKeeps DEF x
  <2> QED
    BY <2>5, <2>6, AdapterSees
<1> QED
  BY <1>2, <1>3

LEMMA CutKeeps ==
    ASSUME RefInv, ~ misused, NEW h \in Handles, NEW len \in Nat, Cut(h, len)
    PROVE  RefInv'
<1> DEFINE f   == handles[h]
           p   == f.path
           x   == HandleBytes(h)
           y   == Resize(x, len)
           b   == Resize(ref.live[f.object], len)
<1>1. /\ f # NoHandle /\ misused' = (misused \/ f.gone) /\ len < Size(h)
      /\ UNCHANGED <<adapter, store, inFlight, deaths, handles, disagreed>>
      /\ adapter = "opfs" => pool' = OpfsTruncate(pool, f.slot, len)
      /\ adapter # "opfs" => cache' = IdbTruncate(cache, p, len)
      /\ ref' = Truncate(ref, f.object, TRUE, len).fs
  BY DEF Cut, Only
<1>2. CASE f.gone
  BY <1>1, <1>2 DEF RefInv
<1>3. CASE ~ f.gone
  <2>1. /\ x \in Seq(Bytes) /\ Size(h) = Len(x) /\ p \in Files
        /\ ref.entry[p] = f.object /\ ref.live[f.object] \in Seq(Bytes)
    BY <1>1, <1>3, HandleIs
  <2> HIDE DEF x
  <2>2. Zero \in Bytes /\ Zero \in {Zero, p}
    BY DEF Bytes
  <2>3. Follows(ref, p, x, y, b)
    BY <2>1, <2>2, ResizeIs DEF Follows, Own
  <2>4. ref' = WithLive(ref, f.object, b)
    BY <1>1 DEF Truncate, Ok, WithLive
  <2>5. CASE adapter = "opfs"
    <3>1. pool' = WithBytes(pool, f.slot, y)
      BY <1>1, <2>5 DEF OpfsTruncate, WithBytes, x, HandleBytes
    <3>2. Writes(h, y, b)
      BY <1>1, <2>4, <2>5, <3>1 DEF Writes
    <3> QED
      BY <1>1, <1>3, <2>3, <3>2, WriteKeeps DEF x
  <2>6. CASE adapter = "indexeddb"
    <3>1. p \in DOMAIN cache.files /\ cache.files[p].size = Size(h)
      BY <1>1, <1>3, <2>6, SizeIs
    <3>2. CacheOK(cache) /\ len <= cache.files[p].size
      <4>1. CacheOK(cache)
        BY <2>6 DEF RefInv, IdbTrue, IdbOK
      <4>2. Len(x) \in Nat
        BY <2>1
      <4> QED
        BY <1>1, <2>1, <3>1, <4>1, <4>2
    <3>3. CacheFollows(cache, IdbTruncate(cache, p, len), p, Resize(CachedBytes(cache, p), len))
      BY <3>1, <3>2, IdbCutIs DEF CacheFollows
    <3>4. x = CachedBytes(cache, p)
      BY <2>6 DEF x, HandleBytes
    <3>5. Writes(h, y, b)
      BY <1>1, <2>4, <2>6, <3>3, <3>4 DEF Writes
    <3> QED
      BY <1>1, <1>3, <2>3, <3>5, WriteKeeps DEF x
  <2> QED
    BY <2>5, <2>6, AdapterSees
<1> QED
  BY <1>2, <1>3

-------------------------------------------------------------------------------
(* Closing, removing, making directories. *)

LEMMA CloseKeeps ==
    ASSUME RefInv, ~ misused, NEW h \in Handles, Close(h)
    PROVE  RefInv'
<1> DEFINE l == [o \in Objects |->
                    IF o \in FreeObjects(ref, HeldObjects \ {handles[h].object})
                    THEN <<>> ELSE ref.live[o]]
           k == [handles EXCEPT ![h] = NoHandle]
           z == WithLives(ref, l)
<1>1. /\ pool' = pool /\ cache' = cache /\ handles' = k /\ ref' = z
      /\ UNCHANGED <<adapter, store, inFlight, deaths, disagreed, misused>>
  BY DEF Close, Only, WithLives
<1>2. ~ disagreed /\ deaths \in Nat /\ adapter \in {"opfs", "indexeddb"} /\ adapter \in Adapters
  BY AdapterSees DEF RefInv
<1>3. True(ref, handles, Seen, WebDirs)
  BY AdapterSees
<1>4. ref.live \in [Objects -> Seq(Bytes)] /\ ref.entry \in [Files -> Objects \cup {NoObject}]
  BY <1>3 DEF True, RefOK
<1>5. KeepsPlaced(ref, l)
  <2>1. <<>> \in Seq(Bytes)
    OBVIOUS
  <2>2. l \in [Objects -> Seq(Bytes)]
    BY <1>4, <2>1
  <2>3. ASSUME NEW f \in Files, ref.entry[f] # NoObject
        PROVE  l[ref.entry[f]] = ref.live[ref.entry[f]]
    <3>1. ref.entry[f] \in Objects
      BY <1>4, <2>3
    <3>2. ref.entry[f] \notin FreeObjects(ref, HeldObjects \ {handles[h].object})
      BY DEF FreeObjects
    <3> QED
      BY <3>1, <3>2
  <2> HIDE DEF l
  <2> QED
    BY <2>2, <2>3 DEF KeepsPlaced
<1> HIDE DEF l
<1>6. \A W, D : True(ref, handles, W, D) => True(z, k, W, D)
  BY <1>5, RefCloses DEF True
<1>7. DOMAIN handles = Handles
  BY <1>3 DEF True, HandlesOK
<1>8. Bound(pool, handles) => Bound(pool, k)
  BY <1>7 DEF Bound
<1> HIDE DEF z, k
<1>9. CASE adapter = "opfs"
  <2>1. OpfsTrue(pool, ref, handles, deaths)
    BY <1>9 DEF RefInv
  <2>2. OpfsTrue(pool, z, k, deaths)
    BY <1>6, <1>8, <2>1 DEF OpfsTrue
  <2> QED
    BY <1>1, <1>2, <1>9, <2>2 DEF RefInv
<1>10. CASE adapter = "indexeddb"
  <2>1. IdbTrue(cache, store, inFlight, ref, handles)
    BY <1>10 DEF RefInv
  <2>2. IdbTrue(cache, store, inFlight, z, k)
    BY <1>6, <2>1 DEF IdbTrue
  <2> QED
    BY <1>1, <1>2, <1>10, <2>2 DEF RefInv
<1> QED
  BY <1>2, <1>9, <1>10

\* The files S are removed, and the directories D stay.
Removes(S, D) ==
    /\ ref' = Without(ref, S, D) /\ handles' = MarkedGone(handles, S)
    /\ adapter = "opfs" => ReleasesThem(pool, pool', S) /\ pool'.dirs = D
    /\ adapter = "indexeddb" => /\ CacheOK(cache') /\ IdbDirs(cache') = D
                                /\ Emptied(IdbShows(cache), IdbShows(cache'), S)
    /\ ~ disagreed' /\ UNCHANGED <<adapter, store, inFlight, deaths>>

LEMMA RemovalKeeps ==
    ASSUME RefInv, ~ misused, NEW S \in SUBSET Files, NEW D \in SUBSET Dirs, Removes(S, D)
    PROVE  RefInv'
<1> DEFINE z == Without(ref, S, D)
           k == MarkedGone(handles, S)
<1>1. /\ ~ disagreed /\ deaths \in Nat /\ adapter \in {"opfs", "indexeddb"}
      /\ adapter \in Adapters
  BY AdapterSees DEF RefInv
<1>2. RefOK(ref) /\ HandlesOK(ref, handles)
  BY AdapterSees DEF True
<1>3. \A W, V : Matches(ref, W) /\ Emptied(W, V, S) => True(z, k, V, D)
  BY <1>2, RefRemoves DEF True
<1>4. ref' = z /\ handles' = k
  BY DEF Removes
<1> HIDE DEF z, k
<1>5. CASE adapter = "opfs"
  <2>1. OpfsTrue(pool, ref, handles, deaths)
    BY <1>5 DEF RefInv
  <2>2. ReleasesThem(pool, pool', S) /\ pool'.dirs = D
    BY <1>5 DEF Removes
  <2>3. HandlesTyped(handles)
    BY <1>2 DEF HandlesTyped, HandlesOK, IsHandle
  <2>4. PoolKept(pool, handles, deaths)
    BY <2>1 DEF OpfsTrue, PoolKept
  <2>5. PoolKept(pool', k, deaths) /\ Emptied(OpfsShows(pool), OpfsShows(pool'), S)
    BY <2>2, <2>3, <2>4, OpfsReleasesThem DEF k
  <2>6. True(z, k, OpfsShows(pool'), D)
    BY <1>3, <2>1, <2>5 DEF OpfsTrue, True
  <2>7. OpfsTrue(pool', z, k, deaths)
    BY <2>2, <2>5, <2>6 DEF OpfsTrue, PoolKept
  <2> QED
    BY <1>1, <1>4, <1>5, <2>7 DEF RefInv, Removes
<1>6. CASE adapter = "indexeddb"
  <2>1. IdbTrue(cache, store, inFlight, ref, handles)
    BY <1>6 DEF RefInv
  <2>2. /\ CacheOK(cache') /\ IdbDirs(cache') = D
        /\ Emptied(IdbShows(cache), IdbShows(cache'), S)
    BY <1>6 DEF Removes
  <2>3. True(z, k, IdbShows(cache'), D)
    BY <1>3, <2>1, <2>2 DEF IdbTrue, True
  <2>4. IdbTrue(cache', store, inFlight, z, k)
    BY <2>1, <2>2, <2>3 DEF IdbTrue, IdbOK
  <2> QED
    BY <1>1, <1>4, <1>6, <2>4 DEF RefInv, Removes
<1> QED
  BY <1>1, <1>5, <1>6

LEMMA OrphanedIs == \A S : Orphaned(S) = MarkedGone(handles, S)
BY DEF Orphaned, MarkedGone

LEMMA ForgetsThem ==
    ASSUME NEW c, CacheOK(c), NEW T, NEW S \in SUBSET Files, \A f \in Files : f \in T => f \in S,
           \A f \in S : f \in T \/ f \notin DOMAIN c.files
    PROVE  /\ CacheOK(Forget(c, T)) /\ DOMAIN Forget(c, T).files = DOMAIN c.files \ T
           /\ Emptied(IdbShows(c), IdbShows(Forget(c, T)), S)
<1> DEFINE e == Forget(c, T)
<1>1. /\ CacheOK(e) /\ DOMAIN e.files = DOMAIN c.files \ T
      /\ \A q : q \in T => CachedContents(e, q) = {}
      /\ \A q : q \notin T => CachedContents(e, q) = CachedContents(c, q)
  BY ForgetIs
<1> HIDE DEF e
<1>2. \A f \in S : CachedContents(e, f) = {}
  BY <1>1, CachedContentsIs
<1>3. \A f \in Files \ S : CachedContents(e, f) = CachedContents(c, f)
  BY <1>1
<1>4. Emptied(IdbShows(c), IdbShows(e), S)
  BY <1>2, <1>3 DEF Emptied, IdbShows
<1> QED
  BY <1>1, <1>4 DEF e

\* The slot of a file, or none.
LEMMA ReleasedIs ==
    ASSUME NEW q, PoolOK(q), NEW S
    PROVE  /\ DOMAIN Released(q, S) = PoolFields /\ Released(q, S).dirs = q.dirs
           /\ Released(q, S).slot = [s \in Slots |-> IF s \in S THEN FreshSlot ELSE q.slot[s]]
BY DEF PoolOK, PoolFields, Released

LEMMA RemoveKeeps ==
    ASSUME RefInv, ~ misused, NEW p \in Files, Remove(p)
    PROVE  RefInv'
<1> DEFINE want == RemoveFile(ref, p)
           D    == ref.dirs
<1>1. /\ ~ Exists(p) => pool' = pool /\ cache' = cache /\ handles' = handles
      /\ Exists(p) => /\ adapter = "opfs" => pool' = OpfsRemoveFile(pool, p)
                      /\ adapter # "opfs" => cache' = IdbRemoveFile(cache, p)
                      /\ handles' = Orphaned({p})
      /\ ref' = want.fs
      /\ UNCHANGED <<adapter, store, inFlight, deaths, misused>>
  BY DEF Remove, Only
<1>2. ~ misused => disagreed' = (disagreed \/
            ((IF Exists(p) THEN "ok" ELSE "not found") \notin {want.rc, "quota"}
             /\ p \notin LongPaths))
  BY Zenon DEF Remove, Answered
<1>3. /\ ~ disagreed /\ True(ref, handles, Seen, WebDirs)
      /\ adapter \in {"opfs", "indexeddb"}
      /\ ref.entry[p] # NoObject => Exists(p)
      /\ p \notin LongPaths => (Exists(p) => ref.entry[p] # NoObject)
  BY AdapterSees
<1>4. RefOK(ref) /\ D = WebDirs /\ p \notin D /\ D \in SUBSET Dirs
  BY <1>3, PathFacts DEF True, RefOK
<1>5. /\ ref.entry[p] = NoObject => want.rc = "not found" /\ want.fs = ref
      /\ ref.entry[p] # NoObject
            => want.rc = "ok" /\ want.fs = [ref EXCEPT !.entry[p] = NoObject]
  BY <1>4 DEF RemoveFile, Ok, Fails
<1> HIDE DEF want
<1>6. CASE ~ Exists(p)
  <2>1. ref' = ref /\ pool' = pool /\ cache' = cache /\ handles' = handles
    BY <1>1, <1>3, <1>5, <1>6
  <2>2. ~ disagreed'
    BY <1>2, <1>3, <1>5, <1>6
  <2> QED
    BY <1>1, <2>1, <2>2 DEF RefInv
<1>7. CASE Exists(p)
  <2>1. want.fs = Without(ref, {p}, D)
    <3> DEFINE e == [f \in Files |-> IF f \in {p} THEN NoObject ELSE ref.entry[f]]
    <3>1. ref = [dirs |-> D, entry |-> ref.entry, live |-> ref.live]
          /\ ref.entry \in [Files -> Objects \cup {NoObject}]
      BY <1>4 DEF RefOK
    <3>2. CASE ref.entry[p] = NoObject
      <4>1. e = ref.entry
        BY <3>1, <3>2
      <4> HIDE DEF e
      <4> QED
        BY <1>5, <3>1, <3>2, <4>1 DEF Without, Fs, e
    <3>3. CASE ref.entry[p] # NoObject
      <4>1. [ref.entry EXCEPT ![p] = NoObject] = e
        BY <3>1
      <4> HIDE DEF e
      <4>2. [ref EXCEPT !.entry[p] = NoObject] = Fs(D, e, ref.live)
        BY <3>1, <4>1 DEF Fs
      <4> QED
        BY <1>5, <3>3, <4>2 DEF Without, e
    <3> QED
      BY <3>2, <3>3
  <2>2. ~ disagreed'
    BY <1>2, <1>3, <1>5, <1>7
  <2>3. adapter = "opfs" => ReleasesThem(pool, pool', {p}) /\ pool'.dirs = D
    <3> SUFFICES ASSUME adapter = "opfs"
                 PROVE  ReleasesThem(pool, pool', {p}) /\ pool'.dirs = D
      OBVIOUS
    <3>1. PoolOK(pool) /\ pool.dirs = D
      BY DEF RefInv, OpfsTrue, True
    <3>2. SlotsOf(pool, p) # {}
      BY <1>7, OpfsSees DEF RefInv
    <3>3. SlotsOf(pool, p) = {Find(pool, p)}
      BY <3>1, <3>2, FoundSlot
    <3>4. {t \in Slots : pool.slot[t].path \in {p}} = {Find(pool, p)}
      BY <3>3 DEF SlotsOf
    <3>5. pool' = Released(pool, {Find(pool, p)})
      BY <1>1, <1>7 DEF OpfsRemoveFile
    <3>6. /\ DOMAIN pool' = PoolFields /\ pool'.dirs = D
          /\ pool'.slot = [s \in Slots |-> IF s \in {Find(pool, p)} THEN FreshSlot
                                           ELSE pool.slot[s]]
      BY <3>1, <3>5, ReleasedIs
    <3> QED
      BY <3>1, <3>4, <3>6 DEF ReleasesThem, PoolOK
  <2>4. adapter = "indexeddb" => /\ CacheOK(cache') /\ IdbDirs(cache') = D
                                 /\ Emptied(IdbShows(cache), IdbShows(cache'), {p})
    <3> SUFFICES ASSUME adapter = "indexeddb"
                 PROVE  /\ CacheOK(cache') /\ IdbDirs(cache') = D
                        /\ Emptied(IdbShows(cache), IdbShows(cache'), {p})
      OBVIOUS
    <3>1. CacheOK(cache) /\ IdbDirs(cache) = D
      BY DEF RefInv, IdbTrue, IdbOK, True
    <3>2. cache' = Forget(cache, {p})
      BY <1>1, <1>7 DEF IdbRemoveFile
    <3>3. /\ CacheOK(cache') /\ DOMAIN cache'.files = DOMAIN cache.files \ {p}
          /\ Emptied(IdbShows(cache), IdbShows(cache'), {p})
      BY <3>1, <3>2, ForgetsThem
    <3> QED
      BY <3>1, <3>3, PathFacts DEF IdbDirs
  <2>5. Removes({p}, D)
    BY <1>1, <1>7, <2>1, <2>2, <2>3, <2>4, OrphanedIs DEF Removes
  <2> QED
    BY <1>4, <2>5, RemovalKeeps
<1> QED
  BY <1>6, <1>7

LEMMA RootOutside ==
    ASSUME NEW d \in Dirs, d # Root
    PROVE  ~ Inside(Root, d)
<1>1. Root \in Dirs
  BY PathFacts
<1> QED
  BY <1>1, InsideIs, AncestorsOfRoot

LEMMA RemoveDirKeeps ==
    ASSUME RefInv, ~ misused, NEW d \in Dirs, RemoveDir(d)
    PROVE  RefInv'
<1> DEFINE want == RemoveDirAll(ref, d)
           S    == {f \in Files : Inside(f, d)}
           D    == {x \in ref.dirs : ~ Inside(x, d)}
<1>1. /\ d # Root
      /\ ~ Exists(d) => pool' = pool /\ cache' = cache /\ handles' = handles
      /\ Exists(d) => /\ adapter = "opfs" => pool' = OpfsRemoveDirAll(pool, d)
                      /\ adapter # "opfs" => cache' = IdbRemoveDirAll(cache, d)
                      /\ handles' = Orphaned(S)
      /\ ref' = want.fs
      /\ UNCHANGED <<adapter, store, inFlight, deaths, misused>>
  BY DEF RemoveDir, Only
<1>2. ~ misused => disagreed' = (disagreed \/
            ((IF Exists(d) THEN "ok" ELSE "not found") \notin {want.rc, "quota"}
             /\ d \notin LongPaths))
  BY Zenon DEF RemoveDir, Answered
<1>3. /\ ~ disagreed /\ True(ref, handles, Seen, WebDirs)
      /\ adapter \in {"opfs", "indexeddb"}
      /\ Exists(d) <=> d \in WebDirs
  BY AdapterSees
<1>4. RefOK(ref) /\ ref.dirs = WebDirs /\ ref.dirs \subseteq Dirs
  BY <1>3 DEF True, RefOK
<1>5. Root \in ref.dirs
  <2>1. CASE adapter = "opfs"
    BY <2>1 DEF RefInv, OpfsTrue, PoolOK, Upward, True
  <2>2. CASE adapter = "indexeddb"
    BY <2>2 DEF RefInv, IdbTrue, IdbDirs, True
  <2> QED
    BY <1>3, <2>1, <2>2
<1>6. D \cup {Root} = D /\ ~ Inside(Root, d)
  BY <1>1, <1>5, RootOutside
<1>7. /\ d \notin ref.dirs => want.rc = "not found" /\ want.fs = ref
      /\ d \in ref.dirs => want.rc = "ok"
  BY DEF RemoveDirAll, Ok, Fails
<1>8. d \in ref.dirs => want.fs = Without(ref, S, D)
  <2> DEFINE e == [f \in Files |-> IF Inside(f, d) THEN NoObject ELSE ref.entry[f]]
             g == [f \in Files |-> IF f \in S THEN NoObject ELSE ref.entry[f]]
  <2>1. ref = [dirs |-> ref.dirs, entry |-> ref.entry, live |-> ref.live]
    BY <1>4 DEF RefOK
  <2>2. e = g
    <3>1. \A f \in Files : Inside(f, d) <=> f \in S
      OBVIOUS
    <3> HIDE DEF S
    <3>2. \A f \in Files : (IF Inside(f, d) THEN NoObject ELSE ref.entry[f])
                            = (IF f \in S THEN NoObject ELSE ref.entry[f])
      BY <3>1, Zenon
    <3> QED
      BY <3>2
  <2>3. d \in ref.dirs => want.fs = [ref EXCEPT !.dirs = D \cup {Root}, !.entry = e]
    BY DEF RemoveDirAll, Ok
  <2> DEFINE y == [ref EXCEPT !.dirs = D \cup {Root}]
  <2>4. y = Fs(D, ref.entry, ref.live)
    <3> HIDE DEF D
    <3> QED
      BY <1>6, <2>1 DEF Fs
  <2>5. [ref EXCEPT !.dirs = D \cup {Root}, !.entry = e] = [y EXCEPT !.entry = e]
    <3> HIDE DEF D, e
    <3> QED
      BY <2>1
  <2> HIDE DEF y, e
  <2>6. [y EXCEPT !.entry = e] = Fs(D, e, ref.live)
    BY <2>4, FsIs DEF Fs
  <2> QED
    BY <2>2, <2>3, <2>5, <2>6 DEF Without
<1> HIDE DEF want
<1>9. ~ disagreed'
  BY <1>2, <1>3, <1>4, <1>7
<1>10. CASE ~ Exists(d)
  <2>1. ref' = ref /\ pool' = pool /\ cache' = cache /\ handles' = handles
    BY <1>1, <1>3, <1>4, <1>7, <1>10
  <2> QED
    BY <1>1, <1>9, <2>1 DEF RefInv
<1>11. CASE Exists(d)
  <2>1. ref' = Without(ref, S, D) /\ handles' = MarkedGone(handles, S)
    BY <1>1, <1>3, <1>4, <1>8, <1>11, OrphanedIs
  <2>2. adapter = "opfs" => ReleasesThem(pool, pool', S) /\ pool'.dirs = D
    <3> SUFFICES ASSUME adapter = "opfs"
                 PROVE  ReleasesThem(pool, pool', S) /\ pool'.dirs = D
      OBVIOUS
    <3>1. PoolOK(pool) /\ pool.dirs = ref.dirs
      BY DEF RefInv, OpfsTrue, True
    <3> DEFINE y == Released(pool, Doomed(pool, d))
    <3>2. pool' = [y EXCEPT !.dirs = {x \in @ : ~ Inside(x, d)}]
      BY <1>1, <1>11 DEF OpfsRemoveDirAll
    <3>3. /\ DOMAIN y = PoolFields /\ y.dirs = pool.dirs
          /\ y.slot = [s \in Slots |-> IF s \in Doomed(pool, d) THEN FreshSlot
                                       ELSE pool.slot[s]]
      BY <3>1, ReleasedIs
    <3> HIDE DEF y
    <3>4. /\ DOMAIN pool' = PoolFields /\ pool'.slot = y.slot
          /\ pool'.dirs = {x \in pool.dirs : ~ Inside(x, d)}
      BY <3>2, <3>3 DEF PoolFields
    <3>5. pool'.dirs = D
      BY <3>1, <3>4
    <3>6. Upward(pool'.dirs)
      BY <1>1, <3>1, <3>4, UpwardWithout DEF PoolOK
    <3>7. Doomed(pool, d) = {t \in Slots : pool.slot[t].path \in S}
      BY DEF Doomed
    <3> QED
      BY <3>3, <3>4, <3>5, <3>6, <3>7 DEF ReleasesThem
  <2>3. adapter = "indexeddb" => /\ CacheOK(cache') /\ IdbDirs(cache') = D
                                 /\ Emptied(IdbShows(cache), IdbShows(cache'), S)
    <3> SUFFICES ASSUME adapter = "indexeddb"
                 PROVE  /\ CacheOK(cache') /\ IdbDirs(cache') = D
                        /\ Emptied(IdbShows(cache), IdbShows(cache'), S)
      OBVIOUS
    <3> DEFINE T == {p \in DOMAIN cache.files : Inside(p, d)}
    <3>1. CacheOK(cache) /\ IdbDirs(cache) = ref.dirs
      BY DEF RefInv, IdbTrue, IdbOK, True
    <3>2. cache' = Forget(cache, T)
      BY <1>1, <1>11 DEF IdbRemoveDirAll
    <3>3. (\A f \in Files : f \in T => f \in S) /\ \A f \in S : f \in T \/ f \notin DOMAIN cache.files
      OBVIOUS
    <3>4. S \in SUBSET Files /\ \A x \in DOMAIN cache.files : x \in T <=> Inside(x, d)
      OBVIOUS
    <3> HIDE DEF T, S
    <3>5. /\ CacheOK(cache') /\ DOMAIN cache'.files = DOMAIN cache.files \ T
          /\ Emptied(IdbShows(cache), IdbShows(cache'), S)
      BY <3>1, <3>2, <3>3, <3>4, ForgetsThem
    <3>6. IdbDirs(cache') = {x \in IdbDirs(cache) : ~ Inside(x, d)}
      BY <1>6, <3>4, <3>5 DEF IdbDirs
    <3> QED
      BY <3>1, <3>5, <3>6
  <2>4. S \in SUBSET Files /\ D \in SUBSET Dirs
    BY <1>4
  <2> HIDE DEF S, D
  <2>5. Removes(S, D)
    BY <1>1, <1>9, <2>1, <2>2, <2>3 DEF Removes
  <2> QED
    BY <2>4, <2>5, RemovalKeeps
<1> QED
  BY <1>10, <1>11

LEMMA CreateDirKeeps ==
    ASSUME RefInv, ~ misused, NEW d \in Dirs, CreateDir(d)
    PROVE  RefInv'
<1> DEFINE want == CreateDirAll(ref, d)
           A    == Ancestors(d)
           z    == WithDirs(ref, ref.dirs \cup A)
<1>1. /\ adapter = "opfs" => pool' = OpfsCreateDirAll(pool, d)
      /\ adapter # "opfs" => cache' = IdbCreateDirAll(cache, d)
      /\ ref' = want.fs /\ handles' = handles
      /\ UNCHANGED <<adapter, store, inFlight, deaths, misused>>
  BY DEF CreateDir, Only
<1>2. ~ misused => disagreed' = (disagreed \/ ("ok" \notin {want.rc, "quota"}
                                               /\ d \notin LongPaths))
  BY Zenon DEF CreateDir, Answered
<1>3. want.rc = "ok" /\ want.fs = z
  BY DEF CreateDirAll, Ok, WithDirs
<1>4. /\ ~ disagreed /\ deaths \in Nat /\ adapter \in {"opfs", "indexeddb"}
      /\ adapter \in Adapters
  BY AdapterSees DEF RefInv
<1>5. RefOK(ref) /\ HandlesOK(ref, handles) /\ ref.dirs \subseteq Dirs
  BY AdapterSees DEF True, RefOK
<1>6. A \subseteq Dirs
  BY AncestorsAre
<1> HIDE DEF want, A
<1>7. \A W : Matches(ref, W) => True(z, handles, W, ref.dirs \cup A)
  BY <1>5, <1>6, RefDirs DEF True
<1>8. ~ disagreed'
  BY <1>2, <1>3, <1>4
<1> HIDE DEF z
<1>9. CASE adapter = "opfs"
  <2>1. OpfsTrue(pool, ref, handles, deaths)
    BY <1>9 DEF RefInv
  <2>2. PoolOK(pool) /\ pool.dirs = ref.dirs /\ Matches(ref, OpfsShows(pool))
    BY <2>1 DEF OpfsTrue, True
  <2>3. /\ DOMAIN pool' = PoolFields /\ pool'.slot = pool.slot
        /\ pool'.dirs = pool.dirs \cup A
    BY <1>1, <1>9, <2>2 DEF OpfsCreateDirAll, PoolOK, PoolFields, A
  <2>4. Upward(pool'.dirs)
    BY <2>2, <2>3, UpwardAdd DEF PoolOK, A
  <2>5. PoolOK(pool')
    BY <2>2, <2>3, <2>4 DEF PoolOK, OneSlotEach
  <2>6. Bound(pool', handles) /\ OwnBytes(pool', deaths)
    BY <2>1, <2>3 DEF OpfsTrue, Bound, OwnBytes, Cut0, Cut1
  <2>7. OpfsShows(pool') = OpfsShows(pool)
    BY <2>3 DEF OpfsShows, OpfsContents, SlotsOf
  <2>8. OpfsTrue(pool', z, handles, deaths)
    BY <1>7, <2>2, <2>3, <2>5, <2>6, <2>7 DEF OpfsTrue
  <2> QED
    BY <1>1, <1>3, <1>4, <1>8, <1>9, <2>8 DEF RefInv
<1>10. CASE adapter = "indexeddb"
  <2>1. IdbTrue(cache, store, inFlight, ref, handles)
    BY <1>10 DEF RefInv
  <2>2. CacheOK(cache) /\ IdbDirs(cache) = ref.dirs /\ Matches(ref, IdbShows(cache))
    BY <2>1 DEF IdbTrue, IdbOK, True
  <2>3. /\ CacheOK(cache') /\ DOMAIN cache'.files = DOMAIN cache.files \cup (A \ {Root})
        /\ \A q : q \notin A => CachedContents(cache', q) = CachedContents(cache, q)
    BY <1>1, <1>10, <2>2, IdbCreateDirIs DEF A
  <2>4. IdbDirs(cache') = ref.dirs \cup A
    BY <1>6, <2>2, <2>3 DEF IdbDirs
  <2>5. \A f \in Files : CachedContents(cache', f) = CachedContents(cache, f)
    BY <1>6, <2>3, PathFacts
  <2>6. IdbShows(cache') = IdbShows(cache)
    BY <2>5 DEF IdbShows
  <2>7. IdbTrue(cache', store, inFlight, z, handles)
    BY <1>7, <2>1, <2>2, <2>3, <2>4, <2>6 DEF IdbTrue, IdbOK
  <2> QED
    BY <1>1, <1>3, <1>4, <1>8, <1>10, <2>7 DEF RefInv
<1> QED
  BY <1>4, <1>9, <1>10

-------------------------------------------------------------------------------
(* What goes on beside the calls of the engine. *)

\* The cache e holds the files and blocks of c.
SameCache(c, e) == DOMAIN e = KeptFields /\ e.files = c.files /\ e.blocks = c.blocks

LEMMA SameCacheShows ==
    ASSUME NEW c, NEW e, CacheOK(c), SameCache(c, e)
    PROVE  CacheOK(e) /\ IdbShows(e) = IdbShows(c) /\ IdbDirs(e) = IdbDirs(c)
<1>1. CacheOK(e)
  BY DEF CacheOK, SameCache
<1>2. \A p : CachedContents(e, p) = CachedContents(c, p)
  BY <1>1, CachedSame DEF SameCache
<1> QED
  BY <1>1, <1>2 DEF IdbShows, IdbDirs, SameCache

LEMMA BackgroundKeeps ==
    ASSUME RefInv,
           UNCHANGED <<adapter, pool, handles, ref, disagreed, misused, deaths>>,
           adapter = "indexeddb" /\ IdbOK(cache, store, inFlight)
                => SameCache(cache, cache') /\ StoreOK(store') /\ TxsOK(inFlight')
    PROVE  RefInv'
<1>1. CASE misused
  BY <1>1 DEF RefInv
<1>2. CASE ~ misused
  <2>1. adapter = "indexeddb" => IdbTrue(cache', store', inFlight', ref, handles)
    <3> SUFFICES ASSUME adapter = "indexeddb"
                 PROVE  IdbTrue(cache', store', inFlight', ref, handles)
      OBVIOUS
    <3>1. IdbTrue(cache, store, inFlight, ref, handles)
      BY <1>2 DEF RefInv
    <3>2. IdbOK(cache, store, inFlight) /\ CacheOK(cache)
      BY <3>1 DEF IdbTrue, IdbOK
    <3>3. SameCache(cache, cache') /\ StoreOK(store') /\ TxsOK(inFlight')
      BY <3>2
    <3>4. CacheOK(cache') /\ IdbShows(cache') = IdbShows(cache) /\ IdbDirs(cache') = IdbDirs(cache)
      BY <3>2, <3>3, SameCacheShows
    <3> QED
      BY <3>1, <3>3, <3>4 DEF IdbTrue, IdbOK
  <2> QED
    BY <1>2, <2>1 DEF RefInv
<1> QED
  BY <1>1, <1>2

LEMMA DrainedIsRef ==
    ASSUME NEW c, DOMAIN c = KeptFields
    PROVE  SameCache(c, Drained(c)) /\ SameCache(c, Schedule(c))
           /\ SameCache(c, [c EXCEPT !.timer = FALSE]) /\ SameCache(c, c)
BY DEF SameCache, Drained, Schedule, KeptFields

LEMMA TransactionIsRef ==
    ASSUME NEW c, CacheOK(c)
    PROVE  TxsOK(Starts(c))
<1> DEFINE t == Transaction(c)
           df == c.dirtyFiles \cap DOMAIN c.files
           db == c.dirtyBlocks \cap DOMAIN c.blocks
<1>1. /\ t.putFiles = [p \in df |-> c.files[p]]
      /\ t.putBlocks = [k \in db |-> c.blocks[k]]
  BY DEF Transaction
<1> HIDE DEF t
<1>2. SizesOK(t.putFiles) /\ BlocksOK(t.putBlocks)
  BY <1>1 DEF CacheOK, SizesOK, BlocksOK
<1>3. \A s \in Starts(c) : s.tx = t
  BY DEF Starts, t
<1> QED
  BY <1>2, <1>3 DEF TxsOK

LEMMA CommitIsRef ==
    ASSUME NEW st, StoreOK(st), NEW tx, SizesOK(tx.putFiles), BlocksOK(tx.putBlocks)
    PROVE  StoreOK(Commit(st, tx))
<1> DEFINE f == Merge(st.files, tx.putFiles)
           b == Merge(st.blocks, tx.putBlocks)
<1>1. /\ Commit(st, tx).files = Drop(f, tx.goneFiles)
      /\ Commit(st, tx).blocks = Drop(b, tx.goneBlocks)
  BY DEF Commit
<1>2. SizesOK(f) /\ BlocksOK(b)
  BY DEF StoreOK, SizesOK, BlocksOK, Merge
<1> HIDE DEF f, b
<1>3. SizesOK(Drop(f, tx.goneFiles)) /\ BlocksOK(Drop(b, tx.goneBlocks))
  BY <1>2 DEF SizesOK, BlocksOK, Drop
<1> QED
  BY <1>1, <1>3 DEF StoreOK

LEMMA FlushIs ==
    ASSUME NEW c, CacheOK(c), TxsOK(inFlight), Flush(c)
    PROVE  SameCache(c, cache') /\ TxsOK(inFlight')
<1>1. SameCache(c, Drained(c)) /\ SameCache(c, c)
  BY DrainedIsRef DEF CacheOK
<1>2. TxsOK(Starts(c))
  BY TransactionIsRef
<1> QED
  BY <1>1, <1>2 DEF Flush

LEMMA SyncDataKeeps ==
    ASSUME RefInv, NEW h, SyncData(h)
    PROVE  RefInv'
<1>1. /\ UNCHANGED <<adapter, pool, handles, ref, disagreed, misused, deaths>>
      /\ cache' = Schedule(cache) /\ UNCHANGED <<store, inFlight>>
  BY DEF SyncData, Only
<1>2. IdbOK(cache, store, inFlight)
        => SameCache(cache, cache') /\ StoreOK(store') /\ TxsOK(inFlight')
  BY <1>1, DrainedIsRef DEF IdbOK, CacheOK
<1> QED
  BY <1>1, <1>2, BackgroundKeeps

LEMMA TimerKeepsRef ==
    ASSUME RefInv, TimerFires
    PROVE  RefInv'
<1> DEFINE c == [cache EXCEPT !.timer = FALSE]
<1>1. /\ UNCHANGED <<adapter, pool, handles, ref, disagreed, misused, deaths>>
      /\ Flush(c) /\ UNCHANGED store
  BY DEF TimerFires
<1>2. ASSUME IdbOK(cache, store, inFlight)
      PROVE  SameCache(cache, cache') /\ StoreOK(store') /\ TxsOK(inFlight')
  <2>1. SameCache(cache, c) /\ CacheOK(cache)
    BY <1>2, DrainedIsRef DEF IdbOK, CacheOK
  <2> HIDE DEF c
  <2>2. CacheOK(c)
    BY <2>1, SameCacheShows
  <2>3. SameCache(c, cache') /\ TxsOK(inFlight')
    BY <1>1, <1>2, <2>2, FlushIs DEF IdbOK
  <2> QED
    BY <1>1, <1>2, <2>1, <2>3 DEF SameCache, IdbOK
<1> QED
  BY <1>1, <1>2, BackgroundKeeps

LEMMA CallFlushKeepsRef ==
    ASSUME RefInv, CallFlush
    PROVE  RefInv'
<1>1. /\ UNCHANGED <<adapter, pool, handles, ref, disagreed, misused, deaths>>
      /\ Flush(cache) /\ UNCHANGED store
  BY DEF CallFlush
<1>2. IdbOK(cache, store, inFlight)
        => SameCache(cache, cache') /\ StoreOK(store') /\ TxsOK(inFlight')
  BY <1>1, FlushIs DEF IdbOK
<1> QED
  BY <1>1, <1>2, BackgroundKeeps

LEMMA TxCompletesKeeps ==
    ASSUME RefInv, TxCompletes
    PROVE  RefInv'
<1>1. PICK t \in inFlight :
        /\ store' = Commit(store, t.tx)
        /\ IF waiting > 0 /\ ~ Clean(cache)
           THEN inFlight' = Starts(cache) /\ cache' = Drained(cache)
           ELSE inFlight' = {} /\ UNCHANGED cache
        /\ UNCHANGED <<adapter, pool, handles, ref, disagreed, misused, deaths>>
  BY DEF TxCompletes
<1>2. ASSUME IdbOK(cache, store, inFlight)
      PROVE  SameCache(cache, cache') /\ StoreOK(store') /\ TxsOK(inFlight')
  <2>1. CacheOK(cache) /\ StoreOK(store) /\ TxsOK(inFlight)
    BY <1>2 DEF IdbOK
  <2>2. SizesOK(t.tx.putFiles) /\ BlocksOK(t.tx.putBlocks)
    BY <2>1 DEF TxsOK
  <2>3. StoreOK(store')
    BY <1>1, <2>1, <2>2, CommitIsRef
  <2>4. SameCache(cache, Drained(cache)) /\ SameCache(cache, cache) /\ TxsOK(Starts(cache))
    BY <2>1, DrainedIsRef, TransactionIsRef DEF CacheOK
  <2>5. TxsOK({})
    BY DEF TxsOK
  <2> QED
    BY <1>1, <2>3, <2>4, <2>5
<1> QED
  BY <1>1, <1>2, BackgroundKeeps

LEMMA TxAbortsKeeps ==
    ASSUME RefInv, TxAborts
    PROVE  RefInv'
<1>1. /\ UNCHANGED <<adapter, pool, handles, ref, disagreed, misused, deaths>>
      /\ UNCHANGED <<cache, store>> /\ inFlight' = {}
  BY DEF TxAborts
<1>2. IdbOK(cache, store, inFlight)
        => SameCache(cache, cache') /\ StoreOK(store') /\ TxsOK(inFlight')
  BY <1>1 DEF IdbOK, CacheOK, SameCache, TxsOK
<1> QED
  BY <1>1, <1>2, BackgroundKeeps

-------------------------------------------------------------------------------
(* The tab goes away. *)

LEMMA IdbTabDiesKeeps ==
    ASSUME RefInv, ~ misused, IdbTabDies
    PROVE  RefInv'
<1> DEFINE W == IdbShows(cache')
           D == IdbDirs(cache')
<1>1. /\ adapter = "indexeddb" /\ adapter' = adapter /\ handles' = NoHandles
      /\ UNCHANGED <<disagreed, misused, deaths>> /\ inFlight' = {}
      /\ cache' = IdbReload(store')
  BY DEF IdbTabDies, Restart, NoHandles
<1>2. ref' = Rebased(D, W)
  BY DEF IdbTabDies, IdbDirs, IdbShows
<1>3. IdbOK(cache, store, inFlight)
  BY <1>1 DEF RefInv, IdbTrue
<1>4. StoreOK(store')
  <2>1. PICK done \in SUBSET inFlight :
            store' = IF done = {} THEN store ELSE Commit(store, (CHOOSE t \in done : TRUE).tx)
    BY DEF IdbTabDies
  <2>2. CASE done = {}
    BY <1>3, <2>1, <2>2 DEF IdbOK
  <2>3. CASE done # {}
    <3> DEFINE t == CHOOSE u \in done : TRUE
    <3>1. t \in inFlight
      BY <2>3
    <3>2. store' = Commit(store, t.tx)
      BY <2>1, <2>3
    <3> HIDE DEF t
    <3>3. SizesOK(t.tx.putFiles) /\ BlocksOK(t.tx.putBlocks)
      BY <1>3, <3>1 DEF IdbOK, TxsOK
    <3> QED
      BY <1>3, <3>2, <3>3, CommitIsRef DEF IdbOK
  <2> QED
    BY <2>2, <2>3
<1>5. CacheOK(cache')
  <2>1. /\ DOMAIN cache' = KeptFields /\ cache'.files = store'.files
        /\ cache'.blocks = store'.blocks
    BY <1>1 DEF IdbReload, EmptyCache, KeptFields
  <2> QED
    BY <1>4, <2>1 DEF CacheOK, StoreOK
<1>6. Contained(W)
  <2> SUFFICES ASSUME NEW f \in Files
               PROVE  W[f] = {} \/ \E b \in Seq(Bytes) : W[f] = {b}
    BY DEF Contained
  <2>1. W[f] = IF f \in DOMAIN cache'.files THEN {CachedBytes(cache', f)} ELSE {}
    BY CachedContentsIs DEF IdbShows
  <2>2. ASSUME f \in DOMAIN cache'.files
        PROVE  CachedBytes(cache', f) \in Seq(Bytes)
    <3>1. CachedBytes(cache', f) \in Own(f)
      BY <1>5, <2>2, CachedIs DEF CacheOK
    <3> QED
      BY <3>1 DEF Own, Bytes
  <2> QED
    BY <2>1, <2>2
<1>7. D \in SUBSET Dirs
  BY PathFacts DEF IdbDirs
<1> HIDE DEF W, D
<1>8. True(ref', handles', W, D)
  BY <1>1, <1>2, <1>6, <1>7, RebasedIs DEF NoHandles
<1>9. IdbTrue(cache', store', inFlight', ref', handles')
  BY <1>1, <1>4, <1>5, <1>8 DEF IdbTrue, IdbOK, TxsOK, W, D
<1> QED
  BY <1>1, <1>9 DEF RefInv

\* What a Worker that dies leaves of a slot and of the pool: what counts is the
\* header.
LeftSlot(x) ==
    /\ DOMAIN x = SlotFields /\ x.bytes \in Seq(Bytes)
    /\ x.header \in (Files \ LongPaths) \cup {NoPath}

LeftOwn(x, n) == n = 0 /\ x.header # NoPath => x.bytes \in Own(x.header)

LeftOK(z, n) ==
    /\ DOMAIN z = PoolFields /\ z.slot = [s \in Slots |-> z.slot[s]]
    /\ \A s \in Slots : LeftSlot(z.slot[s]) /\ LeftOwn(z.slot[s], n)
    /\ \A s, t \in Slots :
        z.slot[s].header = z.slot[t].header /\ z.slot[s].header # NoPath => s = t

LEMMA WholeIsLeft ==
    ASSUME NEW q, NEW hs, NEW n, PoolKept(q, hs, n)
    PROVE  LeftOK(q, n)
<1>1. PoolOK(q) /\ (n = 0 => Cut1(q))
  BY DEF PoolKept, OwnBytes
<1>2. ASSUME NEW s \in Slots
      PROVE  /\ LeftSlot(q.slot[s]) /\ LeftOwn(q.slot[s], n)
             /\ q.slot[s].header # NoPath => q.slot[s].header = q.slot[s].path
  <2>1. IsSlot(q.slot[s])
    BY <1>1 DEF PoolOK
  <2>2. /\ q.slot[s].header \in (Files \ LongPaths) \cup {NoPath}
        /\ q.slot[s].header # NoPath => q.slot[s].header = q.slot[s].path
                                        /\ q.slot[s].path \in Files \ LongPaths
    BY <2>1 DEF IsSlot
  <2>3. LeftOwn(q.slot[s], n)
    BY <1>1, <2>2 DEF LeftOwn, Cut1
  <2> QED
    BY <2>1, <2>2, <2>3 DEF LeftSlot, IsSlot
<1>3. \A s, t \in Slots :
        q.slot[s].header = q.slot[t].header /\ q.slot[s].header # NoPath => s = t
  BY <1>1, <1>2 DEF PoolOK, OneSlotEach
<1> QED
  BY <1>1, <1>2, <1>3 DEF LeftOK, PoolOK

\* One slot changes its header or its bytes.
LeftSet(q, z, n, s, x) ==
    /\ LeftOK(q, n) /\ s \in Slots /\ LeftSlot(x) /\ LeftOwn(x, n)
    /\ DOMAIN z = PoolFields /\ z.slot = [q.slot EXCEPT ![s] = x]
    /\ x.header # NoPath => \A t \in Slots : q.slot[t].header # x.header

LEMMA LeftSetIs ==
    ASSUME NEW q, NEW z, NEW n, NEW s, NEW x, LeftSet(q, z, n, s, x)
    PROVE  LeftOK(z, n)
<1>1. /\ z.slot = [t \in Slots |-> z.slot[t]] /\ z.slot[s] = x
      /\ \A t \in Slots : t # s => z.slot[t] = q.slot[t]
  BY DEF LeftSet, LeftOK
<1>2. \A t \in Slots : LeftSlot(z.slot[t]) /\ LeftOwn(z.slot[t], n)
  BY <1>1 DEF LeftSet, LeftOK
<1>3. ASSUME NEW t \in Slots, NEW u \in Slots,
             z.slot[t].header = z.slot[u].header, z.slot[t].header # NoPath
      PROVE  t = u
  BY <1>1, <1>3 DEF LeftSet, LeftOK
<1> QED
  BY <1>1, <1>2, <1>3 DEF LeftSet, LeftOK

LEMMA LeftReleased ==
    ASSUME NEW q, NEW n, LeftOK(q, n), NEW S
    PROVE  LeftOK(Released(q, S), n)
<1> DEFINE z == Released(q, S)
<1>1. /\ DOMAIN z = PoolFields
      /\ z.slot = [s \in Slots |-> IF s \in S THEN FreshSlot ELSE q.slot[s]]
  BY DEF LeftOK, PoolFields, Released
<1> HIDE DEF z
<1>2. /\ z.slot = [s \in Slots |-> z.slot[s]]
      /\ \A s \in Slots : z.slot[s] = IF s \in S THEN FreshSlot ELSE q.slot[s]
  BY <1>1
<1>3. LeftSlot(FreshSlot) /\ LeftOwn(FreshSlot, n) /\ FreshSlot.header = NoPath
  <2>1. DOMAIN FreshSlot = SlotFields /\ FreshSlot.header = NoPath /\ FreshSlot.bytes = <<>>
    BY DEF FreshSlot, SlotFields
  <2> QED
    BY <2>1 DEF LeftSlot, LeftOwn
<1>4. \A s \in Slots : LeftSlot(z.slot[s]) /\ LeftOwn(z.slot[s], n)
  BY <1>2, <1>3 DEF LeftOK
<1>5. \A s, t \in Slots :
        z.slot[s].header = z.slot[t].header /\ z.slot[s].header # NoPath => s = t
  BY <1>2, <1>3 DEF LeftOK
<1>6. LeftOK(z, n)
  BY <1>1, <1>2, <1>4, <1>5 DEF LeftOK
<1> QED
  BY <1>6 DEF z

LEMMA LeftCleared ==
    ASSUME NEW q, NEW n, LeftOK(q, n), NEW s \in Slots
    PROVE  LeftOK(Cleared(q, s), n)
<1> DEFINE x == [path |-> NoPath, header |-> NoPath, bytes |-> q.slot[s].bytes]
           z == Cleared(q, s)
<1>1. DOMAIN z = PoolFields /\ z.slot = [q.slot EXCEPT ![s] = x]
  BY DEF LeftOK, PoolFields, Cleared
<1>2. DOMAIN x = SlotFields /\ x.header = NoPath /\ x.bytes = q.slot[s].bytes
  BY DEF SlotFields
<1> HIDE DEF x, z
<1>3. LeftSlot(x) /\ LeftOwn(x, n)
  BY <1>2 DEF LeftSlot, LeftOwn, LeftOK
<1>4. LeftSet(q, z, n, s, x)
  BY <1>1, <1>2, <1>3 DEF LeftSet
<1> QED
  BY <1>4, LeftSetIs DEF z

LEMMA LeftOpened ==
    ASSUME NEW q, NEW hs, NEW n, PoolKept(q, hs, n), NEW p \in Files,
           SlotsOf(q, p) = {}, SlotsOf(q, NoPath) # {}, NEW z \in HalfOpened(q, p)
    PROVE  LeftOK(z, n)
<1> DEFINE s == Free(q)
           y == q.slot[s]
           h == IF p \in LongPaths THEN y.header ELSE p
           b == IF p \notin LongPaths /\ z = Opened(q, p) THEN <<>> ELSE y.bytes
           x == [path |-> p, header |-> h, bytes |-> b]
<1>1. s \in Slots /\ y.path = NoPath
  BY FreeSlot
<1>2. LeftOK(q, n) /\ PoolOK(q) /\ (n = 0 => Cut0(q))
  BY WholeIsLeft DEF PoolKept, OwnBytes
<1>3. z = [q EXCEPT !.slot[s] = x]
  <2>1. CASE p \notin LongPaths /\ z = Opened(q, p)
    <3>1. x = [path |-> p, header |-> p, bytes |-> <<>>]
      BY <2>1
    <3> QED
      BY <2>1, <3>1 DEF Opened
  <2>2. CASE ~ (p \notin LongPaths /\ z = Opened(q, p))
    <3>1. z = Claimed(q, p)
      BY <2>2 DEF HalfOpened, Opened
    <3>2. b = y.bytes
      BY <2>2
    <3> HIDE DEF b
    <3> QED
      BY <3>1, <3>2 DEF Claimed
  <2> QED
    BY <2>1, <2>2
<1>4. DOMAIN z = PoolFields /\ z.slot = [q.slot EXCEPT ![s] = x]
  <2> HIDE DEF x
  <2> QED
    BY <1>2, <1>3 DEF PoolOK, PoolFields
<1>5. IsSlot(y) /\ y.header = NoPath
  BY <1>1, <1>2, PathFacts DEF PoolOK, IsSlot
<1>6. DOMAIN x = SlotFields /\ x.header = h /\ x.bytes = b
  <2> HIDE DEF h, b
  <2> QED
    BY DEF SlotFields
<1>7. b = <<>> \/ b = y.bytes
  OBVIOUS
<1> HIDE DEF x, b
<1>8. LeftSlot(x)
  <2>1. b \in Seq(Bytes)
    <3>1. y.bytes \in Seq(Bytes) /\ <<>> \in Seq(Bytes)
      BY <1>5 DEF IsSlot
    <3> QED
      BY <1>7, <3>1
  <2>2. h \in (Files \ LongPaths) \cup {NoPath}
    BY <1>5
  <2> QED
    BY <1>6, <2>1, <2>2 DEF LeftSlot
<1>9. LeftOwn(x, n)
  <2>1. n = 0 => y.bytes = <<>>
    BY <1>1, <1>2 DEF Cut0
  <2>2. n = 0 => x.bytes = <<>>
    BY <1>6, <1>7, <2>1
  <2> QED
    BY <2>2, OwnEmpty DEF LeftOwn
<1>10. h # NoPath => \A t \in Slots : q.slot[t].header # h
  <2> SUFFICES ASSUME h # NoPath, NEW t \in Slots, q.slot[t].header = h
               PROVE  FALSE
    OBVIOUS
  <2>1. h = p
    BY <1>5
  <2>2. IsSlot(q.slot[t])
    BY <1>2 DEF PoolOK
  <2>3. q.slot[t].path = p
    BY <2>1, <2>2, PathFacts DEF IsSlot
  <2> QED
    BY <2>3 DEF SlotsOf
<1>11. LeftSet(q, z, n, s, x)
  <2> HIDE DEF h
  <2> QED
    BY <1>1, <1>2, <1>4, <1>6, <1>8, <1>9, <1>10 DEF LeftSet
<1> QED
  BY <1>11, LeftSetIs

LEMMA LeftHalfReleased ==
    ASSUME NEW q, NEW n, LeftOK(q, n), NEW S \in SUBSET Slots, NEW z \in HalfReleased(q, S)
    PROVE  LeftOK(z, n)
<1>1. PICK s \in S : z \in LET before == Released(q, {t \in S : t < s})
                          IN  {Cleared(before, s), Released(before, {s})}
  BY DEF HalfReleased
<1> DEFINE before == Released(q, {t \in S : t < s})
<1>2. z = Cleared(before, s) \/ z = Released(before, {s})
  BY <1>1
<1>3. LeftOK(before, n)
  BY LeftReleased
<1> HIDE DEF before
<1> QED
  BY <1>2, <1>3, LeftCleared, LeftReleased

LEMMA ReloadIs ==
    ASSUME NEW z, NEW n \in Nat, LeftOK(z, n)
    PROVE  LET after == OpfsReload(z)
           IN  /\ PoolOK(after) /\ OwnBytes(after, n + 1) /\ Contained(OpfsShows(after))
<1> DEFINE after == OpfsReload(z)
           named == [s \in Slots |-> [z.slot[s] EXCEPT !.path = z.slot[s].header]]
           used  == {named[s].path : s \in Slots} \ {NoPath}
           D     == {Root} \cup UNION {Ancestors(Parent[f]) : f \in used}
<1>1. DOMAIN after = PoolFields /\ after.slot = named /\ after.dirs = D
  BY DEF OpfsReload, PoolFields
<1>2. ASSUME NEW s \in Slots
      PROVE  /\ IsSlot(named[s]) /\ named[s].path = z.slot[s].header
             /\ named[s].path \in (Files \ LongPaths) \cup {NoPath}
             /\ named[s].bytes = z.slot[s].bytes
  <2> DEFINE x == z.slot[s]
  <2>1. LeftSlot(x)
    BY DEF LeftOK
  <2>2. named[s] = [x EXCEPT !.path = x.header]
    OBVIOUS
  <2> HIDE DEF x, named
  <2>3. /\ DOMAIN named[s] = SlotFields /\ named[s].path = x.header
        /\ named[s].header = x.header /\ named[s].bytes = x.bytes
    BY <2>1, <2>2 DEF LeftSlot, SlotFields
  <2> QED
    BY <2>1, <2>3, PathFacts DEF LeftSlot, IsSlot, x
<1>3. named = [s \in Slots |-> named[s]]
  OBVIOUS
<1>4. used \subseteq Files
  BY <1>2
<1> HIDE DEF after, named, used
<1>5. Upward(D)
  <2>1. Ancestors(Root) = {Root} /\ Root \in Dirs
    BY AncestorsOfRoot, PathFacts
  <2>2. ASSUME NEW f \in used
        PROVE  /\ Ancestors(Parent[f]) \subseteq Dirs
               /\ \A d \in Ancestors(Parent[f]) : Ancestors(d) \subseteq Ancestors(Parent[f])
    <3>1. Parent[f] \in Dirs
      BY <1>4, PathFacts
    <3> QED
      BY <3>1, AncestorsAre, AncestorsOfAncestor
  <2>3. D \subseteq Dirs /\ Root \in D
    BY <2>1, <2>2
  <2>4. ASSUME NEW d \in D
        PROVE  Ancestors(d) \subseteq D
    <3>1. CASE d = Root
      BY <2>1, <3>1
    <3>2. CASE d # Root
      <4>1. PICK f \in used : d \in Ancestors(Parent[f])
        BY <3>2
      <4>2. Ancestors(d) \subseteq Ancestors(Parent[f])
        BY <2>2, <4>1
      <4> QED
        BY <4>2
    <3> QED
      BY <3>1, <3>2
  <2> QED
    BY <2>3, <2>4 DEF Upward
<1>6. PoolOK(after)
  <2>1. OneSlotEach(after)
    BY <1>1, <1>2 DEF OneSlotEach, LeftOK
  <2> HIDE DEF D
  <2> QED
    BY <1>1, <1>2, <1>3, <1>5, <2>1 DEF PoolOK
<1>7. OwnBytes(after, n + 1)
  <2>1. n + 1 <= 1 => n = 0
    OBVIOUS
  <2>2. ASSUME n = 0
        PROVE  Cut1(after)
    <3> SUFFICES ASSUME NEW s \in Slots, after.slot[s].path \in Files \ LongPaths
                 PROVE  after.slot[s].bytes \in Own(after.slot[s].path)
      BY DEF Cut1
    <3>1. LeftOwn(z.slot[s], n)
      BY DEF LeftOK
    <3> QED
      BY <1>1, <1>2, <2>2, <3>1, PathFacts DEF LeftOwn
  <2> QED
    BY <2>1, <2>2 DEF OwnBytes
<1>8. Contained(OpfsShows(after))
  <2> SUFFICES ASSUME NEW f \in Files
               PROVE  \/ OpfsShows(after)[f] = {}
                      \/ \E b \in Seq(Bytes) : OpfsShows(after)[f] = {b}
    BY DEF Contained
  <2>1. OpfsShows(after)[f] = OpfsContents(after, f)
    BY DEF OpfsShows
  <2>2. CASE SlotsOf(after, f) = {}
    BY <2>1, <2>2, ShownEmpty
  <2>3. CASE SlotsOf(after, f) # {}
    <3>1. PICK s \in Slots : after.slot[s].path = f
      BY <2>3 DEF SlotsOf
    <3>2. OpfsContents(after, f) = {after.slot[s].bytes}
      BY <1>6, <3>1, ShownBySlot
    <3>3. after.slot[s].bytes \in Seq(Bytes)
      BY <1>6 DEF PoolOK, IsSlot
    <3> QED
      BY <2>1, <3>2, <3>3
  <2> QED
    BY <2>2, <2>3
<1> QED
  BY <1>6, <1>7, <1>8 DEF after

LEMMA InterruptedIsLeft ==
    ASSUME adapter = "opfs", OpfsTrue(pool, ref, handles, deaths), NEW left \in Interrupted
    PROVE  LeftOK(left, deaths)
<1>1. PoolKept(pool, handles, deaths) /\ PoolOK(pool)
  BY DEF OpfsTrue, PoolKept
<1>2. LeftOK(pool, deaths)
  BY <1>1, WholeIsLeft
<1>3. \A p \in Files : Exists(p) <=> SlotsOf(pool, p) # {}
  BY OpfsSees
<1>4. CASE left = pool
  BY <1>2, <1>4
<1>5. ASSUME NEW p \in Files, ~ Exists(p), SlotsOf(pool, NoPath) # {},
             left \in HalfOpened(pool, p)
      PROVE  LeftOK(left, deaths)
  BY <1>1, <1>3, <1>5, LeftOpened
<1>6. ASSUME NEW p \in Files, Exists(p), left \in HalfReleased(pool, {Find(pool, p)})
      PROVE  LeftOK(left, deaths)
  <2>1. {Find(pool, p)} \in SUBSET Slots
    BY <1>1, <1>3, <1>6, FoundSlot
  <2> QED
    BY <1>2, <1>6, <2>1, LeftHalfReleased
<1>7. ASSUME NEW d, left \in HalfReleased(pool, Doomed(pool, d))
      PROVE  LeftOK(left, deaths)
  <2>1. Doomed(pool, d) \in SUBSET Slots
    BY DEF Doomed
  <2> QED
    BY <1>2, <1>7, <2>1, LeftHalfReleased
<1>8. \/ left = pool
      \/ \E p \in Files : ~ Exists(p) /\ SlotsOf(pool, NoPath) # {}
                          /\ left \in HalfOpened(pool, p)
      \/ \E p \in Files : Exists(p) /\ left \in HalfReleased(pool, {Find(pool, p)})
      \/ \E d : left \in HalfReleased(pool, Doomed(pool, d))
  <2> DEFINE P == {f \in Files : ~ Exists(f) /\ Parent[f] \in WebDirs
                                /\ SlotsOf(pool, NoPath) # {}}
             Q == {f \in Files : Exists(f)}
             U == UNION {HalfOpened(pool, p) : p \in P}
             V == UNION {HalfReleased(pool, {Find(pool, p)}) : p \in Q}
             X == UNION {HalfReleased(pool, Doomed(pool, d)) : d \in WebDirs \ {Root}}
  <2>1. \A p \in P : p \in Files /\ ~ Exists(p) /\ SlotsOf(pool, NoPath) # {}
    OBVIOUS
  <2>2. \A p \in Q : p \in Files /\ Exists(p)
    OBVIOUS
  <2>3. Interrupted = {pool} \cup U \cup V \cup X
    BY DEF Interrupted
  <2> HIDE DEF P, Q
  <2>4. left \in U => \E p \in P : left \in HalfOpened(pool, p)
    OBVIOUS
  <2>5. left \in V => \E p \in Q : left \in HalfReleased(pool, {Find(pool, p)})
    OBVIOUS
  <2>6. left \in X => \E d : left \in HalfReleased(pool, Doomed(pool, d))
    OBVIOUS
  <2> HIDE DEF U, V, X
  <2>7. left = pool \/ left \in U \/ left \in V \/ left \in X
    BY <2>3
  <2> QED
    BY <2>1, <2>2, <2>4, <2>5, <2>6, <2>7
<1> QED
  BY <1>4, <1>5, <1>6, <1>7, <1>8

LEMMA OpfsTabDiesKeeps ==
    ASSUME RefInv, ~ misused, OpfsTabDies
    PROVE  RefInv'
<1>1. /\ adapter = "opfs" /\ adapter' = adapter /\ handles' = NoHandles
      /\ UNCHANGED <<disagreed, misused>> /\ deaths' = deaths + 1
  BY DEF OpfsTabDies, Restart, NoHandles
<1>2. PICK left \in Interrupted :
        LET after == OpfsReload(left)
        IN  /\ pool' = after
            /\ ref' = Rebased(after.dirs, [f \in Files |-> OpfsContents(after, f)])
  BY DEF OpfsTabDies
<1>3. pool' = OpfsReload(left) /\ ref' = Rebased(pool'.dirs, OpfsShows(pool'))
  BY <1>2 DEF OpfsShows
<1>4. OpfsTrue(pool, ref, handles, deaths) /\ deaths \in Nat
  BY <1>1 DEF RefInv
<1>5. LeftOK(left, deaths)
  BY <1>1, <1>4, InterruptedIsLeft
<1>6. PoolOK(pool') /\ OwnBytes(pool', deaths') /\ Contained(OpfsShows(pool'))
  BY <1>1, <1>3, <1>4, <1>5, ReloadIs
<1>7. pool'.dirs \in SUBSET Dirs
  BY <1>6 DEF PoolOK, Upward
<1>8. True(ref', handles', OpfsShows(pool'), pool'.dirs)
  BY <1>1, <1>3, <1>6, <1>7, RebasedIs DEF NoHandles
<1>9. Bound(pool', handles')
  BY <1>1 DEF Bound, NoHandles
<1>10. OpfsTrue(pool', ref', handles', deaths')
  BY <1>6, <1>8, <1>9 DEF OpfsTrue
<1>11. deaths' \in Nat
  BY <1>1, <1>4
<1> QED
  BY <1>1, <1>10, <1>11 DEF RefInv

-------------------------------------------------------------------------------
(* Every step keeps the invariant. *)

LEMMA EngineKeepsRef ==
    ASSUME RefInv, ~ misused, EngineCalls
    PROVE  RefInv'
<1>1. Used[adapter] \subseteq Files /\ AppendSizes \subseteq Nat /\ MaxLen \in Nat
  BY WebAssumption DEF RefInv
<1>2. \A len \in 0..MaxLen : len \in Nat
  BY <1>1
<1>3. CASE \E h \in Handles, p \in Used[adapter], mode \in Modes : Open(h, p, mode)
  BY <1>1, <1>3, OpenKeepsRef
<1>4. CASE \E h \in Handles, n \in AppendSizes : AppendBytes(h, n)
  BY <1>4, AppendKeeps
<1>5. CASE \E h \in Handles, len \in 0..MaxLen : Cut(h, len)
  BY <1>2, <1>5, CutKeeps
<1>6. CASE \E h \in Handles : SyncData(h) \/ Close(h)
  BY <1>6, SyncDataKeeps, CloseKeeps
<1>7. CASE \E p \in Used[adapter] : Remove(p)
  BY <1>1, <1>7, RemoveKeeps
<1>8. CASE \E d \in Dirs : CreateDir(d) \/ RemoveDir(d)
  BY <1>8, CreateDirKeeps, RemoveDirKeeps
<1> QED
  BY <1>3, <1>4, <1>5, <1>6, <1>7, <1>8 DEF EngineCalls

LEMMA RefInvStep == RefInv /\ [Next]_vars => RefInv'
<1> SUFFICES ASSUME RefInv, [Next]_vars PROVE RefInv'
  OBVIOUS
<1>1. CASE ~ misused /\ EngineCalls
  BY <1>1, EngineKeepsRef
<1>2. CASE TimerFires \/ CallFlush
  BY <1>2, TimerKeepsRef, CallFlushKeepsRef
<1>3. CASE TxCompletes \/ TxAborts
  BY <1>3, TxCompletesKeeps, TxAbortsKeeps
<1>4. CASE ~ misused /\ (OpfsTabDies \/ IdbTabDies)
  BY <1>4, OpfsTabDiesKeeps, IdbTabDiesKeeps
<1>5. CASE UNCHANGED vars
  BY <1>5 DEF vars, idbVars, RefInv
<1> QED
  BY <1>1, <1>2, <1>3, <1>4, <1>5 DEF Next

LEMMA RefInvHolds == Spec => []RefInv
BY RefInvInit, RefInvStep, PTL DEF Spec

-------------------------------------------------------------------------------
(* What the invariant says to the engine. *)

LEMMA RefInvMatches == RefInv => MatchesReference
<1> SUFFICES ASSUME RefInv, ~ misused
             PROVE  /\ ~ disagreed
                    /\ \A f \in Files \ LongPaths : WebContents(f) = Contents(ref, f)
                    /\ WebDirs = ref.dirs
                    /\ \A h \in Handles :
                        (handles[h] # NoHandle /\ ~ handles[h].gone
                         /\ handles[h].path \notin LongPaths)
                        => Size(h) = Len(ref.live[handles[h].object])
  BY DEF MatchesReference
<1>1. ~ disagreed /\ True(ref, handles, Seen, WebDirs)
  BY AdapterSees
<1>2. WebDirs = ref.dirs /\ \A f \in Files \ LongPaths : WebContents(f) = Contents(ref, f)
  BY <1>1 DEF True, Matches, Seen
<1>3. ASSUME NEW h \in Handles, handles[h] # NoHandle, ~ handles[h].gone,
             handles[h].path \notin LongPaths
      PROVE  Size(h) = Len(ref.live[handles[h].object])
  <2> DEFINE p == handles[h].path
             x == HandleBytes(h)
  <2>1. OpenOn(ref, handles, h) /\ Size(h) = Len(x) /\ WebContents(p) = {x}
    BY <1>3, SizeIs DEF HandleBytes
  <2>2. p \in Files /\ ref.entry[p] # NoObject /\ handles[h].object = ref.entry[p]
    BY <2>1, PathFacts DEF OpenOn
  <2>3. Contents(ref, p) = {ref.live[ref.entry[p]]}
    BY <2>2, ContentsIs
  <2> HIDE DEF x
  <2>4. x = ref.live[handles[h].object]
    BY <1>2, <1>3, <2>1, <2>2, <2>3
  <2> QED
    BY <2>1, <2>4
<1> QED
  BY <1>1, <1>2, <1>3

LEMMA OwnIs ==
    ASSUME NEW f, NEW b \in Own(f), NEW i \in 1..Len(b)
    PROVE  b[i] \in {Zero, f}
BY DEF Own

LEMMA RefInvOwn == RefInv => ForeignBytesNeedTwoDeaths
<1> SUFFICES ASSUME RefInv, ~ misused, ~ (deaths >= 2), NEW f \in Files \ LongPaths,
                    NEW b \in WebContents(f)
             PROVE  b \in Own(f)
  BY OwnIs DEF ForeignBytesNeedTwoDeaths
<1>1. adapter \in {"opfs", "indexeddb"} /\ deaths \in Nat /\ deaths <= 1
  BY AdapterSees
<1>2. CASE adapter = "opfs"
  <2>1. PoolOK(pool) /\ Cut1(pool)
    BY <1>1, <1>2 DEF RefInv, OpfsTrue, OwnBytes
  <2>2. PICK s \in Slots : pool.slot[s].path = f /\ b = pool.slot[s].bytes
    BY <1>2 DEF WebContents, OpfsContents, SlotsOf
  <2> QED
    BY <2>1, <2>2 DEF Cut1
<1>3. CASE adapter = "indexeddb"
  <2>1. CacheOK(cache)
    BY <1>3 DEF RefInv, IdbTrue, IdbOK
  <2>2. f \in DOMAIN cache.files /\ b = CachedBytes(cache, f)
    BY <1>3 DEF WebContents, CachedContents
  <2> QED
    BY <2>1, <2>2, CachedIs DEF CacheOK
<1> QED
  BY <1>1, <1>2, <1>3

\* On either adapter the engine sees what it would on the in-memory backend: the
\* contents of every file, the directories, the size through every handle open
\* on a file that is there, and the answer of every call, but for a full pool;
\* until a handle is written through after its file was removed.
THEOREM AdaptersMatchReference == Spec => []MatchesReference
BY RefInvHolds, RefInvMatches, PTL

\* A file holds only bytes that were written to it and zeroes, on OPFS until the
\* tab has died twice: a slot is cut after its header is cleared, and after it
\* has a new one.
THEOREM ForeignBytesTakeTwoDeaths == Spec => []ForeignBytesNeedTwoDeaths
BY RefInvHolds, RefInvOwn, PTL
===============================================================================
