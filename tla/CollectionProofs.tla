--------------------------- MODULE CollectionProofs ---------------------------
(***************************************************************************)
(* Proofs about Collection for any finite set of documents, any values,    *)
(* thresholds, batches, bounds and settings in which a storage call fails  *)
(* only where the code recovers from it (HandledErrors): reads, recovery,  *)
(* counting, verification, orphans, power loss and the refinement of       *)
(* DocumentMap.                                                            *)
(***************************************************************************)
EXTENDS Collection, FiniteSetTheorems, WellFoundedInduction, SequenceTheorems, TLAPS

-------------------------------------------------------------------------------
(* Numbers. *)

LEMMA LeastNatural ==
    ASSUME NEW S \in SUBSET Nat, S # {}
    PROVE  \E n \in S : \A m \in S : n <= m
<1> DEFINE R == {p \in Nat \X Nat : p[1] < p[2]}
<1>1. IsWellFoundedOn(R, Nat)
  BY NatLessThanWellFounded DEF OpToRel
<1> HIDE DEF R
<1>2. PICK n \in S : \A m \in S : ~ (<<m, n>> \in R)
  BY <1>1, WFMin, Zenon
<1>3. \A m \in S : ~ (m < n)
  BY <1>2 DEF R
<1> QED
  BY <1>3

LEMMA GreatestNatural ==
    ASSUME NEW S \in SUBSET Nat, S # {}, NEW b \in Nat, \A m \in S : m <= b
    PROVE  \E n \in S : \A m \in S : m <= n
<1> DEFINE T == {k \in 0..b : b - k \in S}
<1>1. \A m \in S : b - m \in T
  OBVIOUS
<1>2. T \in SUBSET Nat /\ T # {}
  <2>1. PICK m \in S : TRUE
    OBVIOUS
  <2>2. b - m \in T
    BY <1>1
  <2>3. T \in SUBSET Nat
    OBVIOUS
  <2> HIDE DEF T
  <2> QED
    BY <2>2, <2>3
<1>3. PICK t \in T : \A u \in T : t <= u
  <2> HIDE DEF T
  <2> QED
    BY <1>2, LeastNatural
<1> QED
  BY <1>1, <1>3

LEMMA BoundedNaturals ==
    ASSUME NEW n \in Nat, NEW f \in [1..n -> Nat]
    PROVE  \E b \in Nat : \A i \in 1..n : f[i] <= b
<1> DEFINE T == {k \in 0..n : ~ \E b \in Nat : \A i \in 1..k : f[i] <= b}
<1>1. T = {}
  <2> SUFFICES ASSUME T # {} PROVE FALSE
    OBVIOUS
  <2>1. PICK k \in T : \A j \in T : k <= j
    <3>1. T \in SUBSET Nat
      OBVIOUS
    <3> HIDE DEF T
    <3> QED
      BY <3>1, LeastNatural
  <2>2. k # 0
    <3>1. \A i \in 1..0 : f[i] <= 0
      OBVIOUS
    <3> QED
      BY <3>1
  <2>3. k - 1 \in 0..n /\ k - 1 \notin T
    <3>1. k - 1 \in 0..n
      BY <2>2
    <3>2. ~ (k <= k - 1)
      BY <3>1
    <3> HIDE DEF T
    <3> QED
      BY <2>1, <3>1, <3>2
  <2>4. PICK b \in Nat : \A i \in 1..(k - 1) : f[i] <= b
    BY <2>3
  <2>5. k \in 1..n /\ f[k] \in Nat
    <3>1. k \in 0..n
      BY DEF T
    <3> HIDE DEF T
    <3> QED
      BY <2>2, <3>1
  <2>6. b + f[k] \in Nat /\ \A i \in 1..k : f[i] <= b + f[k]
    <3> HIDE DEF T
    <3> QED
      BY <2>4, <2>5
  <2> QED
    BY <2>6
<1>2. n \notin T
  <2> HIDE DEF T
  <2> QED
    BY <1>1
<1> QED
  BY <1>2

LEMMA FiniteGreatest ==
    ASSUME NEW S \in SUBSET Nat, S # {}, IsFiniteSet(S)
    PROVE  \E n \in S : \A m \in S : m <= n
<1> DEFINE c == Cardinality(S)
<1>1. c \in Nat /\ ExistsBijection(1..c, S)
  BY FS_CardinalityType
<1>2. PICK f \in [1..c -> S] : \A s \in S : \E i \in 1..c : f[i] = s
  BY <1>1 DEF ExistsBijection, Bijection, Injection, Surjection
<1>3. f \in [1..c -> Nat]
  BY <1>2
<1> HIDE DEF c
<1>4. PICK b \in Nat : \A i \in 1..c : f[i] <= b
  BY <1>1, <1>3, BoundedNaturals
<1>5. \A m \in S : m <= b
  BY <1>2, <1>4
<1> QED
  BY <1>5, GreatestNatural

\* Every finite set of numbers can be listed in ascending order.
IsAscendingList(f, S) ==
    /\ f \in [1..Cardinality(S) -> S]
    /\ \A i, j \in 1..Cardinality(S) : i < j => f[i] < f[j]

LEMMA AscendingListExists ==
    ASSUME NEW S \in SUBSET Nat, IsFiniteSet(S)
    PROVE  \E f : IsAscendingList(f, S)
<1> DEFINE Bad(n) == \E T \in SUBSET Nat : /\ IsFiniteSet(T) /\ Cardinality(T) = n
                                            /\ ~ \E f : IsAscendingList(f, T)
           B == {n \in Nat : Bad(n)}
<1>1. B = {}
  <2> SUFFICES ASSUME B # {} PROVE FALSE
    OBVIOUS
  <2>1. PICK n \in B : \A m \in B : n <= m
    <3>1. B \in SUBSET Nat
      OBVIOUS
    <3> HIDE DEF B
    <3> QED
      BY <3>1, LeastNatural
  <2>2. n \in Nat /\ Bad(n)
    BY <2>1
  <2>3. PICK T \in SUBSET Nat : /\ IsFiniteSet(T) /\ Cardinality(T) = n
                                /\ ~ \E f : IsAscendingList(f, T)
    BY <2>2
  <2>4. CASE T = {}
    <3>1. Cardinality(T) = 0
      BY <2>4, FS_EmptySet
    <3>2. IsAscendingList([i \in 1..0 |-> 0], T)
      BY <3>1 DEF IsAscendingList
    <3> QED
      BY <2>3, <3>2
  <2>5. CASE T # {}
    <3>1. PICK g \in T : \A m \in T : m <= g
      BY <2>3, <2>5, FiniteGreatest
    <3> DEFINE U == T \ {g}
    <3>2. IsFiniteSet(U) /\ Cardinality(U) = n - 1 /\ U \in SUBSET Nat /\ n - 1 \in Nat
      <4>1. IsFiniteSet(U) /\ Cardinality(U) = n - 1
        BY <2>3, <3>1, FS_RemoveElement
      <4>2. Cardinality(U) \in Nat
        BY <4>1, FS_CardinalityType
      <4> QED
        BY <4>1, <4>2
    <3>3. ~Bad(n - 1)
      <4>1. n - 1 \notin B
        <5> HIDE DEF B
        <5> QED
          BY <2>1, <2>2, <3>2
      <4> QED
        BY <3>2, <4>1
    <3>4. PICK f : IsAscendingList(f, U)
      <4> HIDE DEF U
      <4> QED
        BY <3>2, <3>3
    <3>5. f \in [1..(n - 1) -> U] /\ \A i, j \in 1..(n - 1) : i < j => f[i] < f[j]
      BY <3>2, <3>4 DEF IsAscendingList
    <3> DEFINE h == [i \in 1..n |-> IF i = n THEN g ELSE f[i]]
    <3>6. \A i \in 1..(n - 1) : f[i] \in T /\ f[i] < g /\ f[i] \in Nat
      <4> SUFFICES ASSUME NEW i \in 1..(n - 1)
                   PROVE  f[i] \in T /\ f[i] < g /\ f[i] \in Nat
        OBVIOUS
      <4>1. f[i] \in U
        <5> HIDE DEF U
        <5> QED
          BY <3>5
      <4>2. f[i] \in T /\ f[i] # g
        BY <4>1
      <4>3. f[i] \in Nat /\ g \in Nat /\ f[i] <= g
        BY <2>3, <3>1, <4>2
      <4> QED
        BY <4>2, <4>3
    <3>7. h \in [1..n -> T]
      BY <3>1, <3>2, <3>6
    <3>8. \A i, j \in 1..n : i < j => h[i] < h[j]
      BY <3>2, <3>5, <3>6
    <3>9. IsAscendingList(h, T)
      <4> HIDE DEF h
      <4> QED
        BY <2>3, <3>7, <3>8 DEF IsAscendingList
    <3> QED
      BY <2>3, <3>9
  <2> QED
    BY <2>4, <2>5
<1>2. Cardinality(S) \in Nat
  BY FS_CardinalityType
<1>3. ~Bad(Cardinality(S))
  BY <1>1, <1>2
<1> QED
  BY <1>3

\* Such a list leaves nothing out.
LEMMA AscendingListCovers ==
    ASSUME NEW S \in SUBSET Nat, IsFiniteSet(S), NEW f, IsAscendingList(f, S)
    PROVE  /\ \A s \in S : \E i \in 1..Cardinality(S) : f[i] = s
           /\ \A i, j \in 1..Cardinality(S) : f[i] = f[j] => i = j
<1> DEFINE c == Cardinality(S)
<1>1. c \in Nat
  BY FS_CardinalityType
<1>2. f \in [1..c -> S] /\ \A i, j \in 1..c : i < j => f[i] < f[j]
  BY DEF IsAscendingList
<1> HIDE DEF c
<1>3. \A i, j \in 1..c : f[i] = f[j] => i = j
  <2> SUFFICES ASSUME NEW i \in 1..c, NEW j \in 1..c, f[i] = f[j], i # j PROVE FALSE
    OBVIOUS
  <2>1. i < j \/ j < i
    BY <1>1
  <2>2. f[i] \in Nat /\ f[j] \in Nat
    BY <1>2
  <2> QED
    BY <1>2, <2>1, <2>2
<1>4. f \in Injection(1..c, S)
  BY <1>2, <1>3 DEF Injection, IsInjective
<1>5. IsFiniteSet(1..c) /\ Cardinality(1..c) = c
  BY <1>1, FS_Interval
<1>6. f \in Surjection(1..c, S)
  BY <1>4, <1>5, FS_Injection DEF c
<1> QED
  BY <1>3, <1>6 DEF Surjection, c

\* The steps whose errors leave memory and files in agreement.  An error of
\* the others does not: a bitmap left torn, a commit that reached the slot
\* before the id was advanced, a log truncated under a full memtable, a
\* segment list drained by a failed swap.
HandledErrors ==
    \A s \in Settings :
        s.io \subseteq {"files", "supersede", "compact_files", "compact_commit",
                        "compact_remove"}

-------------------------------------------------------------------------------
(* The inductive invariant. *)

\* The row of d is live in x, a segment or its files.
Holds(x, d) == x.rows[d] # NoVal /\ d \notin x.dead

\* No document is live twice in the members of f that R names.
Once(R, f) ==
    \A d \in Docs : \A i, j \in R : Holds(f[i], d) /\ Holds(f[j], d) => i = j

\* One of them shows v for d.
Shows(R, f, d, v) == \E i \in R : Holds(f[i], d) /\ f[i].rows[d] = v

\* What the files show of every document is what was written to it.
Recovers ==
    \A d \in Docs :
        /\ Replay(log)[d] = Deleted => kv[d] = NoVal
        /\ Replay(log)[d] \in Vals => kv[d] = Replay(log)[d]
        /\ Replay(log)[d] = NoVal =>
             \A v \in Vals : Shows(Referenced, files, d, v) <=> kv[d] = v

FilesWhole ==
    \A i \in Referenced :
        files[i].state = "full" /\ Cardinality(RowDocs(files[i])) = manifest.rows[i]

OnDisk == FilesWhole /\ Once(Referenced, files) /\ Recovers

\* Ids that are in use lie below the next one, but for the segment a flush has
\* just opened or committed.
Below ==
    /\ \A i \in DOMAIN segments :
         \/ segments[i].id < nextId
         \/ pc \in {"commit", "checkpoint"} /\ segments[i].id = nextId
    /\ \A i \in Referenced : i < nextId \/ (pc = "checkpoint" /\ i = nextId)

\* An opened segment has its files, and rows; the bitmap on disk is the one in
\* memory, but for the one that is to be rewritten, which lacks documents that the log
\* replaces or deletes.
Matching ==
    \A i \in DOMAIN segments :
        /\ files[segments[i].id].state = "full"
        /\ files[segments[i].id].rows = segments[i].rows
        /\ \E d \in Docs : segments[i].rows[d] # NoVal
        /\ IF pc \in {"persist", "rewrite"} /\ cur = i
           THEN /\ files[segments[i].id].dead \subseteq segments[i].dead
                /\ \A d \in segments[i].dead \ files[segments[i].id].dead :
                     memtable[d] # NoVal
           ELSE /\ files[segments[i].id].dead = segments[i].dead
                /\ ~files[segments[i].id].torn

\* Opened segments and named files show the same of every document that the
\* memtable leaves alone.
Aligned ==
    \A d \in Docs :
        memtable[d] = NoVal \/ pc = "checkpoint" =>
            \A v \in Vals :
                Shows(Referenced, files, d, v) <=> Shows(DOMAIN segments, segments, d, v)

\* The memtable is the log replayed, less the write being synced.
Buffered ==
    IF pc = "sync"
    THEN log # <<>> /\ Replay(log) = Over(log[Len(log)], memtable)
    ELSE memtable = Replay(log)

\* What a flush or a compaction has done by the step it is at.
Flushed ==
    /\ pc \in {"supersede", "persist", "rewrite"} => files[nextId] = FullFiles(LiveRows)
    /\ pc \in {"persist", "rewrite"} => cur \in DOMAIN segments
    /\ pc \in {"commit", "checkpoint"} =>
         \A d \in Docs : memtable[d] # NoVal =>
             \A v \in Vals : Shows(DOMAIN segments, segments, d, v) <=> v = memtable[d]

Compacted ==
    /\ pc \in {"compact_files", "compact_swap"} => chosen \subseteq DOMAIN segments
    /\ pc = "compact_swap" => files[nextId] = FullFiles(Merged)
    /\ pc \in {"compact_commit", "compact_remove"} =>
         \A i \in DOMAIN segments : segments[i].id \notin chosen
    /\ pc = "compact_remove" => chosen \cap Referenced = {}

InMemory ==
    /\ Below
    /\ Matching
    /\ Ascending
    /\ Once(DOMAIN segments, segments)
    /\ Aligned
    /\ Buffered
    /\ Flushed
    /\ Compacted
    /\ pc \notin {"idle", "compact_commit", "compact_remove"} => nextId <= MaxId

Inv ==
    /\ TypeOK
    /\ OnDisk
    /\ mode = "open" => InMemory
    /\ mode = "down" => pc = "idle"

-------------------------------------------------------------------------------
(* Operators. *)

LEMMA HighestOfOne ==
    ASSUME NEW S \in SUBSET Nat, NEW n \in S, \A m \in S : m = n
    PROVE  HighestId(S) = n
<1>1. n \in Nat /\ \A m \in S : m <= n
  OBVIOUS
<1>2. HighestId(S) \in S
  BY <1>1 DEF HighestId
<1> QED
  BY <1>2

LEMMA HighestOfFinite ==
    ASSUME NEW S \in SUBSET Nat, IsFiniteSet(S), S # {}
    PROVE  HighestId(S) \in S /\ \A m \in S : m <= HighestId(S)
<1>1. \E n \in S : \A m \in S : m <= n
  BY FiniteGreatest
<1> QED
  BY <1>1 DEF HighestId

LEMMA InOrderIs ==
    ASSUME NEW S \in SUBSET Nat, IsFiniteSet(S)
    PROVE  /\ Cardinality(S) \in Nat
           /\ InOrder(S) \in [1..Cardinality(S) -> S]
           /\ \A i, j \in 1..Cardinality(S) : i < j => InOrder(S)[i] < InOrder(S)[j]
           /\ \A s \in S : \E i \in 1..Cardinality(S) : InOrder(S)[i] = s
<1>1. \E f : IsAscendingList(f, S)
  BY AscendingListExists
<1>2. IsAscendingList(InOrder(S), S)
  BY <1>1 DEF InOrder, IsAscendingList
<1>3. Cardinality(S) \in Nat
  BY FS_CardinalityType
<1> QED
  BY <1>2, <1>3, AscendingListCovers DEF IsAscendingList

LEMMA DomainFinite ==
    ASSUME NEW S, NEW s \in Seq(S)
    PROVE  DOMAIN s = 1..Len(s) /\ Len(s) \in Nat /\ IsFiniteSet(DOMAIN s)
  BY LenProperties, FS_Interval

LEMMA OverType ==
    ASSUME NEW w \in Write, NEW m \in Write
    PROVE  Over(w, m) \in Write
  BY DEF Over, Write

LEMMA EntryCases ==
    ASSUME NEW m \in Write, NEW d \in Docs
    PROVE  /\ m[d] \in Vals \/ m[d] = Deleted \/ m[d] = NoVal
           /\ NoVal \notin Vals /\ Deleted \notin Vals /\ NoVal # Deleted
  BY CollectionAssumption DEF Write, Entry

LEMMA ReplayIs ==
    ASSUME NEW l \in Seq(Write), NEW d \in Docs
    PROVE  LET T == {i \in DOMAIN l : l[i][d] # NoVal} IN
           /\ T = {} => Replay(l)[d] = NoVal
           /\ \A i \in T : (\A j \in T : j <= i) => Replay(l)[d] = l[i][d]
<1> DEFINE T == {i \in DOMAIN l : l[i][d] # NoVal}
<1>1. Replay(l)[d] = IF T = {} THEN NoVal ELSE l[HighestId(T)][d]
  BY DEF Replay
<1>2. T \in SUBSET Nat
  BY DomainFinite
<1>3. ASSUME NEW i \in T, \A j \in T : j <= i
      PROVE  HighestId(T) = i
  <2> HIDE DEF T
  <2>1. HighestId(T) \in T /\ \A m \in T : m <= HighestId(T)
    BY <1>2, <1>3 DEF HighestId
  <2>2. HighestId(T) \in Nat /\ i \in Nat
    BY <1>2, <1>3, <2>1
  <2>3. HighestId(T) <= i /\ i <= HighestId(T)
    BY <1>3, <2>1
  <2> QED
    BY <2>2, <2>3
<1> QED
  BY <1>1, <1>3

LEMMA ReplayType ==
    ASSUME NEW l \in Seq(Write)
    PROVE  Replay(l) \in Write
<1> SUFFICES ASSUME NEW d \in Docs PROVE Replay(l)[d] \in Entry
  BY DEF Replay, Write
<1> DEFINE T == {i \in DOMAIN l : l[i][d] # NoVal}
<1>1. T \in SUBSET Nat /\ T \subseteq DOMAIN l /\ IsFiniteSet(T)
  BY DomainFinite, FS_Subset
<1>2. CASE T = {}
  BY <1>2, ReplayIs DEF Entry
<1>3. CASE T # {}
  <2>1. PICK i \in T : \A j \in T : j <= i
    <3> HIDE DEF T
    <3> QED
      BY <1>1, <1>3, FiniteGreatest
  <2>2. Replay(l)[d] = l[i][d]
    BY <2>1, ReplayIs
  <2>3. l[i] \in Write
    BY <2>1, ElementOfSeq, DomainFinite
  <2> QED
    BY <2>2, <2>3 DEF Write
<1> QED
  BY <1>2, <1>3

LEMMA ReplayEmpty == Replay(<<>>) = NoRows
  BY DEF Replay, NoRows

LEMMA ReplayAppend ==
    ASSUME NEW l \in Seq(Write), NEW w \in Write
    PROVE  Replay(Append(l, w)) = Over(w, Replay(l))
<1> DEFINE k == Append(l, w)
<1>1. /\ k \in Seq(Write) /\ Len(k) = Len(l) + 1 /\ k[Len(l) + 1] = w
      /\ \A i \in 1..Len(l) : k[i] = l[i]
  BY AppendProperties
<1>2. Len(l) \in Nat /\ DOMAIN l = 1..Len(l) /\ DOMAIN k = 1..(Len(l) + 1)
  BY <1>1, DomainFinite
<1> HIDE DEF k
<1> SUFFICES ASSUME NEW d \in Docs
             PROVE  Replay(k)[d] = IF w[d] = NoVal THEN Replay(l)[d] ELSE w[d]
  BY DEF Replay, Over, k
<1> DEFINE T == {i \in DOMAIN l : l[i][d] # NoVal}
           U == {i \in DOMAIN k : k[i][d] # NoVal}
<1>3. CASE w[d] # NoVal
  <2>1. Len(l) + 1 \in U /\ \A j \in U : j <= Len(l) + 1
    BY <1>1, <1>2, <1>3
  <2> QED
    BY <1>1, <1>3, <2>1, ReplayIs
<1>4. CASE w[d] = NoVal
  <2>1. U = T /\ \A i \in T : k[i] = l[i]
    BY <1>1, <1>2, <1>4
  <2>2. CASE T = {}
    BY <1>1, <1>4, <2>1, <2>2, ReplayIs
  <2>3. CASE T # {}
    <3>1. T \in SUBSET Nat /\ IsFiniteSet(T)
      BY DomainFinite, FS_Subset
    <3>2. PICK i \in T : \A j \in T : j <= i
      <4> HIDE DEF T
      <4> QED
        BY <2>3, <3>1, FiniteGreatest
    <3>3. Replay(l)[d] = l[i][d]
      BY <3>2, ReplayIs
    <3>4. Replay(k)[d] = k[i][d]
      <4>1. i \in U /\ \A j \in U : j <= i
        BY <2>1, <3>2
      <4> QED
        BY <1>1, <4>1, ReplayIs
    <3> QED
      BY <1>4, <2>1, <3>2, <3>3, <3>4
  <2> QED
    BY <2>2, <2>3
<1> QED
  BY <1>3, <1>4

-------------------------------------------------------------------------------
(* Rows. *)

LEMMA LiveIsHeld ==
    ASSUME NEW x, NEW d \in Docs
    PROVE  d \in LiveDocs(x) <=> Holds(x, d)
  BY DEF LiveDocs, RowDocs, Holds

LEMMA ShownRow ==
    ASSUME NEW R \in SUBSET Nat, NEW f, Once(R, f), NEW d \in Docs,
           NEW i \in R, Holds(f[i], d)
    PROVE  HighestId({j \in R : d \in LiveDocs(f[j])}) = i
<1> DEFINE H == {j \in R : d \in LiveDocs(f[j])}
<1>1. i \in H /\ \A j \in H : j = i
  BY LiveIsHeld DEF Once
<1>2. H \in SUBSET Nat
  OBVIOUS
<1> HIDE DEF H
<1> QED
  BY <1>1, <1>2, HighestOfOne DEF H

\* The newest live row is the only one.
LEMMA NewestRowIs ==
    ASSUME NEW R \in SUBSET Nat, NEW f, Once(R, f), NEW d \in Docs,
           \A i \in R : f[i].rows[d] \in Vals \cup {NoVal}
    PROVE  /\ NewestRow(R, f, d) \in Vals \cup {NoVal}
           /\ \A v \in Vals : Shows(R, f, d, v) <=> NewestRow(R, f, d) = v
<1> DEFINE H == {i \in R : d \in LiveDocs(f[i])}
<1>1. CASE H = {}
  <2>1. \A v : ~Shows(R, f, d, v)
    BY <1>1, LiveIsHeld DEF Shows
  <2>2. NewestRow(R, f, d) = NoVal
    BY <1>1 DEF NewestRow
  <2> QED
    BY <2>1, <2>2, CollectionAssumption
<1>2. CASE H # {}
  <2>1. PICK i \in R : Holds(f[i], d)
    BY <1>2, LiveIsHeld
  <2>2. HighestId(H) = i
    BY <2>1, ShownRow
  <2>3. NewestRow(R, f, d) = f[i].rows[d]
    BY <1>2, <2>2 DEF NewestRow
  <2>4. \A v : Shows(R, f, d, v) <=> f[i].rows[d] = v
    BY <2>1 DEF Shows, Once
  <2> QED
    BY <2>1, <2>3, <2>4
<1> QED
  BY <1>1, <1>2

LEMMA OnceAges ==
    ASSUME NEW R, NEW f, NEW g, Once(R, f),
           \A i \in R : g[i].rows = f[i].rows /\ f[i].dead \subseteq g[i].dead
    PROVE  Once(R, g)
  BY DEF Once, Holds

LEMMA ShowsSame ==
    ASSUME NEW R, NEW f, NEW g, NEW d,
           \A i \in R : g[i].rows = f[i].rows /\ (d \in g[i].dead <=> d \in f[i].dead)
    PROVE  \A v : Shows(R, g, d, v) <=> Shows(R, f, d, v)
  BY DEF Shows, Holds

\* A list of segments that stands for the files R names.
LEMMA Enumerated ==
    ASSUME NEW R, NEW f, NEW D, NEW s,
           \A k \in D : s[k].id \in R,
           \A i \in R : \E k \in D : s[k].id = i,
           \A j, k \in D : s[j].id = s[k].id => j = k,
           \A k \in D : s[k].rows = f[s[k].id].rows /\ s[k].dead = f[s[k].id].dead
    PROVE  /\ Once(R, f) <=> Once(D, s)
           /\ \A d, v : Shows(R, f, d, v) <=> Shows(D, s, d, v)
<1>1. \A k \in D : \A d : Holds(s[k], d) <=> Holds(f[s[k].id], d)
  BY DEF Holds
<1>2. Once(R, f) => Once(D, s)
  BY <1>1 DEF Once
<1>3. Once(D, s) => Once(R, f)
  BY <1>1 DEF Once
<1>4. ASSUME NEW d, NEW v PROVE Shows(R, f, d, v) <=> Shows(D, s, d, v)
  BY <1>1 DEF Shows
<1> QED
  BY <1>2, <1>3, <1>4

LEMMA FileTypes ==
    /\ \A x \in SegmentFiles :
         /\ x.rows \in [Docs -> Vals \cup {NoVal}]
         /\ x.dead \in SUBSET Docs
    /\ NoRows \in [Docs -> Vals \cup {NoVal}]
    /\ NoFiles \in SegmentFiles /\ PartialFiles \in SegmentFiles
    /\ \A r \in [Docs -> Vals \cup {NoVal}] :
         /\ FullFiles(r) \in SegmentFiles
         /\ FullFiles(r).state = "full" /\ FullFiles(r).rows = r /\ FullFiles(r).dead = {}
    /\ NoRows \in Write
  BY DEF SegmentFiles, NoRows, NoFiles, PartialFiles, FullFiles, Write, Entry

LEMMA RowCounts ==
    ASSUME NEW x
    PROVE  /\ IsFiniteSet(RowDocs(x)) /\ Cardinality(RowDocs(x)) \in Nat
           /\ Cardinality(RowDocs(x)) > 0 <=> \E d \in Docs : x.rows[d] # NoVal
<1>1. RowDocs(x) \subseteq Docs
  BY DEF RowDocs
<1>2. IsFiniteSet(RowDocs(x)) /\ Cardinality(RowDocs(x)) \in Nat
  BY <1>1, CollectionAssumption, FS_Subset, FS_CardinalityType
<1>3. Cardinality(RowDocs(x)) = 0 <=> RowDocs(x) = {}
  BY <1>2, FS_EmptySet
<1>4. RowDocs(x) # {} <=> \E d \in Docs : x.rows[d] # NoVal
  BY DEF RowDocs
<1> QED
  BY <1>2, <1>3, <1>4

LEMMA ReferencedIs == Referenced \subseteq SegId /\ SegId \subseteq Nat /\ IsFiniteSet(Referenced)
<1>1. SegId \subseteq Nat /\ IsFiniteSet(SegId)
  BY CollectionAssumption, FS_Interval DEF SegId
<1>2. Referenced \subseteq SegId
  BY DEF Referenced
<1> QED
  BY <1>1, <1>2, FS_Subset

\* What an open presents, by the log and by the rows the files show.
LEMMA ContentsIs ==
    ASSUME NEW l \in Seq(Write), NEW f \in [SegId -> SegmentFiles],
           Once(Referenced, f)
    PROVE  /\ Contents(l, f) \in [Docs -> Vals \cup {NoVal}]
           /\ \A d \in Docs :
                /\ Replay(l)[d] = Deleted => Contents(l, f)[d] = NoVal
                /\ Replay(l)[d] \in Vals => Contents(l, f)[d] = Replay(l)[d]
                /\ Replay(l)[d] = NoVal =>
                     \A v \in Vals : Shows(Referenced, f, d, v) <=> Contents(l, f)[d] = v
<1>1. ASSUME NEW d \in Docs
      PROVE  /\ Contents(l, f)[d] \in Vals \cup {NoVal}
             /\ Replay(l)[d] = Deleted => Contents(l, f)[d] = NoVal
             /\ Replay(l)[d] \in Vals => Contents(l, f)[d] = Replay(l)[d]
             /\ Replay(l)[d] = NoVal =>
                  \A v \in Vals : Shows(Referenced, f, d, v) <=> Contents(l, f)[d] = v
  <2> DEFINE p == NewestRow(Referenced, f, d)
  <2>1. Replay(l) \in Write
    BY ReplayType
  <2>2. \A i \in Referenced : f[i].rows[d] \in Vals \cup {NoVal}
    BY ReferencedIs, FileTypes
  <2>3. p \in Vals \cup {NoVal} /\ \A v \in Vals : Shows(Referenced, f, d, v) <=> p = v
    BY <2>2, ReferencedIs, NewestRowIs
  <2>4. Contents(l, f)[d] = CASE Replay(l)[d] = Deleted -> NoVal
                              [] Replay(l)[d] \in Vals -> Replay(l)[d]
                              [] OTHER -> p
    BY DEF Contents
  <2> HIDE DEF p
  <2> QED
    BY <2>1, <2>3, <2>4, EntryCases
<1>2. Contents(l, f) = [d \in Docs |-> Contents(l, f)[d]]
  BY DEF Contents
<1> QED
  BY <1>1, <1>2

LEMMA RecoveryIsExact ==
    ASSUME TypeOK, OnDisk
    PROVE  RecoveryExact
<1>1. Contents(log, files) \in [Docs -> Vals \cup {NoVal}]
  BY ContentsIs DEF TypeOK, OnDisk
<1>2. ASSUME NEW d \in Docs PROVE Contents(log, files)[d] = kv[d]
  <2>1. Replay(log) \in Write
    BY ReplayType DEF TypeOK
  <2>2. /\ Contents(log, files)[d] \in Vals \cup {NoVal} /\ kv[d] \in Vals \cup {NoVal}
    BY <1>1 DEF TypeOK
  <2>3. /\ Replay(log)[d] = Deleted => Contents(log, files)[d] = NoVal
        /\ Replay(log)[d] \in Vals => Contents(log, files)[d] = Replay(log)[d]
        /\ Replay(log)[d] = NoVal =>
             \A v \in Vals : Shows(Referenced, files, d, v) <=> Contents(log, files)[d] = v
    BY ContentsIs DEF TypeOK, OnDisk
  <2> QED
    BY <2>1, <2>2, <2>3, EntryCases DEF OnDisk, Recovers
<1> QED
  BY <1>1, <1>2 DEF TypeOK, RecoveryExact

-------------------------------------------------------------------------------
(* What steps leave alone. *)

\* A step that writes no files the manifest or the segment list names.
Untouched ==
    /\ Referenced' = Referenced
    /\ \A i \in Referenced : files'[i] = files[i]
    /\ \A k \in DOMAIN segments : files'[segments[k].id] = files[segments[k].id]

LEMMA SegmentTypes ==
    ASSUME TypeOK
    PROVE  /\ DOMAIN segments = 1..Len(segments) /\ Len(segments) \in Nat
           /\ IsFiniteSet(DOMAIN segments) /\ DOMAIN segments \subseteq Nat
           /\ \A k \in DOMAIN segments :
                /\ segments[k] \in Segment
                /\ segments[k].id \in SegId
                /\ segments[k].rows \in [Docs -> Vals \cup {NoVal}]
                /\ segments[k].dead \in SUBSET Docs
<1>1. segments \in Seq(Segment)
  BY DEF TypeOK
<1>2. \A k \in 1..Len(segments) : segments[k] \in Segment
  BY <1>1, ElementOfSeq
<1> QED
  BY <1>1, <1>2, DomainFinite DEF Segment

LEMMA NextIdFresh ==
    ASSUME Inv, mode = "open", pc \notin {"commit", "checkpoint"},
           manifest' = manifest,
           \A i \in SegId : i # nextId => files'[i] = files[i]
    PROVE  Untouched
<1>1. Referenced' = Referenced
  BY DEF Referenced
<1>2. \A i \in Referenced : i # nextId /\ i \in SegId
  BY ReferencedIs DEF Inv, InMemory, Below, TypeOK, SegId
<1>3. \A k \in DOMAIN segments : segments[k].id # nextId /\ segments[k].id \in SegId
  BY SegmentTypes DEF Inv, InMemory, Below, TypeOK, SegId
<1> QED
  BY <1>1, <1>2, <1>3 DEF Untouched

\* Files may lose rows that the log replaces or deletes.
LEMMA DiskAged ==
    ASSUME TypeOK, OnDisk, Referenced' = Referenced, log' = log, kv' = kv,
           manifest' = manifest,
           \A i \in Referenced :
              /\ files'[i].state = files[i].state
              /\ files'[i].rows = files[i].rows
              /\ files[i].dead \subseteq files'[i].dead
              /\ \A d \in files'[i].dead \ files[i].dead : Replay(log)[d] # NoVal
    PROVE  /\ OnDisk'
           /\ \A d \in Docs : \A v : Replay(log)[d] = NoVal =>
                (Shows(Referenced', files', d, v) <=> Shows(Referenced, files, d, v))
<1>1. FilesWhole'
  BY DEF OnDisk, FilesWhole, RowDocs
<1>2. Once(Referenced, files')
  BY OnceAges DEF OnDisk
<1>3. \A d \in Docs : Replay(log)[d] = NoVal =>
         \A v : Shows(Referenced, files', d, v) <=> Shows(Referenced, files, d, v)
  <2> SUFFICES ASSUME NEW d \in Docs, Replay(log)[d] = NoVal
               PROVE  \A v : Shows(Referenced, files', d, v) <=> Shows(Referenced, files, d, v)
    OBVIOUS
  <2>1. \A i \in Referenced : /\ files'[i].rows = files[i].rows
                              /\ d \in files'[i].dead <=> d \in files[i].dead
    OBVIOUS
  <2> QED
    BY <2>1, ShowsSame
<1>4. Recovers'
  BY <1>3 DEF OnDisk, Recovers
<1> QED
  BY <1>1, <1>2, <1>3, <1>4 DEF OnDisk

LEMMA DiskKept ==
    ASSUME TypeOK, OnDisk, Referenced' = Referenced, log' = log, kv' = kv,
           manifest' = manifest,
           \A i \in Referenced : files'[i] = files[i]
    PROVE  OnDisk'
  BY DiskAged

\* A write: the log and the documents it stands for move together.
LEMMA DiskWritten ==
    ASSUME TypeOK, OnDisk, NEW w \in Write, log' = Append(log, w),
           kv' = Applied(w, kv), manifest' = manifest, Referenced' = Referenced,
           \A i \in Referenced : files'[i] = files[i]
    PROVE  OnDisk' /\ Replay(log') = Over(w, Replay(log))
<1>1. Replay(log') = Over(w, Replay(log))
  BY ReplayAppend DEF TypeOK
<1>2. FilesWhole'
  BY DEF OnDisk, FilesWhole
<1>3. Once(Referenced, files')
  BY OnceAges DEF OnDisk
<1>4. \A d, v : Shows(Referenced, files', d, v) <=> Shows(Referenced, files, d, v)
  BY DEF Shows
<1>5. ASSUME NEW d \in Docs
      PROVE  /\ Replay(log')[d] = Deleted => kv'[d] = NoVal
             /\ Replay(log')[d] \in Vals => kv'[d] = Replay(log')[d]
             /\ Replay(log')[d] = NoVal =>
                  \A v \in Vals : Shows(Referenced', files', d, v) <=> kv'[d] = v
  <2>1. Replay(log')[d] = IF w[d] = NoVal THEN Replay(log)[d] ELSE w[d]
    BY <1>1 DEF Over
  <2>2. kv'[d] = CASE w[d] = NoVal -> kv[d] [] w[d] = Deleted -> NoVal [] OTHER -> w[d]
    BY DEF Applied
  <2>3. /\ Replay(log)[d] = Deleted => kv[d] = NoVal
        /\ Replay(log)[d] \in Vals => kv[d] = Replay(log)[d]
        /\ Replay(log)[d] = NoVal =>
             \A v \in Vals : Shows(Referenced, files, d, v) <=> kv[d] = v
    BY DEF OnDisk, Recovers
  <2>4. CASE w[d] = NoVal
    BY <1>4, <2>1, <2>2, <2>3, <2>4, CollectionAssumption
  <2>5. CASE w[d] # NoVal
    BY <2>1, <2>2, <2>5, CollectionAssumption
  <2> QED
    BY <2>4, <2>5
<1>6. Recovers'
  BY <1>5 DEF Recovers
<1> QED
  BY <1>1, <1>2, <1>3, <1>6 DEF OnDisk

\* The segment list, while memtable entries come and none go.
LEMMA ListKept ==
    ASSUME Inv, mode = "open", pc \notin {"commit", "checkpoint", "persist", "rewrite"},
           pc' \notin {"checkpoint", "persist", "rewrite"},
           Untouched, segments' = segments, nextId' = nextId,
           \A d \in Docs : memtable'[d] = NoVal => memtable[d] = NoVal
    PROVE  /\ Below' /\ Matching' /\ Ascending'
           /\ Once(DOMAIN segments, segments)' /\ Aligned'
<1>1. Below'
  BY DEF Inv, InMemory, Below, Untouched
<1>2. Matching'
  BY DEF Inv, InMemory, Matching, Untouched
<1>3. Ascending' /\ Once(DOMAIN segments, segments)'
  BY DEF Inv, InMemory, Ascending
<1>4. \A d, v : Shows(Referenced', files', d, v) <=> Shows(Referenced, files, d, v)
  BY DEF Shows, Untouched
<1>5. Aligned'
  BY <1>4 DEF Inv, InMemory, Aligned
<1> QED
  BY <1>1, <1>2, <1>3, <1>5

-------------------------------------------------------------------------------
(* Writing. *)

LEMMA WriteTypes ==
    ASSUME TypeOK
    PROVE  /\ \A w \in Write : Puts(w) \in Nat
           /\ \A w \in Write : Applied(w, kv) \in [Docs -> Vals \cup {NoVal}]
           /\ LiveRows \in [Docs -> Vals \cup {NoVal}]
           /\ ReplayedRows(log) \in Nat
<1>1. ASSUME NEW w \in Write PROVE Puts(w) \in Nat
  <2>1. {d \in Docs : w[d] \in Vals} \subseteq Docs
    OBVIOUS
  <2> QED
    BY <2>1, CollectionAssumption, FS_Subset, FS_CardinalityType DEF Puts
<1>2. ASSUME NEW w \in Write PROVE Applied(w, kv) \in [Docs -> Vals \cup {NoVal}]
  <2>1. \A d \in Docs : w[d] \in Vals \cup {NoVal, Deleted} /\ kv[d] \in Vals \cup {NoVal}
    BY DEF TypeOK, Write, Entry
  <2>2. \A d \in Docs : Applied(w, kv)[d] \in Vals \cup {NoVal}
    BY <2>1, CollectionAssumption DEF Applied
  <2> QED
    BY <2>2 DEF Applied
<1>3. LiveRows \in [Docs -> Vals \cup {NoVal}]
  BY DEF LiveRows
<1>4. ReplayedRows(log) \in Nat
  <2> DEFINE P == {p \in (DOMAIN log) \X Docs : log[p[1]][p[2]] \in Vals}
  <2>1. IsFiniteSet((DOMAIN log) \X Docs)
    BY DomainFinite, CollectionAssumption, FS_Product DEF TypeOK
  <2>2. IsFiniteSet(P)
    BY <2>1, FS_Subset
  <2> QED
    BY <2>2, FS_CardinalityType DEF ReplayedRows
<1> QED
  BY <1>1, <1>2, <1>3, <1>4

LEMMA PutTypes ==
    ASSUME NEW d \in Docs, NEW v \in Vals \cup {Deleted}
    PROVE  Put(d, v) \in Write /\ Put(d, v)[d] = v /\ \A e \in Docs : e # d => Put(d, v)[e] = NoVal
  BY DEF Put, NoRows, Write, Entry

LEMMA FilesWritten ==
    ASSUME NEW f \in [SegId -> SegmentFiles], NEW n \in SegId, NEW x \in SegmentFiles
    PROVE  /\ [f EXCEPT ![n] = x] \in [SegId -> SegmentFiles]
           /\ [f EXCEPT ![n] = x][n] = x
           /\ \A i \in SegId : i # n => [f EXCEPT ![n] = x][i] = f[i]
  OBVIOUS

\* The step of MaybeFlush: into the files of the next segment or back to idle.
LEMMA MaybeFlushWrites ==
    ASSUME TypeOK, nextId <= MaxId, MaybeFlush
    PROVE  /\ pc' \in {"idle", "files"}
           /\ files' \in [SegId -> SegmentFiles]
           /\ \A i \in SegId : i # nextId => files'[i] = files[i]
<1>1. nextId \in SegId
  BY CollectionAssumption DEF TypeOK, SegId
<1>2. files \in [SegId -> SegmentFiles]
  BY DEF TypeOK
<1>3. CASE rows' >= FlushRows
  <2>1. pc' = "files" /\ files' = [files EXCEPT ![nextId] = PartialFiles]
    BY <1>3 DEF MaybeFlush
  <2> QED
    BY <1>1, <1>2, <2>1, FilesWritten, FileTypes
<1>4. CASE ~(rows' >= FlushRows)
  BY <1>2, <1>4 DEF MaybeFlush
<1> QED
  BY <1>3, <1>4

LEMMA LogWriteKeeps ==
    ASSUME Inv, NEW w \in Write, NEW syncs \in BOOLEAN, LogWrite(w, syncs)
    PROVE  Inv'
<1> USE DEF Idle
<1>1. /\ mode = "open" /\ pc = "idle" /\ nextId <= MaxId
      /\ log' = Append(log, w) /\ kv' = Applied(w, kv)
      /\ UNCHANGED <<setting, synced, manifest, mode, segments, nextId, cur, chosen, fails>>
      /\ Remember(maybe \cup {Applied(w, kv)})
  BY DEF LogWrite, Room
<1>2. TypeOK
  BY DEF Inv
<1>3. /\ memtable' \in Write /\ rows' \in Nat /\ pc' \in {"idle", "files", "sync"}
      /\ files' \in [SegId -> SegmentFiles]
      /\ \A i \in SegId : i # nextId => files'[i] = files[i]
      /\ \A d \in Docs : memtable'[d] = NoVal => memtable[d] = NoVal
      /\ IF pc' = "sync" THEN memtable' = memtable ELSE memtable' = Over(w, memtable)
  <2>1. CASE syncs
    BY <1>1, <1>2, <2>1 DEF LogWrite, TypeOK
  <2>2. CASE ~syncs
    <3>1. ApplyToMemtable(w)
      BY <2>2 DEF LogWrite
    <3>2. memtable' = Over(w, memtable) /\ rows' = rows + Puts(w)
      BY <3>1 DEF ApplyToMemtable
    <3>3. memtable' \in Write /\ rows' \in Nat
      <4>1. memtable \in Write /\ rows \in Nat
        BY <1>2 DEF TypeOK
      <4>2. Puts(w) \in Nat
        BY <1>2, WriteTypes
      <4>3. memtable' \in Write
        BY <3>2, <4>1, OverType
      <4> QED
        BY <3>2, <4>1, <4>2, <4>3
    <3>4. \A d \in Docs : memtable'[d] = NoVal => memtable[d] = NoVal
      BY <3>2 DEF Over
    <3>5. /\ pc' \in {"idle", "files"}
          /\ files' \in [SegId -> SegmentFiles]
          /\ \A i \in SegId : i # nextId => files'[i] = files[i]
      BY <1>1, <1>2, <3>1, MaybeFlushWrites DEF ApplyToMemtable
    <3> QED
      BY <3>2, <3>3, <3>4, <3>5
  <2> QED
    BY <2>1, <2>2
<1>4. Untouched
  BY <1>1, <1>3, NextIdFresh
<1>5. TypeOK'
  <2>1. log' \in Seq(Write) /\ Len(log') = Len(log) + 1 /\ Len(log) \in Nat
    BY <1>1, <1>2, AppendProperties, LenProperties DEF TypeOK
  <2>2. kv' \in [Docs -> Vals \cup {NoVal}]
    BY <1>1, <1>2, WriteTypes
  <2>3. maybe' \in SUBSET [Docs -> Vals \cup {NoVal}]
    BY <1>1, <1>2, <2>2 DEF Remember, TypeOK
  <2>4. synced' \in 0..Len(log')
    BY <1>1, <1>2, <2>1 DEF TypeOK
  <2> QED
    BY <1>1, <1>2, <1>3, <2>1, <2>2, <2>3, <2>4 DEF TypeOK
<1>6. OnDisk' /\ Replay(log') = Over(w, Replay(log))
  BY <1>1, <1>2, <1>4, DiskWritten DEF Inv, Untouched
<1>7. /\ Below' /\ Matching' /\ Ascending'
      /\ Once(DOMAIN segments, segments)' /\ Aligned'
  BY <1>1, <1>3, <1>4, ListKept
<1>8. Buffered'
  <2>1. memtable = Replay(log)
    BY <1>1 DEF Inv, InMemory, Buffered
  <2>2. log' # <<>> /\ log'[Len(log')] = w
    BY <1>1, <1>2, AppendProperties, LenProperties DEF TypeOK
  <2> QED
    BY <1>3, <1>6, <2>1, <2>2 DEF Buffered
<1>9. Flushed' /\ Compacted'
  BY <1>3 DEF Flushed, Compacted
<1> QED
  BY <1>1, <1>3, <1>5, <1>6, <1>7, <1>8, <1>9 DEF Inv, InMemory

LEMMA SyncKeeps ==
    ASSUME Inv, Sync
    PROVE  Inv'
<1> DEFINE w == log[Len(log)]
<1>1. /\ mode = "open" /\ pc = "sync" /\ synced' = Len(log)
      /\ UNCHANGED <<setting, log, manifest, mode, segments, nextId, cur, chosen, fails, kv>>
      /\ Remember({kv}) /\ ApplyToMemtable(w)
  BY DEF Sync
<1>2. TypeOK /\ nextId <= MaxId
  BY <1>1 DEF Inv, InMemory
<1>3. log # <<>> /\ Replay(log) = Over(w, memtable)
  BY <1>1 DEF Inv, InMemory, Buffered
<1>4. w \in Write
  <2>1. log \in Seq(Write) /\ Len(log) \in 1..Len(log)
    BY <1>2, <1>3, LenProperties, EmptySeq DEF TypeOK
  <2> QED
    BY <2>1, ElementOfSeq
<1> HIDE DEF w
<1>5. memtable' = Over(w, memtable) /\ rows' = rows + Puts(w) /\ MaybeFlush
  BY <1>1 DEF ApplyToMemtable
<1>6. /\ memtable' \in Write /\ rows' \in Nat
      /\ \A d \in Docs : memtable'[d] = NoVal => memtable[d] = NoVal
  <2>1. memtable \in Write /\ rows \in Nat
    BY <1>2 DEF TypeOK
  <2>2. Puts(w) \in Nat
    BY <1>2, <1>4, WriteTypes
  <2>3. memtable' \in Write
    BY <1>4, <1>5, <2>1, OverType
  <2>4. \A d \in Docs : memtable'[d] = NoVal => memtable[d] = NoVal
    BY <1>5, <2>1 DEF Over, Write
  <2> QED
    BY <1>5, <2>1, <2>2, <2>3, <2>4
<1>7. /\ pc' \in {"idle", "files"}
      /\ files' \in [SegId -> SegmentFiles]
      /\ \A i \in SegId : i # nextId => files'[i] = files[i]
  BY <1>2, <1>5, MaybeFlushWrites
<1>8. Untouched
  BY <1>1, <1>7, NextIdFresh
<1>9. TypeOK'
  <2>1. synced' \in 0..Len(log')
    BY <1>1, <1>2, LenProperties DEF TypeOK
  <2>2. maybe' \in SUBSET [Docs -> Vals \cup {NoVal}]
    BY <1>1, <1>2 DEF Remember, TypeOK
  <2> QED
    BY <1>1, <1>2, <1>6, <1>7, <2>1, <2>2 DEF TypeOK
<1>10. OnDisk'
  BY <1>1, <1>2, <1>8, DiskKept DEF Inv, Untouched
<1>11. /\ Below' /\ Matching' /\ Ascending'
       /\ Once(DOMAIN segments, segments)' /\ Aligned'
  BY <1>1, <1>6, <1>7, <1>8, ListKept
<1>12. Buffered'
  BY <1>1, <1>3, <1>5, <1>7 DEF Buffered
<1>13. Flushed' /\ Compacted'
  BY <1>7 DEF Flushed, Compacted
<1> QED
  BY <1>1, <1>2, <1>7, <1>9, <1>10, <1>11, <1>12, <1>13 DEF Inv, InMemory

-------------------------------------------------------------------------------
(* Flushing. *)

\* A step that writes the files of the next segment and nothing else.
LEMMA NextFilesKeep ==
    ASSUME Inv, mode = "open", pc \notin {"sync", "commit", "checkpoint", "persist", "rewrite"},
           nextId <= MaxId,
           NEW x \in SegmentFiles, files' = [files EXCEPT ![nextId] = x],
           pc' \in {"idle", "files", "supersede", "compact_files", "compact_swap"},
           chosen' \in SUBSET Nat,
           UNCHANGED <<setting, log, synced, manifest, mode, memtable, rows, segments,
                       nextId, cur, fails, kv, maybe>>,
           Flushed', Compacted'
    PROVE  Inv'
<1>1. nextId \in SegId /\ TypeOK
  BY CollectionAssumption DEF Inv, TypeOK, SegId
<1>2. /\ files' \in [SegId -> SegmentFiles]
      /\ \A i \in SegId : i # nextId => files'[i] = files[i]
  BY <1>1, FilesWritten DEF TypeOK
<1>3. Untouched
  BY <1>2, NextIdFresh
<1>4. TypeOK'
  BY <1>1, <1>2 DEF TypeOK
<1>5. OnDisk'
  BY <1>3, DiskKept DEF Inv, Untouched
<1>6. /\ Below' /\ Matching' /\ Ascending'
      /\ Once(DOMAIN segments, segments)' /\ Aligned'
  BY <1>3, ListKept
<1>7. Buffered'
  BY DEF Inv, InMemory, Buffered
<1> QED
  BY <1>4, <1>5, <1>6, <1>7 DEF Inv, InMemory

LEMMA FlushKeeps ==
    ASSUME Inv, Flush
    PROVE  Inv'
<1>1. /\ mode = "open" /\ pc = "idle" /\ nextId <= MaxId /\ pc' = "files"
      /\ files' = [files EXCEPT ![nextId] = PartialFiles]
      /\ UNCHANGED <<setting, log, synced, manifest, mode, memtable, rows, segments,
                     nextId, cur, chosen, fails, kv, maybe>>
  BY DEF Flush, Idle, Room, memory, ghosts
<1>2. Flushed' /\ Compacted'
  BY <1>1 DEF Flushed, Compacted
<1>3. chosen' \in SUBSET Nat
  BY <1>1 DEF Inv, TypeOK
<1> QED
  BY <1>1, <1>2, <1>3, FileTypes, NextFilesKeep

LEMMA FinishFilesKeeps ==
    ASSUME Inv, FinishFiles
    PROVE  Inv'
<1>1. /\ mode = "open" /\ pc = "files" /\ pc' = "supersede"
      /\ files' = [files EXCEPT ![nextId] = FullFiles(LiveRows)]
      /\ UNCHANGED <<setting, log, synced, manifest, mode, memtable, rows, segments,
                     nextId, cur, chosen, fails, kv, maybe>>
  BY DEF FinishFiles, memory, ghosts
<1>2. nextId <= MaxId /\ FullFiles(LiveRows) \in SegmentFiles /\ nextId \in SegId
  BY <1>1, WriteTypes, FileTypes, CollectionAssumption
     DEF Inv, InMemory, TypeOK, SegId
<1>3. Flushed'
  <2>1. files'[nextId] = FullFiles(LiveRows)
    BY <1>1, <1>2, FilesWritten DEF Inv, TypeOK
  <2>2. LiveRows' = LiveRows
    BY <1>1 DEF LiveRows
  <2> QED
    BY <1>1, <2>1, <2>2 DEF Flushed
<1>4. Compacted'
  BY <1>1 DEF Compacted
<1>5. chosen' \in SUBSET Nat
  BY <1>1 DEF Inv, TypeOK
<1> QED
  BY <1>1, <1>2, <1>3, <1>4, <1>5, NextFilesKeep

LEMMA DistinctIds ==
    ASSUME TypeOK, Ascending
    PROVE  \A j, k \in DOMAIN segments : segments[j].id = segments[k].id => j = k
<1> SUFFICES ASSUME NEW j \in DOMAIN segments, NEW k \in DOMAIN segments,
                    segments[j].id = segments[k].id, j # k
             PROVE  FALSE
  OBVIOUS
<1>1. j < k \/ k < j
  BY SegmentTypes
<1>2. segments[j].id \in Nat
  BY SegmentTypes, ReferencedIs
<1> QED
  BY <1>1, <1>2 DEF Ascending

LEMMA VictimsAre ==
    ASSUME NEW x
    PROVE  \A d : d \in Victims(x) <=> d \in Docs /\ Holds(x, d) /\ memtable[d] # NoVal
  BY LiveIsHeld DEF Victims, LiveDocs, RowDocs

LEMMA KillRowsKeeps ==
    ASSUME Inv, KillRows
    PROVE  Inv'
<1>1. PICK i \in DOMAIN segments :
        /\ Victims(segments[i]) # {}
        /\ segments' = [segments EXCEPT ![i].dead = @ \cup Victims(segments[i])]
        /\ cur' = i
  BY DEF KillRows
<1>2. /\ mode = "open" /\ pc = "supersede" /\ pc' = "persist"
      /\ UNCHANGED <<setting, log, synced, files, manifest, mode, memtable, rows, nextId,
                     chosen, fails, kv, maybe>>
  BY DEF KillRows, disk, ghosts
<1>3. TypeOK /\ OnDisk /\ Ascending /\ memtable = Replay(log) /\ nextId <= MaxId
  BY <1>2 DEF Inv, InMemory, Buffered
<1> DEFINE n == segments[i].id
           V == Victims(segments[i])
<1>4. n \in SegId /\ n # nextId /\ V \subseteq Docs
  BY <1>2, <1>3, SegmentTypes, VictimsAre DEF Inv, InMemory, Below, TypeOK, SegId
<1>5. /\ DOMAIN segments' = DOMAIN segments
      /\ \A k \in DOMAIN segments :
           /\ segments'[k].id = segments[k].id
           /\ segments'[k].rows = segments[k].rows
           /\ segments[k].dead \subseteq segments'[k].dead
           /\ \A d \in segments'[k].dead \ segments[k].dead : memtable[d] # NoVal
           /\ k # i => segments'[k] = segments[k]
           /\ segments'[k] \in Segment
  <2>1. \A d \in V : memtable[d] # NoVal
    BY VictimsAre
  <2>2. /\ DOMAIN segments' = DOMAIN segments
        /\ \A k \in DOMAIN segments : k # i => segments'[k] = segments[k]
        /\ segments'[i] = [segments[i] EXCEPT !.dead = segments[i].dead \cup V]
    BY <1>1
  <2>3. /\ segments'[i].id = segments[i].id /\ segments'[i].rows = segments[i].rows
        /\ segments'[i].dead = segments[i].dead \cup V
        /\ segments'[i] \in Segment
    <3> HIDE DEF V
    <3> QED
      BY <1>3, <1>4, <2>2, SegmentTypes DEF Segment
  <2> HIDE DEF V
  <2> QED
    BY <1>3, <2>1, <2>2, <2>3, SegmentTypes
<1> HIDE DEF n, V
<1>7. TypeOK'
  <2>1. segments' \in Seq(Segment)
    <3>1. segments' \in [1..Len(segments) -> Segment]
      BY <1>1, <1>3, <1>5, SegmentTypes
    <3> QED
      BY <1>3, <3>1, SegmentTypes, SeqDef
  <2>2. cur' \in Nat
    BY <1>1, <1>3, SegmentTypes
  <2> QED
    BY <1>2, <1>3, <2>1, <2>2 DEF TypeOK
<1>8. Referenced' = Referenced
  BY <1>2 DEF Referenced
<1>9. /\ OnDisk'
      /\ \A d \in Docs : \A v : Replay(log)[d] = NoVal =>
           (Shows(Referenced', files', d, v) <=> Shows(Referenced, files, d, v))
  BY <1>2, <1>3, <1>8, DiskAged
<1>10. Below' /\ Ascending'
  BY <1>2, <1>3, <1>5, <1>8 DEF Inv, InMemory, Below, Ascending
<1>11. Once(DOMAIN segments, segments)'
  BY <1>2, <1>5, OnceAges DEF Inv, InMemory
<1>12. Matching'
  <2>1. ASSUME NEW k \in DOMAIN segments
        PROVE  /\ files'[segments'[k].id].state = "full"
               /\ files'[segments'[k].id].rows = segments'[k].rows
               /\ \E d \in Docs : segments'[k].rows[d] # NoVal
               /\ IF pc' \in {"persist", "rewrite"} /\ cur' = k
                  THEN /\ files'[segments'[k].id].dead \subseteq segments'[k].dead
                       /\ \A d \in segments'[k].dead \ files'[segments'[k].id].dead :
                            memtable'[d] # NoVal
                  ELSE /\ files'[segments'[k].id].dead = segments'[k].dead
                       /\ ~files'[segments'[k].id].torn
    <3>1. segments[k].id \in SegId /\ segments'[k].id = segments[k].id
      BY <1>3, <1>5, SegmentTypes
    <3>2. /\ files[segments[k].id].state = "full"
          /\ files[segments[k].id].rows = segments[k].rows
          /\ \E d \in Docs : segments[k].rows[d] # NoVal
          /\ files[segments[k].id].dead = segments[k].dead
          /\ ~files[segments[k].id].torn
      BY <1>2 DEF Inv, InMemory, Matching
    <3>3. CASE k = i
      <4>1. files' = files
        BY <1>2
      <4>2. /\ segments'[k].rows = segments[k].rows
            /\ segments[k].dead \subseteq segments'[k].dead
            /\ \A d \in segments'[k].dead \ segments[k].dead : memtable[d] # NoVal
        BY <1>5
      <4> QED
        BY <1>1, <1>2, <3>1, <3>2, <3>3, <4>1, <4>2
    <3>4. CASE k # i
      <4>1. files' = files /\ segments'[k] = segments[k]
        BY <1>2, <1>5, <3>4
      <4> QED
        BY <1>1, <3>2, <3>4, <4>1
    <3> QED
      BY <3>3, <3>4
  <2> QED
    BY <1>5, <2>1 DEF Matching
<1>13. Aligned'
  <2> SUFFICES ASSUME NEW d \in Docs, memtable[d] = NoVal, NEW v \in Vals
               PROVE  Shows(Referenced', files', d, v)
                         <=> Shows(DOMAIN segments', segments', d, v)
    BY <1>2 DEF Aligned
  <2>1. Shows(Referenced', files', d, v) <=> Shows(Referenced, files, d, v)
    BY <1>3, <1>9
  <2>2. \A k \in DOMAIN segments : /\ segments'[k].rows = segments[k].rows
                                   /\ d \in segments'[k].dead <=> d \in segments[k].dead
    BY <1>5
  <2>3. Shows(DOMAIN segments, segments', d, v) <=> Shows(DOMAIN segments, segments, d, v)
    BY <2>2, ShowsSame
  <2>4. Shows(Referenced, files, d, v) <=> Shows(DOMAIN segments, segments, d, v)
    BY <1>2 DEF Inv, InMemory, Aligned
  <2> QED
    BY <1>5, <2>1, <2>3, <2>4
<1>14. Buffered'
  BY <1>2, <1>3 DEF Buffered
<1>15. Flushed'
  <2>1. files'[nextId] = FullFiles(LiveRows)
    BY <1>2 DEF Inv, InMemory, Flushed
  <2>2. LiveRows' = LiveRows
    BY <1>2 DEF LiveRows
  <2> QED
    BY <1>1, <1>2, <1>5, <2>1, <2>2 DEF Flushed
<1>16. Compacted'
  BY <1>2 DEF Compacted
<1> QED
  BY <1>2, <1>3, <1>7, <1>9, <1>10, <1>11, <1>12, <1>13, <1>14, <1>15, <1>16
     DEF Inv, InMemory

\* TruncateTombstones: the bitmap that is to be rewritten is cut.
LEMMA TruncateKeeps ==
    ASSUME Inv, TruncateTombstones
    PROVE  Inv'
<1> DEFINE n == segments[cur].id
<1>1. /\ mode = "open" /\ pc = "persist" /\ pc' = "rewrite"
      /\ files' = [files EXCEPT ![n].torn = TRUE]
      /\ UNCHANGED <<setting, log, synced, manifest, mode, memtable, rows, segments, nextId,
                     cur, chosen, fails, kv, maybe>>
  BY DEF TruncateTombstones, memory, ghosts
<1>2. /\ TypeOK /\ OnDisk /\ Ascending /\ memtable = Replay(log) /\ nextId <= MaxId
      /\ cur \in DOMAIN segments
  BY <1>1 DEF Inv, InMemory, Buffered, Flushed
<1>3. n \in SegId /\ n # nextId
  BY <1>1, <1>2, SegmentTypes DEF Inv, InMemory, Below, TypeOK, SegId
<1>4. /\ files' \in [SegId -> SegmentFiles]
      /\ \A k \in SegId : k # n => files'[k] = files[k]
      /\ \A k \in SegId : /\ files'[k].state = files[k].state
                          /\ files'[k].rows = files[k].rows
                          /\ files'[k].dead = files[k].dead
  <2> DEFINE x == [files[n] EXCEPT !.torn = TRUE]
  <2>1. files \in [SegId -> SegmentFiles] /\ files[n] \in SegmentFiles
    BY <1>2, <1>3 DEF TypeOK
  <2>2. /\ x \in SegmentFiles /\ x.state = files[n].state /\ x.rows = files[n].rows
        /\ x.dead = files[n].dead
    <3> HIDE DEF n
    <3> QED
      BY <2>1 DEF SegmentFiles
  <2>3. files' = [files EXCEPT ![n] = x]
    BY <1>1, <1>3, <2>1
  <2> HIDE DEF x, n
  <2> QED
    BY <1>3, <2>1, <2>2, <2>3, FilesWritten
<1> HIDE DEF n
<1>5. TypeOK'
  BY <1>1, <1>2, <1>4 DEF TypeOK
<1>6. Referenced' = Referenced
  BY <1>1 DEF Referenced
<1>7. /\ OnDisk'
      /\ \A d \in Docs : \A v : Replay(log)[d] = NoVal =>
           (Shows(Referenced', files', d, v) <=> Shows(Referenced, files, d, v))
  BY <1>1, <1>2, <1>4, <1>6, ReferencedIs, DiskAged
<1>8. Below' /\ Ascending' /\ Once(DOMAIN segments, segments)'
  BY <1>1, <1>2, <1>6 DEF Inv, InMemory, Below, Ascending
<1>9. Matching'
  <2>1. ASSUME NEW k \in DOMAIN segments
        PROVE  /\ files'[segments[k].id].state = "full"
               /\ files'[segments[k].id].rows = segments[k].rows
               /\ \E d \in Docs : segments[k].rows[d] # NoVal
               /\ IF cur = k
                  THEN /\ files'[segments[k].id].dead \subseteq segments[k].dead
                       /\ \A d \in segments[k].dead \ files'[segments[k].id].dead :
                            memtable[d] # NoVal
                  ELSE /\ files'[segments[k].id].dead = segments[k].dead
                       /\ ~files'[segments[k].id].torn
    <3>1. segments[k].id \in SegId
      BY <1>2, SegmentTypes
    <3>2. /\ files[segments[k].id].state = "full"
          /\ files[segments[k].id].rows = segments[k].rows
          /\ \E d \in Docs : segments[k].rows[d] # NoVal
          /\ IF cur = k
             THEN /\ files[segments[k].id].dead \subseteq segments[k].dead
                  /\ \A d \in segments[k].dead \ files[segments[k].id].dead :
                       memtable[d] # NoVal
             ELSE /\ files[segments[k].id].dead = segments[k].dead
                  /\ ~files[segments[k].id].torn
      BY <1>1 DEF Inv, InMemory, Matching
    <3>3. CASE k = cur
      BY <1>4, <3>1, <3>2, <3>3
    <3>4. CASE k # cur
      <4>1. segments[k].id # n
        BY <1>2, <3>4, DistinctIds DEF n
      <4>2. files'[segments[k].id] = files[segments[k].id]
        BY <1>4, <3>1, <4>1
      <4> QED
        BY <3>2, <3>4, <4>2
    <3> QED
      BY <3>3, <3>4
  <2> QED
    BY <1>1, <2>1 DEF Matching
<1>10. Aligned'
  BY <1>1, <1>2, <1>7 DEF Inv, InMemory, Aligned
<1>11. Buffered'
  BY <1>1, <1>2 DEF Buffered
<1>12. Flushed'
  <2>1. files'[nextId] = FullFiles(LiveRows)
    <3>1. nextId \in SegId
      BY <1>2, CollectionAssumption DEF TypeOK, SegId
    <3>2. files[nextId] = FullFiles(LiveRows)
      BY <1>1 DEF Inv, InMemory, Flushed
    <3> QED
      BY <1>3, <1>4, <3>1, <3>2
  <2>2. LiveRows' = LiveRows
    BY <1>1 DEF LiveRows
  <2> QED
    BY <1>1, <1>2, <2>1, <2>2 DEF Flushed
<1>13. Compacted'
  BY <1>1 DEF Compacted
<1> QED
  BY <1>1, <1>2, <1>5, <1>7, <1>8, <1>9, <1>10, <1>11, <1>12, <1>13 DEF Inv, InMemory

LEMMA RewriteKeeps ==
    ASSUME Inv, RewriteTombstones
    PROVE  Inv'
<1> DEFINE n == segments[cur].id
<1>1. /\ mode = "open" /\ pc = "rewrite" /\ pc' = "supersede" /\ cur' = 0
      /\ files' = [files EXCEPT ![n].torn = FALSE, ![n].dead = segments[cur].dead]
      /\ UNCHANGED <<setting, log, synced, manifest, mode, memtable, rows, segments, nextId,
                     chosen, fails, kv, maybe>>
  BY DEF RewriteTombstones, ghosts
<1>2. /\ TypeOK /\ OnDisk /\ Ascending /\ memtable = Replay(log) /\ nextId <= MaxId
      /\ cur \in DOMAIN segments
  BY <1>1 DEF Inv, InMemory, Buffered, Flushed
<1>3. n \in SegId /\ n # nextId
  BY <1>1, <1>2, SegmentTypes DEF Inv, InMemory, Below, TypeOK, SegId
<1>4. /\ files' \in [SegId -> SegmentFiles]
      /\ \A k \in SegId : k # n => files'[k] = files[k]
      /\ files'[n].state = files[n].state /\ files'[n].rows = files[n].rows
      /\ files'[n].dead = segments[cur].dead /\ ~files'[n].torn
  <2> DEFINE x == [files[n] EXCEPT !.torn = FALSE, !.dead = segments[cur].dead]
  <2>1. /\ files \in [SegId -> SegmentFiles] /\ files[n] \in SegmentFiles
        /\ segments[cur].dead \in SUBSET Docs
    BY <1>2, <1>3, SegmentTypes DEF TypeOK
  <2>2. /\ x \in SegmentFiles /\ x.state = files[n].state /\ x.rows = files[n].rows
        /\ x.dead = segments[cur].dead /\ ~x.torn
    <3> HIDE DEF n
    <3> QED
      BY <2>1 DEF SegmentFiles
  <2>3. files' = [files EXCEPT ![n] = x]
    BY <1>1, <1>3, <2>1
  <2> HIDE DEF x, n
  <2> QED
    BY <1>3, <2>1, <2>2, <2>3, FilesWritten
<1>5. /\ files[n].dead \subseteq segments[cur].dead
      /\ \A d \in segments[cur].dead \ files[n].dead : memtable[d] # NoVal
  BY <1>1, <1>2 DEF Inv, InMemory, Matching
<1>6. TypeOK'
  BY <1>1, <1>2, <1>4 DEF TypeOK
<1>7. Referenced' = Referenced
  BY <1>1 DEF Referenced
<1>8. \A i \in Referenced :
        /\ files'[i].state = files[i].state
        /\ files'[i].rows = files[i].rows
        /\ files[i].dead \subseteq files'[i].dead
        /\ \A d \in files'[i].dead \ files[i].dead : Replay(log)[d] # NoVal
  <2> HIDE DEF n
  <2> QED
    BY <1>2, <1>4, <1>5, ReferencedIs
<1>9. /\ OnDisk'
      /\ \A d \in Docs : \A v : Replay(log)[d] = NoVal =>
           (Shows(Referenced', files', d, v) <=> Shows(Referenced, files, d, v))
  BY <1>1, <1>2, <1>7, <1>8, DiskAged
<1>10. Below' /\ Ascending' /\ Once(DOMAIN segments, segments)'
  BY <1>1, <1>2, <1>7 DEF Inv, InMemory, Below, Ascending
<1>11. Matching'
  <2>1. ASSUME NEW k \in DOMAIN segments
        PROVE  /\ files'[segments[k].id].state = "full"
               /\ files'[segments[k].id].rows = segments[k].rows
               /\ \E d \in Docs : segments[k].rows[d] # NoVal
               /\ files'[segments[k].id].dead = segments[k].dead
               /\ ~files'[segments[k].id].torn
    <3>1. segments[k].id \in SegId
      BY <1>2, SegmentTypes
    <3>2. /\ files[segments[k].id].state = "full"
          /\ files[segments[k].id].rows = segments[k].rows
          /\ \E d \in Docs : segments[k].rows[d] # NoVal
      BY <1>1 DEF Inv, InMemory, Matching
    <3>3. CASE k = cur
      BY <1>4, <3>2, <3>3
    <3>4. CASE k # cur
      <4>1. segments[k].id # n
        BY <1>2, <3>4, DistinctIds
      <4>2. files'[segments[k].id] = files[segments[k].id]
        BY <1>4, <3>1, <4>1
      <4>3. files[segments[k].id].dead = segments[k].dead /\ ~files[segments[k].id].torn
        BY <1>1, <3>4 DEF Inv, InMemory, Matching
      <4> QED
        BY <3>2, <4>2, <4>3
    <3> QED
      BY <3>3, <3>4
  <2> QED
    BY <1>1, <2>1 DEF Matching
<1>12. Aligned'
  BY <1>1, <1>2, <1>9 DEF Inv, InMemory, Aligned
<1>13. Buffered'
  BY <1>1, <1>2 DEF Buffered
<1>14. Flushed'
  <2>1. files'[nextId] = FullFiles(LiveRows)
    <3>1. nextId \in SegId
      BY <1>2, CollectionAssumption DEF TypeOK, SegId
    <3>2. files[nextId] = FullFiles(LiveRows)
      BY <1>1 DEF Inv, InMemory, Flushed
    <3> HIDE DEF n
    <3> QED
      BY <1>3, <1>4, <3>1, <3>2
  <2>2. LiveRows' = LiveRows
    BY <1>1 DEF LiveRows
  <2> QED
    BY <1>1, <2>1, <2>2 DEF Flushed
<1>15. Compacted'
  BY <1>1 DEF Compacted
<1> QED
  BY <1>1, <1>2, <1>6, <1>9, <1>10, <1>11, <1>12, <1>13, <1>14, <1>15 DEF Inv, InMemory

LEMMA AppendIs ==
    ASSUME NEW s \in Seq(Segment), NEW x \in Segment, NEW t, t = Append(s, x)
    PROVE  /\ t \in Seq(Segment) /\ Len(s) \in Nat
           /\ DOMAIN s = 1..Len(s) /\ DOMAIN t = 1..(Len(s) + 1)
           /\ \A k \in DOMAIN s : t[k] = s[k] /\ k # Len(s) + 1
           /\ t[Len(s) + 1] = x /\ Len(s) + 1 \in DOMAIN t
           /\ \A k \in DOMAIN t : k \in DOMAIN s \/ k = Len(s) + 1
           /\ \A k \in DOMAIN s : k \in DOMAIN t
<1>1. /\ t \in Seq(Segment) /\ Len(t) = Len(s) + 1 /\ t[Len(s) + 1] = x
      /\ \A i \in 1..Len(s) : t[i] = s[i]
  BY AppendProperties
<1>2. Len(s) \in Nat /\ DOMAIN s = 1..Len(s) /\ DOMAIN t = 1..(Len(s) + 1)
  BY <1>1, DomainFinite
<1> QED
  BY <1>1, <1>2

\* A segment that shares no live row with the others joins the list.
LEMMA AppendShows ==
    ASSUME NEW s \in Seq(Segment), NEW x \in Segment, NEW t, t = Append(s, x),
           Once(DOMAIN s, s),
           \A d \in Docs, k \in DOMAIN s : ~(Holds(s[k], d) /\ Holds(x, d))
    PROVE  /\ Once(DOMAIN t, t)
           /\ \A d, v : Shows(DOMAIN t, t, d, v) <=>
                Shows(DOMAIN s, s, d, v) \/ (Holds(x, d) /\ x.rows[d] = v)
<1> DEFINE m == Len(s) + 1
<1>1. /\ \A k \in DOMAIN s : t[k] = s[k] /\ k # m
      /\ t[m] = x /\ m \in DOMAIN t
      /\ \A k \in DOMAIN t : k \in DOMAIN s \/ k = m
      /\ \A k \in DOMAIN s : k \in DOMAIN t
  BY AppendIs
<1> HIDE DEF m
<1>2. Once(DOMAIN t, t)
  <2> SUFFICES ASSUME NEW d \in Docs, NEW i \in DOMAIN t, NEW j \in DOMAIN t,
                      Holds(t[i], d), Holds(t[j], d)
               PROVE  i = j
    BY DEF Once
  <2>1. CASE i \in DOMAIN s /\ j \in DOMAIN s
    BY <1>1, <2>1 DEF Once
  <2>2. CASE i = m \/ j = m
    BY <1>1, <2>2
  <2> QED
    BY <1>1, <2>1, <2>2
<1>3. ASSUME NEW d, NEW v
      PROVE  Shows(DOMAIN t, t, d, v) <=>
                Shows(DOMAIN s, s, d, v) \/ (Holds(x, d) /\ x.rows[d] = v)
  BY <1>1 DEF Shows
<1> QED
  BY <1>2, <1>3

LEMMA PushKeeps ==
    ASSUME Inv, PushSegment
    PROVE  Inv'
<1>1. /\ mode = "open" /\ pc = "supersede" /\ pc' = "commit"
      /\ \A i \in DOMAIN segments : Victims(segments[i]) = {}
      /\ UNCHANGED <<setting, log, synced, manifest, mode, memtable, rows, nextId, cur,
                     chosen, fails, kv, maybe>>
  BY DEF PushSegment, ghosts
<1>2. /\ TypeOK /\ OnDisk /\ Ascending /\ memtable = Replay(log) /\ nextId <= MaxId
      /\ files[nextId] = FullFiles(LiveRows) /\ nextId \in SegId
      /\ Once(DOMAIN segments, segments)
  BY <1>1, CollectionAssumption DEF Inv, InMemory, Buffered, Flushed, TypeOK, SegId
<1>3. \A i \in DOMAIN segments, d \in Docs : memtable[d] # NoVal => ~Holds(segments[i], d)
  BY <1>1, VictimsAre
<1>4. \A i \in DOMAIN segments : segments[i].id < nextId
  BY <1>1 DEF Inv, InMemory, Below
<1>5. Referenced' = Referenced
  BY <1>1 DEF Referenced
<1>6. \A d \in Docs : memtable[d] \in Entry
  BY <1>2 DEF TypeOK, Write
<1>7. Buffered' /\ Compacted'
  BY <1>1, <1>2 DEF Buffered, Compacted
<1>8. CASE LiveRows # NoRows
  <2> DEFINE x == [id |-> nextId, rows |-> files[nextId].rows, dead |-> files[nextId].dead]
  <2>1. segments' = Append(segments, x) /\ files' = files
    BY <1>8 DEF PushSegment
  <2>2. /\ x \in Segment /\ x.id = nextId /\ x.rows = LiveRows /\ x.dead = {}
        /\ files[nextId].state = "full" /\ files[nextId].rows = LiveRows
        /\ files[nextId].dead = {} /\ ~files[nextId].torn
    BY <1>2, WriteTypes DEF FullFiles, Segment
  <2>3. segments \in Seq(Segment)
    BY <1>2 DEF TypeOK
  <2> HIDE DEF x
  <2> DEFINE m == Len(segments) + 1
  <2>4. /\ segments' \in Seq(Segment)
        /\ DOMAIN segments = 1..Len(segments) /\ DOMAIN segments' = 1..m
        /\ Len(segments) \in Nat
        /\ \A k \in DOMAIN segments : segments'[k] = segments[k] /\ k # m
        /\ segments'[m] = x /\ m \in DOMAIN segments'
        /\ \A k \in DOMAIN segments' : k \in DOMAIN segments \/ k = m
    BY <2>1, <2>2, <2>3, AppendIs
  <2>5. \A d \in Docs : Holds(x, d) <=> memtable[d] \in Vals
    BY <2>2, CollectionAssumption DEF Holds, LiveRows
  <2>6. \A d \in Docs : Holds(x, d) => x.rows[d] = memtable[d] /\ memtable[d] # NoVal
    BY <2>2, <2>5, CollectionAssumption DEF LiveRows
  <2>7. /\ Once(DOMAIN segments', segments')
        /\ \A d, v : Shows(DOMAIN segments', segments', d, v) <=>
             Shows(DOMAIN segments, segments, d, v) \/ (Holds(x, d) /\ x.rows[d] = v)
    <3>1. \A d \in Docs, k \in DOMAIN segments : ~(Holds(segments[k], d) /\ Holds(x, d))
      BY <1>3, <2>6
    <3>2. Once(DOMAIN segments, segments) /\ x \in Segment
      BY <1>2, <2>2
    <3> QED
      BY <2>1, <2>3, <3>1, <3>2, AppendShows
  <2>8. TypeOK'
    BY <1>1, <1>2, <2>1, <2>4 DEF TypeOK
  <2>9. OnDisk'
    BY <1>1, <1>2, <1>5, <2>1, DiskKept
  <2>10. Below'
    <3>1. \A k \in DOMAIN segments' : segments'[k].id < nextId \/ segments'[k].id = nextId
      BY <1>4, <2>2, <2>4
    <3>2. \A i \in Referenced : i < nextId
      BY <1>1 DEF Inv, InMemory, Below
    <3> QED
      BY <1>1, <1>5, <3>1, <3>2 DEF Below
  <2>11. Matching'
    <3>1. ASSUME NEW k \in DOMAIN segments'
          PROVE  /\ files[segments'[k].id].state = "full"
                 /\ files[segments'[k].id].rows = segments'[k].rows
                 /\ \E d \in Docs : segments'[k].rows[d] # NoVal
                 /\ files[segments'[k].id].dead = segments'[k].dead
                 /\ ~files[segments'[k].id].torn
      <4>1. CASE k \in DOMAIN segments
        BY <1>1, <2>4, <4>1 DEF Inv, InMemory, Matching
      <4>2. CASE k = m
        <5>1. \E d \in Docs : LiveRows[d] # NoVal
          <6>1. ASSUME \A d \in Docs : LiveRows[d] = NoVal PROVE FALSE
            BY <1>8, <6>1 DEF LiveRows, NoRows
          <6> QED
            BY <6>1
        <5> QED
          BY <2>2, <2>4, <4>2, <5>1
      <4> QED
        BY <2>4, <4>1, <4>2
    <3> QED
      BY <1>1, <2>1, <3>1 DEF Matching
  <2>12. Ascending'
    <3> SUFFICES ASSUME NEW i \in DOMAIN segments', NEW j \in DOMAIN segments', i < j
                 PROVE  segments'[i].id < segments'[j].id
      BY DEF Ascending
    <3>1. i \in DOMAIN segments
      BY <2>4
    <3>2. CASE j \in DOMAIN segments
      BY <1>2, <2>4, <3>1, <3>2 DEF Ascending
    <3>3. CASE j = m
      BY <1>4, <2>2, <2>4, <3>1, <3>3
    <3> QED
      BY <2>4, <3>2, <3>3
  <2>13. Aligned'
    <3> SUFFICES ASSUME NEW d \in Docs, memtable[d] = NoVal, NEW v \in Vals
                 PROVE  Shows(Referenced, files, d, v)
                           <=> Shows(DOMAIN segments', segments', d, v)
      BY <1>1, <1>5, <2>1 DEF Aligned
    <3>1. ~Holds(x, d)
      BY <2>6
    <3>2. Shows(Referenced, files, d, v) <=> Shows(DOMAIN segments, segments, d, v)
      BY <1>1 DEF Inv, InMemory, Aligned
    <3> QED
      BY <2>7, <3>1, <3>2
  <2>14. Flushed'
    <3> SUFFICES ASSUME NEW d \in Docs, memtable[d] # NoVal, NEW v \in Vals
                 PROVE  Shows(DOMAIN segments', segments', d, v) <=> v = memtable[d]
      BY <1>1 DEF Flushed
    <3>1. ~Shows(DOMAIN segments, segments, d, v)
      BY <1>3 DEF Shows
    <3> QED
      BY <2>5, <2>6, <2>7, <3>1
  <2> QED
    BY <1>1, <1>2, <1>7, <2>7, <2>8, <2>9, <2>10, <2>11, <2>12, <2>13, <2>14
       DEF Inv, InMemory
<1>9. CASE LiveRows = NoRows
  <2>1. segments' = segments /\ files' = [files EXCEPT ![nextId] = NoFiles]
    BY <1>9 DEF PushSegment
  <2>2. /\ files' \in [SegId -> SegmentFiles]
        /\ \A i \in SegId : i # nextId => files'[i] = files[i]
    BY <1>2, <2>1, FilesWritten, FileTypes DEF TypeOK
  <2>3. Untouched
    BY <1>1, <2>2, NextIdFresh
  <2>4. TypeOK'
    BY <1>1, <1>2, <2>1, <2>2 DEF TypeOK
  <2>5. OnDisk'
    BY <1>1, <1>2, <2>3, DiskKept DEF Untouched
  <2>6. /\ Below' /\ Matching' /\ Ascending'
        /\ Once(DOMAIN segments, segments)' /\ Aligned'
    BY <1>1, <2>1, <2>3, ListKept
  <2>7. Flushed'
    <3> SUFFICES ASSUME NEW d \in Docs, memtable[d] # NoVal, NEW v \in Vals
                 PROVE  Shows(DOMAIN segments, segments, d, v) <=> v = memtable[d]
      BY <1>1, <2>1 DEF Flushed
    <3>1. ~Shows(DOMAIN segments, segments, d, v)
      BY <1>3 DEF Shows
    <3>2. memtable[d] \notin Vals
      BY <1>9, CollectionAssumption DEF LiveRows, NoRows
    <3> QED
      BY <3>1, <3>2
  <2> QED
    BY <1>1, <1>2, <1>7, <2>4, <2>5, <2>6, <2>7 DEF Inv, InMemory
<1> QED
  BY <1>8, <1>9

LEMMA RowsByIdIs ==
    ASSUME TypeOK, Ascending
    PROVE  /\ \A k \in DOMAIN segments :
                RowsById(segments[k].id) = Cardinality(RowDocs(segments[k]))
           /\ \A i : (\A k \in DOMAIN segments : segments[k].id # i) => RowsById(i) = 0
           /\ \A i \in SegId : RowsById(i) \in Nat
<1>1. ASSUME NEW k \in DOMAIN segments
      PROVE  RowsById(segments[k].id) = Cardinality(RowDocs(segments[k]))
  <2> DEFINE at == {j \in DOMAIN segments : segments[j].id = segments[k].id}
  <2>1. k \in at /\ \A j \in at : j = k
    BY DistinctIds
  <2>2. at \in SUBSET Nat
    BY SegmentTypes
  <2>3. RowsById(segments[k].id) =
          IF at = {} THEN 0 ELSE Cardinality(RowDocs(segments[HighestId(at)]))
    BY DEF RowsById
  <2> HIDE DEF at
  <2>4. HighestId(at) = k
    BY <2>1, <2>2, HighestOfOne
  <2> QED
    BY <2>1, <2>3, <2>4
<1>2. ASSUME NEW i, \A k \in DOMAIN segments : segments[k].id # i
      PROVE  RowsById(i) = 0
  BY <1>2 DEF RowsById
<1>3. ASSUME NEW i \in SegId PROVE RowsById(i) \in Nat
  <2>1. CASE \E k \in DOMAIN segments : segments[k].id = i
    BY <1>1, <2>1, RowCounts
  <2>2. CASE ~\E k \in DOMAIN segments : segments[k].id = i
    BY <1>2, <2>2
  <2> QED
    BY <2>1, <2>2
<1> QED
  BY <1>1, <1>2, <1>3

LEMMA EntryType ==
    ASSUME TypeOK, Ascending
    PROVE  EntryOf \in [rows : [SegId -> Nat], live : Nat]
<1>1. RowsOf(LiveDocs) \in Nat
  <2> DEFINE P == {p \in (DOMAIN segments) \X Docs : p[2] \in LiveDocs(segments[p[1]])}
  <2>1. IsFiniteSet((DOMAIN segments) \X Docs)
    BY SegmentTypes, CollectionAssumption, FS_Product
  <2>2. IsFiniteSet(P)
    BY <2>1, FS_Subset
  <2> QED
    BY <2>2, FS_CardinalityType DEF RowsOf
<1> QED
  BY <1>1, RowsByIdIs DEF EntryOf

\* A commit makes the manifest name the opened segments, whose files show what
\* the named files showed before.
LEMMA Committed ==
    ASSUME Inv, mode = "open", pc \in {"commit", "compact_commit"},
           manifest' = EntryOf, files' = files, log' = log, kv' = kv
    PROVE  /\ OnDisk'
           /\ \A i : i \in Referenced' <=> \E k \in DOMAIN segments : segments[k].id = i
           /\ \A d, v : Shows(Referenced', files', d, v)
                           <=> Shows(DOMAIN segments, segments, d, v)
<1>1. /\ TypeOK /\ Ascending /\ OnDisk /\ memtable = Replay(log)
      /\ Once(DOMAIN segments, segments)
  BY DEF Inv, InMemory, Buffered
<1>2. \A k \in DOMAIN segments :
        /\ files[segments[k].id].state = "full"
        /\ segments[k].rows = files[segments[k].id].rows
        /\ segments[k].dead = files[segments[k].id].dead
        /\ \E d \in Docs : segments[k].rows[d] # NoVal
  BY DEF Inv, InMemory, Matching
<1>3. \A i \in SegId : manifest'.rows[i] = RowsById(i)
  BY DEF EntryOf
<1>4. ASSUME NEW i
      PROVE  i \in Referenced' <=> \E k \in DOMAIN segments : segments[k].id = i
  <2>1. i \in Referenced' <=> i \in SegId /\ RowsById(i) > 0
    BY <1>3 DEF Referenced
  <2>2. CASE \E k \in DOMAIN segments : segments[k].id = i
    <3>1. PICK k \in DOMAIN segments : segments[k].id = i
      BY <2>2
    <3>2. i \in SegId
      BY <1>1, <3>1, SegmentTypes
    <3>3. Cardinality(RowDocs(segments[k])) > 0
      BY <1>2, RowCounts
    <3>4. RowsById(i) = Cardinality(RowDocs(segments[k]))
      BY <1>1, <3>1, RowsByIdIs
    <3> QED
      BY <2>1, <2>2, <3>2, <3>3, <3>4
  <2>3. CASE ~\E k \in DOMAIN segments : segments[k].id = i
    BY <1>1, <2>1, <2>3, RowsByIdIs
  <2> QED
    BY <2>2, <2>3
<1>5. /\ Once(Referenced', files) <=> Once(DOMAIN segments, segments)
      /\ \A d, v : Shows(Referenced', files, d, v) <=> Shows(DOMAIN segments, segments, d, v)
  <2>1. \A j, k \in DOMAIN segments : segments[j].id = segments[k].id => j = k
    BY <1>1, DistinctIds
  <2>2. \A k \in DOMAIN segments : segments[k].id \in Referenced'
    BY <1>4
  <2>3. \A i \in Referenced' : \E k \in DOMAIN segments : segments[k].id = i
    BY <1>4
  <2> QED
    <3> DEFINE R == Referenced'
    <3>1. \A k \in DOMAIN segments :
            /\ segments[k].rows = files[segments[k].id].rows
            /\ segments[k].dead = files[segments[k].id].dead
      BY <1>2
    <3>2. /\ \A k \in DOMAIN segments : segments[k].id \in R
          /\ \A i \in R : \E k \in DOMAIN segments : segments[k].id = i
      BY <2>2, <2>3
    <3> HIDE DEF R
    <3>3. /\ Once(R, files) <=> Once(DOMAIN segments, segments)
          /\ \A d, v : Shows(R, files, d, v) <=> Shows(DOMAIN segments, segments, d, v)
      BY <2>1, <3>1, <3>2, Enumerated
    <3> QED
      BY <3>3 DEF R
<1>6. FilesWhole'
  <2> SUFFICES ASSUME NEW i \in Referenced'
               PROVE  files[i].state = "full" /\ Cardinality(RowDocs(files[i])) = manifest'.rows[i]
    BY DEF FilesWhole
  <2>1. PICK k \in DOMAIN segments : segments[k].id = i
    BY <1>4
  <2>2. RowDocs(files[i]) = RowDocs(segments[k])
    BY <1>2, <2>1 DEF RowDocs
  <2>3. i \in SegId
    BY <1>1, <2>1, SegmentTypes
  <2> QED
    BY <1>1, <1>2, <1>3, <2>1, <2>2, <2>3, RowsByIdIs
<1>7. Recovers'
  <2> SUFFICES ASSUME NEW d \in Docs
               PROVE  /\ Replay(log)[d] = Deleted => kv[d] = NoVal
                      /\ Replay(log)[d] \in Vals => kv[d] = Replay(log)[d]
                      /\ Replay(log)[d] = NoVal =>
                           \A v \in Vals : Shows(Referenced', files, d, v) <=> kv[d] = v
    BY DEF Recovers
  <2>1. /\ Replay(log)[d] = Deleted => kv[d] = NoVal
        /\ Replay(log)[d] \in Vals => kv[d] = Replay(log)[d]
        /\ Replay(log)[d] = NoVal =>
             \A v \in Vals : Shows(Referenced, files, d, v) <=> kv[d] = v
    BY <1>1 DEF OnDisk, Recovers
  <2>2. Replay(log)[d] = NoVal => \A v \in Vals :
           Shows(Referenced, files, d, v) <=> Shows(DOMAIN segments, segments, d, v)
    BY <1>1 DEF Inv, InMemory, Aligned
  <2> QED
    BY <1>5, <2>1, <2>2
<1> QED
  BY <1>1, <1>4, <1>5, <1>6, <1>7 DEF OnDisk

LEMMA CommitFlushKeeps ==
    ASSUME Inv, CommitFlush
    PROVE  Inv'
<1>1. /\ mode = "open" /\ pc = "commit" /\ pc' = "checkpoint" /\ manifest' = EntryOf
      /\ UNCHANGED <<setting, log, synced, files, mode, memtable, rows, segments, nextId, cur,
                     chosen, fails, kv, maybe>>
  BY DEF CommitFlush, memory, ghosts
<1>2. TypeOK /\ InMemory /\ Ascending
  BY <1>1 DEF Inv, InMemory
<1>3. /\ OnDisk'
      /\ \A i : i \in Referenced' <=> \E k \in DOMAIN segments : segments[k].id = i
      /\ \A d, v : Shows(Referenced', files', d, v)
                      <=> Shows(DOMAIN segments, segments, d, v)
  BY <1>1, Committed
<1>4. TypeOK'
  BY <1>1, <1>2, EntryType DEF TypeOK
<1>5. Below'
  BY <1>1, <1>2, <1>3 DEF InMemory, Below
<1>6. Matching' /\ Ascending' /\ Once(DOMAIN segments, segments)'
  BY <1>1, <1>2 DEF InMemory, Matching, Ascending
<1>7. Aligned'
  BY <1>1, <1>3 DEF Aligned
<1>8. Buffered' /\ Compacted'
  BY <1>1, <1>2 DEF InMemory, Buffered, Compacted
<1>9. Flushed'
  BY <1>1, <1>2 DEF InMemory, Flushed
<1> QED
  BY <1>1, <1>2, <1>3, <1>4, <1>5, <1>6, <1>7, <1>8, <1>9 DEF Inv, InMemory

LEMMA CheckpointKeeps ==
    ASSUME Inv, Checkpoint
    PROVE  Inv'
<1>1. /\ mode = "open" /\ pc = "checkpoint" /\ pc' = "idle" /\ log' = <<>> /\ synced' = 0
      /\ memtable' = NoRows /\ rows' = 0 /\ nextId' = nextId + 1 /\ Remember({kv})
      /\ UNCHANGED <<setting, files, manifest, mode, segments, cur, chosen, fails, kv>>
  BY DEF Checkpoint
<1>2. TypeOK /\ InMemory /\ OnDisk /\ nextId <= MaxId /\ memtable = Replay(log)
  BY <1>1 DEF Inv, InMemory, Buffered
<1>3. Referenced' = Referenced
  BY <1>1 DEF Referenced
<1>4. TypeOK'
  <2>1. log' \in Seq(Write) /\ synced' \in 0..Len(log')
    BY <1>1
  <2>2. nextId' \in 1..(MaxId + 1)
    BY <1>1, <1>2, CollectionAssumption DEF TypeOK
  <2>3. maybe' \in SUBSET [Docs -> Vals \cup {NoVal}]
    BY <1>1, <1>2 DEF Remember, TypeOK
  <2> QED
    BY <1>1, <1>2, <2>1, <2>2, <2>3, FileTypes DEF TypeOK
<1>5. \A d \in Docs : Replay(log')[d] = NoVal /\ memtable'[d] = NoVal
  BY <1>1, ReplayEmpty DEF NoRows
<1>6. OnDisk'
  <2>1. FilesWhole' /\ Once(Referenced', files')
    BY <1>1, <1>2, <1>3 DEF OnDisk, FilesWhole
  <2>2. ASSUME NEW d \in Docs, NEW v \in Vals
        PROVE  Shows(Referenced, files, d, v) <=> kv[d] = v
    <3>1. Shows(Referenced, files, d, v) <=> Shows(DOMAIN segments, segments, d, v)
      BY <1>1, <1>2 DEF InMemory, Aligned
    <3>2. CASE memtable[d] = NoVal
      BY <1>2, <3>2 DEF OnDisk, Recovers
    <3>3. CASE memtable[d] # NoVal
      <4>1. Shows(DOMAIN segments, segments, d, v) <=> v = memtable[d]
        BY <1>1, <1>2, <3>3 DEF InMemory, Flushed
      <4>2. memtable[d] \in Vals => kv[d] = memtable[d]
        BY <1>2 DEF OnDisk, Recovers
      <4>3. memtable[d] = Deleted => kv[d] = NoVal
        BY <1>2 DEF OnDisk, Recovers
      <4>4. memtable[d] \in Vals \/ memtable[d] = Deleted
        BY <1>2, <3>3, EntryCases DEF TypeOK
      <4> QED
        BY <3>1, <4>1, <4>2, <4>3, <4>4, CollectionAssumption
    <3> QED
      BY <3>2, <3>3
  <2>3. Recovers'
    BY <1>1, <1>3, <1>5, <2>2, CollectionAssumption DEF Recovers
  <2> QED
    BY <2>1, <2>3 DEF OnDisk
<1>7. Below'
  <2>1. \A k \in DOMAIN segments : segments[k].id < nextId + 1
    <3>1. \A k \in DOMAIN segments : segments[k].id \in Nat
      BY <1>2, SegmentTypes, ReferencedIs
    <3>2. \A k \in DOMAIN segments : segments[k].id < nextId \/ segments[k].id = nextId
      BY <1>2 DEF InMemory, Below
    <3>3. nextId \in Nat
      BY <1>2 DEF TypeOK
    <3> QED
      BY <3>1, <3>2, <3>3
  <2>2. \A i \in Referenced : i < nextId + 1
    BY <1>1, <1>2, ReferencedIs DEF InMemory, Below, TypeOK
  <2> QED
    BY <1>1, <1>3, <2>1, <2>2 DEF Below
<1>8. Matching' /\ Ascending' /\ Once(DOMAIN segments, segments)'
  BY <1>1, <1>2 DEF InMemory, Matching, Ascending
<1>9. Aligned'
  BY <1>1, <1>2, <1>3 DEF InMemory, Aligned
<1>10. Buffered'
  BY <1>1, ReplayEmpty DEF Buffered
<1>11. Flushed' /\ Compacted'
  BY <1>1 DEF Flushed, Compacted
<1> QED
  BY <1>1, <1>4, <1>6, <1>7, <1>8, <1>9, <1>10, <1>11 DEF Inv, InMemory

LEMMA CommitRefusedKeeps ==
    ASSUME Inv, CommitRefused
    PROVE  Inv'
  BY DEF CommitRefused, Inv, InMemory

-------------------------------------------------------------------------------
(* Compacting. *)

LEMMA CompactKeeps ==
    ASSUME Inv, NEW percent, Compact(percent)
    PROVE  Inv'
<1>1. /\ mode = "open" /\ pc = "idle" /\ nextId <= MaxId /\ pc' = "compact_files"
      /\ files' = [files EXCEPT ![nextId] = PartialFiles] /\ chosen' = Chosen(percent)
      /\ UNCHANGED <<setting, log, synced, manifest, mode, memtable, rows, segments,
                     nextId, cur, fails, kv, maybe>>
  BY DEF Compact, Idle, Room, ghosts
<1>2. chosen' \subseteq DOMAIN segments
  BY <1>1 DEF Chosen
<1>3. chosen' \in SUBSET Nat
  BY <1>2, SegmentTypes DEF Inv
<1>4. Flushed'
  BY <1>1 DEF Flushed
<1>5. Compacted'
  BY <1>1, <1>2 DEF Compacted
<1> QED
  BY <1>1, <1>3, <1>4, <1>5, FileTypes, NextFilesKeep

LEMMA MergedIs ==
    ASSUME TypeOK, Once(DOMAIN segments, segments), chosen \subseteq DOMAIN segments
    PROVE  /\ Merged \in [Docs -> Vals \cup {NoVal}]
           /\ \A d \in Docs, v \in Vals : Shows(chosen, segments, d, v) <=> Merged[d] = v
<1>1. Once(chosen, segments) /\ chosen \in SUBSET Nat
  BY SegmentTypes DEF Once
<1>2. ASSUME NEW d \in Docs
      PROVE  /\ NewestRow(chosen, segments, d) \in Vals \cup {NoVal}
             /\ \A v \in Vals : Shows(chosen, segments, d, v)
                                  <=> NewestRow(chosen, segments, d) = v
  <2>1. \A i \in chosen : segments[i].rows[d] \in Vals \cup {NoVal}
    BY SegmentTypes
  <2> QED
    BY <1>1, <2>1, NewestRowIs
<1> QED
  BY <1>2 DEF Merged

LEMMA FinishCompactKeeps ==
    ASSUME Inv, FinishCompactFiles
    PROVE  Inv'
<1>1. /\ mode = "open" /\ pc = "compact_files" /\ pc' = "compact_swap"
      /\ files' = [files EXCEPT ![nextId] = FullFiles(Merged)]
      /\ UNCHANGED <<setting, log, synced, manifest, mode, memtable, rows, segments,
                     nextId, cur, chosen, fails, kv, maybe>>
  BY DEF FinishCompactFiles, memory, ghosts
<1>2. /\ nextId <= MaxId /\ nextId \in SegId /\ TypeOK
      /\ chosen \subseteq DOMAIN segments /\ Once(DOMAIN segments, segments)
  BY <1>1, CollectionAssumption DEF Inv, InMemory, Compacted, TypeOK, SegId
<1>3. FullFiles(Merged) \in SegmentFiles
  BY <1>2, MergedIs, FileTypes
<1>4. Flushed'
  BY <1>1 DEF Flushed
<1>5. Compacted'
  <2>1. files'[nextId] = FullFiles(Merged)
    BY <1>1, <1>2, <1>3, FilesWritten DEF TypeOK
  <2>2. Merged' = Merged
    BY <1>1 DEF Merged
  <2> QED
    BY <1>1, <1>2, <2>1, <2>2 DEF Compacted
<1>6. chosen' \in SUBSET Nat
  BY <1>1, <1>2 DEF TypeOK
<1> QED
  BY <1>1, <1>2, <1>3, <1>4, <1>5, <1>6, NextFilesKeep

\* The kept segments are the others, in their order.
LEMMA KeptIs ==
    ASSUME TypeOK
    PROVE  \E g :
             /\ Kept \in Seq(Segment)
             /\ \A k \in DOMAIN Kept :
                  /\ g[k] \in (DOMAIN segments) \ chosen
                  /\ Kept[k] = segments[g[k]]
             /\ \A j, k \in DOMAIN Kept : j < k => g[j] < g[k]
             /\ \A i \in (DOMAIN segments) \ chosen : \E k \in DOMAIN Kept : g[k] = i
<1> DEFINE D == (DOMAIN segments) \ chosen
           c == Cardinality(D)
           g == InOrder(D)
<1>1. D \in SUBSET Nat /\ IsFiniteSet(D)
  <2>1. IsFiniteSet(DOMAIN segments) /\ DOMAIN segments \subseteq Nat
    BY SegmentTypes
  <2> QED
    BY <2>1, FS_Subset
<1>2. /\ c \in Nat /\ g \in [1..c -> D]
      /\ \A i, j \in 1..c : i < j => g[i] < g[j]
      /\ \A s \in D : \E i \in 1..c : g[i] = s
  <2> HIDE DEF D
  <2> QED
    BY <1>1, InOrderIs
<1>3. Kept = [k \in DOMAIN g |-> segments[g[k]]]
  BY DEF Kept
<1> HIDE DEF g, c
<1>4. DOMAIN Kept = 1..c /\ \A k \in 1..c : g[k] \in D /\ Kept[k] = segments[g[k]]
  <2> HIDE DEF D
  <2> QED
    BY <1>2, <1>3
<1>5. Kept \in Seq(Segment)
  <2>1. \A k \in 1..c : Kept[k] \in Segment
    BY <1>4, SegmentTypes
  <2>2. Kept \in [1..c -> Segment]
    BY <1>2, <1>3, <1>4, <2>1
  <2> QED
    BY <1>2, <2>2, SeqDef
<1>6. /\ \A k \in DOMAIN Kept : g[k] \in D /\ Kept[k] = segments[g[k]]
      /\ \A j, k \in DOMAIN Kept : j < k => g[j] < g[k]
      /\ \A i \in D : \E k \in DOMAIN Kept : g[k] = i
  <2> HIDE DEF D
  <2> QED
    BY <1>2, <1>4
<1> QED
  BY <1>5, <1>6

LEMMA SwapKeeps ==
    ASSUME Inv, SwapSegments
    PROVE  Inv'
<1> DEFINE x == [id |-> nextId, rows |-> files[nextId].rows, dead |-> {}]
           D == (DOMAIN segments) \ chosen
<1>1. /\ mode = "open" /\ pc = "compact_swap" /\ pc' = "compact_commit"
      /\ chosen' = {segments[i].id : i \in chosen} /\ nextId' = nextId + 1
      /\ IF RowDocs(x) # {}
         THEN segments' = Append(Kept, x) /\ files' = files
         ELSE segments' = Kept /\ files' = [files EXCEPT ![nextId] = NoFiles]
      /\ UNCHANGED <<setting, log, synced, manifest, mode, memtable, rows, cur, fails, kv,
                     maybe>>
  BY DEF SwapSegments, ghosts
<1>2. /\ TypeOK /\ OnDisk /\ InMemory /\ Ascending /\ memtable = Replay(log)
      /\ nextId <= MaxId /\ nextId \in SegId /\ nextId \in Nat
      /\ chosen \subseteq DOMAIN segments /\ Once(DOMAIN segments, segments)
      /\ files[nextId] = FullFiles(Merged)
  BY <1>1, CollectionAssumption DEF Inv, InMemory, Buffered, Compacted, TypeOK, SegId
<1>3. /\ Merged \in [Docs -> Vals \cup {NoVal}]
      /\ \A d \in Docs, v \in Vals : Shows(chosen, segments, d, v) <=> Merged[d] = v
  BY <1>2, MergedIs
<1>4. /\ x \in Segment /\ x.id = nextId /\ x.rows = Merged /\ x.dead = {}
      /\ files[nextId].state = "full" /\ files[nextId].rows = Merged
      /\ files[nextId].dead = {} /\ ~files[nextId].torn
  BY <1>2, <1>3 DEF FullFiles, Segment
<1>5. PICK g :
        /\ Kept \in Seq(Segment)
        /\ \A k \in DOMAIN Kept : g[k] \in D /\ Kept[k] = segments[g[k]]
        /\ \A j, k \in DOMAIN Kept : j < k => g[j] < g[k]
        /\ \A i \in D : \E k \in DOMAIN Kept : g[k] = i
  BY <1>2, KeptIs
<1> HIDE DEF x, D
<1>6. \A i \in D : i \in DOMAIN segments /\ i \notin chosen
  BY DEF D
<1>7. \A k \in DOMAIN segments : segments[k].id < nextId /\ segments[k].id \in SegId
  BY <1>1, <1>2, SegmentTypes DEF InMemory, Below
<1>8. Once(DOMAIN Kept, Kept)
  <2> SUFFICES ASSUME NEW d \in Docs, NEW j \in DOMAIN Kept, NEW k \in DOMAIN Kept,
                      Holds(Kept[j], d), Holds(Kept[k], d), j # k
               PROVE  FALSE
    BY DEF Once
  <2>1. g[j] = g[k] /\ g[j] \in Nat
    BY <1>2, <1>5, <1>6, SegmentTypes DEF Once
  <2>2. j < k \/ k < j
    BY <1>5, DomainFinite
  <2> QED
    BY <1>5, <2>1, <2>2
<1>9. \A d, v : Shows(DOMAIN Kept, Kept, d, v) <=> Shows(D, segments, d, v)
  BY <1>5 DEF Shows
<1>10. \A d \in Docs, v \in Vals : Shows(DOMAIN segments, segments, d, v) <=>
         Shows(D, segments, d, v) \/ Merged[d] = v
  <2>1. \A d, v : Shows(DOMAIN segments, segments, d, v) <=>
          Shows(D, segments, d, v) \/ Shows(chosen, segments, d, v)
    BY <1>2 DEF Shows, D
  <2> QED
    BY <1>3, <2>1
<1>11. \A i \in SegId : i # nextId => files'[i] = files[i]
  <2>1. files \in [SegId -> SegmentFiles]
    BY <1>2 DEF TypeOK
  <2> QED
    BY <1>1, <1>2, <2>1, FilesWritten, FileTypes
<1>12. files' \in [SegId -> SegmentFiles]
  <2>1. files \in [SegId -> SegmentFiles]
    BY <1>2 DEF TypeOK
  <2> QED
    BY <1>1, <1>2, <2>1, FilesWritten, FileTypes
<1>13. Untouched
  BY <1>1, <1>11, NextIdFresh
<1>14. OnDisk'
  BY <1>1, <1>2, <1>13, DiskKept DEF Untouched
<1>15. \A k \in DOMAIN Kept :
         /\ Kept[k].id < nextId /\ Kept[k].id \in SegId
         /\ files'[Kept[k].id].state = "full"
         /\ files'[Kept[k].id].rows = Kept[k].rows
         /\ \E d \in Docs : Kept[k].rows[d] # NoVal
         /\ files'[Kept[k].id].dead = Kept[k].dead
         /\ ~files'[Kept[k].id].torn
         /\ Kept[k].id \notin chosen'
  <2> SUFFICES ASSUME NEW k \in DOMAIN Kept, NEW i \in DOMAIN segments, i = g[k],
                      i \notin chosen
               PROVE  /\ segments[i].id < nextId /\ segments[i].id \in SegId
                      /\ files'[segments[i].id].state = "full"
                      /\ files'[segments[i].id].rows = segments[i].rows
                      /\ \E d \in Docs : segments[i].rows[d] # NoVal
                      /\ files'[segments[i].id].dead = segments[i].dead
                      /\ ~files'[segments[i].id].torn
                      /\ segments[i].id \notin chosen'
    BY <1>5, <1>6
  <2>1. files'[segments[i].id] = files[segments[i].id]
    BY <1>13 DEF Untouched
  <2>2. /\ files[segments[i].id].state = "full"
        /\ files[segments[i].id].rows = segments[i].rows
        /\ \E d \in Docs : segments[i].rows[d] # NoVal
        /\ files[segments[i].id].dead = segments[i].dead
        /\ ~files[segments[i].id].torn
    BY <1>1, <1>2 DEF InMemory, Matching
  <2>3. segments[i].id \notin chosen'
    BY <1>1, <1>2, DistinctIds
  <2> QED
    BY <1>7, <2>1, <2>2, <2>3
<1>16. \A j, k \in DOMAIN Kept : j < k => Kept[j].id < Kept[k].id
  BY <1>2, <1>5, <1>6 DEF Ascending
<1>17. nextId \notin chosen'
  BY <1>1, <1>2, <1>7
<1>18. chosen' \in SUBSET Nat /\ nextId' \in 1..(MaxId + 1)
  <2>1. chosen' \in SUBSET Nat
    BY <1>1, <1>2, <1>7, ReferencedIs
  <2>2. nextId' \in 1..(MaxId + 1)
    BY <1>1, <1>2, CollectionAssumption DEF SegId
  <2> QED
    BY <2>1, <2>2
<1>19. /\ segments' \in Seq(Segment)
       /\ Once(DOMAIN segments', segments')
       /\ \A d \in Docs, v \in Vals :
            Shows(DOMAIN segments', segments', d, v) <=> Shows(DOMAIN segments, segments, d, v)
       /\ \A k \in DOMAIN segments' :
            /\ segments'[k].id < nextId'
            /\ files'[segments'[k].id].state = "full"
            /\ files'[segments'[k].id].rows = segments'[k].rows
            /\ \E d \in Docs : segments'[k].rows[d] # NoVal
            /\ files'[segments'[k].id].dead = segments'[k].dead
            /\ ~files'[segments'[k].id].torn
            /\ segments'[k].id \notin chosen'
       /\ \A j, k \in DOMAIN segments' : j < k => segments'[j].id < segments'[k].id
  <2>1. \A k \in DOMAIN Kept : Kept[k].id < nextId'
    <3>1. \A k \in DOMAIN Kept : Kept[k].id < nextId /\ Kept[k].id \in Nat
      BY <1>15, ReferencedIs
    <3>2. nextId' = nextId + 1 /\ nextId \in Nat
      BY <1>1, <1>2
    <3> QED
      BY <3>1, <3>2
  <2>2. CASE RowDocs(x) # {}
    <3>1. segments' = Append(Kept, x) /\ files' = files
      BY <1>1, <2>2
    <3> DEFINE m == Len(Kept) + 1
    <3>2. /\ segments' \in Seq(Segment)
          /\ DOMAIN Kept = 1..Len(Kept) /\ DOMAIN segments' = 1..m
          /\ Len(Kept) \in Nat
          /\ \A k \in DOMAIN Kept : segments'[k] = Kept[k] /\ k # m
          /\ segments'[m] = x /\ m \in DOMAIN segments'
          /\ \A k \in DOMAIN segments' : k \in DOMAIN Kept \/ k = m
      BY <1>4, <1>5, <3>1, AppendIs
    <3>3. \A d \in Docs : Holds(x, d) <=> Merged[d] # NoVal
      BY <1>4 DEF Holds
    <3>4. \A d \in Docs, k \in DOMAIN Kept : ~(Holds(Kept[k], d) /\ Holds(x, d))
      <4> SUFFICES ASSUME NEW d \in Docs, NEW k \in DOMAIN Kept, Holds(Kept[k], d), Holds(x, d)
                   PROVE  FALSE
        OBVIOUS
      <4>1. Shows(chosen, segments, d, Merged[d])
        BY <1>3, <3>3
      <4>2. PICK i \in chosen : Holds(segments[i], d)
        BY <4>1 DEF Shows
      <4>3. g[k] \in DOMAIN segments /\ g[k] \notin chosen /\ Holds(segments[g[k]], d)
        BY <1>5, <1>6
      <4> QED
        BY <1>2, <4>2, <4>3 DEF Once
    <3>5. /\ Once(DOMAIN segments', segments')
          /\ \A d, v : Shows(DOMAIN segments', segments', d, v) <=>
               Shows(DOMAIN Kept, Kept, d, v) \/ (Holds(x, d) /\ x.rows[d] = v)
      <4>1. x \in Segment /\ Kept \in Seq(Segment)
        BY <1>4, <1>5
      <4> QED
        BY <1>8, <3>1, <3>4, <4>1, AppendShows
    <3>6. \A d \in Docs, v \in Vals :
            Shows(DOMAIN segments', segments', d, v) <=> Shows(DOMAIN segments, segments, d, v)
      BY <1>4, <1>9, <1>10, <3>3, <3>5, CollectionAssumption
    <3>7. ASSUME NEW k \in DOMAIN segments'
          PROVE  /\ segments'[k].id < nextId'
                 /\ files'[segments'[k].id].state = "full"
                 /\ files'[segments'[k].id].rows = segments'[k].rows
                 /\ \E d \in Docs : segments'[k].rows[d] # NoVal
                 /\ files'[segments'[k].id].dead = segments'[k].dead
                 /\ ~files'[segments'[k].id].torn
                 /\ segments'[k].id \notin chosen'
      <4>1. CASE k \in DOMAIN Kept
        BY <1>15, <2>1, <3>2, <4>1
      <4>2. CASE k = m
        <5>1. \E d \in Docs : x.rows[d] # NoVal
          BY <2>2 DEF RowDocs
        <5>2. nextId < nextId'
          BY <1>1, <1>2
        <5> QED
          BY <1>4, <1>17, <3>1, <3>2, <4>2, <5>1, <5>2
      <4> QED
        BY <3>2, <4>1, <4>2
    <3>8. ASSUME NEW j \in DOMAIN segments', NEW k \in DOMAIN segments', j < k
          PROVE  segments'[j].id < segments'[k].id
      <4>1. j \in DOMAIN Kept
        BY <3>2, <3>8
      <4>2. CASE k \in DOMAIN Kept
        BY <1>16, <3>2, <3>8, <4>1, <4>2
      <4>3. CASE k = m
        BY <1>4, <1>15, <3>2, <4>1, <4>3
      <4> QED
        BY <3>2, <4>2, <4>3
    <3> QED
      BY <3>2, <3>5, <3>6, <3>7, <3>8
  <2>3. CASE RowDocs(x) = {}
    <3>1. segments' = Kept
      BY <1>1, <2>3
    <3>2. \A d \in Docs, v \in Vals : Merged[d] # v
      BY <1>4, <2>3, CollectionAssumption DEF RowDocs
    <3>3. \A d \in Docs, v \in Vals :
            Shows(DOMAIN segments', segments', d, v) <=> Shows(DOMAIN segments, segments, d, v)
      BY <1>9, <1>10, <3>1, <3>2
    <3> QED
      BY <1>5, <1>8, <1>15, <1>16, <2>1, <3>1, <3>3
  <2> QED
    BY <2>2, <2>3
<1>20. TypeOK'
  BY <1>1, <1>2, <1>12, <1>18, <1>19 DEF TypeOK
<1>21. Below'
  <2>1. \A i \in Referenced : i < nextId'
    BY <1>1, <1>2, ReferencedIs DEF InMemory, Below
  <2> QED
    BY <1>13, <1>19, <2>1 DEF Below, Untouched
<1>22. Matching'
  BY <1>1, <1>19 DEF Matching
<1>23. Ascending'
  BY <1>19 DEF Ascending
<1>24. Aligned'
  <2> SUFFICES ASSUME NEW d \in Docs, memtable[d] = NoVal, NEW v \in Vals
               PROVE  Shows(Referenced', files', d, v)
                         <=> Shows(DOMAIN segments', segments', d, v)
    BY <1>1 DEF Aligned
  <2>1. Shows(Referenced', files', d, v) <=> Shows(Referenced, files, d, v)
    BY <1>13 DEF Shows, Untouched
  <2>2. Shows(Referenced, files, d, v) <=> Shows(DOMAIN segments, segments, d, v)
    BY <1>2 DEF InMemory, Aligned
  <2> QED
    BY <1>19, <2>1, <2>2
<1>25. Buffered' /\ Flushed'
  BY <1>1, <1>2 DEF Buffered, Flushed
<1>26. Compacted'
  BY <1>1, <1>19 DEF Compacted
<1> QED
  BY <1>1, <1>14, <1>19, <1>20, <1>21, <1>22, <1>23, <1>24, <1>25, <1>26 DEF Inv, InMemory

LEMMA CommitCompactKeeps ==
    ASSUME Inv, CommitCompact
    PROVE  Inv'
<1>1. /\ mode = "open" /\ pc = "compact_commit" /\ pc' = "compact_remove"
      /\ manifest' = EntryOf
      /\ UNCHANGED <<setting, log, synced, files, mode, memtable, rows, segments, nextId, cur,
                     chosen, fails, kv, maybe>>
  BY DEF CommitCompact, memory, ghosts
<1>2. TypeOK /\ InMemory /\ Ascending
  BY <1>1 DEF Inv, InMemory
<1>3. /\ OnDisk'
      /\ \A i : i \in Referenced' <=> \E k \in DOMAIN segments : segments[k].id = i
      /\ \A d, v : Shows(Referenced', files', d, v)
                      <=> Shows(DOMAIN segments, segments, d, v)
  BY <1>1, Committed
<1>4. TypeOK'
  BY <1>1, <1>2, EntryType DEF TypeOK
<1>5. Below'
  BY <1>1, <1>2, <1>3 DEF InMemory, Below
<1>6. Matching' /\ Ascending' /\ Once(DOMAIN segments, segments)'
  BY <1>1, <1>2 DEF InMemory, Matching, Ascending
<1>7. Aligned'
  BY <1>1, <1>3 DEF Aligned
<1>8. Buffered' /\ Flushed'
  BY <1>1, <1>2 DEF InMemory, Buffered, Flushed
<1>9. Compacted'
  BY <1>1, <1>2, <1>3 DEF InMemory, Compacted
<1> QED
  BY <1>1, <1>3, <1>4, <1>5, <1>6, <1>7, <1>8, <1>9 DEF Inv, InMemory

LEMMA RemoveOldKeeps ==
    ASSUME Inv, RemoveOld
    PROVE  Inv'
<1>1. /\ mode = "open" /\ pc = "compact_remove" /\ pc' = "idle" /\ chosen' = {}
      /\ files' = [i \in SegId |-> IF i \in chosen THEN NoFiles ELSE files[i]]
      /\ UNCHANGED <<setting, log, synced, manifest, mode, memtable, rows, segments, nextId,
                     cur, fails, kv, maybe>>
  BY DEF RemoveOld, ghosts
<1>2. TypeOK /\ InMemory /\ OnDisk
  BY <1>1 DEF Inv
<1>3. Untouched
  <2>1. Referenced' = Referenced
    BY <1>1 DEF Referenced
  <2>2. \A i \in Referenced : files'[i] = files[i]
    BY <1>1, <1>2, ReferencedIs DEF InMemory, Compacted
  <2>3. \A k \in DOMAIN segments : files'[segments[k].id] = files[segments[k].id]
    BY <1>1, <1>2, SegmentTypes DEF InMemory, Compacted
  <2> QED
    BY <2>1, <2>2, <2>3 DEF Untouched
<1>4. TypeOK'
  <2>1. files' \in [SegId -> SegmentFiles]
    BY <1>1, <1>2, FileTypes DEF TypeOK
  <2> QED
    BY <1>1, <1>2, <2>1 DEF TypeOK
<1>5. OnDisk'
  BY <1>1, <1>2, <1>3, DiskKept DEF Untouched
<1>6. /\ Below' /\ Matching' /\ Ascending'
      /\ Once(DOMAIN segments, segments)' /\ Aligned'
  BY <1>1, <1>3, ListKept
<1>7. Buffered' /\ Flushed' /\ Compacted'
  BY <1>1, <1>2 DEF InMemory, Buffered, Flushed, Compacted
<1> QED
  BY <1>1, <1>4, <1>5, <1>6, <1>7 DEF Inv, InMemory

-------------------------------------------------------------------------------
(* Failures and recovery. *)

LEMMA IoErrorKeeps ==
    ASSUME HandledErrors, Inv, IoError
    PROVE  Inv'
<1>1. /\ mode = "open" /\ pc \in setting.io /\ fails < MaxFailures
      /\ cur' = 0 /\ chosen' = {} /\ pc' = "idle" /\ fails' = fails + 1
      /\ UNCHANGED <<setting, files, mode, memtable, rows, nextId, kv, maybe>>
  BY DEF IoError, ghosts
<1>2. TypeOK /\ InMemory /\ OnDisk /\ Ascending
  BY <1>1 DEF Inv, InMemory
<1>3. pc \in {"files", "supersede", "compact_files", "compact_commit", "compact_remove"}
  BY <1>1, <1>2 DEF HandledErrors, TypeOK
<1>4. log' = log /\ synced' = synced /\ segments' = segments
  BY <1>3 DEF IoError
<1>5. manifest' = manifest \/ (pc = "compact_commit" /\ manifest' = EntryOf)
  BY <1>3 DEF IoError
<1>6. TypeOK'
  <2>1. manifest' \in [rows : [SegId -> Nat], live : Nat]
    BY <1>2, <1>5, EntryType DEF TypeOK
  <2>2. fails' \in 0..MaxFailures
    BY <1>1, <1>2, CollectionAssumption DEF TypeOK
  <2> QED
    BY <1>1, <1>2, <1>4, <2>1, <2>2 DEF TypeOK
<1>7. Buffered' /\ Flushed' /\ Compacted'
  BY <1>1, <1>2, <1>3, <1>4 DEF InMemory, Buffered, Flushed, Compacted
<1>8. CASE manifest' = manifest
  <2>1. Referenced' = Referenced
    BY <1>8 DEF Referenced
  <2>2. Untouched
    BY <1>1, <2>1 DEF Untouched
  <2>3. OnDisk'
    BY <1>1, <1>2, <1>4, <1>8, <2>2, DiskKept DEF Untouched
  <2>4. /\ Below' /\ Matching' /\ Ascending'
        /\ Once(DOMAIN segments, segments)' /\ Aligned'
    BY <1>1, <1>3, <1>4, <2>2, ListKept
  <2> QED
    BY <1>1, <1>6, <1>7, <2>3, <2>4 DEF Inv, InMemory
<1>9. CASE pc = "compact_commit" /\ manifest' = EntryOf
  <2>1. /\ OnDisk'
        /\ \A i : i \in Referenced' <=> \E k \in DOMAIN segments : segments[k].id = i
        /\ \A d, v : Shows(Referenced', files', d, v)
                        <=> Shows(DOMAIN segments, segments, d, v)
    BY <1>1, <1>4, <1>9, Committed
  <2>2. Below'
    BY <1>1, <1>2, <1>4, <1>9, <2>1 DEF InMemory, Below
  <2>3. Matching' /\ Ascending' /\ Once(DOMAIN segments, segments)'
    BY <1>1, <1>2, <1>4, <1>9 DEF InMemory, Matching, Ascending
  <2>4. Aligned'
    BY <1>1, <1>4, <2>1 DEF Aligned
  <2> QED
    BY <1>1, <1>6, <1>7, <2>1, <2>2, <2>3, <2>4 DEF Inv, InMemory
<1> QED
  BY <1>5, <1>8, <1>9

LEMMA ForgetTypes ==
    ASSUME TypeOK, ForgetMemory, fails < MaxFailures
    PROVE  /\ mode' = "down" /\ pc' = "idle" /\ memtable' \in Write /\ rows' \in Nat
           /\ segments' \in Seq(Segment) /\ nextId' \in 1..(MaxId + 1) /\ cur' \in Nat
           /\ chosen' \in SUBSET Nat /\ fails' \in 0..MaxFailures
<1>1. fails' \in 0..MaxFailures
  BY CollectionAssumption DEF ForgetMemory, TypeOK
<1>2. nextId' \in 1..(MaxId + 1)
  BY CollectionAssumption DEF ForgetMemory
<1> QED
  BY <1>1, <1>2, FileTypes DEF ForgetMemory

LEMMA KilledKeeps ==
    ASSUME Inv, Killed
    PROVE  Inv'
<1>1. /\ ForgetMemory /\ fails < MaxFailures
      /\ UNCHANGED <<setting, log, synced, files, manifest, kv, maybe>>
  BY DEF Killed, disk, ghosts
<1>2. TypeOK /\ OnDisk
  BY DEF Inv
<1>3. TypeOK'
  BY <1>1, <1>2, ForgetTypes DEF TypeOK
<1>4. Referenced' = Referenced
  BY <1>1 DEF Referenced
<1>5. OnDisk'
  BY <1>1, <1>2, <1>4, DiskKept
<1> QED
  BY <1>1, <1>2, <1>3, <1>5, ForgetTypes DEF Inv

\* The files a power loss may leave differ in one bitmap.
LEMMA SurvivingFilesAre ==
    ASSUME Inv, mode = "open", NEW f \in SurvivingFiles
    PROVE  /\ f \in [SegId -> SegmentFiles]
           /\ \A i \in SegId :
                /\ f[i].state = files[i].state
                /\ f[i].rows = files[i].rows
                /\ files[i].dead \subseteq f[i].dead
                /\ \A d \in f[i].dead \ files[i].dead : memtable[d] # NoVal
<1>1. files \in [SegId -> SegmentFiles] /\ TypeOK
  BY DEF Inv, TypeOK
<1>2. CASE f = files
  BY <1>1, <1>2
<1>3. CASE f # files
  <2> DEFINE n == segments[cur].id
             s == segments[cur].dead
             x == [files[n] EXCEPT !.torn = FALSE]
             y == [files[n] EXCEPT !.torn = FALSE, !.dead = s]
  <2>1. /\ pc = "rewrite"
        /\ \/ f = [files EXCEPT ![n].torn = FALSE]
           \/ f = [files EXCEPT ![n].torn = FALSE, ![n].dead = s]
    BY <1>3 DEF SurvivingFiles
  <2>2. cur \in DOMAIN segments /\ n \in SegId /\ s \in SUBSET Docs
    BY <1>1, <2>1, SegmentTypes DEF Inv, InMemory, Flushed
  <2>3. /\ files[n].dead \subseteq s
        /\ \A d \in s \ files[n].dead : memtable[d] # NoVal
    BY <2>1, <2>2 DEF Inv, InMemory, Matching
  <2> HIDE DEF n, s
  <2>4. files[n] \in SegmentFiles
    BY <1>1, <2>2
  <2>5. /\ x \in SegmentFiles /\ y \in SegmentFiles
        /\ x.state = files[n].state /\ x.rows = files[n].rows /\ x.dead = files[n].dead
        /\ y.state = files[n].state /\ y.rows = files[n].rows /\ y.dead = s
    BY <2>2, <2>4 DEF SegmentFiles
  <2>6. f = [files EXCEPT ![n] = x] \/ f = [files EXCEPT ![n] = y]
    BY <1>1, <2>1, <2>2
  <2> HIDE DEF x, y
  <2>7. CASE f = [files EXCEPT ![n] = x]
    BY <1>1, <2>2, <2>5, <2>7, FilesWritten
  <2>8. CASE f = [files EXCEPT ![n] = y]
    BY <1>1, <2>2, <2>3, <2>5, <2>8, FilesWritten
  <2> QED
    BY <2>6, <2>7, <2>8
<1> QED
  BY <1>2, <1>3

LEMMA PowerLossKeeps ==
    ASSUME Inv, PowerLoss
    PROVE  Inv'
<1>1. /\ mode = "open" /\ ForgetMemory /\ fails < MaxFailures
      /\ log' \in Survivors /\ files' \in SurvivingFiles /\ synced' = Len(log')
      /\ kv' = Contents(log', files') /\ maybe' = {kv'} /\ UNCHANGED <<setting, manifest>>
  BY DEF PowerLoss
<1>2. TypeOK /\ OnDisk
  BY DEF Inv
<1>3. /\ files' \in [SegId -> SegmentFiles]
      /\ \A i \in SegId :
           /\ files'[i].state = files[i].state
           /\ files'[i].rows = files[i].rows
           /\ files[i].dead \subseteq files'[i].dead
  BY <1>1, SurvivingFilesAre
<1>4. log' \in Seq(Write) /\ Len(log') \in Nat
  <2>1. PICK k \in synced..Len(log) : log' = SubSeq(log, 1, k)
    BY <1>1 DEF Survivors
  <2>2. log \in Seq(Write) /\ Len(log) \in Nat /\ synced \in Nat
    BY <1>2, LenProperties DEF TypeOK
  <2>3. \A i \in 1..k : log[i] \in Write
    BY <2>2, ElementOfSeq
  <2>4. log' \in Seq(Write)
    BY <2>1, <2>2, <2>3, SubSeqProperties
  <2> QED
    BY <2>4, LenProperties
<1>5. Referenced' = Referenced
  BY <1>1 DEF Referenced
<1>6. Once(Referenced, files')
  <2>1. \A i \in Referenced :
          files'[i].rows = files[i].rows /\ files[i].dead \subseteq files'[i].dead
    BY <1>3, ReferencedIs
  <2>2. Once(Referenced, files)
    BY <1>2 DEF OnDisk
  <2> QED
    BY <2>1, <2>2, OnceAges
<1>7. /\ kv' \in [Docs -> Vals \cup {NoVal}]
      /\ \A d \in Docs :
           /\ Replay(log')[d] = Deleted => kv'[d] = NoVal
           /\ Replay(log')[d] \in Vals => kv'[d] = Replay(log')[d]
           /\ Replay(log')[d] = NoVal =>
                \A v \in Vals : Shows(Referenced, files', d, v) <=> kv'[d] = v
  <2> DEFINE l == log'
             f == files'
  <2>1. l \in Seq(Write) /\ f \in [SegId -> SegmentFiles] /\ Once(Referenced, f)
    BY <1>3, <1>4, <1>6
  <2>2. kv' = Contents(l, f)
    BY <1>1
  <2> HIDE DEF l, f
  <2>3. /\ kv' \in [Docs -> Vals \cup {NoVal}]
        /\ \A d \in Docs :
             /\ Replay(l)[d] = Deleted => kv'[d] = NoVal
             /\ Replay(l)[d] \in Vals => kv'[d] = Replay(l)[d]
             /\ Replay(l)[d] = NoVal =>
                  \A v \in Vals : Shows(Referenced, f, d, v) <=> kv'[d] = v
    BY <2>1, <2>2, ContentsIs
  <2> QED
    BY <2>3 DEF l, f
<1>8. FilesWhole'
  BY <1>1, <1>2, <1>3, <1>5, ReferencedIs DEF OnDisk, FilesWhole, RowDocs
<1>9. Recovers'
  BY <1>5, <1>7 DEF Recovers
<1>10. OnDisk'
  BY <1>5, <1>6, <1>8, <1>9 DEF OnDisk
<1>11. TypeOK'
  <2>1. synced' \in 0..Len(log') /\ maybe' \in SUBSET [Docs -> Vals \cup {NoVal}]
    BY <1>1, <1>4, <1>7
  <2> QED
    BY <1>1, <1>2, <1>3, <1>4, <1>7, <2>1, ForgetTypes DEF TypeOK
<1> QED
  BY <1>1, <1>2, <1>10, <1>11, ForgetTypes DEF Inv

LEMMA OpenKeeps ==
    ASSUME Inv, Open
    PROVE  Inv'
<1> DEFINE R == Referenced
           c == Cardinality(R)
           o == InOrder(R)
<1>1. /\ mode = "down" /\ Openable /\ mode' = "open"
      /\ files' = [i \in SegId |-> IF i \in R THEN files[i] ELSE NoFiles]
      /\ segments' = OpenedSegments /\ memtable' = Replay(log)
      /\ rows' = ReplayedRows(log)
      /\ nextId' = IF R = {} THEN 1 ELSE HighestId(R) + 1
      /\ UNCHANGED <<setting, log, synced, manifest, pc, cur, chosen, fails, kv, maybe>>
  BY DEF Open, ghosts
<1>2. TypeOK /\ OnDisk /\ pc = "idle" /\ pc' = "idle"
  BY <1>1 DEF Inv
<1>3. R' = R
  BY <1>1 DEF Referenced
<1>4. R \in SUBSET Nat /\ R \subseteq SegId /\ IsFiniteSet(R)
  BY ReferencedIs
<1>5. OpenedSegments = [k \in DOMAIN o |-> [id |-> o[k], rows |-> files[o[k]].rows,
                                            dead |-> files[o[k]].dead]]
  BY DEF OpenedSegments
<1>6. \A i \in R : /\ files[i].state = "full" /\ ~files[i].torn
                   /\ Cardinality(RowDocs(files[i])) = manifest.rows[i]
                   /\ manifest.rows[i] > 0 /\ manifest.rows[i] \in Nat
  BY <1>1, <1>2, <1>4 DEF Openable, Referenced, TypeOK
<1> HIDE DEF R
<1>7. /\ c \in Nat /\ o \in [1..c -> R]
      /\ \A i, j \in 1..c : i < j => o[i] < o[j]
      /\ \A i \in R : \E k \in 1..c : o[k] = i
  BY <1>4, InOrderIs
<1> HIDE DEF o, c
<1>8. /\ DOMAIN segments' = 1..c
      /\ \A k \in 1..c : /\ o[k] \in R /\ segments'[k].id = o[k]
                         /\ segments'[k].rows = files[o[k]].rows
                         /\ segments'[k].dead = files[o[k]].dead
                         /\ segments'[k] \in Segment
  <2>1. DOMAIN segments' = 1..c
    BY <1>1, <1>5, <1>7
  <2>2. ASSUME NEW k \in 1..c
        PROVE  /\ o[k] \in R /\ segments'[k].id = o[k]
               /\ segments'[k].rows = files[o[k]].rows
               /\ segments'[k].dead = files[o[k]].dead
               /\ segments'[k] \in Segment
    <3>1. o[k] \in R /\ o[k] \in SegId
      BY <1>4, <1>7
    <3>2. segments'[k] = [id |-> o[k], rows |-> files[o[k]].rows, dead |-> files[o[k]].dead]
      BY <1>1, <1>5, <1>7
    <3>3. files[o[k]] \in SegmentFiles
      BY <1>2, <3>1 DEF TypeOK
    <3> QED
      BY <3>1, <3>2, <3>3, FileTypes DEF Segment
  <2> QED
    BY <2>1, <2>2
<1>9. files' \in [SegId -> SegmentFiles] /\ \A i \in R : files'[i] = files[i]
  BY <1>1, <1>2, <1>4, FileTypes DEF TypeOK
<1>10. /\ nextId' \in 1..(MaxId + 1)
       /\ \A i \in R : i < nextId'
  <2>1. CASE R = {}
    BY <1>1, <2>1, CollectionAssumption
  <2>2. CASE R # {}
    <3>1. HighestId(R) \in R /\ \A i \in R : i <= HighestId(R)
      BY <1>4, <2>2, HighestOfFinite
    <3>2. nextId' = HighestId(R) + 1
      BY <1>1, <2>2
    <3>3. HighestId(R) \in 1..MaxId
      BY <1>4, <3>1 DEF SegId
    <3> QED
      BY <1>4, <3>1, <3>2, <3>3, CollectionAssumption
  <2> QED
    BY <2>1, <2>2
<1>11. TypeOK'
  <2>1. segments' \in Seq(Segment)
    <3>1. segments' \in [1..c -> Segment]
      BY <1>1, <1>5, <1>7, <1>8
    <3> QED
      BY <1>7, <3>1, SeqDef
  <2>2. memtable' \in Write /\ rows' \in Nat
    BY <1>1, <1>2, ReplayType, WriteTypes DEF TypeOK
  <2> QED
    BY <1>1, <1>2, <1>9, <1>10, <2>1, <2>2 DEF TypeOK
<1>12. OnDisk'
  BY <1>1, <1>2, <1>3, <1>9, DiskKept DEF R
<1>13. Below'
  BY <1>2, <1>3, <1>8, <1>10 DEF Below, R
<1>14. Matching'
  <2> SUFFICES ASSUME NEW k \in 1..c
               PROVE  /\ files'[segments'[k].id].state = "full"
                      /\ files'[segments'[k].id].rows = segments'[k].rows
                      /\ \E d \in Docs : segments'[k].rows[d] # NoVal
                      /\ files'[segments'[k].id].dead = segments'[k].dead
                      /\ ~files'[segments'[k].id].torn
    BY <1>2, <1>8 DEF Matching
  <2>1. o[k] \in R /\ files'[o[k]] = files[o[k]]
    BY <1>8, <1>9
  <2>2. Cardinality(RowDocs(files[o[k]])) > 0
    BY <1>6, <2>1
  <2>3. \E d \in Docs : files[o[k]].rows[d] # NoVal
    BY <2>2, RowCounts
  <2> QED
    BY <1>6, <1>8, <2>1, <2>3
<1>15. Ascending'
  BY <1>7, <1>8 DEF Ascending
<1>16. /\ Once(R, files') <=> Once(DOMAIN segments', segments')
       /\ \A d, v : Shows(R, files', d, v) <=> Shows(DOMAIN segments', segments', d, v)
  <2> DEFINE D == DOMAIN segments'
             s == segments'
             f == files'
  <2>1. /\ \A k \in D : s[k].id \in R
        /\ \A i \in R : \E k \in D : s[k].id = i
        /\ \A k \in D : s[k].rows = f[s[k].id].rows /\ s[k].dead = f[s[k].id].dead
    BY <1>7, <1>8, <1>9
  <2>2. \A j, k \in D : s[j].id = s[k].id => j = k
    <3> SUFFICES ASSUME NEW j \in 1..c, NEW k \in 1..c, o[j] = o[k], j # k
                 PROVE  FALSE
      BY <1>8
    <3>1. j < k \/ k < j
      BY <1>7
    <3>2. o[j] \in Nat
      BY <1>4, <1>7
    <3> QED
      BY <1>7, <3>1, <3>2
  <2> HIDE DEF D, s, f
  <2>3. /\ Once(R, f) <=> Once(D, s)
        /\ \A d, v : Shows(R, f, d, v) <=> Shows(D, s, d, v)
    BY <2>1, <2>2, Enumerated
  <2> QED
    BY <2>3 DEF D, s, f
<1>17. Once(DOMAIN segments, segments)'
  BY <1>3, <1>12, <1>16 DEF OnDisk, R
<1>18. Aligned'
  BY <1>3, <1>16 DEF Aligned, R
<1>19. Buffered' /\ Flushed' /\ Compacted'
  BY <1>1, <1>2 DEF Buffered, Flushed, Compacted
<1> QED
  BY <1>1, <1>2, <1>11, <1>12, <1>13, <1>14, <1>15, <1>17, <1>18, <1>19 DEF Inv, InMemory

LEMMA InvInit == Init => Inv
<1> SUFFICES ASSUME Init PROVE Inv
  OBVIOUS
<1>1. TypeOK
  BY CollectionAssumption, FileTypes DEF Init, TypeOK
<1>2. Referenced = {}
  BY DEF Init, Referenced
<1>3. \A d, v : ~Shows(Referenced, files, d, v) /\ ~Shows(DOMAIN segments, segments, d, v)
  BY <1>2 DEF Init, Shows
<1>4. log = <<>> /\ \A d \in Docs : Replay(log)[d] = NoVal /\ kv[d] = NoVal
  BY ReplayEmpty DEF Init, NoRows
<1>5. OnDisk
  BY <1>2, <1>3, <1>4, CollectionAssumption DEF OnDisk, FilesWhole, Once, Recovers
<1>6. InMemory
  BY <1>2, <1>3, <1>4, ReplayEmpty
     DEF Init, InMemory, Below, Matching, Ascending, Once, Aligned, Buffered, Flushed, Compacted
<1> QED
  BY <1>1, <1>5, <1>6 DEF Inv, Init

LEMMA InvNext ==
    ASSUME HandledErrors, Inv, [Next]_vars
    PROVE  Inv'
<1>1. ASSUME NEW d \in Docs, NEW v \in Vals, Insert(d, v) \/ Upsert(d, v)
      PROVE  Inv'
  <2>1. LogWrite(Put(d, v), setting.durability = "full")
    BY <1>1 DEF Insert, Upsert
  <2> QED
    BY <2>1, PutTypes, LogWriteKeeps
<1>2. ASSUME NEW d \in Docs, Delete(d) PROVE Inv'
  BY <1>2, PutTypes, LogWriteKeeps DEF Delete
<1>3. ASSUME NEW w \in Batches, WriteBatch(w) PROVE Inv'
  <2>1. w \in Write
    BY CollectionAssumption
  <2> DEFINE b == setting.durability \in {"full", "batch"}
  <2>2. b \in BOOLEAN /\ LogWrite(w, b)
    BY <1>3 DEF WriteBatch
  <2> HIDE DEF b
  <2> QED
    BY <2>1, <2>2, LogWriteKeeps
<1>4. ASSUME NEW p \in setting.percents, Compact(p) PROVE Inv'
  BY <1>4, CompactKeeps
<1>5. CASE UNCHANGED vars
  <2>1. Inv' <=> Inv
    BY <1>5 DEF vars, Inv, TypeOK, OnDisk, FilesWhole, Recovers, Referenced, InMemory, Below,
               Matching, Ascending, Aligned, Buffered, Flushed, Compacted, LiveRows, Merged
  <2> QED
    BY <2>1
<1> QED
  BY <1>1, <1>2, <1>3, <1>4, <1>5, FlushKeeps, SyncKeeps, FinishFilesKeeps, KillRowsKeeps,
     TruncateKeeps, RewriteKeeps, PushKeeps, CommitFlushKeeps, CommitRefusedKeeps, CheckpointKeeps,
     FinishCompactKeeps, SwapKeeps, CommitCompactKeeps, RemoveOldKeeps, IoErrorKeeps,
     KilledKeeps, PowerLossKeeps, OpenKeeps
     DEF Next, WriteStep, FlushStep, CompactStep

LEMMA Invariance ==
    ASSUME HandledErrors
    PROVE  Spec => []Inv
<1>1. Inv /\ [Next]_vars => Inv'
  BY InvNext
<1> QED
  BY <1>1, InvInit, PTL DEF Spec

-------------------------------------------------------------------------------
(* Files and row counts, where no storage call returns an error. *)

\* Files on disk belong to an opened segment, to the segment being written or
\* to those being removed.
Owned(i) ==
    \/ \E k \in DOMAIN segments : segments[k].id = i
    \/ i = nextId /\ pc \in {"files", "supersede", "persist", "rewrite", "compact_files", "compact_swap"}
    \/ i \in chosen /\ pc \in {"compact_commit", "compact_remove"}

Tidy ==
    StorageSound /\ mode = "open" =>
        /\ pc \notin {"commit", "compact_commit"} => RowsAgree
        /\ \A i \in SegId : files[i].state # "none" => Owned(i)

LEMMA RowsAgreeKept ==
    ASSUME TypeOK, DOMAIN segments' = DOMAIN segments,
           \A k \in DOMAIN segments : segments'[k].id = segments[k].id
                                      /\ segments'[k].rows = segments[k].rows
    PROVE  EntryOf.rows' = EntryOf.rows
<1>1. ASSUME NEW i \in SegId PROVE RowsById(i)' = RowsById(i)
  <2> DEFINE at == {k \in DOMAIN segments : segments[k].id = i}
  <2>1. at' = at
    OBVIOUS
  <2>2. \A k \in at : RowDocs(segments[k])' = RowDocs(segments[k])
    BY DEF RowDocs
  <2>3. RowsById(i) = IF at = {} THEN 0 ELSE Cardinality(RowDocs(segments[HighestId(at)]))
    BY DEF RowsById
  <2>4. RowsById(i)' =
          IF at' = {} THEN 0 ELSE Cardinality(RowDocs(segments'[HighestId(at')]))
    BY DEF RowsById
  <2>5. at \in SUBSET Nat /\ IsFiniteSet(at)
    BY SegmentTypes, FS_Subset
  <2> HIDE DEF at
  <2>6. at # {} => HighestId(at) \in at
    BY <2>5, HighestOfFinite
  <2>7. at # {} => RowDocs(segments'[HighestId(at)]) = RowDocs(segments[HighestId(at)])
    BY <2>2, <2>6
  <2> QED
    BY <2>1, <2>3, <2>4, <2>7
<1> QED
  BY <1>1 DEF EntryOf

\* A step that keeps the list, the manifest and all files but the next ones.
LEMMA TidyKept ==
    ASSUME Inv, Tidy, mode = "open", setting' = setting, manifest' = manifest,
           nextId' = nextId, chosen' = chosen,
           pc \notin {"commit", "compact_commit", "compact_remove"},
           pc' \notin {"compact_commit", "compact_remove"},
           DOMAIN segments' = DOMAIN segments,
           \A k \in DOMAIN segments : segments'[k].id = segments[k].id
                                      /\ segments'[k].rows = segments[k].rows,
           \A i \in SegId : i # nextId => files'[i].state = files[i].state,
           \/ files'[nextId].state = "none"
           \/ pc' \in {"files", "supersede", "persist", "rewrite", "compact_files", "compact_swap"}
           \/ /\ pc \notin {"files", "supersede", "persist", "rewrite", "compact_files", "compact_swap"}
              /\ files' = files
    PROVE  Tidy'
<1> SUFFICES ASSUME StorageSound
             PROVE  /\ RowsAgree'
                    /\ \A i \in SegId : files'[i].state # "none" => Owned(i)'
  BY DEF Tidy, StorageSound
<1>1. RowsAgree'
  <2>1. RowsAgree
    BY DEF Tidy
  <2>2. EntryOf.rows' = EntryOf.rows
    BY RowsAgreeKept DEF Inv
  <2> QED
    BY <2>1, <2>2 DEF RowsAgree
<1>2. ASSUME NEW i \in SegId, files'[i].state # "none" PROVE Owned(i)'
  <2>1. CASE i # nextId
    <3>1. Owned(i)
      BY <1>2, <2>1 DEF Tidy
    <3>2. \E k \in DOMAIN segments : segments[k].id = i
      BY <2>1, <3>1 DEF Owned
    <3> QED
      BY <3>2 DEF Owned
  <2>2. CASE i = nextId
    <3>1. CASE pc' \in {"files", "supersede", "persist", "rewrite", "compact_files", "compact_swap"}
      BY <2>2, <3>1 DEF Owned
    <3>2. CASE /\ pc \notin {"files", "supersede", "persist", "rewrite", "compact_files", "compact_swap"}
               /\ files' = files
      <4>1. Owned(i)
        BY <1>2, <3>2 DEF Tidy
      <4>2. \E k \in DOMAIN segments : segments[k].id = i
        BY <3>2, <4>1 DEF Owned
      <4> QED
        BY <4>2 DEF Owned
    <3> QED
      BY <1>2, <2>2, <3>1, <3>2
  <2> QED
    BY <2>1, <2>2
<1> QED
  BY <1>1, <1>2

LEMMA LogWriteTidy ==
    ASSUME Inv, Tidy, NEW w \in Write, NEW syncs \in BOOLEAN, LogWrite(w, syncs)
    PROVE  Tidy'
<1>1. /\ mode = "open" /\ pc = "idle" /\ nextId <= MaxId /\ TypeOK
      /\ UNCHANGED <<setting, manifest, segments, nextId, chosen>>
  BY DEF LogWrite, Room, Idle, Inv
<1>2. \/ pc' \in {"sync", "idle"} /\ files' = files
      \/ pc' = "files" /\ files' = [files EXCEPT ![nextId] = PartialFiles]
  BY DEF LogWrite, ApplyToMemtable, MaybeFlush
<1>3. \A i \in SegId : i # nextId => files'[i].state = files[i].state
  BY <1>1, <1>2 DEF TypeOK
<1> QED
  BY <1>1, <1>2, <1>3, TidyKept

LEMMA SyncTidy ==
    ASSUME Inv, Tidy, Sync
    PROVE  Tidy'
<1>1. /\ mode = "open" /\ pc = "sync" /\ TypeOK
      /\ UNCHANGED <<setting, manifest, segments, nextId, chosen>>
  BY DEF Sync, Inv
<1>2. \/ pc' = "idle" /\ files' = files
      \/ pc' = "files" /\ files' = [files EXCEPT ![nextId] = PartialFiles]
  BY DEF Sync, ApplyToMemtable, MaybeFlush
<1>3. \A i \in SegId : i # nextId => files'[i].state = files[i].state
  BY <1>1, <1>2 DEF TypeOK
<1> QED
  BY <1>1, <1>2, <1>3, TidyKept

LEMMA FlushTidy ==
    ASSUME Inv, Tidy, Flush \/ FinishFiles \/ FinishCompactFiles
    PROVE  Tidy'
<1>1. /\ mode = "open" /\ pc \in {"idle", "files", "compact_files"} /\ TypeOK
      /\ pc' \in {"files", "supersede", "compact_swap"}
      /\ UNCHANGED <<setting, manifest, segments, nextId, chosen>>
  BY DEF Flush, FinishFiles, FinishCompactFiles, Idle, memory, Inv
<1>2. \A i \in SegId : i # nextId => files'[i].state = files[i].state
  BY <1>1 DEF TypeOK, Flush, FinishFiles, FinishCompactFiles
<1> QED
  BY <1>1, <1>2, TidyKept

LEMMA KillTidy ==
    ASSUME Inv, Tidy, KillRows \/ TruncateTombstones \/ RewriteTombstones
    PROVE  Tidy'
<1>1. /\ mode = "open" /\ pc \in {"supersede", "persist", "rewrite"} /\ TypeOK
      /\ pc' \in {"supersede", "persist", "rewrite"}
      /\ UNCHANGED <<setting, manifest, nextId, chosen>>
  BY DEF KillRows, TruncateTombstones, RewriteTombstones, disk, memory, Inv
<1>2. segments \in Seq(Segment) /\ files \in [SegId -> SegmentFiles]
  BY <1>1 DEF TypeOK
<1>3. CASE KillRows
  <2>1. PICK i \in DOMAIN segments :
          /\ segments' = [segments EXCEPT ![i].dead = @ \cup Victims(segments[i])]
          /\ files' = files
    BY <1>3 DEF KillRows, disk
  <2>2. /\ DOMAIN segments' = DOMAIN segments
        /\ \A k \in DOMAIN segments : segments'[k].id = segments[k].id
                                      /\ segments'[k].rows = segments[k].rows
    <3>1. \A k \in DOMAIN segments : segments[k] \in Segment
      BY <1>1, SegmentTypes
    <3>2. /\ DOMAIN segments' = DOMAIN segments
          /\ \A k \in DOMAIN segments : k # i => segments'[k] = segments[k]
      BY <2>1
    <3>3. segments'[i].id = segments[i].id /\ segments'[i].rows = segments[i].rows
      BY <2>1, <3>1 DEF Segment
    <3> QED
      BY <3>2, <3>3
  <2>3. \A k \in SegId : files'[k].state = files[k].state
    BY <2>1
  <2> QED
    BY <1>1, <2>2, <2>3, TidyKept
<1>4. CASE TruncateTombstones
  <2>1. segments' = segments /\ files' = [files EXCEPT ![segments[cur].id].torn = TRUE]
    BY <1>4 DEF TruncateTombstones, memory
  <2>2. \A k \in SegId : files'[k].state = files[k].state
    BY <1>1, <1>2, <2>1 DEF SegmentFiles
  <2> QED
    BY <1>1, <2>1, <2>2, TidyKept
<1>5. CASE RewriteTombstones
  <2>1. /\ segments' = segments
        /\ files' = [files EXCEPT ![segments[cur].id].torn = FALSE,
                                  ![segments[cur].id].dead = segments[cur].dead]
    BY <1>5 DEF RewriteTombstones
  <2>2. \A k \in SegId : files'[k].state = files[k].state
    BY <1>1, <1>2, <2>1 DEF SegmentFiles
  <2> QED
    BY <1>1, <2>1, <2>2, TidyKept
<1> QED
  BY <1>3, <1>4, <1>5

LEMMA CompactTidy ==
    ASSUME Inv, Tidy, NEW percent, Compact(percent)
    PROVE  Tidy'
<1>1. /\ mode = "open" /\ pc = "idle" /\ TypeOK /\ pc' = "compact_files"
      /\ files' = [files EXCEPT ![nextId] = PartialFiles]
      /\ UNCHANGED <<setting, mode, manifest, segments, nextId>>
  BY DEF Compact, Idle, Inv
<1>2. \A i \in SegId : i # nextId => files'[i] = files[i]
  BY <1>1 DEF TypeOK
<1> SUFFICES ASSUME StorageSound
             PROVE  /\ RowsAgree'
                    /\ \A i \in SegId : files'[i].state # "none" => Owned(i)'
  BY <1>1 DEF Tidy, StorageSound
<1>3. RowsAgree'
  <2>1. EntryOf.rows' = EntryOf.rows
    BY <1>1, RowsAgreeKept
  <2> QED
    BY <1>1, <2>1 DEF Tidy, RowsAgree
<1>4. \A i \in SegId : files'[i].state # "none" => Owned(i)'
  BY <1>1, <1>2 DEF Tidy, Owned
<1> QED
  BY <1>3, <1>4

LEMMA PushTidy ==
    ASSUME Inv, Tidy, PushSegment
    PROVE  Tidy'
<1>1. /\ mode = "open" /\ pc = "supersede" /\ pc' = "commit" /\ TypeOK
      /\ UNCHANGED <<setting, mode, manifest, nextId, chosen>>
  BY DEF PushSegment, Inv
<1>2. files \in [SegId -> SegmentFiles] /\ segments \in Seq(Segment)
  BY <1>1 DEF TypeOK
<1> SUFFICES ASSUME StorageSound, NEW i \in SegId, files'[i].state # "none"
             PROVE  \E k \in DOMAIN segments' : segments'[k].id = i
  BY <1>1 DEF Tidy, StorageSound, Owned
<1>3. CASE LiveRows # NoRows
  <2> DEFINE x == [id |-> nextId, rows |-> files[nextId].rows, dead |-> files[nextId].dead]
             m == Len(segments) + 1
  <2>1. segments' = Append(segments, x) /\ files' = files
    BY <1>3 DEF PushSegment
  <2>2. /\ \A k \in DOMAIN segments : segments'[k] = segments[k] /\ k \in DOMAIN segments'
        /\ segments'[m] = x /\ m \in DOMAIN segments'
    <3>1. Len(segments) \in Nat /\ DOMAIN segments = 1..Len(segments)
      BY <1>1, SegmentTypes
    <3>2. /\ Len(segments') = m /\ segments'[m] = x
          /\ \A k \in 1..Len(segments) : segments'[k] = segments[k]
          /\ DOMAIN segments' = 1..m
      BY <1>2, <2>1, <3>1
    <3> QED
      BY <3>1, <3>2
  <2>3. Owned(i)
    BY <1>1, <2>1 DEF Tidy
  <2> QED
    BY <2>2, <2>3, <1>1 DEF Owned
<1>4. CASE LiveRows = NoRows
  <2>1. segments' = segments /\ files' = [files EXCEPT ![nextId] = NoFiles]
    BY <1>4 DEF PushSegment
  <2>2. i # nextId /\ files'[i] = files[i]
    BY <1>2, <2>1 DEF NoFiles
  <2>3. Owned(i)
    BY <1>1, <2>2 DEF Tidy
  <2> QED
    BY <1>1, <2>1, <2>2, <2>3 DEF Owned
<1> QED
  BY <1>3, <1>4

LEMMA CommitTidy ==
    ASSUME Inv, Tidy, CommitFlush \/ CommitCompact
    PROVE  Tidy'
<1>1. /\ mode = "open" /\ TypeOK /\ manifest' = EntryOf
      /\ \/ pc = "commit" /\ pc' = "checkpoint"
         \/ pc = "compact_commit" /\ pc' = "compact_remove"
      /\ UNCHANGED <<setting, mode, files, segments, nextId, chosen>>
  BY DEF CommitFlush, CommitCompact, memory, Inv
<1> SUFFICES ASSUME StorageSound
             PROVE  /\ RowsAgree'
                    /\ \A i \in SegId : files'[i].state # "none" => Owned(i)'
  BY <1>1 DEF Tidy, StorageSound
<1>2. RowsAgree'
  <2>1. EntryOf.rows' = EntryOf.rows
    BY <1>1, RowsAgreeKept
  <2> QED
    BY <1>1, <2>1 DEF RowsAgree
<1>3. \A i \in SegId : files'[i].state # "none" => Owned(i)'
  BY <1>1 DEF Tidy, Owned
<1> QED
  BY <1>2, <1>3

LEMMA CheckpointTidy ==
    ASSUME Inv, Tidy, Checkpoint
    PROVE  Tidy'
<1>1. /\ mode = "open" /\ TypeOK /\ pc = "checkpoint" /\ pc' = "idle"
      /\ UNCHANGED <<setting, mode, manifest, files, segments>>
  BY DEF Checkpoint, Inv
<1> SUFFICES ASSUME StorageSound
             PROVE  /\ RowsAgree'
                    /\ \A i \in SegId : files'[i].state # "none" => Owned(i)'
  BY <1>1 DEF Tidy, StorageSound
<1>2. RowsAgree'
  <2>1. EntryOf.rows' = EntryOf.rows
    BY <1>1, RowsAgreeKept
  <2> QED
    BY <1>1, <2>1 DEF Tidy, RowsAgree
<1>3. \A i \in SegId : files'[i].state # "none" => Owned(i)'
  BY <1>1 DEF Tidy, Owned
<1> QED
  BY <1>2, <1>3

LEMMA SwapTidy ==
    ASSUME Inv, Tidy, SwapSegments
    PROVE  Tidy'
<1> DEFINE x == [id |-> nextId, rows |-> files[nextId].rows, dead |-> {}]
<1>1. /\ mode = "open" /\ pc = "compact_swap" /\ pc' = "compact_commit" /\ TypeOK
      /\ chosen' = {segments[i].id : i \in chosen}
      /\ IF RowDocs(x) # {}
         THEN segments' = Append(Kept, x) /\ files' = files
         ELSE segments' = Kept /\ files' = [files EXCEPT ![nextId] = NoFiles]
      /\ UNCHANGED <<setting, mode>>
  BY DEF SwapSegments, Inv
<1>2. files \in [SegId -> SegmentFiles]
  BY <1>1 DEF TypeOK
<1> SUFFICES ASSUME StorageSound, NEW i \in SegId, files'[i].state # "none"
             PROVE  (\E k \in DOMAIN segments' : segments'[k].id = i) \/ i \in chosen'
  BY <1>1 DEF Tidy, StorageSound, Owned
<1>3. PICK g :
        /\ Kept \in Seq(Segment)
        /\ \A k \in DOMAIN Kept : Kept[k] = segments[g[k]]
        /\ \A j \in (DOMAIN segments) \ chosen : \E k \in DOMAIN Kept : g[k] = j
  <2>1. pc = "compact_swap" /\ TypeOK
    BY <1>1
  <2> QED
    BY <2>1, KeptIs
<1>4. (\E k \in DOMAIN segments : segments[k].id = i) =>
         (\E k \in DOMAIN Kept : Kept[k].id = i) \/ i \in chosen'
  <2> SUFFICES ASSUME NEW j \in DOMAIN segments, segments[j].id = i
               PROVE  (\E k \in DOMAIN Kept : Kept[k].id = i) \/ i \in chosen'
    OBVIOUS
  <2>1. CASE j \in chosen
    BY <1>1, <2>1
  <2>2. CASE j \notin chosen
    BY <1>3, <2>2
  <2> QED
    BY <2>1, <2>2
<1>5. CASE RowDocs(x) # {}
  <2> DEFINE m == Len(Kept) + 1
  <2>1. segments' = Append(Kept, x) /\ files' = files
    BY <1>1, <1>5
  <2>2. /\ \A k \in DOMAIN Kept : segments'[k] = Kept[k] /\ k \in DOMAIN segments'
        /\ segments'[m] = x /\ m \in DOMAIN segments'
    <3>1. Len(Kept) \in Nat /\ DOMAIN Kept = 1..Len(Kept)
      BY <1>3, DomainFinite
    <3>2. /\ Len(segments') = m /\ segments'[m] = x
          /\ \A k \in 1..Len(Kept) : segments'[k] = Kept[k]
          /\ DOMAIN segments' = 1..m
      BY <1>3, <2>1, <3>1
    <3> QED
      BY <3>1, <3>2
  <2>3. Owned(i)
    BY <1>1, <2>1 DEF Tidy
  <2> QED
    BY <1>1, <1>4, <2>2, <2>3 DEF Owned
<1>6. CASE RowDocs(x) = {}
  <2>1. segments' = Kept /\ files' = [files EXCEPT ![nextId] = NoFiles]
    BY <1>1, <1>6
  <2>2. i # nextId /\ files'[i] = files[i]
    BY <1>2, <2>1 DEF NoFiles
  <2>3. Owned(i)
    BY <1>1, <2>2 DEF Tidy
  <2> QED
    BY <1>1, <1>4, <2>1, <2>2, <2>3 DEF Owned
<1> QED
  BY <1>5, <1>6

LEMMA RemoveTidy ==
    ASSUME Inv, Tidy, RemoveOld
    PROVE  Tidy'
<1>1. /\ mode = "open" /\ TypeOK /\ pc = "compact_remove" /\ pc' = "idle"
      /\ files' = [i \in SegId |-> IF i \in chosen THEN NoFiles ELSE files[i]]
      /\ UNCHANGED <<setting, mode, manifest, segments>>
  BY DEF RemoveOld, Inv
<1> SUFFICES ASSUME StorageSound
             PROVE  /\ RowsAgree'
                    /\ \A i \in SegId : files'[i].state # "none" => Owned(i)'
  BY <1>1 DEF Tidy, StorageSound
<1>2. RowsAgree'
  <2>1. EntryOf.rows' = EntryOf.rows
    BY <1>1, RowsAgreeKept
  <2> QED
    BY <1>1, <2>1 DEF Tidy, RowsAgree
<1>3. ASSUME NEW i \in SegId, files'[i].state # "none" PROVE Owned(i)'
  <2>1. i \notin chosen /\ files'[i] = files[i]
    BY <1>1, <1>3 DEF NoFiles
  <2>2. Owned(i)
    BY <1>1, <1>3, <2>1 DEF Tidy
  <2> QED
    BY <1>1, <2>1, <2>2 DEF Owned
<1> QED
  BY <1>2, <1>3

\* An open lists the segments the manifest names.
LEMMA OpenedIds ==
    ASSUME Inv, Open
    PROVE  \A i : i \in Referenced <=> \E k \in DOMAIN segments' : segments'[k].id = i
<1> DEFINE o == InOrder(Referenced)
           c == Cardinality(Referenced)
<1>1. /\ c \in Nat /\ o \in [1..c -> Referenced]
      /\ \A i \in Referenced : \E k \in 1..c : o[k] = i
  <2>1. Referenced \in SUBSET Nat /\ IsFiniteSet(Referenced)
    BY ReferencedIs
  <2> QED
    BY <2>1, InOrderIs
<1>2. segments' = [k \in DOMAIN o |-> [id |-> o[k], rows |-> files[o[k]].rows,
                                       dead |-> files[o[k]].dead]]
  BY DEF Open, OpenedSegments
<1> HIDE DEF o, c
<1>3. DOMAIN segments' = 1..c /\ \A k \in 1..c : segments'[k].id = o[k]
  BY <1>1, <1>2
<1> QED
  BY <1>1, <1>3

LEMMA OpenTidy ==
    ASSUME Inv, Inv', Open
    PROVE  Tidy'
<1>1. /\ mode' = "open" /\ manifest' = manifest
      /\ files' = [i \in SegId |-> IF i \in Referenced THEN files[i] ELSE NoFiles]
  BY DEF Open
<1>2. Referenced' = Referenced
  BY <1>1 DEF Referenced
<1>3. RowsAgree'
  <2>1. /\ DOMAIN segments' \subseteq Nat
        /\ \A k \in DOMAIN segments' : segments'[k].id \in Nat
        /\ \A j, k \in DOMAIN segments' : j < k => segments'[j].id < segments'[k].id
    <3>1. segments' \in Seq(Segment)
      BY DEF Inv, TypeOK
    <3>2. DOMAIN segments' \subseteq Nat
      BY <3>1, DomainFinite
    <3>3. \A k \in DOMAIN segments' : segments'[k].id \in Nat
      BY OpenedIds, ReferencedIs
    <3> QED
      BY <1>1, <3>2, <3>3 DEF Inv, InMemory, Ascending
  <2>2. ASSUME NEW i \in SegId PROVE manifest'.rows[i] = RowsById(i)'
    <3> DEFINE at == {k \in DOMAIN segments' : segments'[k].id = i}
    <3>1. RowsById(i)' = IF at = {} THEN 0 ELSE Cardinality(RowDocs(segments'[HighestId(at)]))
      BY DEF RowsById
    <3>2. CASE i \in Referenced
      <4>1. PICK k \in DOMAIN segments' : segments'[k].id = i
        BY <3>2, OpenedIds
      <4>2. k \in at /\ at \in SUBSET Nat
        BY <2>1, <4>1
      <4>3. ASSUME NEW j \in at, j # k PROVE FALSE
        <5>1. j \in DOMAIN segments' /\ segments'[j].id = i /\ j \in Nat /\ k \in Nat
          BY <2>1, <4>3
        <5>2. j < k \/ k < j
          BY <4>3, <5>1
        <5> QED
          BY <2>1, <4>1, <5>1, <5>2
      <4>4. HighestId(at) = k
        <5> HIDE DEF at
        <5> QED
          BY <4>2, <4>3, HighestOfOne
      <4>5. segments'[k].rows = files'[i].rows
        BY <1>1, <4>1 DEF Inv, InMemory, Matching
      <4>6. Cardinality(RowDocs(files'[i])) = manifest'.rows[i]
        BY <1>2, <3>2 DEF Inv, OnDisk, FilesWhole
      <4>7. RowDocs(files'[i]) = RowDocs(segments'[k])
        BY <4>5 DEF RowDocs
      <4> HIDE DEF at
      <4> QED
        BY <3>1, <4>2, <4>4, <4>6, <4>7
    <3>3. CASE i \notin Referenced
      <4>1. manifest.rows[i] = 0
        <5>1. manifest.rows \in [SegId -> Nat]
          BY DEF Inv, TypeOK
        <5> QED
          BY <3>3, <5>1 DEF Referenced
      <4>2. at = {}
        BY <3>3, OpenedIds
      <4> HIDE DEF at
      <4> QED
        BY <1>1, <3>1, <4>1, <4>2
    <3> QED
      BY <3>2, <3>3
  <2>3. manifest' \in [rows : [SegId -> Nat], live : Nat]
    BY DEF Inv, TypeOK
  <2> QED
    BY <2>2, <2>3 DEF RowsAgree, EntryOf
<1>4. ASSUME NEW i \in SegId, files'[i].state # "none" PROVE Owned(i)'
  <2>1. i \in Referenced
    BY <1>1, <1>4 DEF NoFiles
  <2> QED
    BY <2>1, OpenedIds DEF Owned
<1> QED
  BY <1>3, <1>4 DEF Tidy

LEMMA TidyNext ==
    ASSUME HandledErrors, Inv, Tidy, [Next]_vars
    PROVE  Tidy'
<1>1. Inv'
  BY InvNext
<1>2. ASSUME NEW d \in Docs, NEW v \in Vals, Insert(d, v) \/ Upsert(d, v)
      PROVE  Tidy'
  <2>1. LogWrite(Put(d, v), setting.durability = "full")
    BY <1>2 DEF Insert, Upsert
  <2> QED
    BY <2>1, PutTypes, LogWriteTidy
<1>3. ASSUME NEW d \in Docs, Delete(d) PROVE Tidy'
  BY <1>3, PutTypes, LogWriteTidy DEF Delete
<1>4. ASSUME NEW w \in Batches, WriteBatch(w) PROVE Tidy'
  <2>1. w \in Write
    BY CollectionAssumption
  <2> DEFINE b == setting.durability \in {"full", "batch"}
  <2>2. b \in BOOLEAN /\ LogWrite(w, b)
    BY <1>4 DEF WriteBatch
  <2> HIDE DEF b
  <2> QED
    BY <2>1, <2>2, LogWriteTidy
<1>5. ASSUME NEW p \in setting.percents, Compact(p) PROVE Tidy'
  BY <1>5, CompactTidy
<1>6. CASE UNCHANGED vars
  BY <1>6 DEF vars, Tidy, StorageSound, RowsAgree, EntryOf, RowsById, Owned
<1>7. CASE CommitRefused
  BY <1>7 DEF CommitRefused, Inv, InMemory
<1>8. CASE IoError
  BY <1>8 DEF IoError, Tidy, StorageSound
<1>9. CASE Killed \/ PowerLoss
  BY <1>9 DEF Killed, PowerLoss, ForgetMemory, Tidy
<1>10. CASE Open
  BY <1>1, <1>10, OpenTidy
<1> QED
  BY <1>2, <1>3, <1>4, <1>5, <1>6, <1>7, <1>8, <1>9, <1>10, FlushTidy, SyncTidy, KillTidy,
     PushTidy, CommitTidy, CheckpointTidy, SwapTidy, RemoveTidy
     DEF Next, WriteStep, FlushStep, CompactStep

LEMMA TidyInit == Init => Tidy
<1> SUFFICES ASSUME Init PROVE RowsAgree /\ \A i \in SegId : files[i].state = "none"
  BY DEF Tidy
<1>1. \A i \in SegId : RowsById(i) = 0
  BY DEF Init, RowsById
<1> QED
  BY <1>1 DEF Init, RowsAgree, EntryOf, NoFiles

LEMMA TidyInvariance ==
    ASSUME HandledErrors
    PROVE  Spec => [](Inv /\ Tidy)
<1>1. Inv /\ Tidy /\ [Next]_vars => Inv' /\ Tidy'
  BY InvNext, TidyNext
<1>2. Init => Inv /\ Tidy
  BY InvInit, TidyInit
<1> QED
  BY <1>1, <1>2, PTL DEF Spec

-------------------------------------------------------------------------------
(* The theorems. *)

\* The collection's memory, its files, its log and its manifest entry stay well
\* formed: segment ids are found among the files, indices among the segments.
THEOREM TypeCorrect ==
    ASSUME HandledErrors
    PROVE  Spec => []TypeOK
<1>1. Inv => TypeOK
  BY DEF Inv
<1> QED
  BY <1>1, Invariance, PTL

\* At every step of a write, a flush, a compaction or a recovery, the files
\* alone reconstruct every write made: a kill loses, doubles and revives
\* nothing.
THEOREM FilesReconstructWrites ==
    ASSUME HandledErrors
    PROVE  Spec => []RecoveryExact
<1>1. Inv => RecoveryExact
  BY RecoveryIsExact DEF Inv
<1> QED
  BY <1>1, Invariance, PTL

LEMMA GetIsCurrent ==
    ASSUME Inv, Idle, NEW d \in Docs
    PROVE  Get(d) = kv[d]
<1>1. TypeOK /\ OnDisk /\ InMemory /\ memtable = Replay(log)
  BY DEF Inv, Idle, InMemory, Buffered
<1> DEFINE r == NewestRow(DOMAIN segments, segments, d)
<1>2. Get(d) = CASE memtable[d] = Deleted -> NoVal
                 [] memtable[d] \in Vals -> memtable[d]
                 [] OTHER -> r
  BY DEF Get
<1>3. memtable[d] = NoVal => r = kv[d]
  <2> SUFFICES ASSUME memtable[d] = NoVal PROVE r = kv[d]
    OBVIOUS
  <2>1. r \in Vals \cup {NoVal}
        /\ \A v \in Vals : Shows(DOMAIN segments, segments, d, v) <=> r = v
    BY <1>1, SegmentTypes, NewestRowIs DEF InMemory
  <2>2. \A v \in Vals : Shows(DOMAIN segments, segments, d, v) <=> kv[d] = v
    BY <1>1 DEF InMemory, Aligned, OnDisk, Recovers
  <2>3. kv[d] \in Vals \cup {NoVal}
    BY <1>1 DEF TypeOK
  <2> HIDE DEF r
  <2> QED
    BY <2>1, <2>2, <2>3
<1>4. /\ memtable[d] = Deleted => kv[d] = NoVal
      /\ memtable[d] \in Vals => kv[d] = memtable[d]
  BY <1>1 DEF OnDisk, Recovers
<1> HIDE DEF r
<1> QED
  BY <1>1, <1>2, <1>3, <1>4, EntryCases DEF TypeOK

\* Between operations a read finds what was written last, wherever flushes,
\* compactions and restarts have moved it.
THEOREM ReadsFindTheLastWrite ==
    ASSUME HandledErrors
    PROVE  Spec => []ReadsAreCurrent
<1>1. Inv => ReadsAreCurrent
  BY GetIsCurrent DEF ReadsAreCurrent
<1> QED
  BY <1>1, Invariance, PTL

\* The manifest names complete files only, with the row counts it records:
\* files are written before the commit and removed after it.
THEOREM NamedFilesAreWhole ==
    ASSUME HandledErrors
    PROVE  Spec => []ReferencedIntact
<1>1. Inv => ReferencedIntact
  BY DEF Inv, OnDisk, FilesWhole, ReferencedIntact
<1> QED
  BY <1>1, Invariance, PTL

\* Between operations verify at its deepest level finds nothing wrong.
THEOREM VerifyFindsNothing ==
    ASSUME HandledErrors
    PROVE  Spec => []VerifyClean
<1>1. Inv /\ Tidy => VerifyClean
  <2> SUFFICES ASSUME Inv, Tidy, StorageSound, Idle
               PROVE  DamagedSegments = {} /\ LiveTwice = {} /\ RowsAgree
    BY DEF VerifyClean
  <2>1. InMemory /\ pc = "idle" /\ mode = "open"
    BY DEF Inv, Idle
  <2>2. DamagedSegments = {}
    BY <2>1 DEF InMemory, Matching, DamagedSegments
  <2>3. LiveTwice = {}
    BY <2>1, LiveIsHeld DEF InMemory, Once, LiveTwice
  <2>4. RowsAgree
    BY <2>1 DEF Tidy
  <2> QED
    BY <2>2, <2>3, <2>4
<1> QED
  BY <1>1, TidyInvariance, PTL

\* Between operations no segment files are left that nothing refers to,
\* whatever flushes and compactions were cut off before.
THEOREM NothingIsOrphaned ==
    ASSUME HandledErrors
    PROVE  Spec => []NoOrphans
<1>1. Inv /\ Tidy => NoOrphans
  BY DEF Tidy, Owned, NoOrphans, Unreferenced, Idle
<1> QED
  BY <1>1, TidyInvariance, PTL

-------------------------------------------------------------------------------
(* Counting. *)

\* No document being live twice, the live rows are as many as the documents
\* that have one.
LEMMA LiveRowsCounted ==
    ASSUME Inv, mode = "open"
    PROVE  RowsOf(LiveDocs) = Cardinality({d \in Docs : HasLive(d)})
<1> DEFINE P == {p \in (DOMAIN segments) \X Docs : p[2] \in LiveDocs(segments[p[1]])}
           H == {d \in Docs : HasLive(d)}
           f == [p \in P |-> p[2]]
<1>1. RowsOf(LiveDocs) = Cardinality(P)
  BY DEF RowsOf
<1>2. IsFiniteSet(P)
  <2>1. IsFiniteSet((DOMAIN segments) \X Docs)
    BY SegmentTypes, CollectionAssumption, FS_Product DEF Inv
  <2> QED
    BY <2>1, FS_Subset
<1>3. \A p \in P : /\ p = <<p[1], p[2]>> /\ p[1] \in DOMAIN segments /\ p[2] \in Docs
                   /\ p[2] \in LiveDocs(segments[p[1]])
  OBVIOUS
<1>4. \A p \in P : p[2] \in H
  BY <1>3 DEF HasLive
<1>5. \A d \in H : \E p \in P : p[2] = d
  <2> SUFFICES ASSUME NEW d \in H PROVE \E p \in P : p[2] = d
    OBVIOUS
  <2>1. d \in Docs /\ HasLive(d)
    OBVIOUS
  <2>2. PICK i \in DOMAIN segments : d \in LiveDocs(segments[i])
    BY <2>1 DEF HasLive
  <2>3. <<i, d>> \in P
    BY <2>1, <2>2
  <2> QED
    BY <2>3
<1>6. \A p, q \in P : p[2] = q[2] => p = q
  <2> SUFFICES ASSUME NEW p \in P, NEW q \in P, p[2] = q[2] PROVE p[1] = q[1]
    BY <1>3
  <2>1. Once(DOMAIN segments, segments)
    BY DEF Inv, InMemory
  <2>2. Holds(segments[p[1]], p[2]) /\ Holds(segments[q[1]], p[2])
    BY <1>3, LiveIsHeld
  <2> QED
    BY <1>3, <2>1, <2>2 DEF Once
<1> HIDE DEF P, H
<1>7. f \in [P -> H]
  BY <1>4
<1>8. f \in Surjection(P, H)
  BY <1>5, <1>7 DEF Surjection
<1>9. f \in Injection(P, H)
  BY <1>6, <1>7 DEF Injection, IsInjective
<1> HIDE DEF f
<1>10. Cardinality(H) = Cardinality(P)
  BY <1>2, <1>8, <1>9, FS_Surjection
<1> QED
  BY <1>1, <1>10 DEF H

LEMMA CountIsExact ==
    ASSUME Inv, Idle
    PROVE  LiveCount = Cardinality({d \in Docs : kv[d] # NoVal})
<1> DEFINE H == {d \in Docs : HasLive(d)}
           P == {d \in Docs : memtable[d] \in Vals}
           T == {d \in Docs : memtable[d] # NoVal /\ HasLive(d)}
           K == {d \in Docs : kv[d] # NoVal}
           M == {d \in Docs : memtable[d] # NoVal}
<1>1. TypeOK /\ InMemory /\ OnDisk /\ mode = "open" /\ pc = "idle" /\ memtable = Replay(log)
  BY DEF Inv, Idle, InMemory, Buffered
<1>2. LiveCount = Cardinality(H) + Cardinality(P) - Cardinality(T)
  BY <1>1, LiveRowsCounted DEF LiveCount, Puts
<1>3. K = P \cup (H \ M)
  <2> SUFFICES ASSUME NEW d \in Docs PROVE d \in K <=> d \in P \/ (d \in H /\ d \notin M)
    OBVIOUS
  <2>1. /\ memtable[d] = Deleted => kv[d] = NoVal
        /\ memtable[d] \in Vals => kv[d] = memtable[d]
        /\ memtable[d] \in Vals \/ memtable[d] = Deleted \/ memtable[d] = NoVal
        /\ NoVal \notin Vals /\ Deleted \notin Vals /\ NoVal # Deleted
    BY <1>1, EntryCases DEF OnDisk, Recovers, TypeOK
  <2>2. CASE memtable[d] = NoVal
    <3>1. \A v \in Vals : Shows(DOMAIN segments, segments, d, v) <=> kv[d] = v
      BY <1>1, <2>2 DEF InMemory, Aligned, OnDisk, Recovers
    <3>2. kv[d] \in Vals \cup {NoVal}
      BY <1>1 DEF TypeOK
    <3>3. HasLive(d) => kv[d] # NoVal
      <4> SUFFICES ASSUME HasLive(d) PROVE kv[d] # NoVal
        OBVIOUS
      <4>1. PICK i \in DOMAIN segments : d \in LiveDocs(segments[i])
        BY DEF HasLive
      <4>2. Holds(segments[i], d)
        BY <4>1, LiveIsHeld
      <4>3. segments[i].rows[d] \in Vals
        BY <1>1, <4>2, SegmentTypes DEF Holds
      <4>4. Shows(DOMAIN segments, segments, d, segments[i].rows[d])
        BY <4>2 DEF Shows
      <4> QED
        BY <2>1, <3>1, <4>3, <4>4
    <3>4. kv[d] # NoVal => HasLive(d)
      <4> SUFFICES ASSUME kv[d] # NoVal PROVE HasLive(d)
        OBVIOUS
      <4>1. Shows(DOMAIN segments, segments, d, kv[d])
        BY <3>1, <3>2
      <4> QED
        BY <4>1, LiveIsHeld DEF Shows, HasLive
    <3> QED
      BY <2>1, <2>2, <3>3, <3>4
  <2>3. CASE memtable[d] # NoVal
    BY <2>1, <2>3
  <2> QED
    BY <2>2, <2>3
<1>4. H \cap M = T /\ P \cap (H \ M) = {}
  BY CollectionAssumption
<1>5. IsFiniteSet(H) /\ IsFiniteSet(P)
  <2>1. H \subseteq Docs /\ P \subseteq Docs
    OBVIOUS
  <2> HIDE DEF H, P
  <2> QED
    BY <2>1, CollectionAssumption, FS_Subset
<1> HIDE DEF H, P, T, K, M
<1>6. /\ IsFiniteSet(H \ M) /\ Cardinality(H \ M) = Cardinality(H) - Cardinality(T)
  BY <1>4, <1>5, FS_Difference
<1>7. Cardinality(K) = Cardinality(P) + Cardinality(H \ M) - Cardinality(P \cap (H \ M))
  BY <1>3, <1>5, <1>6, FS_Union
<1>8. Cardinality(P \cap (H \ M)) = 0
  BY <1>4, FS_EmptySet
<1>9. IsFiniteSet(T)
  BY <1>4, <1>5, FS_Subset
<1>10. Cardinality(H) \in Nat /\ Cardinality(P) \in Nat /\ Cardinality(T) \in Nat
  BY <1>5, <1>9, FS_CardinalityType
<1>11. LiveCount = Cardinality(K)
  BY <1>2, <1>6, <1>7, <1>8, <1>10
<1> QED
  BY <1>11 DEF K

\* count() is the number of documents, however they are spread over buffer and
\* segments.  The proof does without StorageSound: the errors the engine
\* recovers from do not disturb the count either.
THEOREM CountsAreExact ==
    ASSUME HandledErrors
    PROVE  Spec => []CountExact
<1>1. Inv => CountExact
  BY CountIsExact DEF CountExact
<1> QED
  BY <1>1, Invariance, PTL

-------------------------------------------------------------------------------
(* What a step may do to files the manifest names. *)

\* Rows stay as they are and dead rows stay dead.
RowsStay ==
    \A i \in Referenced :
        files'[i].rows = files[i].rows /\ files[i].dead \subseteq files'[i].dead

\* Steps that write the files of the next segment, or none.
LEMMA NextFilesRowsStay ==
    ASSUME Inv, mode = "open", pc \notin {"commit", "checkpoint"}, manifest' = manifest,
           \/ files' = files
           \/ \E x : files' = [files EXCEPT ![nextId] = x]
    PROVE  RowsStay
<1>1. \A i \in SegId : i # nextId => files'[i] = files[i]
  BY DEF Inv, TypeOK
<1>2. Untouched
  BY <1>1, NextIdFresh
<1> QED
  BY <1>2 DEF Untouched, RowsStay

LEMMA LogWriteRowsStay ==
    ASSUME Inv, NEW w, NEW syncs, LogWrite(w, syncs)
    PROVE  RowsStay
  BY NextFilesRowsStay DEF LogWrite, Idle, ApplyToMemtable, MaybeFlush

LEMMA BitmapRowsStay ==
    ASSUME Inv, KillRows \/ TruncateTombstones \/ RewriteTombstones
    PROVE  RowsStay
<1>1. files \in [SegId -> SegmentFiles] /\ mode = "open" /\ TypeOK
  BY DEF Inv, TypeOK, KillRows, TruncateTombstones, RewriteTombstones
<1>2. CASE KillRows
  BY <1>2 DEF KillRows, disk, RowsStay
<1>3. CASE TruncateTombstones
  <2>1. files' = [files EXCEPT ![segments[cur].id].torn = TRUE]
    BY <1>3 DEF TruncateTombstones
  <2>2. \A i \in SegId : files'[i].rows = files[i].rows /\ files'[i].dead = files[i].dead
    BY <1>1, <2>1 DEF SegmentFiles
  <2> QED
    BY <2>2, ReferencedIs DEF RowsStay
<1>4. CASE RewriteTombstones
  <2> DEFINE n == segments[cur].id
             s == segments[cur].dead
  <2>1. /\ pc = "rewrite"
        /\ files' = [files EXCEPT ![n].torn = FALSE, ![n].dead = s]
    BY <1>4 DEF RewriteTombstones
  <2>2. cur \in DOMAIN segments /\ files[n].dead \subseteq s
    BY <1>1, <2>1 DEF Inv, InMemory, Flushed, Matching
  <2> HIDE DEF n, s
  <2>3. ASSUME NEW i \in SegId
        PROVE  files'[i].rows = files[i].rows /\ files[i].dead \subseteq files'[i].dead
    <3>1. files[i] \in SegmentFiles
      BY <1>1
    <3>2. CASE i # n
      BY <1>1, <2>1, <3>2
    <3>3. CASE i = n
      BY <1>1, <2>1, <2>2, <3>1, <3>3 DEF SegmentFiles
    <3> QED
      BY <3>2, <3>3
  <2> QED
    BY <2>3, ReferencedIs DEF RowsStay
<1> QED
  BY <1>2, <1>3, <1>4

LEMMA NextRowsStay ==
    ASSUME HandledErrors, Inv, [Next]_vars
    PROVE  RowsStay
<1>1. CASE WriteStep
  BY <1>1, LogWriteRowsStay DEF WriteStep, Insert, Upsert, Delete, WriteBatch
<1>2. CASE Flush \/ Sync \/ FinishFiles \/ PushSegment \/ FinishCompactFiles \/ SwapSegments
  BY <1>2, NextFilesRowsStay DEF Flush, Idle, Sync, ApplyToMemtable, MaybeFlush, FinishFiles,
     PushSegment, FinishCompactFiles, SwapSegments
<1>3. ASSUME NEW p \in setting.percents, Compact(p) PROVE RowsStay
  BY <1>3, NextFilesRowsStay DEF Compact, Idle
<1>4. CASE KillRows \/ TruncateTombstones \/ RewriteTombstones
  BY <1>4, BitmapRowsStay
<1>5. CASE \/ CommitFlush \/ CommitRefused \/ Checkpoint \/ CommitCompact \/ IoError \/ Killed
           \/ UNCHANGED vars
  <2>1. files' = files
    BY <1>5 DEF CommitFlush, CommitRefused, Checkpoint, CommitCompact, IoError, Killed, disk, vars
  <2> QED
    BY <2>1 DEF RowsStay
<1>6. CASE RemoveOld
  <2>1. chosen \cap Referenced = {}
    BY <1>6 DEF RemoveOld, Inv, InMemory, Compacted
  <2>2. \A i \in Referenced : files'[i] = files[i]
    BY <1>6, <2>1, ReferencedIs DEF RemoveOld
  <2> QED
    BY <2>2 DEF RowsStay
<1>7. CASE PowerLoss
  <2> DEFINE f == files'
  <2>1. mode = "open" /\ f \in SurvivingFiles
    BY <1>7 DEF PowerLoss
  <2> HIDE DEF f
  <2>2. \A i \in SegId : f[i].rows = files[i].rows /\ files[i].dead \subseteq f[i].dead
    BY <2>1, SurvivingFilesAre
  <2> QED
    BY <2>2, ReferencedIs DEF f, RowsStay
<1>8. CASE Open
  <2>1. \A i \in Referenced : files'[i] = files[i]
    BY <1>8, ReferencedIs DEF Open
  <2> QED
    BY <2>1 DEF RowsStay
<1> QED
  BY <1>1, <1>2, <1>3, <1>4, <1>5, <1>6, <1>7, <1>8 DEF Next, FlushStep, CompactStep

\* A segment the manifest names never changes but for its bitmap, and a row
\* that is dead stays dead, through flushes, compactions, failures and opens.
THEOREM NamedSegmentsAreImmutable ==
    ASSUME HandledErrors
    PROVE  Spec => SegmentsImmutable
<1>1. Inv /\ [Next]_vars =>
        [\A i \in Referenced :
            StorageSound /\ manifest'.rows[i] > 0 =>
                /\ files'[i].rows = files[i].rows
                /\ files[i].dead \subseteq files'[i].dead]_vars
  BY NextRowsStay DEF RowsStay
<1> QED
  BY <1>1, Invariance, PTL DEF Spec, SegmentsImmutable

-------------------------------------------------------------------------------
(* The collection as one map. *)

\* Where power is never lost the log keeps what was appended: no write made is
\* ever taken back.
NoPowerLoss == \A s \in Settings : "power" \notin s.failures

\* A step changes the documents like a write, or not at all.
LEMMA DocumentsStep ==
    ASSUME NoPowerLoss, TypeOK, [Next]_vars
    PROVE  \/ \E d \in Docs, v \in Vals : kv' = [kv EXCEPT ![d] = v]
           \/ \E d \in Docs : kv' = [kv EXCEPT ![d] = NoVal]
           \/ \E w \in Batches : kv' = Applied(w, kv)
           \/ kv' = kv
<1>1. kv \in [Docs -> Vals \cup {NoVal}]
  BY DEF TypeOK
<1>2. ASSUME NEW d \in Docs, NEW v \in Vals, Insert(d, v) \/ Upsert(d, v)
      PROVE  kv' = [kv EXCEPT ![d] = v]
  <2>1. kv' = Applied(Put(d, v), kv)
    BY <1>2 DEF Insert, Upsert, LogWrite
  <2>2. Put(d, v)[d] = v /\ \A e \in Docs : e # d => Put(d, v)[e] = NoVal
    BY PutTypes
  <2> QED
    BY <1>1, <2>1, <2>2, CollectionAssumption DEF Applied
<1>3. ASSUME NEW d \in Docs, Delete(d)
      PROVE  kv' = [kv EXCEPT ![d] = NoVal]
  <2>1. kv' = Applied(Put(d, Deleted), kv)
    BY <1>3 DEF Delete, LogWrite
  <2>2. Put(d, Deleted)[d] = Deleted /\ \A e \in Docs : e # d => Put(d, Deleted)[e] = NoVal
    BY PutTypes
  <2> QED
    BY <1>1, <2>1, <2>2, CollectionAssumption DEF Applied
<1>4. ASSUME NEW w \in Batches, WriteBatch(w) PROVE kv' = Applied(w, kv)
  BY <1>4 DEF WriteBatch, LogWrite
<1>5. ~PowerLoss
  BY DEF NoPowerLoss, TypeOK, PowerLoss
<1>6. CASE \/ Flush \/ FlushStep \/ CompactStep \/ IoError \/ Killed \/ Open
           \/ (\E p \in setting.percents : Compact(p)) \/ UNCHANGED vars
  BY <1>6 DEF Flush, FlushStep, Sync, FinishFiles, KillRows, TruncateTombstones,
     RewriteTombstones, PushSegment, CommitFlush, CommitRefused, Checkpoint, CompactStep, FinishCompactFiles, SwapSegments,
     CommitCompact, RemoveOld, IoError, Killed, Open, Compact, ghosts, vars
<1> QED
  BY <1>2, <1>3, <1>4, <1>5, <1>6 DEF Next, WriteStep

\* The files hold one map that changes when a caller writes, by that write and
\* at once, however flushes, compactions, failed storage calls, kills and opens
\* rearrange them.
THEOREM FilesImplementDocumentMap ==
    ASSUME HandledErrors, NoPowerLoss
    PROVE  Spec => ImplementsDocumentMap
<1>1. Init /\ RecoveryExact => Map!Init
  BY DEF Init, RecoveryExact, Map!Init, NoRows
<1>2. /\ Inv /\ RecoveryExact /\ RecoveryExact' /\ [Next]_vars
      => [Map!Next]_(<<kv, Contents(log, files)>>)
  <2> SUFFICES ASSUME Inv, RecoveryExact, RecoveryExact', [Next]_vars
               PROVE  Map!Next \/ UNCHANGED <<kv, Contents(log, files)>>
    OBVIOUS
  <2> DEFINE c == Contents(log, files)
  <2>1. c = kv /\ c' = kv'
    BY DEF RecoveryExact
  <2>2. ASSUME NEW d \in Docs, NEW v \in Vals, kv' = [kv EXCEPT ![d] = v] PROVE Map!Next
    <3>1. Map!Upsert(d, v)
      BY <2>1, <2>2 DEF Map!Upsert, Map!Put
    <3> QED
      BY <3>1 DEF Map!Next
  <2>3. ASSUME NEW d \in Docs, kv' = [kv EXCEPT ![d] = NoVal] PROVE Map!Next
    <3>1. Map!Delete(d)
      BY <2>1, <2>3 DEF Map!Delete, Map!Put
    <3> QED
      BY <3>1 DEF Map!Next
  <2>4. ASSUME NEW w \in Batches, kv' = Applied(w, kv) PROVE Map!Next
    <3>1. \A d \in Docs : w[d] \in Vals \cup {NoVal, Deleted}
      BY CollectionAssumption DEF Write, Entry
    <3>2. Applied(w, kv) = [d \in Docs |-> IF w[d] = NoVal THEN kv[d]
                                           ELSE IF w[d] = Deleted THEN NoVal ELSE w[d]]
      BY <3>1, CollectionAssumption DEF Applied
    <3>3. Map!WriteBatch(w)
      BY <2>1, <2>4, <3>2 DEF Map!WriteBatch, Map!Batch
    <3> QED
      BY <3>3 DEF Map!Next
  <2>5. TypeOK
    BY DEF Inv
  <2> QED
    BY <2>1, <2>2, <2>3, <2>4, <2>5, DocumentsStep
<1>3. Inv => RecoveryExact
  BY RecoveryIsExact DEF Inv
<1> QED
  BY <1>1, <1>2, <1>3, Invariance, PTL DEF Spec, ImplementsDocumentMap, Map!Spec

-------------------------------------------------------------------------------
(* Power losses. *)

\* Power is lost only where every write is synced before it is applied, and is
\* the only failure there.  Elsewhere a flush may rewrite a bitmap for a write
\* whose log record is not on stable storage yet: with batch or relaxed
\* durability, or after a kill between an append and its sync.
PowerAfterSync ==
    \A s \in Settings :
        "power" \in s.failures => s.durability = "full" /\ s.failures = {"power"}

\* All but a write being synced is on stable storage, and the documents before
\* and after that write are among those the ghost remembers.
Durable ==
    "power" \in setting.failures =>
        /\ kv \in maybe
        /\ IF mode = "open" /\ pc = "sync"
           THEN /\ synced = Len(log) - 1
                /\ Contents(SubSeq(log, 1, Len(log) - 1), files) \in maybe
           ELSE synced = Len(log)

\* Rows that only the log replaces or deletes may be dead without a trace.
LEMMA ContentsAged ==
    ASSUME TypeOK, OnDisk, NEW f \in [SegId -> SegmentFiles],
           \A i \in Referenced :
              /\ f[i].rows = files[i].rows
              /\ files[i].dead \subseteq f[i].dead
              /\ \A d \in f[i].dead \ files[i].dead : Replay(log)[d] # NoVal
    PROVE  Contents(log, f) = Contents(log, files)
<1> DEFINE c == Contents(log, f)
           e == Contents(log, files)
<1>1. log \in Seq(Write) /\ files \in [SegId -> SegmentFiles] /\ Once(Referenced, files)
  BY DEF TypeOK, OnDisk
<1>2. Once(Referenced, f)
  BY <1>1, OnceAges
<1>3. /\ c \in [Docs -> Vals \cup {NoVal}]
      /\ \A d \in Docs :
           /\ Replay(log)[d] = Deleted => c[d] = NoVal
           /\ Replay(log)[d] \in Vals => c[d] = Replay(log)[d]
           /\ Replay(log)[d] = NoVal =>
                \A v \in Vals : Shows(Referenced, f, d, v) <=> c[d] = v
  BY <1>1, <1>2, ContentsIs
<1>4. /\ e \in [Docs -> Vals \cup {NoVal}]
      /\ \A d \in Docs :
           /\ Replay(log)[d] = Deleted => e[d] = NoVal
           /\ Replay(log)[d] \in Vals => e[d] = Replay(log)[d]
           /\ Replay(log)[d] = NoVal =>
                \A v \in Vals : Shows(Referenced, files, d, v) <=> e[d] = v
  BY <1>1, ContentsIs
<1> HIDE DEF c, e
<1>5. ASSUME NEW d \in Docs PROVE c[d] = e[d]
  <2>1. Replay(log) \in Write
    BY <1>1, ReplayType
  <2>2. CASE Replay(log)[d] = NoVal
    <3>1. \A i \in Referenced :
            f[i].rows = files[i].rows /\ (d \in f[i].dead <=> d \in files[i].dead)
      BY <2>2
    <3>2. \A v : Shows(Referenced, f, d, v) <=> Shows(Referenced, files, d, v)
      BY <3>1, ShowsSame
    <3>3. c[d] \in Vals \cup {NoVal} /\ e[d] \in Vals \cup {NoVal}
      BY <1>3, <1>4
    <3>4. \A v \in Vals : c[d] = v <=> e[d] = v
      BY <1>3, <1>4, <2>2, <3>2
    <3> QED
      BY <3>3, <3>4
  <2>3. CASE Replay(log)[d] # NoVal
    BY <1>3, <1>4, <2>1, <2>3, EntryCases
  <2> QED
    BY <2>2, <2>3
<1>6. c = e
  BY <1>3, <1>4, <1>5
<1> QED
  BY <1>6 DEF c, e

LEMMA WholeLog ==
    ASSUME NEW S, NEW s \in Seq(S)
    PROVE  SubSeq(s, 1, Len(s)) = s
  BY LenProperties, SubSeqProperties, SeqEqual

LEMMA FrontOfAppend ==
    ASSUME NEW S, NEW s \in Seq(S), NEW e \in S
    PROVE  SubSeq(Append(s, e), 1, Len(Append(s, e)) - 1) = s
<1>1. /\ Append(s, e) \in Seq(S) /\ Len(Append(s, e)) = Len(s) + 1 /\ Len(s) \in Nat
      /\ \A i \in 1..Len(s) : Append(s, e)[i] = s[i]
  BY AppendProperties, LenProperties
<1> DEFINE a == Append(s, e)
           b == SubSeq(a, 1, Len(s))
<1>2. b \in Seq(S) /\ Len(b) = Len(s) /\ \A i \in 1..Len(s) : b[i] = a[i]
  <2> HIDE DEF a
  <2>1. a \in Seq(S) /\ Len(a) = Len(s) + 1 /\ Len(s) \in Nat
    BY <1>1 DEF a
  <2>2. \A i \in 1..Len(s) : a[i] \in S
    BY <2>1, ElementOfSeq
  <2> QED
    BY <2>1, <2>2, SubSeqProperties
<1>3. Len(a) - 1 = Len(s)
  BY <1>1
<1> QED
  BY <1>1, <1>2, <1>3, SeqEqual

LEMMA SurvivorsRemembered ==
    ASSUME Inv, Durable
    PROVE  PowerLossBounded
<1> SUFFICES ASSUME "power" \in setting.failures, NEW l \in Survivors, NEW f \in SurvivingFiles
             PROVE  Contents(l, f) \in maybe
  BY DEF PowerLossBounded
<1>1. TypeOK /\ OnDisk /\ kv \in maybe /\ log \in Seq(Write) /\ Len(log) \in Nat
  BY LenProperties DEF Inv, Durable, TypeOK
<1>2. Contents(log, files) = kv
  BY <1>1, RecoveryIsExact DEF RecoveryExact
<1>3. PICK k \in synced..Len(log) : l = SubSeq(log, 1, k)
  BY DEF Survivors
<1>4. synced \in Nat
  BY <1>1 DEF TypeOK
<1>5. SubSeq(log, 1, Len(log)) = log
  BY <1>1, WholeLog
<1>6. CASE mode = "open" /\ pc = "sync"
  <2>1. f = files
    BY <1>6 DEF SurvivingFiles
  <2>2. k = Len(log) \/ k = Len(log) - 1
    BY <1>1, <1>3, <1>4, <1>6 DEF Durable
  <2>3. Contents(SubSeq(log, 1, Len(log) - 1), files) \in maybe
    BY <1>6 DEF Durable
  <2> QED
    BY <1>1, <1>2, <1>3, <1>5, <2>1, <2>2, <2>3
<1>7. CASE ~(mode = "open" /\ pc = "sync")
  <2>1. k = Len(log)
    BY <1>1, <1>3, <1>4, <1>7 DEF Durable
  <2>2. l = log
    BY <1>3, <1>5, <2>1
  <2>3. Contents(log, f) = kv
    <3>1. CASE mode = "open"
      <4>1. memtable = Replay(log)
        BY <1>7, <3>1 DEF Inv, InMemory, Buffered
      <4>2. /\ f \in [SegId -> SegmentFiles]
            /\ \A i \in SegId :
                 /\ f[i].rows = files[i].rows
                 /\ files[i].dead \subseteq f[i].dead
                 /\ \A d \in f[i].dead \ files[i].dead : Replay(log)[d] # NoVal
        BY <3>1, <4>1, SurvivingFilesAre
      <4>3. Contents(log, f) = Contents(log, files)
        BY <1>1, <4>2, ReferencedIs, ContentsAged
      <4> QED
        BY <1>2, <4>3
    <3>2. CASE mode = "down"
      BY <1>2, <3>2 DEF Inv, SurvivingFiles
    <3> QED
      BY <1>1, <3>1, <3>2 DEF TypeOK
  <2> QED
    BY <1>1, <2>2, <2>3
<1> QED
  BY <1>6, <1>7

LEMMA DurableWrite ==
    ASSUME Inv, Durable, NEW w \in Write, NEW syncs \in BOOLEAN, LogWrite(w, syncs),
           "power" \in setting.failures => syncs
    PROVE  Durable'
<1> SUFFICES ASSUME "power" \in setting.failures
             PROVE  /\ kv' \in maybe' /\ mode' = "open" /\ pc' = "sync"
                    /\ synced' = Len(log') - 1
                    /\ Contents(SubSeq(log, 1, Len(log) - 1), files)' \in maybe'
  BY DEF Durable, LogWrite
<1>1. /\ mode = "open" /\ pc = "idle" /\ mode' = mode /\ pc' = "sync" /\ files' = files
      /\ log' = Append(log, w) /\ kv' = Applied(w, kv) /\ synced' = synced
      /\ manifest' = manifest /\ maybe' = maybe \cup {kv'}
  BY DEF LogWrite, Idle, Remember
<1>2. TypeOK /\ OnDisk /\ log \in Seq(Write) /\ Len(log) \in Nat
  BY LenProperties DEF Inv, TypeOK
<1>3. kv \in maybe /\ synced = Len(log)
  BY <1>1 DEF Durable
<1>4. Len(log') = Len(log) + 1 /\ SubSeq(log', 1, Len(log') - 1) = log
  BY <1>1, <1>2, AppendProperties, FrontOfAppend
<1>5. Contents(SubSeq(log, 1, Len(log) - 1), files)' = Contents(log, files)
  <2> DEFINE Opened(l, R, f) ==
               [d \in Docs |-> CASE Replay(l)[d] = Deleted -> NoVal
                                [] Replay(l)[d] \in Vals -> Replay(l)[d]
                                [] OTHER -> NewestRow(R, f, d)]
  <2>1. Referenced' = Referenced
    BY <1>1 DEF Referenced
  <2>2. Contents(SubSeq(log, 1, Len(log) - 1), files)' =
          Opened(SubSeq(log', 1, Len(log') - 1), Referenced', files')
    BY DEF Contents
  <2>3. Contents(log, files) = Opened(log, Referenced, files)
    BY DEF Contents
  <2> HIDE DEF Opened
  <2> QED
    BY <1>1, <1>4, <2>1, <2>2, <2>3
<1>6. Contents(log, files) = kv
  BY <1>2, RecoveryIsExact DEF RecoveryExact
<1> QED
  BY <1>1, <1>2, <1>3, <1>4, <1>5, <1>6

LEMMA DurableNext ==
    ASSUME HandledErrors, PowerAfterSync, Inv, Durable, [Next]_vars
    PROVE  Durable'
<1>1. /\ TypeOK /\ setting \in Settings
      /\ "power" \in setting.failures =>
           setting.durability = "full" /\ "process" \notin setting.failures
  BY DEF PowerAfterSync, Inv, TypeOK
<1> DEFINE full == setting.durability = "full"
           batch == setting.durability \in {"full", "batch"}
<1>2. ASSUME NEW d \in Docs, NEW v \in Vals, Insert(d, v) \/ Upsert(d, v)
      PROVE  Durable'
  <2>1. LogWrite(Put(d, v), full) /\ full \in BOOLEAN /\ ("power" \in setting.failures => full)
    BY <1>1, <1>2 DEF Insert, Upsert
  <2> HIDE DEF full
  <2> QED
    BY <2>1, PutTypes, DurableWrite
<1>3. ASSUME NEW d \in Docs, Delete(d) PROVE Durable'
  <2>1. LogWrite(Put(d, Deleted), full) /\ full \in BOOLEAN
        /\ ("power" \in setting.failures => full)
    BY <1>1, <1>3 DEF Delete
  <2> HIDE DEF full
  <2> QED
    BY <2>1, PutTypes, DurableWrite
<1>4. ASSUME NEW w \in Batches, WriteBatch(w) PROVE Durable'
  <2>1. /\ LogWrite(w, batch) /\ batch \in BOOLEAN /\ w \in Write
        /\ ("power" \in setting.failures => batch)
    BY <1>1, <1>4, CollectionAssumption DEF WriteBatch
  <2> HIDE DEF batch
  <2> QED
    BY <2>1, DurableWrite
<1>5. CASE Sync
  BY <1>5 DEF Sync, ApplyToMemtable, MaybeFlush, Remember, Durable
<1>6. CASE \/ Flush \/ FinishFiles \/ KillRows \/ TruncateTombstones \/ RewriteTombstones
           \/ PushSegment \/ CommitFlush \/ CommitRefused \/ CompactStep
           \/ (\E p \in setting.percents : Compact(p))
  <2>1. /\ mode = "open" /\ pc # "sync" /\ pc' # "sync"
        /\ UNCHANGED <<setting, log, synced, kv, maybe>>
    BY <1>6 DEF Flush, FinishFiles, KillRows, TruncateTombstones, RewriteTombstones,
       PushSegment, CommitFlush, CommitRefused, CompactStep, FinishCompactFiles, SwapSegments, CommitCompact, RemoveOld,
       Compact, Idle, ghosts, disk
  <2> QED
    BY <2>1 DEF Durable
<1>7. CASE Checkpoint
  <2>1. /\ pc' = "idle" /\ setting' = setting /\ log' = <<>> /\ synced' = 0 /\ kv' = kv
        /\ "power" \in setting.failures => maybe' = {kv}
    BY <1>7 DEF Checkpoint, Remember
  <2> QED
    BY <2>1 DEF Durable
<1>8. CASE IoError
  <2>1. mode = "open" /\ pc \in setting.io
    BY <1>8 DEF IoError
  <2>2. pc \in {"files", "supersede", "compact_files", "compact_commit", "compact_remove"}
    BY <1>1, <2>1 DEF HandledErrors
  <2>3. pc' = "idle" /\ UNCHANGED <<setting, log, synced, kv, maybe>>
    BY <1>8, <2>2 DEF IoError, ghosts
  <2> QED
    BY <2>1, <2>2, <2>3 DEF Durable
<1>9. CASE Killed
  BY <1>1, <1>9 DEF Killed, Durable
<1>10. CASE PowerLoss
  BY <1>10 DEF PowerLoss, ForgetMemory, Durable
<1>11. CASE Open
  BY <1>11 DEF Open, Inv, ghosts, Durable
<1>12. CASE UNCHANGED vars
  BY <1>12 DEF vars, Durable, Contents, Referenced
<1> QED
  BY <1>2, <1>3, <1>4, <1>5, <1>6, <1>7, <1>8, <1>9, <1>10, <1>11, <1>12
     DEF Next, WriteStep, FlushStep

\* With full durability a power loss takes back at most the write whose sync
\* was under way, in the middle of a flush, a compaction or a bitmap rewrite
\* too.
THEOREM PowerTakesBackUnsyncedWrites ==
    ASSUME HandledErrors, PowerAfterSync
    PROVE  Spec => []PowerLossBounded
<1>1. Init => Durable
  BY DEF Init, Durable
<1>2. Inv /\ Durable /\ [Next]_vars => Durable'
  BY DurableNext
<1>3. Inv /\ Durable => PowerLossBounded
  BY SurvivorsRemembered
<1> QED
  BY <1>1, <1>2, <1>3, Invariance, PTL DEF Spec
===============================================================================
