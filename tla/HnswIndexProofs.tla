--------------------------- MODULE HnswIndexProofs ---------------------------
(***************************************************************************)
(* Proofs about HnswIndex for any threads, collections, documents and      *)
(* metrics: while rows are only added, a graph that has the rows of one    *)
(* collection has its first rows, so that what a search of that collection *)
(* finds in it is what the collection holds.  Collections may have the     *)
(* same dimension; a search that takes the graph of another for its own is *)
(* told by the ghosts of the model.                                        *)
(***************************************************************************)
EXTENDS HnswIndex, FiniteSetTheorems, WellFoundedInduction, SequenceTheorems, TLAPS

-------------------------------------------------------------------------------
(* Numbers and finite sets. *)

LEMMA LeastNatural ==
    ASSUME NEW S \in SUBSET Nat, S # {}
    PROVE  \E n \in S : \A m \in S : n <= m
<1> DEFINE R == {p \in Nat \X Nat : p[1] < p[2]}
<1>1. IsWellFoundedOn(R, Nat)
  BY NatLessThanWellFounded DEF OpToRel
<1> HIDE DEF R
<1>2. PICK n \in S : \A m \in S : ~ (<<m, n>> \in R)
  BY <1>1, WFMin, Zenon
<1>3. \A m \in S : ~ (m < n)
  BY <1>2 DEF R
<1> QED
  BY <1>3

LEMMA GreatestNatural ==
    ASSUME NEW S \in SUBSET Nat, S # {}, NEW b \in Nat, \A m \in S : m <= b
    PROVE  \E n \in S : \A m \in S : m <= n
<1> DEFINE T == {k \in 0..b : b - k \in S}
<1>1. \A m \in S : b - m \in T
  OBVIOUS
<1>2. T \in SUBSET Nat /\ T # {}
  <2>1. PICK m \in S : TRUE
    OBVIOUS
  <2>2. b - m \in T
    BY <1>1
  <2>3. T \in SUBSET Nat
    OBVIOUS
  <2> HIDE DEF T
  <2> QED
    BY <2>2, <2>3
<1>3. PICK t \in T : \A u \in T : t <= u
  <2> HIDE DEF T
  <2> QED
    BY <1>2, LeastNatural
<1> QED
  BY <1>1, <1>3

LEMMA BoundedNaturals ==
    ASSUME NEW n \in Nat, NEW f \in [1..n -> Nat]
    PROVE  \E b \in Nat : \A i \in 1..n : f[i] <= b
<1> DEFINE T == {k \in 0..n : ~ \E b \in Nat : \A i \in 1..k : f[i] <= b}
<1>1. T = {}
  <2> SUFFICES ASSUME T # {} PROVE FALSE
    OBVIOUS
  <2>1. PICK k \in T : \A j \in T : k <= j
    <3>1. T \in SUBSET Nat
      OBVIOUS
    <3> HIDE DEF T
    <3> QED
      BY <3>1, LeastNatural
  <2>2. k # 0
    <3>1. \A i \in 1..0 : f[i] <= 0
      OBVIOUS
    <3> QED
      BY <3>1
  <2>3. k - 1 \in 0..n /\ k - 1 \notin T
    <3>1. k - 1 \in 0..n
      BY <2>2
    <3>2. ~ (k <= k - 1)
      BY <3>1
    <3> HIDE DEF T
    <3> QED
      BY <2>1, <3>1, <3>2
  <2>4. PICK b \in Nat : \A i \in 1..(k - 1) : f[i] <= b
    BY <2>3
  <2>5. k \in 1..n /\ f[k] \in Nat
    <3>1. k \in 0..n
      BY DEF T
    <3> HIDE DEF T
    <3> QED
      BY <2>2, <3>1
  <2>6. b + f[k] \in Nat /\ \A i \in 1..k : f[i] <= b + f[k]
    <3> HIDE DEF T
    <3> QED
      BY <2>4, <2>5
  <2> QED
    BY <2>6
<1>2. n \notin T
  <2> HIDE DEF T
  <2> QED
    BY <1>1
<1> QED
  BY <1>2

LEMMA FiniteGreatest ==
    ASSUME NEW S \in SUBSET Nat, S # {}, IsFiniteSet(S)
    PROVE  \E n \in S : \A m \in S : m <= n
<1> DEFINE c == Cardinality(S)
<1>1. c \in Nat /\ ExistsBijection(1..c, S)
  BY FS_CardinalityType
<1>2. PICK f \in [1..c -> S] : \A s \in S : \E i \in 1..c : f[i] = s
  BY <1>1 DEF ExistsBijection, Bijection, Injection, Surjection
<1>3. f \in [1..c -> Nat]
  BY <1>2
<1> HIDE DEF c
<1>4. PICK b \in Nat : \A i \in 1..c : f[i] <= b
  BY <1>1, <1>3, BoundedNaturals
<1>5. \A m \in S : m <= b
  BY <1>2, <1>4
<1> QED
  BY <1>5, GreatestNatural

\* The image of a finite set.
LEMMA ImageFinite ==
    ASSUME NEW S, NEW T, NEW f \in [S -> T], IsFiniteSet(S), \A y \in T : \E x \in S : f[x] = y
    PROVE  /\ IsFiniteSet(T) /\ Cardinality(T) <= Cardinality(S)
           /\ (\A x, y \in S : f[x] = f[y] => x = y) => Cardinality(T) = Cardinality(S)
<1>1. f \in Surjection(S, T)
  BY DEF Surjection
<1>2. (\A x, y \in S : f[x] = f[y] => x = y) => f \in Injection(S, T)
  BY DEF Injection, IsInjective
<1> QED
  BY <1>1, <1>2, FS_Surjection

-------------------------------------------------------------------------------
(* Rows in order. *)

LEMMA CountTo ==
    ASSUME NEW n \in Nat
    PROVE  IsFiniteSet(1..n) /\ Cardinality(1..n) = n
  BY FS_Interval

\* A finite set of rows has a last one.
LEMMA LastRow ==
    ASSUME NEW S \in SUBSET (Nat \X Nat), S # {}, IsFiniteSet(S)
    PROVE  \E g \in S : \A r \in S : r = g \/ Before(r, g)
<1> DEFINE F == {r[1] : r \in S}
<1>1. F \in SUBSET Nat /\ F # {}
  OBVIOUS
<1>2. IsFiniteSet(F)
  <2> DEFINE f == [r \in S |-> r[1]]
  <2>1. f \in [S -> F] /\ \A y \in F : \E r \in S : f[r] = y
    OBVIOUS
  <2> HIDE DEF f, F
  <2> QED
    BY <2>1, ImageFinite
<1>3. PICK s \in F : \A u \in F : u <= s
  <2> HIDE DEF F
  <2> QED
    BY <1>1, <1>2, FiniteGreatest
<1> DEFINE T == {r \in S : r[1] = s}
           G == {r[2] : r \in T}
<1>4. G \in SUBSET Nat /\ G # {}
  BY <1>3
<1>5. IsFiniteSet(G)
  <2>1. T \subseteq S
    OBVIOUS
  <2>2. IsFiniteSet(T)
    <3> HIDE DEF T
    <3> QED
      BY <2>1, FS_Subset
  <2> DEFINE f == [r \in T |-> r[2]]
  <2>3. f \in [T -> G] /\ \A y \in G : \E r \in T : f[r] = y
    OBVIOUS
  <2> HIDE DEF f, T, G
  <2> QED
    BY <2>2, <2>3, ImageFinite
<1>6. PICK i \in G : \A j \in G : j <= i
  <2> HIDE DEF G
  <2> QED
    BY <1>4, <1>5, FiniteGreatest
<1>7. PICK g \in S : g[1] = s /\ g[2] = i
  BY <1>6
<1>8. ASSUME NEW r \in S PROVE r = g \/ Before(r, g)
  <2>1. r \in Nat \X Nat /\ g \in Nat \X Nat
    BY <1>7
  <2>2. r[1] <= g[1]
    BY <1>3, <1>7
  <2>3. r[1] = g[1] => r[2] <= g[2]
    BY <1>6, <1>7
  <2>4. r = <<r[1], r[2]>> /\ g = <<g[1], g[2]>>
    BY <2>1
  <2>5. /\ r[1] \in Nat /\ r[2] \in Nat /\ g[1] \in Nat /\ g[2] \in Nat
    BY <2>1
  <2> QED
    BY <2>2, <2>3, <2>4, <2>5 DEF Before
<1> QED
  BY <1>7, <1>8

\* f lists the rows of S in order.
IsRowList(f, S) ==
    /\ f \in [1..Cardinality(S) -> S]
    /\ \A i, j \in 1..Cardinality(S) : i < j => Before(f[i], f[j])

\* A finite set of rows can be listed in order: by induction on its size, with
\* the last row at the end.
LEMMA RowListExists ==
    ASSUME NEW S \in SUBSET (Nat \X Nat), IsFiniteSet(S)
    PROVE  \E f : IsRowList(f, S)
<1> DEFINE Bad(n) == \E T \in SUBSET (Nat \X Nat) : /\ IsFiniteSet(T) /\ Cardinality(T) = n
                                                    /\ ~ \E f : IsRowList(f, T)
           B == {n \in Nat : Bad(n)}
<1>1. B = {}
  <2> SUFFICES ASSUME B # {} PROVE FALSE
    OBVIOUS
  <2>1. PICK n \in B : \A m \in B : n <= m
    <3>1. B \in SUBSET Nat
      OBVIOUS
    <3> HIDE DEF B
    <3> QED
      BY <3>1, LeastNatural
  <2>2. n \in Nat /\ Bad(n)
    BY <2>1
  <2>3. PICK T \in SUBSET (Nat \X Nat) : /\ IsFiniteSet(T) /\ Cardinality(T) = n
                                         /\ ~ \E f : IsRowList(f, T)
    BY <2>2
  <2>4. CASE T = {}
    <3>1. Cardinality(T) = 0
      BY <2>4, FS_EmptySet
    <3>2. IsRowList([i \in 1..0 |-> 0], T)
      BY <3>1 DEF IsRowList
    <3> QED
      BY <2>3, <3>2
  <2>5. CASE T # {}
    <3>1. PICK g \in T : \A r \in T : r = g \/ Before(r, g)
      BY <2>3, <2>5, LastRow
    <3> DEFINE U == T \ {g}
    <3>2. IsFiniteSet(U) /\ Cardinality(U) = n - 1 /\ U \in SUBSET (Nat \X Nat) /\ n - 1 \in Nat
      <4>1. IsFiniteSet(U) /\ Cardinality(U) = n - 1
        BY <2>3, <3>1, FS_RemoveElement
      <4>2. Cardinality(U) \in Nat
        BY <4>1, FS_CardinalityType
      <4> QED
        BY <4>1, <4>2
    <3>3. ~Bad(n - 1)
      <4>1. n - 1 \notin B
        <5> HIDE DEF B
        <5> QED
          BY <2>1, <2>2, <3>2
      <4> QED
        BY <3>2, <4>1
    <3>4. PICK f : IsRowList(f, U)
      <4> HIDE DEF U
      <4> QED
        BY <3>2, <3>3
    <3>5. f \in [1..(n - 1) -> U] /\ \A i, j \in 1..(n - 1) : i < j => Before(f[i], f[j])
      BY <3>2, <3>4 DEF IsRowList
    <3> DEFINE h == [i \in 1..n |-> IF i = n THEN g ELSE f[i]]
    <3>6. \A i \in 1..(n - 1) : f[i] \in T /\ Before(f[i], g)
      BY <3>1, <3>5
    <3>7. h \in [1..n -> T]
      BY <3>1, <3>2, <3>6
    <3>8. \A i, j \in 1..n : i < j => Before(h[i], h[j])
      <4> SUFFICES ASSUME NEW i \in 1..n, NEW j \in 1..n, i < j
                   PROVE  Before(h[i], h[j])
        OBVIOUS
      <4>1. i \in 1..(n - 1) /\ (j = n \/ j \in 1..(n - 1))
        BY <3>2
      <4> QED
        BY <3>2, <3>5, <3>6, <4>1
    <3>9. IsRowList(h, T)
      <4> HIDE DEF h
      <4> QED
        BY <2>3, <3>7, <3>8 DEF IsRowList
    <3> QED
      BY <2>3, <3>9
  <2> QED
    BY <2>4, <2>5
<1>2. Cardinality(S) \in Nat
  BY FS_CardinalityType
<1>3. ~Bad(Cardinality(S))
  BY <1>1, <1>2
<1> QED
  BY <1>3

\* The list has every row once.
LEMMA InRowOrderIs ==
    ASSUME NEW S \in SUBSET (Nat \X Nat), IsFiniteSet(S)
    PROVE  /\ Cardinality(S) \in Nat
           /\ InRowOrder(S) \in [1..Cardinality(S) -> S]
           /\ \A r \in S : \E i \in 1..Cardinality(S) : InRowOrder(S)[i] = r
           /\ \A i, j \in 1..Cardinality(S) : InRowOrder(S)[i] = InRowOrder(S)[j] => i = j
<1> DEFINE c == Cardinality(S)
           f == InRowOrder(S)
<1>1. c \in Nat
  BY FS_CardinalityType
<1>2. f \in [1..c -> S] /\ \A i, j \in 1..c : i < j => Before(f[i], f[j])
  <2>1. \E g \in [1..c -> S] : \A i, j \in 1..c : i < j => Before(g[i], g[j])
    BY RowListExists DEF IsRowList
  <2> HIDE DEF c
  <2> QED
    BY <2>1 DEF InRowOrder, c
<1> HIDE DEF c, f
<1>3. \A i, j \in 1..c : f[i] = f[j] => i = j
  <2> SUFFICES ASSUME NEW i \in 1..c, NEW j \in 1..c, f[i] = f[j], i # j PROVE FALSE
    OBVIOUS
  <2>1. i < j \/ j < i
    BY <1>1
  <2>2. f[i][1] \in Nat /\ f[i][2] \in Nat
    BY <1>2
  <2> QED
    BY <1>2, <2>1, <2>2 DEF Before
<1>4. f \in Injection(1..c, S)
  BY <1>2, <1>3 DEF Injection, IsInjective
<1>5. IsFiniteSet(1..c) /\ Cardinality(1..c) = c
  BY <1>1, FS_Interval
<1>6. f \in Surjection(1..c, S)
  BY <1>4, <1>5, FS_Injection DEF c
<1> QED
  BY <1>1, <1>2, <1>3, <1>6 DEF Surjection, c, f

-------------------------------------------------------------------------------
(* Collections. *)

MemtableRow == [doc : Docs, vector : Nat]
SegmentRow == [doc : Docs, vector : Nat, live : BOOLEAN]
Contents == [segments : Seq(Seq(SegmentRow)), memtable : Seq(MemtableRow), deleted : SUBSET Docs]
Node == [row : Nat \X Nat, vector : Nat]

\* A document is live in one row of the segments, and in one of the memtable.
OnceLive(x) ==
    \A r, q \in LiveRows(x) : Stored(x, r).doc = Stored(x, q).doc => r = q

OnceBuffered(m) == \A i, j \in DOMAIN m : m[i].doc = m[j].doc => i = j

Sound(x) == x \in Contents /\ OnceLive(x) /\ OnceBuffered(x.memtable)

\* What is a live row of the segments.
LEMMA LiveRowsAre ==
    ASSUME NEW x \in Contents
    PROVE  /\ LiveRows(x) \in SUBSET (Nat \X Nat)
           /\ \A r : r \in LiveRows(x) <=>
                /\ r = <<r[1], r[2]>> /\ r[1] \in DOMAIN x.segments
                /\ r[2] \in DOMAIN x.segments[r[1]] /\ Stored(x, r).live
           /\ \A r \in LiveRows(x) : r[1] # Memtable /\ Stored(x, r) \in SegmentRow
<1> DEFINE all == UNION {{s} \X DOMAIN x.segments[s] : s \in DOMAIN x.segments}
<1>1. x.segments \in Seq(Seq(SegmentRow))
  BY DEF Contents
<1>2. \A s \in DOMAIN x.segments : s \in Nat /\ s # 0 /\ x.segments[s] \in Seq(SegmentRow)
  BY <1>1
<1>3. \A s \in DOMAIN x.segments : \A i \in DOMAIN x.segments[s] :
        i \in Nat /\ x.segments[s][i] \in SegmentRow
  BY <1>2
<1>4. \A r : r \in all <=>
        /\ r = <<r[1], r[2]>> /\ r[1] \in DOMAIN x.segments /\ r[2] \in DOMAIN x.segments[r[1]]
  OBVIOUS
<1> HIDE DEF all
<1>5. \A r : r \in LiveRows(x) <=> r \in all /\ Stored(x, r).live
  BY DEF LiveRows, all
<1>6. \A r \in all : r \in Nat \X Nat /\ r[1] # 0 /\ Stored(x, r) \in SegmentRow
  BY <1>2, <1>3, <1>4 DEF Stored
<1> QED
  BY <1>4, <1>5, <1>6 DEF Memtable

\* There are finitely many.
LEMMA LiveRowsFinite ==
    ASSUME NEW x \in Contents
    PROVE  IsFiniteSet(LiveRows(x)) /\ IsFiniteSet(Visible(x))
<1> DEFINE D == DOMAIN x.segments
           F == {{s} \X DOMAIN x.segments[s] : s \in D}
           f == [s \in D |-> {s} \X DOMAIN x.segments[s]]
<1>1. x.segments \in Seq(Seq(SegmentRow))
  BY DEF Contents
<1>2. D = 1..Len(x.segments) /\ Len(x.segments) \in Nat
  BY <1>1
<1>3. IsFiniteSet(D)
  BY <1>2, FS_Interval
<1>4. f \in [D -> F] /\ \A y \in F : \E s \in D : f[s] = y
  OBVIOUS
<1>5. ASSUME NEW y \in F PROVE IsFiniteSet(y)
  <2>1. PICK s \in D : y = {s} \X DOMAIN x.segments[s]
    OBVIOUS
  <2>2. x.segments[s] \in Seq(SegmentRow)
    BY <1>1, <2>1
  <2>3. DOMAIN x.segments[s] = 1..Len(x.segments[s]) /\ Len(x.segments[s]) \in Nat
    BY <2>2
  <2>4. IsFiniteSet({s}) /\ IsFiniteSet(DOMAIN x.segments[s])
    <3>1. IsFiniteSet({s})
      BY FS_Singleton
    <3>2. IsFiniteSet(1..Len(x.segments[s]))
      BY <2>3, FS_Interval
    <3> QED
      BY <2>3, <3>1, <3>2
  <2> QED
    BY <2>1, <2>4, FS_Product
<1>6. LiveRows(x) \subseteq UNION F /\ Visible(x) \subseteq UNION F
  BY DEF LiveRows, Visible
<1> HIDE DEF D, F, f
<1>7. IsFiniteSet(F)
  BY <1>3, <1>4, ImageFinite
<1>8. IsFiniteSet(UNION F)
  BY <1>5, <1>7, FS_UNION
<1> QED
  BY <1>6, <1>8, FS_Subset

\* The node of a row.
NodeOf(r, v) == [row |-> r, vector |-> v]

LEMMA NodeOfIs == \A r, v : NodeOf(r, v).row = r /\ NodeOf(r, v).vector = v
  BY DEF NodeOf

\* The list of for_each: the visible rows of the segments, then the memtable.
LEMMA SourceShape ==
    ASSUME NEW x \in Contents, NEW V, NEW c, NEW o, NEW m,
           V = Visible(x), c = Cardinality(V), o = InRowOrder(V), m = x.memtable
    PROVE  /\ c \in Nat /\ o \in [1..c -> V]
           /\ \A r \in V : \E k \in 1..c : o[k] = r
           /\ \A i, j \in 1..c : o[i] = o[j] => i = j
           /\ Len(m) \in Nat /\ DOMAIN m = 1..Len(m)
           /\ SourceRows(x) \in Seq(Node) /\ Len(SourceRows(x)) = c + Len(m)
           /\ \A k \in 1..c : SourceRows(x)[k] = NodeOf(o[k], Stored(x, o[k]).vector)
           /\ \A k \in 1..Len(m) : SourceRows(x)[c + k] = NodeOf(<<Memtable, k>>, m[k].vector)
<1> DEFINE A == [k \in DOMAIN o |-> NodeOf(o[k], Stored(x, o[k]).vector)]
           M == [i \in DOMAIN m |-> NodeOf(<<Memtable, i>>, m[i].vector)]
<1>1. /\ V \in SUBSET (Nat \X Nat) /\ \A r \in V : Stored(x, r) \in SegmentRow
  BY LiveRowsAre DEF Visible
<1>2. /\ c \in Nat /\ o \in [1..c -> V]
      /\ \A r \in V : \E k \in 1..c : o[k] = r
      /\ \A i, j \in 1..c : o[i] = o[j] => i = j
  BY <1>1, LiveRowsFinite, InRowOrderIs
<1>3. /\ m \in Seq(MemtableRow) /\ Len(m) \in Nat /\ DOMAIN m = 1..Len(m)
      /\ \A k \in 1..Len(m) : m[k].vector \in Nat
  <2>1. m \in Seq(MemtableRow)
    BY DEF Contents
  <2>2. DOMAIN m = 1..Len(m) /\ Len(m) \in Nat
    BY <2>1, LenProperties
  <2>3. \A k \in 1..Len(m) : m[k] \in MemtableRow
    BY <2>1, <2>2, ElementOfSeq
  <2> QED
    BY <2>1, <2>2, <2>3 DEF MemtableRow
<1>4. SourceRows(x) = A \o M
  BY DEF SourceRows, NodeOf
<1>5. /\ A \in Seq(Node) /\ Len(A) = c
      /\ \A k \in 1..c : A[k] = NodeOf(o[k], Stored(x, o[k]).vector)
  <2>1. \A k \in 1..c : NodeOf(o[k], Stored(x, o[k]).vector) \in Node
    BY <1>1, <1>2 DEF Node, SegmentRow, NodeOf
  <2>2. /\ A \in [1..c -> Node]
        /\ \A k \in 1..c : A[k] = NodeOf(o[k], Stored(x, o[k]).vector)
    BY <1>2, <2>1
  <2> HIDE DEF A
  <2> QED
    BY <1>2, <2>2
<1>6. /\ M \in Seq(Node) /\ Len(M) = Len(m)
      /\ \A k \in 1..Len(m) : M[k] = NodeOf(<<Memtable, k>>, m[k].vector)
  <2>1. \A k \in 1..Len(m) : NodeOf(<<Memtable, k>>, m[k].vector) \in Node
    BY <1>3 DEF Node, Memtable, NodeOf
  <2>2. /\ M \in [1..Len(m) -> Node]
        /\ \A k \in 1..Len(m) : M[k] = NodeOf(<<Memtable, k>>, m[k].vector)
    BY <1>3, <2>1
  <2> HIDE DEF M
  <2> QED
    BY <1>3, <2>2
<1> HIDE DEF A, M
<1>7. /\ A \o M \in Seq(Node) /\ Len(A \o M) = Len(A) + Len(M)
      /\ \A i \in 1..(Len(A) + Len(M)) :
           (A \o M)[i] = IF i <= Len(A) THEN A[i] ELSE M[i - Len(A)]
  <2>1. A \in Seq(Node) /\ M \in Seq(Node)
    BY <1>5, <1>6
  <2> QED
    BY <2>1, ConcatProperties
<1>8. \A k \in 1..c : (A \o M)[k] = A[k]
  BY <1>2, <1>3, <1>5, <1>6, <1>7
<1>9. \A k \in 1..Len(m) : (A \o M)[c + k] = M[k]
  <2> SUFFICES ASSUME NEW k \in 1..Len(m) PROVE (A \o M)[c + k] = M[k]
    OBVIOUS
  <2>1. c + k \in 1..(c + Len(m)) /\ ~(c + k <= c) /\ (c + k) - c = k
    BY <1>2, <1>3
  <2> QED
    BY <1>5, <1>6, <1>7, <2>1
<1> QED
  BY <1>2, <1>3, <1>4, <1>5, <1>6, <1>7, <1>8, <1>9

\* The same in one word: x presents c rows of segments in the order o, then m.
Presents(x, V, c, o, m) ==
    /\ Len(SourceRows(x)) = c + Len(m)
    /\ \A k \in 1..c : SourceRows(x)[k] = NodeOf(o[k], Stored(x, o[k]).vector)
    /\ \A k \in 1..Len(m) : SourceRows(x)[c + k] = NodeOf(<<Memtable, k>>, m[k].vector)

LEMMA PresentsRows ==
    ASSUME NEW x \in Contents
    PROVE  Presents(x, Visible(x), Cardinality(Visible(x)), InRowOrder(Visible(x)), x.memtable)
  BY SourceShape DEF Presents

\* What for_each presents: rows that are live, of different documents.
LEMMA SourceRowsAre ==
    ASSUME NEW x, Sound(x)
    PROVE  /\ SourceRows(x) \in Seq(Node)
           /\ \A i \in DOMAIN SourceRows(x) : IsLive(x, SourceRows(x)[i].row)
           /\ \A i, j \in DOMAIN SourceRows(x) :
                DocId(x, SourceRows(x)[i].row) = DocId(x, SourceRows(x)[j].row) => i = j
<1> DEFINE V == Visible(x)
           c == Cardinality(V)
           o == InRowOrder(V)
           m == x.memtable
           S == SourceRows(x)
<1>1. x \in Contents /\ OnceBuffered(m) /\ OnceLive(x)
  BY DEF Sound
<1>2. /\ c \in Nat /\ o \in [1..c -> V]
      /\ \A i, j \in 1..c : o[i] = o[j] => i = j
      /\ Len(m) \in Nat /\ DOMAIN m = 1..Len(m)
      /\ S \in Seq(Node) /\ Len(S) = c + Len(m)
      /\ \A k \in 1..c : S[k] = NodeOf(o[k], Stored(x, o[k]).vector)
      /\ \A k \in 1..Len(m) : S[c + k] = NodeOf(<<Memtable, k>>, m[k].vector)
  <2> HIDE DEF S
  <2> QED
    BY <1>1, SourceShape DEF S
<1>3. \A r \in V : /\ r[1] # Memtable /\ r \in LiveRows(x) /\ ~Shadowed(x, Stored(x, r).doc)
  BY <1>1, LiveRowsAre DEF Visible
<1> HIDE DEF V, c, o, m, S
<1>4. \A k \in 1..c : IsLive(x, S[k].row) /\ DocId(x, S[k].row) = Stored(x, o[k]).doc
                      /\ ~Shadowed(x, DocId(x, S[k].row))
  BY <1>2, <1>3, NodeOfIs DEF IsLive, DocId
<1>5. \A k \in 1..Len(m) : IsLive(x, S[c + k].row) /\ DocId(x, S[c + k].row) = m[k].doc
                      /\ Shadowed(x, DocId(x, S[c + k].row))
  <2> SUFFICES ASSUME NEW k \in 1..Len(m)
               PROVE  /\ IsLive(x, S[c + k].row) /\ DocId(x, S[c + k].row) = m[k].doc
                      /\ Shadowed(x, DocId(x, S[c + k].row))
    OBVIOUS
  <2>1. S[c + k].row = <<Memtable, k>> /\ k <= Len(m)
    <3>1. S[c + k] = NodeOf(<<Memtable, k>>, m[k].vector)
      BY <1>2
    <3> QED
      BY <1>2, <3>1, NodeOfIs
  <2>2. IsLive(x, S[c + k].row) /\ DocId(x, S[c + k].row) = m[k].doc
    BY <2>1 DEF IsLive, DocId, m
  <2> QED
    BY <1>2, <2>2 DEF Shadowed, m
<1>6. \A i \in 1..Len(S) : i \in 1..c \/ \E k \in 1..Len(m) : i = c + k
  <2> SUFFICES ASSUME NEW i \in 1..Len(S), i \notin 1..c
               PROVE  \E k \in 1..Len(m) : i = c + k
    OBVIOUS
  <2>1. i - c \in 1..Len(m) /\ i = c + (i - c)
    BY <1>2
  <2> QED
    BY <2>1
<1>7. ASSUME NEW i \in 1..Len(S), NEW j \in 1..Len(S), DocId(x, S[i].row) = DocId(x, S[j].row)
      PROVE  i = j
  <2>1. CASE i \in 1..c /\ j \in 1..c
    <3>1. Stored(x, o[i]).doc = Stored(x, o[j]).doc
      BY <1>4, <1>7, <2>1
    <3>2. o[i] \in LiveRows(x) /\ o[j] \in LiveRows(x)
      BY <1>2, <1>3, <2>1
    <3>3. o[i] = o[j]
      BY <1>1, <3>1, <3>2 DEF OnceLive
    <3> QED
      BY <1>2, <2>1, <3>3
  <2>2. CASE i \notin 1..c /\ j \notin 1..c
    <3>1. PICK k \in 1..Len(m) : i = c + k
      BY <1>6, <2>2
    <3>2. PICK l \in 1..Len(m) : j = c + l
      BY <1>6, <2>2
    <3>3. m[k].doc = m[l].doc
      BY <1>5, <1>7, <3>1, <3>2
    <3> QED
      BY <1>1, <1>2, <3>1, <3>2, <3>3 DEF OnceBuffered
  <2>3. CASE ~(i \in 1..c <=> j \in 1..c)
    BY <1>4, <1>5, <1>6, <1>7, <2>3
  <2> QED
    BY <2>1, <2>2, <2>3
<1>8. DOMAIN S = 1..Len(S)
  BY <1>2, LenProperties
<1>9. \A i \in 1..Len(S) : IsLive(x, S[i].row)
  BY <1>4, <1>5, <1>6
<1> QED
  BY <1>2, <1>7, <1>8, <1>9 DEF S

-------------------------------------------------------------------------------
(* Writes. *)

\* The memtable without a document: the other rows, each once.
LEMMA WithoutIs ==
    ASSUME NEW m \in Seq(MemtableRow), OnceBuffered(m), NEW d
    PROVE  /\ Without(m, d) \in Seq(MemtableRow) /\ OnceBuffered(Without(m, d))
           /\ \A i \in DOMAIN Without(m, d) :
                Without(m, d)[i].doc # d /\ \E j \in DOMAIN m : m[j] = Without(m, d)[i]
<1> DEFINE at == {i \in DOMAIN m : m[i].doc = d}
           n == Len(m)
<1>1. n \in Nat /\ DOMAIN m = 1..n
  BY LenProperties
<1>2. CASE at = {}
  <2>1. Without(m, d) = m
    BY <1>2 DEF Without
  <2> QED
    BY <1>2, <2>1
<1>3. CASE at # {}
  <2> DEFINE k == CHOOSE i \in at : TRUE
             w == RemoveAt(m, k)
             a == SubSeq(m, 1, k - 1)
             b == SubSeq(m, k + 1, n)
  <2>1. k \in 1..n /\ m[k].doc = d /\ Without(m, d) = w
    BY <1>1, <1>3 DEF Without
  <2>2. w = a \o b
    BY DEF RemoveAt
  <2> HIDE DEF k, w, a, b, n, at
  <2>3. /\ a \in Seq(MemtableRow) /\ Len(a) = k - 1
        /\ \A i \in 1..(k - 1) : a[i] = m[i]
    BY <1>1, <2>1, SubSeqProperties DEF a, n
  <2>4. /\ b \in Seq(MemtableRow) /\ Len(b) = n - k
        /\ \A i \in 1..(n - k) : b[i] = m[k + i]
    <3>1. k + 1 \in 1..(n + 1) /\ n \in k..n
      BY <1>1, <2>1
    <3>2. /\ b \in Seq(MemtableRow) /\ Len(b) = IF k + 1 <= n THEN n - (k + 1) + 1 ELSE 0
          /\ \A i \in 1..(n - (k + 1) + 1) : b[i] = m[k + 1 + i - 1]
      BY <1>1, <2>1, <3>1, SubSeqProperties DEF b, n
    <3> QED
      BY <1>1, <2>1, <3>2
  <2>5. /\ w \in Seq(MemtableRow) /\ Len(w) = n - 1
        /\ \A i \in 1..(n - 1) : w[i] = IF i < k THEN m[i] ELSE m[i + 1]
    <3>1. w \in Seq(MemtableRow) /\ Len(w) = n - 1
      <4>1. a \o b \in Seq(MemtableRow) /\ Len(a \o b) = Len(a) + Len(b)
        BY <2>3, <2>4, ConcatProperties
      <4> QED
        BY <1>1, <2>1, <2>2, <2>3, <2>4, <4>1
    <3>2. ASSUME NEW i \in 1..(n - 1) PROVE w[i] = IF i < k THEN m[i] ELSE m[i + 1]
      <4>1. CASE i < k
        <5>1. i \in 1..(k - 1) /\ w[i] = a[i]
          BY <1>1, <2>1, <2>2, <2>3, <2>4, <3>1, <4>1, ConcatProperties
        <5> QED
          BY <2>3, <4>1, <5>1
      <4>2. CASE ~(i < k)
        <5>1. i - (k - 1) \in 1..(n - k) /\ k + (i - (k - 1)) = i + 1
          BY <1>1, <2>1, <4>2
        <5>2. w[i] = b[i - (k - 1)]
          BY <1>1, <2>1, <2>2, <2>3, <2>4, <3>1, <4>2, ConcatProperties
        <5> QED
          BY <2>4, <4>2, <5>1, <5>2
      <4> QED
        BY <4>1, <4>2
    <3> QED
      BY <3>1, <3>2
  <2> DEFINE p(i) == IF i < k THEN i ELSE i + 1
  <2>6. \A i \in 1..(n - 1) : p(i) \in 1..n /\ p(i) # k /\ w[i] = m[p(i)]
    BY <1>1, <2>1, <2>5
  <2>7. \A i, j \in 1..(n - 1) : p(i) = p(j) => i = j
    BY <1>1, <2>1
  <2> HIDE DEF p
  <2>8. DOMAIN w = 1..(n - 1)
    BY <2>5, LenProperties
  <2>9. \A i \in DOMAIN w : w[i].doc # d
    BY <1>1, <2>1, <2>6, <2>8 DEF OnceBuffered
  <2>10. OnceBuffered(w)
    BY <1>1, <2>6, <2>7, <2>8 DEF OnceBuffered
  <2> QED
    BY <1>1, <2>1, <2>5, <2>6, <2>8, <2>9, <2>10
<1> QED
  BY <1>2, <1>3

\* A write of one document to the memtable.
LEMMA PutSound ==
    ASSUME NEW x, Sound(x), NEW d \in Docs, NEW v \in Nat, NEW y,
           y \in Contents, y.segments = x.segments,
           y.memtable = Append(Without(x.memtable, d), [doc |-> d, vector |-> v])
    PROVE  Sound(y)
<1> DEFINE w == Without(x.memtable, d)
           e == [doc |-> d, vector |-> v]
<1>1. /\ w \in Seq(MemtableRow) /\ OnceBuffered(w) /\ \A i \in DOMAIN w : w[i].doc # d
  BY WithoutIs DEF Sound, Contents
<1>2. e \in MemtableRow /\ e.doc = d
  BY DEF MemtableRow
<1> HIDE DEF w, e
<1>3. /\ Len(w) \in Nat /\ DOMAIN w = 1..Len(w)
      /\ DOMAIN Append(w, e) = 1..(Len(w) + 1)
      /\ \A i \in 1..Len(w) : Append(w, e)[i] = w[i]
      /\ Append(w, e)[Len(w) + 1] = e
  BY <1>1, <1>2, AppendProperties, LenProperties
<1>4. OnceBuffered(Append(w, e))
  <2> SUFFICES ASSUME NEW i \in 1..(Len(w) + 1), NEW j \in 1..(Len(w) + 1),
                      Append(w, e)[i].doc = Append(w, e)[j].doc
               PROVE  i = j
    BY <1>3 DEF OnceBuffered
  <2>1. \A k \in 1..(Len(w) + 1) : k \in 1..Len(w) \/ k = Len(w) + 1
    BY <1>3
  <2> QED
    BY <1>1, <1>2, <1>3, <2>1 DEF OnceBuffered
<1>5. LiveRows(y) = LiveRows(x) /\ OnceLive(y)
  BY DEF LiveRows, Stored, OnceLive, Sound
<1> QED
  BY <1>4, <1>5 DEF Sound, w, e

\* The nodes are the first of the rows.
FirstRows(nodes, rows) ==
    /\ nodes \in Seq(Node) /\ Len(nodes) <= Len(rows)
    /\ \A i \in 1..Len(nodes) : nodes[i] = rows[i]

\* for_each presents no row of document d.
NoRowOf(x, d) == \A i \in DOMAIN SourceRows(x) : DocId(x, SourceRows(x)[i].row) # d

\* An insert of a document that is not there adds one row at the end of what
\* for_each presents.
LEMMA InsertAppends ==
    ASSUME NEW x, NEW d \in Docs, NEW v \in Nat, NEW y, Sound(x), y \in Contents,
           y.segments = x.segments,
           y.memtable = Append(Without(x.memtable, d), [doc |-> d, vector |-> v]),
           y.deleted = x.deleted \ {d}, NoRowOf(x, d)
    PROVE  FirstRows(SourceRows(x), SourceRows(y))
<1> DEFINE m == x.memtable
           n == y.memtable
           V == Visible(x)
           c == Cardinality(V)
           o == InRowOrder(V)
           S == SourceRows(x)
           T == SourceRows(y)
           e == [doc |-> d, vector |-> v]
<1>1. x \in Contents
  BY DEF Sound
<1>2. /\ c \in Nat /\ o \in [1..c -> V] /\ \A r \in V : \E k \in 1..c : o[k] = r
      /\ Len(m) \in Nat /\ DOMAIN m = 1..Len(m)
      /\ S \in Seq(Node) /\ Len(S) = c + Len(m)
      /\ \A k \in 1..c : S[k] = NodeOf(o[k], Stored(x, o[k]).vector)
      /\ \A k \in 1..Len(m) : S[c + k] = NodeOf(<<Memtable, k>>, m[k].vector)
  <2> HIDE DEF S
  <2> QED
    BY <1>1, SourceShape DEF S
<1>3. \A r \in V : r[1] # Memtable /\ r \in LiveRows(x)
  BY <1>1, LiveRowsAre DEF Visible
<1>4. DOMAIN S = 1..(c + Len(m))
  BY <1>2, LenProperties
<1>5. \A k \in 1..Len(m) : m[k].doc # d
  <2> SUFFICES ASSUME NEW k \in 1..Len(m) PROVE m[k].doc # d
    OBVIOUS
  <2>1. c + k \in 1..(c + Len(m))
    BY <1>2
  <2>2. DocId(x, S[c + k].row) = m[k].doc
    <3>1. S[c + k].row = <<Memtable, k>>
      <4> HIDE DEF S, c, m
      <4>1. S[c + k] = NodeOf(<<Memtable, k>>, m[k].vector)
        BY <1>2
      <4> QED
        BY <4>1, NodeOfIs
    <3> HIDE DEF S
    <3> QED
      BY <3>1 DEF DocId
  <2> QED
    BY <1>4, <2>1, <2>2 DEF NoRowOf
<1>6. n = Append(m, e)
  <2>1. Without(m, d) = m
    BY <1>2, <1>5 DEF Without
  <2> QED
    BY <2>1
<1>7. /\ Len(n) = Len(m) + 1 /\ DOMAIN n = 1..(Len(m) + 1)
      /\ \A k \in 1..Len(m) : n[k] = m[k]
      /\ n[Len(m) + 1].doc = d
  <2>1. m \in Seq(MemtableRow) /\ e \in MemtableRow /\ e.doc = d
    BY <1>1 DEF Contents, MemtableRow
  <2> HIDE DEF m, n, e
  <2>2. /\ Append(m, e) \in Seq(MemtableRow) /\ Len(Append(m, e)) = Len(m) + 1
        /\ \A i \in 1..Len(m) : Append(m, e)[i] = m[i]
        /\ Append(m, e)[Len(m) + 1] = e
    BY <2>1, AppendProperties
  <2> QED
    BY <1>6, <2>1, <2>2, LenProperties
<1>8. LiveRows(y) = LiveRows(x) /\ \A r : Stored(y, r) = Stored(x, r)
  BY DEF LiveRows, Stored
<1>9. Visible(y) = V
  <2>1. ASSUME NEW b, b # d PROVE Shadowed(y, b) <=> Shadowed(x, b)
    <3>1. (\E i \in DOMAIN n : n[i].doc = b) <=> (\E i \in DOMAIN m : m[i].doc = b)
      <4>1. \A i \in 1..(Len(m) + 1) : i \in 1..Len(m) \/ i = Len(m) + 1
        BY <1>2
      <4>2. \A i \in 1..Len(m) : i \in 1..(Len(m) + 1)
        BY <1>2
      <4> HIDE DEF m, n
      <4> QED
        BY <1>2, <1>7, <2>1, <4>1, <4>2
    <3>2. b \in y.deleted <=> b \in x.deleted
      BY <2>1
    <3> QED
      BY <3>1, <3>2 DEF Shadowed
  <2>2. Shadowed(y, d)
    <3>1. Len(m) + 1 \in DOMAIN n
      BY <1>2, <1>7
    <3> QED
      BY <1>7, <3>1 DEF Shadowed
  <2>3. ASSUME NEW r \in LiveRows(x), Stored(x, r).doc = d PROVE Shadowed(x, d)
    <3> SUFFICES ASSUME ~Shadowed(x, d) PROVE FALSE
      OBVIOUS
    <3>1. r \in V
      BY <2>3 DEF Visible
    <3>2. PICK k \in 1..c : o[k] = r
      BY <1>2, <3>1
    <3>3. k \in DOMAIN S /\ S[k].row = r
      <4>1. k \in 1..(c + Len(m))
        BY <1>2, <3>2
      <4> HIDE DEF S, o, c
      <4> QED
        BY <1>2, <1>4, <3>2, <4>1, NodeOfIs
    <3>4. DocId(x, S[k].row) = d
      <4> HIDE DEF S
      <4> QED
        BY <1>3, <2>3, <3>1, <3>3 DEF DocId
    <3> QED
      BY <3>3, <3>4 DEF NoRowOf
  <2>4. ASSUME NEW r \in LiveRows(x)
        PROVE  Shadowed(y, Stored(y, r).doc) <=> Shadowed(x, Stored(x, r).doc)
    BY <1>8, <2>1, <2>2, <2>3
  <2> QED
    BY <1>8, <2>4 DEF Visible
<1>10. /\ Len(T) = c + Len(n)
       /\ \A k \in 1..c : T[k] = NodeOf(o[k], Stored(y, o[k]).vector)
       /\ \A k \in 1..Len(n) : T[c + k] = NodeOf(<<Memtable, k>>, n[k].vector)
  <2>1. y \in Contents /\ V = Visible(y) /\ c = Cardinality(V) /\ o = InRowOrder(V)
        /\ n = y.memtable
    BY <1>9
  <2> HIDE DEF T, V, c, o, n
  <2>2. Presents(y, V, c, o, n)
    BY <2>1, PresentsRows
  <2> QED
    BY <2>2 DEF T, Presents
<1> HIDE DEF S, T, V, c, o, m, n
<1>11. ASSUME NEW i \in 1..Len(S) PROVE T[i] = S[i]
  <2>1. CASE i \in 1..c
    <3>1. S[i] = NodeOf(o[i], Stored(x, o[i]).vector)
      BY <1>2, <2>1
    <3>2. T[i] = NodeOf(o[i], Stored(y, o[i]).vector)
      BY <1>10, <2>1
    <3>3. Stored(y, o[i]) = Stored(x, o[i])
      BY <1>8
    <3> QED
      BY <3>1, <3>2, <3>3
  <2>2. CASE i \notin 1..c
    <3> DEFINE k == i - c
    <3>1. k \in 1..Len(m) /\ k \in 1..Len(n) /\ i = c + k
      BY <1>2, <1>7, <2>2
    <3> HIDE DEF k
    <3>2. S[c + k] = NodeOf(<<Memtable, k>>, m[k].vector)
      BY <1>2, <3>1
    <3>3. T[c + k] = NodeOf(<<Memtable, k>>, n[k].vector)
      BY <1>10, <3>1
    <3> QED
      BY <1>7, <3>1, <3>2, <3>3
  <2> QED
    BY <2>1, <2>2
<1>12. Len(S) \in Nat /\ Len(T) = Len(S) + 1
  BY <1>2, <1>7, <1>10
<1>13. FirstRows(S, T)
  BY <1>2, <1>11, <1>12 DEF FirstRows
<1> QED
  BY <1>13 DEF S, T

\* A delete.
LEMMA DeleteSound ==
    ASSUME NEW x, NEW d, NEW y, Sound(x), y \in Contents, y.segments = x.segments,
           y.memtable = Without(x.memtable, d)
    PROVE  Sound(y)
<1>1. OnceBuffered(y.memtable)
  BY WithoutIs DEF Sound, Contents
<1>2. LiveRows(y) = LiveRows(x) /\ OnceLive(y)
  BY DEF LiveRows, Stored, OnceLive, Sound
<1> QED
  BY <1>1, <1>2 DEF Sound

\* y has the segments of x, in which no row is live that x shadows.
ShadowedDie(x, y) ==
    \A s \in 1..Len(x.segments) :
       /\ DOMAIN y.segments[s] = DOMAIN x.segments[s]
       /\ \A i \in DOMAIN x.segments[s] :
            /\ y.segments[s][i].doc = x.segments[s][i].doc
            /\ y.segments[s][i].live =>
                 x.segments[s][i].live /\ ~Shadowed(x, x.segments[s][i].doc)

\* Segment n of y has the rows of the memtable of x.
Flushed(x, y, n) ==
    /\ DOMAIN y.segments[n] = DOMAIN x.memtable
    /\ \A i \in DOMAIN x.memtable : y.segments[n][i].doc = x.memtable[i].doc

\* A flush: the rows that the memtable shadows die as its own become a segment,
\* so that a document is still live in one row.
LEMMA FlushSound ==
    ASSUME NEW x, NEW y, NEW n, Sound(x), y \in Contents, y.memtable = <<>>,
           n = Len(x.segments), Len(y.segments) \in {n, n + 1},
           ShadowedDie(x, y), Len(y.segments) = n + 1 => Flushed(x, y, n + 1)
    PROVE  Sound(y)
<1>1. x \in Contents /\ OnceLive(x) /\ OnceBuffered(x.memtable)
  BY DEF Sound
<1>2. n \in Nat /\ DOMAIN x.segments = 1..n /\ DOMAIN y.segments = 1..Len(y.segments)
  BY <1>1, LenProperties DEF Contents
<1>3. \A s \in DOMAIN y.segments : s \in 1..n \/ (s = n + 1 /\ Len(y.segments) = n + 1)
  BY <1>2
<1>4. ASSUME NEW r \in LiveRows(y), r[1] \in 1..n
      PROVE  /\ r \in LiveRows(x) /\ Stored(y, r).doc = Stored(x, r).doc
             /\ ~Shadowed(x, Stored(y, r).doc)
  <2>1. /\ r = <<r[1], r[2]>> /\ r[1] \in DOMAIN y.segments
        /\ r[2] \in DOMAIN y.segments[r[1]] /\ Stored(y, r).live
    BY LiveRowsAre
  <2>2. r[2] \in DOMAIN x.segments[r[1]]
    BY <1>4, <2>1 DEF ShadowedDie
  <2>3. /\ Stored(y, r).doc = Stored(x, r).doc
        /\ Stored(x, r).live /\ ~Shadowed(x, Stored(x, r).doc)
    BY <1>4, <2>1, <2>2 DEF Stored, ShadowedDie
  <2>4. r \in LiveRows(x)
    BY <1>1, <1>2, <1>4, <2>1, <2>2, <2>3, LiveRowsAre
  <2> QED
    BY <2>3, <2>4
<1>5. ASSUME NEW r \in LiveRows(y), r[1] \notin 1..n
      PROVE  /\ r = <<n + 1, r[2]>> /\ r[2] \in DOMAIN x.memtable
             /\ Stored(y, r).doc = x.memtable[r[2]].doc
  <2>1. /\ r = <<r[1], r[2]>> /\ r[1] \in DOMAIN y.segments
        /\ r[2] \in DOMAIN y.segments[r[1]]
    BY LiveRowsAre
  <2>2. r[1] = n + 1 /\ Len(y.segments) = n + 1
    BY <1>3, <1>5, <2>1
  <2> QED
    BY <2>1, <2>2 DEF Stored, Flushed
<1>6. OnceLive(y)
  <2> SUFFICES ASSUME NEW r \in LiveRows(y), NEW q \in LiveRows(y),
                      Stored(y, r).doc = Stored(y, q).doc
               PROVE  r = q
    BY DEF OnceLive
  <2>1. \A p \in LiveRows(y) : p[1] \notin 1..n => Shadowed(x, Stored(y, p).doc)
    BY <1>5 DEF Shadowed
  <2>2. CASE r[1] \in 1..n /\ q[1] \in 1..n
    BY <1>1, <1>4, <2>2 DEF OnceLive
  <2>3. CASE r[1] \notin 1..n /\ q[1] \notin 1..n
    BY <1>1, <1>5, <2>3 DEF OnceBuffered
  <2>4. CASE ~(r[1] \in 1..n <=> q[1] \in 1..n)
    BY <1>4, <2>1, <2>4
  <2> QED
    BY <2>2, <2>3, <2>4
<1>7. OnceBuffered(y.memtable)
  BY DEF OnceBuffered
<1> QED
  BY <1>6, <1>7 DEF Sound

\* A compaction keeps the live rows, each once.
LEMMA CompactSound ==
    ASSUME NEW x, NEW y, NEW c, NEW o, Sound(x), y \in Contents, y.memtable = x.memtable,
           c = Cardinality(LiveRows(x)), o = InRowOrder(LiveRows(x)),
           Len(y.segments) \in {0, 1},
           Len(y.segments) = 1 =>
             /\ DOMAIN y.segments[1] = 1..c
             /\ \A k \in 1..c : y.segments[1][k] = Stored(x, o[k])
    PROVE  Sound(y)
<1>1. x \in Contents /\ OnceLive(x) /\ OnceBuffered(x.memtable)
  BY DEF Sound
<1>2. DOMAIN y.segments = 1..Len(y.segments)
  BY LenProperties DEF Contents
<1>3. /\ c \in Nat /\ o \in [1..c -> LiveRows(x)]
      /\ \A i, j \in 1..c : o[i] = o[j] => i = j
  BY <1>1, LiveRowsAre, LiveRowsFinite, InRowOrderIs
<1>4. ASSUME NEW r \in LiveRows(y)
      PROVE  r = <<1, r[2]>> /\ r[2] \in 1..c /\ Stored(y, r) = Stored(x, o[r[2]])
  <2>1. /\ r = <<r[1], r[2]>> /\ r[1] \in DOMAIN y.segments
        /\ r[2] \in DOMAIN y.segments[r[1]]
    BY LiveRowsAre
  <2>2. r[1] = 1 /\ Len(y.segments) = 1
    BY <1>2, <2>1
  <2> QED
    BY <2>1, <2>2 DEF Stored
<1>5. OnceLive(y)
  <2> SUFFICES ASSUME NEW r \in LiveRows(y), NEW q \in LiveRows(y),
                      Stored(y, r).doc = Stored(y, q).doc
               PROVE  r = q
    BY DEF OnceLive
  <2>1. o[r[2]] = o[q[2]]
    BY <1>1, <1>3, <1>4 DEF OnceLive
  <2> QED
    BY <1>3, <1>4, <2>1
<1> QED
  BY <1>1, <1>5 DEF Sound

-------------------------------------------------------------------------------
(* Searches. *)

\* The document a node stands for, and those of a set of nodes.
Hit(x, n) == [doc |-> DocId(x, n.row), vector |-> n.vector]
Hits(x, b) == {Hit(x, n) : n \in b}

\* Different nodes of a collection are of different documents.
LEMMA HitsCount ==
    ASSUME NEW x, NEW b, Sound(x), b \in SUBSET ToSet(SourceRows(x))
    PROVE  /\ IsFiniteSet(b) /\ Cardinality(b) \in Nat
           /\ Cardinality(b) <= Len(SourceRows(x)) /\ Len(SourceRows(x)) \in Nat
           /\ Cardinality(ToSet(SourceRows(x))) = Len(SourceRows(x))
           /\ Hits(x, b) \subseteq Held(x) /\ Cardinality(Hits(x, b)) = Cardinality(b)
           /\ \A n \in b : IsLive(x, n.row)
<1> DEFINE S == SourceRows(x)
           A == ToSet(S)
<1>1. /\ S \in Seq(Node)
      /\ \A i \in DOMAIN S : IsLive(x, S[i].row)
      /\ \A i, j \in DOMAIN S : DocId(x, S[i].row) = DocId(x, S[j].row) => i = j
  BY SourceRowsAre
<1> HIDE DEF S
<1>2. Len(S) \in Nat /\ DOMAIN S = 1..Len(S) /\ S \in [1..Len(S) -> Node]
  BY <1>1, LenProperties
<1>3. \A n : n \in A <=> \E i \in DOMAIN S : n = S[i]
  BY DEF ToSet
<1> HIDE DEF A
<1>4. IsFiniteSet(A) /\ Cardinality(A) = Len(S)
  <2>1. IsFiniteSet(1..Len(S)) /\ Cardinality(1..Len(S)) = Len(S)
    BY <1>2, CountTo
  <2>2. S \in [1..Len(S) -> A] /\ \A n \in A : \E i \in 1..Len(S) : S[i] = n
    BY <1>2, <1>3
  <2>3. \A i, j \in 1..Len(S) : S[i] = S[j] => i = j
    BY <1>1, <1>2
  <2> QED
    BY <2>1, <2>2, <2>3, ImageFinite
<1>5. b \in SUBSET A
  BY DEF A, S
<1>6. IsFiniteSet(b) /\ Cardinality(b) \in Nat /\ Cardinality(b) <= Cardinality(A)
  BY <1>4, <1>5, FS_Subset, FS_CardinalityType
<1>7. Hits(x, b) \subseteq Held(x)
  BY DEF Hits, Hit, Held
<1>8. Cardinality(Hits(x, b)) = Cardinality(b)
  <2> DEFINE f == [n \in b |-> Hit(x, n)]
             T == Hits(x, b)
  <2>1. f \in [b -> T] /\ \A y \in T : \E n \in b : f[n] = y
    BY DEF Hits
  <2>2. \A n, p \in b : f[n] = f[p] => n = p
    <3> SUFFICES ASSUME NEW n \in b, NEW p \in b, Hit(x, n) = Hit(x, p) PROVE n = p
      OBVIOUS
    <3>1. DocId(x, n.row) = DocId(x, p.row)
      BY DEF Hit
    <3>2. PICK i \in DOMAIN S : n = S[i]
      BY <1>3, <1>5
    <3>3. PICK j \in DOMAIN S : p = S[j]
      BY <1>3, <1>5
    <3> QED
      BY <1>1, <3>1, <3>2, <3>3
  <2> HIDE DEF f, T
  <2>3. Cardinality(T) = Cardinality(b)
    BY <1>6, <2>1, <2>2, ImageFinite
  <2> QED
    BY <2>3 DEF T
<1>9. \A n \in b : IsLive(x, n.row)
  BY <1>1, <1>3, <1>5
<1> QED
  BY <1>2, <1>4, <1>6, <1>7, <1>8, <1>9 DEF S, A

\* The right hits of a search of x: Right of HnswIndex.
IsRight(hits, x) ==
    /\ hits \subseteq Held(x)
    /\ Cardinality(hits) = Least(TopK, Cardinality(Held(x)))

\* The best of enough nodes, or of all, are the right ones.
LEMMA BestRight ==
    ASSUME NEW c, NEW nodes, NEW hits, Sound(coll[c]),
           nodes \in SUBSET ToSet(SourceRows(coll[c])), hits \in Best(c, nodes),
           TopK <= Cardinality(nodes) \/ Len(SourceRows(coll[c])) <= Cardinality(nodes)
    PROVE  IsRight(hits, coll[c])
<1> DEFINE x == coll[c]
           A == ToSet(SourceRows(x))
           l == Len(SourceRows(x))
<1>1. PICK b \in SUBSET nodes : /\ Cardinality(b) = Least(TopK, Cardinality(nodes))
                                /\ hits = Hits(x, b)
  BY DEF Best, Hits, Hit
<1>2. Held(x) = Hits(x, A) /\ A \in SUBSET A /\ b \in SUBSET A /\ nodes \in SUBSET A
  BY <1>1 DEF Held, Hits, Hit
<1>3. hits \subseteq Held(x) /\ Cardinality(hits) = Cardinality(b)
  BY <1>1, <1>2, HitsCount
<1>4. Cardinality(Held(x)) = l /\ l \in Nat
  BY <1>2, HitsCount
<1>5. Cardinality(nodes) \in Nat /\ Cardinality(nodes) <= l
  BY <1>2, HitsCount
<1> HIDE DEF x, A, l
<1>6. Least(TopK, Cardinality(nodes)) = Least(TopK, l)
  <2>1. TopK <= Cardinality(nodes) \/ l <= Cardinality(nodes)
    BY DEF l, x
  <2> QED
    BY <1>4, <1>5, <2>1, TopKAssumption DEF Least
<1> QED
  BY <1>1, <1>3, <1>4, <1>6 DEF IsRight, x

\* A search of a graph that holds what its collection presents.
LEMMA AnswersRight ==
    ASSUME NEW t, NEW hits, Sound(coll[Coll(t)]),
           Usable(t) => graph.nodes = SourceRows(coll[Coll(t)]),
           hits \in Answers(t)
    PROVE  IsRight(hits, coll[Coll(t)])
<1> DEFINE c == Coll(t)
           x == coll[c]
           A == ToSet(SourceRows(x))
           l == Len(SourceRows(x))
<1>1. Cardinality(A) = l /\ l \in Nat
  BY HitsCount
<1>2. hits \in Scanned(c) => IsRight(hits, x)
  <2>1. Scanned(c) = Best(c, A)
    BY DEF Scanned
  <2> HIDE DEF c
  <2> QED
    BY <1>1, <2>1, BestRight DEF c
<1>3. ASSUME Usable(t), NEW found \in SUBSET A, hits \in Found(c, found)
      PROVE  IsRight(hits, x)
  <2>1. Admitted(c, found) = found
    BY HitsCount DEF Admitted
  <2>2. Len(graph.nodes) = l
    BY <1>3
  <2>3. Cardinality(found) \in Nat
    BY HitsCount
  <2>4. CASE Cardinality(found) < TopK /\ Cardinality(found) < l
    BY <1>2, <1>3, <2>1, <2>2, <2>4 DEF Found
  <2>5. CASE ~(Cardinality(found) < TopK /\ Cardinality(found) < l)
    <3>1. hits \in Best(c, found)
      BY <1>3, <2>1, <2>2, <2>5 DEF Found
    <3>2. TopK <= Cardinality(found) \/ l <= Cardinality(found)
      <4> HIDE DEF l
      <4> QED
        BY <1>1, <2>3, <2>5, TopKAssumption
    <3> QED
      BY <3>1, <3>2, BestRight
  <2> QED
    BY <2>4, <2>5
<1>4. CASE Usable(t)
  <2>1. ToSet(graph.nodes) = A
    BY <1>4
  <2>2. PICK found \in SUBSET A : hits \in Found(c, found)
    BY <1>4, <2>1 DEF Answers
  <2> QED
    BY <1>3, <1>4, <2>2
<1>5. CASE ~Usable(t)
  BY <1>2, <1>5 DEF Answers
<1> QED
  BY <1>4, <1>5

-------------------------------------------------------------------------------
(* The invariant. *)

GraphFields == {"metric", "dimension", "nodes", "of"}
ThreadFields == {"pc", "coll", "metric", "made", "alone", "misled", "hits"}

\* A graph with rows has them of some collection.  Until rows move, a graph of
\* one collection has its first rows.
GraphInv(g, C, mv) ==
    /\ DOMAIN g = GraphFields
    /\ g.of = {} => g.nodes = <<>>
    /\ ~mv => \A c \in Collections :
                g.of = {c} => FirstRows(g.nodes, SourceRows(C[c]))

\* What a search made outside the lock is the graph of its rows.
MadeOf(g, m, c, x) ==
    /\ DOMAIN g = GraphFields
    /\ g.metric = m /\ g.dimension = Dimension[c] /\ g.nodes = SourceRows(x)
    /\ g.of = {c}

\* The graph has rows of another collection, in the metric and dimension of c.
Foreign(g, m, c) == g.of # {c} /\ g.metric = m /\ g.dimension = Dimension[c]

\* The graph has as many rows as the collection, in its metric and dimension.
Fits(g, m, c, x) ==
    g.metric = m /\ g.dimension = Dimension[c] /\ Len(g.nodes) = Len(SourceRows(x))

\* A search record r, the collections being C and the graph g.
ThreadInv(r, C, g, mv) ==
    /\ DOMAIN r = ThreadFields
    /\ r.pc # "idle" => r.coll \in Collections
    /\ r.pc \in {"install", "store_new"} => MadeOf(r.made, r.metric, r.coll, C[r.coll])
    /\ r.alone = TRUE /\ r.pc \in {"store", "search"} /\ ~mv =>
         Fits(g, r.metric, r.coll, C[r.coll]) \/ Foreign(g, r.metric, r.coll)
    /\ r.pc = "done" /\ ~r.misled /\ ~mv => IsRight(r.hits, C[r.coll])

CollInv(C) == C \in [Collections -> Contents] /\ \A c \in Collections : Sound(C[c])

Inv ==
    /\ CollInv(coll)
    /\ GraphInv(graph, coll, moved)
    /\ DOMAIN thread = Threads
    /\ \A t \in Threads : ThreadInv(thread[t], coll, graph, moved)
    /\ writes \in Nat
    /\ moved \in BOOLEAN

\* The first rows of first rows.
LEMMA FirstRowsOf ==
    ASSUME NEW p, NEW s, NEW u \in Seq(Node), FirstRows(p, s), FirstRows(s, u)
    PROVE  FirstRows(p, u)
<1>1. p \in Seq(Node) /\ Len(p) \in Nat /\ Len(s) \in Nat /\ Len(u) \in Nat
  BY LenProperties DEF FirstRows
<1> QED
  BY <1>1 DEF FirstRows

\* As many first rows as there are rows are the rows.
LEMMA AllRows ==
    ASSUME NEW p, NEW s, FirstRows(p, s), s \in Seq(Node), Len(p) = Len(s)
    PROVE  p = s
  BY SeqEqual DEF FirstRows

\* What a collection presents is a list of nodes.
LEMMA RowsOfSound ==
    ASSUME NEW c \in Collections, NEW C, CollInv(C)
    PROVE  /\ SourceRows(C[c]) \in Seq(Node) /\ Len(SourceRows(C[c])) \in Nat
           /\ FirstRows(SourceRows(C[c]), SourceRows(C[c]))
<1>1. SourceRows(C[c]) \in Seq(Node)
  BY SourceRowsAre DEF CollInv
<1>2. Len(SourceRows(C[c])) \in Nat
  BY <1>1, LenProperties
<1> QED
  BY <1>1, <1>2 DEF FirstRows

LEMMA InitInv == Init => Inv
<1> SUFFICES ASSUME Init PROVE Inv
  OBVIOUS
<1> DEFINE e == [segments |-> <<>>, memtable |-> <<>>, deleted |-> {}]
<1>1. Sound(e)
  <2>1. e \in Contents
    <3>1. <<>> \in Seq(Seq(SegmentRow)) /\ <<>> \in Seq(MemtableRow)
      OBVIOUS
    <3> QED
      BY <3>1 DEF Contents
  <2>2. OnceBuffered(e.memtable)
    BY DEF OnceBuffered
  <2>3. LiveRows(e) = {}
    BY DEF LiveRows
  <2> QED
    BY <2>1, <2>2, <2>3 DEF Sound, OnceLive
<1>2. CollInv(coll)
  <2>1. coll = [c \in Collections |-> e]
    BY DEF Init
  <2> HIDE DEF e
  <2> QED
    BY <1>1, <2>1 DEF CollInv, Sound
<1>3. GraphInv(graph, coll, moved)
  <2>1. graph = EmptyGraph
    BY DEF Init
  <2>2. DOMAIN graph = GraphFields /\ graph.nodes = <<>> /\ graph.of = {}
    BY <2>1 DEF EmptyGraph, GraphFields
  <2>3. \A c \in Collections : FirstRows(<<>>, SourceRows(coll[c]))
    BY <1>2, RowsOfSound DEF FirstRows
  <2> QED
    BY <2>2, <2>3 DEF GraphInv
<1>4. DOMAIN thread = Threads /\ \A t \in Threads : thread[t] = Idle
  BY DEF Init
<1>5. \A t \in Threads : ThreadInv(thread[t], coll, graph, moved)
  <2>1. DOMAIN Idle = ThreadFields /\ Idle.pc = "idle"
    BY DEF Idle, ThreadFields
  <2> QED
    BY <1>4, <2>1 DEF ThreadInv
<1> QED
  BY <1>2, <1>3, <1>4, <1>5 DEF Inv, Init

\* A write changes a collection that no search reads; until rows move it only
\* adds to what the collection presents.
LEMMA WriteKeeps ==
    ASSUME NEW c \in Collections, NEW y, Inv, Unread(c), Sound(y),
           coll' = [d \in Collections |-> IF d = c THEN y ELSE coll[d]],
           UNCHANGED <<graph, thread>>, writes' \in Nat, moved' \in BOOLEAN,
           ~moved' => ~moved /\ FirstRows(SourceRows(coll[c]), SourceRows(y))
    PROVE  Inv'
<1>1. coll'[c] = y /\ \A d \in Collections : d # c => coll'[d] = coll[d]
  OBVIOUS
<1>2. CollInv(coll')
  BY DEF Inv, CollInv, Sound
<1>3. GraphInv(graph, coll', moved')
  <2>1. GraphInv(graph, coll, moved)
    BY DEF Inv
  <2>2. ASSUME ~moved', NEW d \in Collections, graph.of = {d}
        PROVE  FirstRows(graph.nodes, SourceRows(coll'[d]))
    <3>1. FirstRows(graph.nodes, SourceRows(coll[d]))
      BY <2>1, <2>2 DEF GraphInv
    <3>2. CASE d = c
      <4>1. SourceRows(y) \in Seq(Node)
        BY SourceRowsAre
      <4>2. FirstRows(SourceRows(coll[c]), SourceRows(y))
        BY <2>2
      <4>3. FirstRows(graph.nodes, SourceRows(y))
        BY <3>1, <3>2, <4>1, <4>2, FirstRowsOf
      <4> QED
        BY <1>1, <3>2, <4>3
    <3>3. CASE d # c
      BY <1>1, <3>1, <3>3
    <3> QED
      BY <3>2, <3>3
  <2> QED
    BY <2>1, <2>2 DEF GraphInv
<1>4. ASSUME NEW t \in Threads PROVE ThreadInv(thread[t], coll', graph, moved')
  <2> DEFINE r == thread[t]
  <2>1. ThreadInv(r, coll, graph, moved)
    BY DEF Inv
  <2>2. r.pc # "idle" => r.coll # c
    BY DEF Unread
  <2> HIDE DEF r
  <2>3. DOMAIN r = ThreadFields /\ (r.pc # "idle" => r.coll \in Collections)
    BY <2>1 DEF ThreadInv
  <2>4. r.pc # "idle" => coll'[r.coll] = coll[r.coll]
    BY <1>1, <2>2, <2>3
  <2>5. r.pc \in {"install", "store_new"} => MadeOf(r.made, r.metric, r.coll, coll'[r.coll])
    BY <2>1, <2>4 DEF ThreadInv
  <2>6. ~moved' => ~moved
    OBVIOUS
  <2>7. r.alone = TRUE /\ r.pc \in {"store", "search"} /\ ~moved' =>
          Fits(graph, r.metric, r.coll, coll'[r.coll]) \/ Foreign(graph, r.metric, r.coll)
    BY <2>1, <2>4, <2>6 DEF ThreadInv
  <2>8. r.pc = "done" /\ ~r.misled /\ ~moved' => IsRight(r.hits, coll'[r.coll])
    BY <2>1, <2>4, <2>6 DEF ThreadInv
  <2> QED
    BY <2>3, <2>5, <2>7, <2>8 DEF ThreadInv, r
<1>5. DOMAIN thread = Threads
  BY DEF Inv
<1> QED
  BY <1>2, <1>3, <1>4, <1>5 DEF Inv

\* A step of a search: the others no longer run alone.
LEMMA StepKeeps ==
    ASSUME NEW t \in Threads, NEW r, Inv, Becomes(t, r), UNCHANGED <<coll, writes, moved>>,
           GraphInv(graph', coll, moved), ThreadInv(r, coll, graph', moved)
    PROVE  Inv'
<1>1. ASSUME NEW u \in Threads PROVE ThreadInv(thread'[u], coll, graph', moved)
  <2>1. CASE u = t
    BY <2>1 DEF Becomes
  <2>2. CASE u # t
    <3> DEFINE q == thread[u]
               p == [q EXCEPT !.alone = FALSE]
    <3>1. thread'[u] = p
      BY <2>2 DEF Becomes
    <3>2. ThreadInv(q, coll, graph, moved)
      BY DEF Inv
    <3> HIDE DEF q
    <3>3. /\ DOMAIN p = DOMAIN q /\ p.alone = FALSE /\ p.pc = q.pc /\ p.coll = q.coll
          /\ p.metric = q.metric /\ p.made = q.made /\ p.hits = q.hits
          /\ p.misled = q.misled
      BY <3>2 DEF ThreadInv, ThreadFields
    <3> HIDE DEF p
    <3>4. ThreadInv(p, coll, graph', moved)
      BY <3>2, <3>3 DEF ThreadInv
    <3> QED
      BY <3>1, <3>4
  <2> QED
    BY <2>1, <2>2
<1>2. DOMAIN thread' = Threads
  BY DEF Becomes
<1> QED
  BY <1>1, <1>2 DEF Inv

\* The record of a collection with another memtable.
LEMMA NewMemtable ==
    ASSUME NEW x, NEW w, NEW D, x \in Contents
    PROVE  [x EXCEPT !.memtable = w, !.deleted = D]
             = [segments |-> x.segments, memtable |-> w, deleted |-> D]
<1> DEFINE a == [x EXCEPT !.memtable = w, !.deleted = D]
           b == [segments |-> x.segments, memtable |-> w, deleted |-> D]
           F == {"segments", "memtable", "deleted"}
<1>1. DOMAIN x = F
  BY DEF Contents
<1>2. a.segments = x.segments /\ a.memtable = w /\ a.deleted = D
  BY <1>1
<1>3. a = [k \in F |-> a[k]] /\ b = [k \in F |-> b[k]]
  BY <1>1
<1>4. \A k \in F : a[k] = b[k]
  <2>1. b.segments = x.segments /\ b.memtable = w /\ b.deleted = D
    OBVIOUS
  <2> HIDE DEF a, b
  <2> QED
    BY <1>2, <2>1
<1> HIDE DEF a, b, F
<1>5. a = b
  BY <1>3, <1>4
<1> QED
  BY <1>5 DEF a, b

\* What Put leaves of a collection.
AfterPut(x, d, v) ==
    [segments |-> x.segments,
     memtable |-> Append(Without(x.memtable, d), [doc |-> d, vector |-> v]),
     deleted |-> x.deleted \ {d}]

LEMMA PutIs ==
    ASSUME NEW c \in Collections, NEW d \in Docs, Inv, Put(c, d)
    PROVE  /\ coll' = [b \in Collections |->
                         IF b = c THEN AfterPut(coll[c], d, writes + 1) ELSE coll[b]]
           /\ AfterPut(coll[c], d, writes + 1) \in Contents
           /\ Sound(AfterPut(coll[c], d, writes + 1))
<1> DEFINE x == coll[c]
           v == writes + 1
           e == [doc |-> d, vector |-> v]
           w == Append(Without(x.memtable, d), e)
           y == AfterPut(x, d, v)
<1>1. /\ coll \in [Collections -> Contents] /\ x \in Contents /\ Sound(x) /\ v \in Nat
  BY DEF Inv, CollInv
<1>2. y.segments = x.segments /\ y.memtable = w /\ y.deleted = x.deleted \ {d}
  BY DEF AfterPut
<1>3. w \in Seq(MemtableRow)
  <2>1. Without(x.memtable, d) \in Seq(MemtableRow)
    BY <1>1, WithoutIs DEF Sound, Contents
  <2>2. e \in MemtableRow
    BY <1>1 DEF MemtableRow
  <2> HIDE DEF x, e
  <2> QED
    BY <2>1, <2>2, AppendProperties
<1>4. y \in Contents
  <2>1. x.segments \in Seq(Seq(SegmentRow)) /\ x.deleted \in SUBSET Docs
    BY <1>1 DEF Contents
  <2>2. y = [segments |-> x.segments, memtable |-> w, deleted |-> x.deleted \ {d}]
    BY DEF AfterPut
  <2> HIDE DEF x, w, y
  <2> QED
    BY <1>3, <2>1, <2>2 DEF Contents
<1>5. Sound(y)
  <2> HIDE DEF x, v, y
  <2> QED
    BY <1>1, <1>2, <1>4, PutSound
<1>6. [x EXCEPT !.memtable = w, !.deleted = x.deleted \ {d}] = y
  <2>1. y = [segments |-> x.segments, memtable |-> w, deleted |-> x.deleted \ {d}]
    BY DEF AfterPut
  <2> HIDE DEF x, w, y
  <2> QED
    BY <1>1, <2>1, NewMemtable
<1>7. coll' = [b \in Collections |-> IF b = c THEN y ELSE coll[b]]
  <2>1. coll' = [coll EXCEPT ![c] = [x EXCEPT !.memtable = w, !.deleted = x.deleted \ {d}]]
    BY <1>1 DEF Put
  <2> HIDE DEF y, w
  <2> QED
    BY <1>1, <1>6, <2>1
<1> QED
  BY <1>4, <1>5, <1>7

LEMMA InsertKeeps ==
    ASSUME NEW c \in Collections, NEW d \in Docs, Inv, Insert(c, d)
    PROVE  Inv'
<1> DEFINE x == coll[c]
           v == writes + 1
           y == AfterPut(x, d, v)
<1>1. /\ coll' = [b \in Collections |-> IF b = c THEN y ELSE coll[b]]
      /\ y \in Contents /\ Sound(y)
  BY PutIs DEF Insert
<1>2. Sound(x) /\ v \in Nat
  BY DEF Inv, CollInv
<1>3. /\ y.segments = x.segments
      /\ y.memtable = Append(Without(x.memtable, d), [doc |-> d, vector |-> v])
      /\ y.deleted = x.deleted \ {d}
  BY DEF AfterPut
<1>4. NoRowOf(x, d)
  <2> SUFFICES ASSUME NEW i \in DOMAIN SourceRows(x), DocId(x, SourceRows(x)[i].row) = d
               PROVE  FALSE
    BY DEF NoRowOf
  <2>1. SourceRows(x)[i] \in ToSet(SourceRows(x))
    BY DEF ToSet
  <2>2. Hit(x, SourceRows(x)[i]) \in Held(x)
    BY <2>1 DEF Held, Hit
  <2>3. Hit(x, SourceRows(x)[i]).doc = d
    BY DEF Hit
  <2> QED
    BY <2>2, <2>3 DEF Insert, Present
<1>5. FirstRows(SourceRows(x), SourceRows(y))
  <2> HIDE DEF x, y, v
  <2> QED
    BY <1>1, <1>2, <1>3, <1>4, InsertAppends
<1>6. /\ Unread(c) /\ UNCHANGED <<graph, thread>> /\ writes' \in Nat
      /\ moved' \in BOOLEAN /\ (~moved' => ~moved)
  BY DEF Insert, Write, Inv
<1> HIDE DEF x, y, v
<1> QED
  BY <1>1, <1>5, <1>6, WriteKeeps DEF x

\* Any other write moves rows.
LEMMA MoveKeeps ==
    ASSUME NEW kind, NEW c \in Collections, NEW y, Inv, Write(kind, c), kind # "insert", Sound(y),
           coll' = [d \in Collections |-> IF d = c THEN y ELSE coll[d]]
    PROVE  Inv'
<1>1. Unread(c) /\ UNCHANGED <<graph, thread>> /\ writes' \in Nat
  BY DEF Write, Inv
<1>2. moved' /\ moved' \in BOOLEAN
  BY DEF Write
<1> QED
  BY <1>1, <1>2, WriteKeeps

LEMMA ReplaceKeeps ==
    ASSUME NEW c \in Collections, NEW d \in Docs, Inv, Replace(c, d)
    PROVE  Inv'
<1>1. Write("replace", c) /\ Put(c, d)
  BY DEF Replace
<1> QED
  BY <1>1, PutIs, MoveKeeps

LEMMA DeleteKeeps ==
    ASSUME NEW c \in Collections, NEW d \in Docs, Inv, Delete(c, d)
    PROVE  Inv'
<1> DEFINE x == coll[c]
           w == Without(x.memtable, d)
           D == x.deleted \cup {d}
           y == [segments |-> x.segments, memtable |-> w, deleted |-> D]
<1>1. coll \in [Collections -> Contents] /\ x \in Contents /\ Sound(x)
  BY DEF Inv, CollInv
<1>2. y.segments = x.segments /\ y.memtable = w
  OBVIOUS
<1>3. y \in Contents
  <2>1. x.segments \in Seq(Seq(SegmentRow)) /\ D \in SUBSET Docs
    BY <1>1 DEF Contents
  <2>2. w \in Seq(MemtableRow)
    BY <1>1, WithoutIs DEF Sound, Contents
  <2> HIDE DEF x, w, D
  <2> QED
    BY <2>1, <2>2 DEF Contents
<1>4. coll' = [b \in Collections |-> IF b = c THEN y ELSE coll[b]]
  <2>1. coll' = [coll EXCEPT ![c] = [x EXCEPT !.memtable = w, !.deleted = D]]
    BY <1>1 DEF Delete
  <2>2. [x EXCEPT !.memtable = w, !.deleted = D] = y
    <3> HIDE DEF x, w, D
    <3> QED
      BY <1>1, NewMemtable
  <2> HIDE DEF y, w, D
  <2> QED
    BY <1>1, <2>1, <2>2
<1>5. Write("delete", c)
  BY DEF Delete
<1> HIDE DEF x, y
<1>6. Sound(y)
  BY <1>1, <1>2, <1>3, DeleteSound DEF w
<1> QED
  BY <1>4, <1>5, <1>6, MoveKeeps

LEMMA FlushKeeps ==
    ASSUME NEW c \in Collections, Inv, Flush(c)
    PROVE  Inv'
<1> DEFINE x == coll[c]
           g == x.segments
           m == x.memtable
           n == Len(g)
           Killed(e) == [e EXCEPT !.live = @ /\ ~Shadowed(x, e.doc)]
           Written(e) == [doc |-> e.doc, vector |-> e.vector, live |-> TRUE]
           old == [s \in DOMAIN g |-> [i \in DOMAIN g[s] |-> Killed(g[s][i])]]
           new == [i \in DOMAIN m |-> Written(m[i])]
           z == IF new = <<>> THEN old ELSE Append(old, new)
           y == [segments |-> z, memtable |-> <<>>, deleted |-> {}]
<1>1. coll \in [Collections -> Contents] /\ x \in Contents /\ Sound(x)
  BY DEF Inv, CollInv
<1>2. Write("flush", c) /\ coll' = [b \in Collections |-> IF b = c THEN y ELSE coll[b]]
  BY <1>1 DEF Flush
<1>3. /\ g \in Seq(Seq(SegmentRow)) /\ n \in Nat /\ DOMAIN g = 1..n
      /\ m \in Seq(MemtableRow) /\ Len(m) \in Nat /\ DOMAIN m = 1..Len(m)
  BY <1>1, LenProperties DEF Contents
<1>4. \A e \in SegmentRow : /\ Killed(e) \in SegmentRow /\ Killed(e).doc = e.doc
                            /\ Killed(e).live => e.live /\ ~Shadowed(x, e.doc)
  <2> SUFFICES ASSUME NEW e \in SegmentRow
               PROVE  /\ Killed(e) \in SegmentRow /\ Killed(e).doc = e.doc
                      /\ Killed(e).live => e.live /\ ~Shadowed(x, e.doc)
    OBVIOUS
  <2> HIDE DEF x
  <2> QED
    BY DEF SegmentRow
<1>5. \A e \in MemtableRow : Written(e) \in SegmentRow /\ Written(e).doc = e.doc
  BY DEF SegmentRow, MemtableRow
<1> HIDE DEF Killed, Written
<1>6. \A s \in 1..n : g[s] \in Seq(SegmentRow) /\ Len(g[s]) \in Nat /\ DOMAIN g[s] = 1..Len(g[s])
                      /\ \A i \in DOMAIN g[s] : g[s][i] \in SegmentRow
  BY <1>3, LenProperties, ElementOfSeq
<1>7. /\ old \in Seq(Seq(SegmentRow)) /\ Len(old) = n
      /\ \A s \in 1..n : /\ DOMAIN old[s] = DOMAIN g[s]
                         /\ \A i \in DOMAIN g[s] : old[s][i] = Killed(g[s][i])
  <2>1. \A s \in 1..n : [i \in DOMAIN g[s] |-> Killed(g[s][i])] \in Seq(SegmentRow)
    <3> SUFFICES ASSUME NEW s \in 1..n
                 PROVE  [i \in DOMAIN g[s] |-> Killed(g[s][i])] \in Seq(SegmentRow)
      OBVIOUS
    <3> DEFINE f == [i \in DOMAIN g[s] |-> Killed(g[s][i])]
    <3>1. f \in [1..Len(g[s]) -> SegmentRow] /\ Len(g[s]) \in Nat
      BY <1>4, <1>6
    <3> HIDE DEF f
    <3>2. f \in Seq(SegmentRow)
      BY <3>1
    <3> QED
      BY <3>2 DEF f
  <2>2. old \in [1..n -> Seq(SegmentRow)]
    <3> HIDE DEF g, n
    <3> QED
      BY <1>3, <2>1
  <2>3. \A s \in 1..n : /\ DOMAIN old[s] = DOMAIN g[s]
                        /\ \A i \in DOMAIN g[s] : old[s][i] = Killed(g[s][i])
    <3> HIDE DEF g, n
    <3> QED
      BY <1>3
  <2> HIDE DEF old, g, n
  <2> QED
    BY <1>3, <2>2, <2>3
<1>8. /\ new \in Seq(SegmentRow) /\ DOMAIN new = DOMAIN m
      /\ \A i \in DOMAIN m : new[i].doc = m[i].doc
  <2>1. \A i \in 1..Len(m) : m[i] \in MemtableRow
    BY <1>3, ElementOfSeq
  <2> HIDE DEF m
  <2>2. new \in [1..Len(m) -> SegmentRow] /\ \A i \in DOMAIN m : new[i].doc = m[i].doc
    BY <1>3, <1>5, <2>1
  <2> HIDE DEF new
  <2> QED
    BY <1>3, <2>2
<1>9. /\ z \in Seq(Seq(SegmentRow)) /\ Len(z) \in {n, n + 1}
      /\ \A s \in 1..n : z[s] = old[s]
      /\ Len(z) = n + 1 => z[n + 1] = new
  <2> HIDE DEF old, new, n
  <2>1. CASE new = <<>>
    BY <1>3, <1>7, <2>1
  <2>2. CASE new # <<>>
    <3>1. /\ Append(old, new) \in Seq(Seq(SegmentRow)) /\ Len(Append(old, new)) = n + 1
          /\ \A s \in 1..n : Append(old, new)[s] = old[s]
          /\ Append(old, new)[n + 1] = new
      BY <1>7, <1>8, AppendProperties
    <3> QED
      BY <2>2, <3>1
  <2> QED
    BY <2>1, <2>2
<1>10. y \in Contents /\ y.segments = z /\ y.memtable = <<>>
  <2> HIDE DEF z
  <2>1. <<>> \in Seq(MemtableRow)
    OBVIOUS
  <2> QED
    BY <1>9, <2>1 DEF Contents
<1> HIDE DEF y, z, old, new
<1>11. ShadowedDie(x, y)
  <2> SUFFICES ASSUME NEW s \in 1..n
               PROVE  /\ DOMAIN y.segments[s] = DOMAIN g[s]
                      /\ \A i \in DOMAIN g[s] :
                           /\ y.segments[s][i].doc = g[s][i].doc
                           /\ y.segments[s][i].live =>
                                g[s][i].live /\ ~Shadowed(x, g[s][i].doc)
    BY DEF ShadowedDie
  <2>1. y.segments[s] = old[s] /\ DOMAIN old[s] = DOMAIN g[s]
    BY <1>7, <1>9, <1>10
  <2>2. ASSUME NEW i \in DOMAIN g[s]
        PROVE  /\ old[s][i].doc = g[s][i].doc
               /\ old[s][i].live => g[s][i].live /\ ~Shadowed(x, g[s][i].doc)
    <3>1. old[s][i] = Killed(g[s][i]) /\ g[s][i] \in SegmentRow
      BY <1>6, <1>7
    <3> HIDE DEF g
    <3> QED
      BY <1>4, <3>1
  <2> QED
    BY <2>1, <2>2
<1>12. Len(y.segments) = n + 1 => Flushed(x, y, n + 1)
  BY <1>8, <1>9, <1>10 DEF Flushed
<1>13. n = Len(x.segments) /\ Len(y.segments) \in {n, n + 1}
  BY <1>9, <1>10
<1> HIDE DEF n, x
<1>14. Sound(y)
  BY <1>1, <1>10, <1>11, <1>12, <1>13, FlushSound
<1> QED
  BY <1>2, <1>14, MoveKeeps

LEMMA CompactKeeps ==
    ASSUME NEW c \in Collections, Inv, Compact(c)
    PROVE  Inv'
<1> DEFINE x == coll[c]
           L == LiveRows(x)
           o == InRowOrder(L)
           n == Cardinality(L)
           live == [k \in DOMAIN o |-> Stored(x, o[k])]
           z == IF live = <<>> THEN <<>> ELSE <<live>>
           y == [x EXCEPT !.segments = z]
<1>1. coll \in [Collections -> Contents] /\ x \in Contents /\ Sound(x)
  BY DEF Inv, CollInv
<1>2. Write("compact", c) /\ coll' = [b \in Collections |-> IF b = c THEN y ELSE coll[b]]
  BY <1>1 DEF Compact
<1>3. /\ L \in SUBSET (Nat \X Nat) /\ IsFiniteSet(L) /\ \A r \in L : Stored(x, r) \in SegmentRow
  BY <1>1, LiveRowsAre, LiveRowsFinite
<1>4. n \in Nat /\ o \in [1..n -> L]
  <2> HIDE DEF L
  <2> QED
    BY <1>3, InRowOrderIs
<1> HIDE DEF L, o, n
<1>5. /\ live \in Seq(SegmentRow) /\ DOMAIN live = 1..n
      /\ \A k \in 1..n : live[k] = Stored(x, o[k])
  <2>1. live \in [1..n -> SegmentRow] /\ \A k \in 1..n : live[k] = Stored(x, o[k])
    BY <1>3, <1>4
  <2> HIDE DEF live
  <2> QED
    BY <1>4, <2>1
<1> HIDE DEF live
<1>6. z \in Seq(Seq(SegmentRow)) /\ Len(z) \in {0, 1} /\ (Len(z) = 1 => z[1] = live)
  BY <1>5
<1> HIDE DEF z
<1>7. y \in Contents /\ y.segments = z /\ y.memtable = x.memtable
  BY <1>1, <1>6 DEF Contents
<1> HIDE DEF y, x
<1>8. Sound(y)
  <2>1. /\ Len(y.segments) \in {0, 1}
        /\ Len(y.segments) = 1 => /\ DOMAIN y.segments[1] = 1..n
                                  /\ \A k \in 1..n : y.segments[1][k] = Stored(x, o[k])
    BY <1>5, <1>6, <1>7
  <2>2. n = Cardinality(LiveRows(x)) /\ o = InRowOrder(LiveRows(x))
    BY DEF n, o, L
  <2> QED
    BY <1>1, <1>7, <2>1, <2>2, CompactSound
<1> QED
  BY <1>2, <1>8, MoveKeeps

-------------------------------------------------------------------------------
(* The steps of a search. *)

\* The record q at pc with g in hand.
At(q, pc, g) == [q EXCEPT !.pc = pc, !.made = g]

\* Its fields.
LEMMA AtIs ==
    ASSUME NEW q, NEW pc, NEW g, DOMAIN q = ThreadFields
    PROVE  /\ DOMAIN At(q, pc, g) = ThreadFields
           /\ At(q, pc, g).pc = pc /\ At(q, pc, g).made = g
           /\ At(q, pc, g).coll = q.coll /\ At(q, pc, g).metric = q.metric
           /\ At(q, pc, g).alone = q.alone
  BY DEF At, ThreadFields

\* A thread on its way, with a graph of the rows of its collection in hand if
\* it is to install one, and a graph in place that fits if it is to use it.
LEMMA AtInv ==
    ASSUME NEW t \in Threads, NEW pc, NEW g, NEW h, Inv, thread[t].pc # "idle",
           pc \in {"load", "extend", "store", "store_new", "install", "search"},
           pc \in {"install", "store_new"} => MadeOf(g, Metric(t), Coll(t), coll[Coll(t)]),
           thread[t].alone = TRUE /\ pc \in {"store", "search"} /\ ~moved =>
             \/ Fits(h, Metric(t), Coll(t), coll[Coll(t)])
             \/ Foreign(h, Metric(t), Coll(t))
    PROVE  ThreadInv(At(thread[t], pc, g), coll, h, moved)
<1> DEFINE q == thread[t]
           r == At(q, pc, g)
<1>1. DOMAIN q = ThreadFields /\ q.coll \in Collections
  BY DEF Inv, ThreadInv
<1>2. /\ DOMAIN r = ThreadFields /\ r.pc = pc /\ r.made = g
      /\ r.coll = Coll(t) /\ r.metric = Metric(t) /\ r.alone = q.alone
  BY <1>1, AtIs DEF Coll, Metric
<1>3. r.coll \in Collections
  BY <1>1, <1>2 DEF Coll
<1> HIDE DEF r
<1>4. pc # "idle" /\ pc # "done"
  OBVIOUS
<1>5. r.pc \in {"install", "store_new"} => MadeOf(r.made, r.metric, r.coll, coll[r.coll])
  BY <1>2
<1>6. r.alone = TRUE /\ r.pc \in {"store", "search"} /\ ~moved =>
        Fits(h, r.metric, r.coll, coll[r.coll]) \/ Foreign(h, r.metric, r.coll)
  BY <1>2
<1>7. ThreadInv(r, coll, h, moved)
  BY <1>2, <1>3, <1>4, <1>5, <1>6 DEF ThreadInv
<1> QED
  BY <1>7 DEF r

\* is_valid_for in terms of the rows.
LEMMA FitsValid ==
    ASSUME NEW c, NEW g, NEW m
    PROVE  IsValidFor(g, c, m) <=> Fits(g, m, c, coll[c])
  BY DEF IsValidFor, Fits

LEMMA BeginKeeps ==
    ASSUME NEW t \in Threads, NEW c \in Collections, NEW m, Inv, Begin(t, c, m)
    PROVE  Inv'
<1> DEFINE a == \A v \in Threads \ {t} : thread[v].pc = "idle"
           r == [Idle EXCEPT !.pc = "check", !.coll = c, !.metric = m, !.alone = a]
<1>1. Becomes(t, r) /\ UNCHANGED <<coll, graph, writes, moved>>
  BY DEF Begin
<1>2. DOMAIN r = ThreadFields /\ r.pc = "check" /\ r.coll = c
  BY DEF Idle, ThreadFields
<1> HIDE DEF r
<1>3. ThreadInv(r, coll, graph, moved)
  BY <1>2 DEF ThreadInv
<1>4. GraphInv(graph', coll, moved) /\ ThreadInv(r, coll, graph', moved)
  BY <1>1, <1>3 DEF Inv
<1> QED
  BY <1>1, <1>4, StepKeeps

LEMMA CheckKeeps ==
    ASSUME NEW t \in Threads, Inv, Check(t)
    PROVE  Inv'
<1> DEFINE pc == IF IsValidFor(graph, Coll(t), Metric(t)) THEN "search" ELSE "load"
           r == At(thread[t], pc, EmptyGraph)
<1>1. Becomes(t, r) /\ UNCHANGED <<coll, graph, writes, moved>>
  BY DEF Check, Goes, At
<1>2. pc = "load" \/ (pc = "search" /\ Fits(graph, Metric(t), Coll(t), coll[Coll(t)]))
  BY FitsValid
<1>3. thread[t].pc # "idle"
  BY DEF Check
<1> HIDE DEF pc
<1>4. ThreadInv(r, coll, graph, moved)
  BY <1>2, <1>3, AtInv
<1>5. GraphInv(graph', coll, moved) /\ ThreadInv(r, coll, graph', moved)
  BY <1>1, <1>4 DEF Inv
<1> HIDE DEF r
<1> QED
  BY <1>1, <1>5, StepKeeps

LEMMA LoadKeeps ==
    ASSUME NEW t \in Threads, Inv, Load(t)
    PROVE  Inv'
<1> DEFINE c == Coll(t)
           S == SourceRows(coll[c])
           s == snapshot[c]
<1>1. thread[t].pc = "load" /\ c \in Collections /\ CollInv(coll)
  BY DEF Load, Coll, Inv, ThreadInv
<1>2. S \in Seq(Node) /\ Len(S) \in Nat /\ DOMAIN S = 1..Len(S)
  BY <1>1, RowsOfSound, LenProperties
<1>3. Matches(s, c, Metric(t)) => MadeOf(Decode(s, c), Metric(t), c, coll[c])
  <2> SUFFICES ASSUME Matches(s, c, Metric(t))
               PROVE  MadeOf(Decode(s, c), Metric(t), c, coll[c])
    OBVIOUS
  <2>1. s.metric = Metric(t) /\ s.dimension = Dimension[c] /\ s.rows = RowsOf(S)
    BY DEF Matches
  <2> HIDE DEF S
  <2>2. Len(RowsOf(S)) = Len(S)
    BY <1>2 DEF RowsOf
  <2>3. SubSeq(S, 1, Len(S)) = S
    BY <1>2
  <2> HIDE DEF s
  <2>4. Decode(s, c) =
          [metric |-> s.metric, dimension |-> s.dimension, nodes |-> S, of |-> {c}]
    BY <2>1, <2>2, <2>3 DEF Decode, S
  <2> QED
    BY <2>1, <2>4 DEF MadeOf, GraphFields, S
<1>4. PICK pc, g :
        /\ pc \in {"install", "extend"} /\ Becomes(t, At(thread[t], pc, g))
        /\ pc = "install" => MadeOf(g, Metric(t), c, coll[c])
  <2>1. CASE Matches(s, c, Metric(t))
    <3>1. Becomes(t, At(thread[t], "install", Decode(s, c)))
      BY <2>1 DEF Load, At
    <3> QED
      BY <1>3, <2>1, <3>1
  <2>2. CASE ~Matches(s, c, Metric(t))
    <3>1. Becomes(t, At(thread[t], "extend", EmptyGraph))
      BY <2>2 DEF Load, At, Goes
    <3> QED
      BY <3>1
  <2> QED
    BY <2>1, <2>2
<1>5. ThreadInv(At(thread[t], pc, g), coll, graph, moved)
  BY <1>1, <1>4, AtInv
<1>6. UNCHANGED <<coll, graph, writes, moved>>
  BY DEF Load
<1>7. GraphInv(graph', coll, moved) /\ ThreadInv(At(thread[t], pc, g), coll, graph', moved)
  BY <1>5, <1>6 DEF Inv
<1> QED
  BY <1>4, <1>6, <1>7, StepKeeps

\* A graph of the rows of collection c may take the place of any other.
LEMMA GraphOfRows ==
    ASSUME NEW c \in Collections, NEW g, Inv,
           DOMAIN g = GraphFields, g.of = {c},
           ~moved => g.nodes = SourceRows(coll[c])
    PROVE  GraphInv(g, coll, moved)
<1>1. ASSUME ~moved, NEW d \in Collections, g.of = {d}
      PROVE  FirstRows(g.nodes, SourceRows(coll[d]))
  <2>1. d = c
    BY <1>1
  <2>2. FirstRows(SourceRows(coll[c]), SourceRows(coll[c]))
    BY RowsOfSound DEF Inv
  <2> QED
    BY <1>1, <2>1, <2>2
<1> QED
  BY <1>1 DEF GraphInv

\* Until rows move, what extend adds completes the rows.
LEMMA ExtendCompletes ==
    ASSUME NEW c \in Collections, Inv
    PROVE  /\ DOMAIN Extend(graph, c) = GraphFields
           /\ Extend(graph, c).metric = graph.metric
           /\ Extend(graph, c).dimension = graph.dimension
           /\ Extend(graph, c).of = graph.of \cup {c}
           /\ ~moved /\ graph.of = {c} => Extend(graph, c).nodes = SourceRows(coll[c])
<1> DEFINE S == SourceRows(coll[c])
           p == graph.nodes
           q == SubSeq(S, Len(p) + 1, Len(S))
<1>1. DOMAIN graph = GraphFields
  BY DEF Inv, GraphInv
<1>2. /\ DOMAIN Extend(graph, c) = GraphFields
      /\ Extend(graph, c).metric = graph.metric
      /\ Extend(graph, c).dimension = graph.dimension
      /\ Extend(graph, c).nodes = p \o q
      /\ Extend(graph, c).of = graph.of \cup {c}
  BY <1>1 DEF Extend, GraphFields
<1>3. ASSUME ~moved, graph.of = {c} PROVE p \o q = S
  <2>1. FirstRows(p, S)
    BY <1>3 DEF Inv, GraphInv
  <2>2. S \in Seq(Node) /\ Len(S) \in Nat
    BY RowsOfSound DEF Inv
  <2>3. /\ p \in Seq(Node) /\ Len(p) \in Nat /\ Len(p) <= Len(S)
        /\ \A i \in 1..Len(p) : p[i] = S[i]
    BY <2>1, LenProperties DEF FirstRows
  <2> HIDE DEF p, S, q
  <2>4. /\ q \in Seq(Node) /\ Len(q) = Len(S) - Len(p)
        /\ \A i \in 1..(Len(S) - Len(p)) : q[i] = S[Len(p) + i]
    <3>1. Len(p) + 1 \in 1..(Len(S) + 1) /\ Len(S) \in Len(p)..Len(S)
      BY <2>2, <2>3
    <3>2. /\ q \in Seq(Node)
          /\ Len(q) = IF Len(p) + 1 <= Len(S) THEN Len(S) - (Len(p) + 1) + 1 ELSE 0
          /\ \A i \in 1..(Len(S) - (Len(p) + 1) + 1) : q[i] = S[Len(p) + 1 + i - 1]
      BY <2>2, <3>1, SubSeqProperties DEF q
    <3> QED
      BY <2>2, <2>3, <3>2
  <2>5. p \in Seq(Node) /\ q \in Seq(Node)
    BY <2>3, <2>4
  <2>6. /\ p \o q \in Seq(Node) /\ Len(p \o q) = Len(p) + Len(q)
        /\ \A i \in 1..(Len(p) + Len(q)) :
             (p \o q)[i] = IF i <= Len(p) THEN p[i] ELSE q[i - Len(p)]
    BY <2>5, ConcatProperties
  <2>7. Len(p \o q) = Len(S)
    BY <2>2, <2>3, <2>4, <2>6
  <2>8. ASSUME NEW i \in 1..Len(S) PROVE (p \o q)[i] = S[i]
    <3>1. i \in 1..(Len(p) + Len(q))
      BY <2>2, <2>3, <2>4
    <3>2. CASE i <= Len(p)
      <4>1. i \in 1..Len(p)
        BY <2>3, <3>2
      <4> QED
        BY <2>3, <2>6, <3>1, <3>2, <4>1
    <3>3. CASE ~(i <= Len(p))
      <4>1. i - Len(p) \in 1..(Len(S) - Len(p)) /\ Len(p) + (i - Len(p)) = i
        BY <2>2, <2>3, <3>3
      <4>2. q[i - Len(p)] = S[i]
        BY <2>4, <4>1
      <4> QED
        BY <2>6, <3>1, <3>3, <4>2
    <3> QED
      BY <3>2, <3>3
  <2> QED
    BY <2>2, <2>6, <2>7, <2>8, SeqEqual
<1> QED
  BY <1>2, <1>3

LEMMA ExtendKeeps ==
    ASSUME NEW t \in Threads, Inv, ExtendGraph(t)
    PROVE  Inv'
<1> DEFINE c == Coll(t)
           m == Metric(t)
<1>1. thread[t].pc = "extend" /\ c \in Collections
  BY DEF ExtendGraph, Coll, Inv, ThreadInv
<1>2. UNCHANGED <<coll, writes, moved>>
  BY DEF ExtendGraph
<1>3. GraphInv(graph, coll, moved)
  BY DEF Inv
<1>4. CASE IsValidFor(graph, c, m) /\ Goes(t, "search") /\ UNCHANGED graph
  <2>1. Becomes(t, At(thread[t], "search", EmptyGraph))
    BY <1>4 DEF Goes, At
  <2>2. Fits(graph, m, c, coll[c])
    BY <1>4, FitsValid
  <2>3. ThreadInv(At(thread[t], "search", EmptyGraph), coll, graph, moved)
    BY <1>1, <2>2, AtInv
  <2> QED
    BY <1>2, <1>3, <1>4, <2>1, <2>3, StepKeeps
<1>5. CASE /\ Extends(t) /\ graph' = Extend(graph, c)
           /\ Becomes(t, [thread[t] EXCEPT !.pc = "store", !.made = graph'])
  <2>1. Becomes(t, At(thread[t], "store", graph'))
    BY <1>5 DEF At
  <2>2. graph.metric = m /\ graph.dimension = Dimension[c] /\ graph.of # {}
    BY <1>3, <1>5 DEF Extends, IsPrefixOf, GraphInv
  <2> DEFINE g == Extend(graph, c)
  <2>3. /\ DOMAIN g = GraphFields /\ g.metric = m /\ g.dimension = Dimension[c]
        /\ g.of = graph.of \cup {c}
        /\ ~moved /\ graph.of = {c} => g.nodes = SourceRows(coll[c])
    BY <1>1, <2>2, ExtendCompletes
  <2>4. graph' = g
    BY <1>5
  <2> HIDE DEF g
  <2>5. GraphInv(g, coll, moved)
    <3>1. CASE graph.of = {c}
      BY <1>1, <2>3, <3>1, GraphOfRows
    <3>2. CASE graph.of # {c}
      <4>1. g.of # {} /\ \A d \in Collections : g.of # {d}
        BY <2>2, <2>3, <3>2
      <4> QED
        BY <2>3, <4>1 DEF GraphInv
    <3> QED
      BY <3>1, <3>2
  <2>6. ~moved => Fits(g, m, c, coll[c]) \/ Foreign(g, m, c)
    <3>1. CASE graph.of = {c}
      BY <2>3, <3>1 DEF Fits
    <3>2. CASE graph.of # {c}
      BY <2>2, <2>3, <3>2 DEF Foreign
    <3> QED
      BY <3>1, <3>2
  <2>7. ThreadInv(At(thread[t], "store", g), coll, g, moved)
    BY <1>1, <2>6, AtInv
  <2> QED
    BY <1>2, <2>1, <2>4, <2>5, <2>7, StepKeeps
<1>6. CASE /\ Becomes(t, [thread[t] EXCEPT !.pc = "store_new", !.made = BuildFrom(c, m)])
           /\ UNCHANGED graph
  <2>1. Becomes(t, At(thread[t], "store_new", BuildFrom(c, m)))
    BY <1>6 DEF At
  <2>2. MadeOf(BuildFrom(c, m), m, c, coll[c])
    BY DEF MadeOf, BuildFrom, GraphFields
  <2>3. ThreadInv(At(thread[t], "store_new", BuildFrom(c, m)), coll, graph, moved)
    BY <1>1, <2>2, AtInv
  <2> QED
    BY <1>2, <1>3, <1>6, <2>1, <2>3, StepKeeps
<1> QED
  BY <1>4, <1>5, <1>6 DEF ExtendGraph

LEMMA StoreKeeps ==
    ASSUME NEW t \in Threads, Inv, Store(t)
    PROVE  Inv'
<1> DEFINE q == thread[t]
<1>1. UNCHANGED <<coll, graph, writes, moved>> /\ GraphInv(graph, coll, moved)
  BY DEF Store, Inv
<1>2. ThreadInv(q, coll, graph, moved)
  BY DEF Inv
<1>3. CASE q.pc = "store" /\ Goes(t, "search")
  <2>1. Becomes(t, At(q, "search", EmptyGraph))
    BY <1>3 DEF Goes, At
  <2>2. q.alone = TRUE /\ ~moved => \/ Fits(graph, Metric(t), Coll(t), coll[Coll(t)])
                                    \/ Foreign(graph, Metric(t), Coll(t))
    BY <1>2, <1>3 DEF ThreadInv, Metric, Coll
  <2>3. ThreadInv(At(q, "search", EmptyGraph), coll, graph, moved)
    BY <1>3, <2>2, AtInv
  <2> QED
    BY <1>1, <2>1, <2>3, StepKeeps
<1>4. CASE q.pc = "store_new" /\ Becomes(t, [q EXCEPT !.pc = "install"])
  <2>1. DOMAIN q = ThreadFields
    BY <1>2 DEF ThreadInv
  <2>2. [q EXCEPT !.pc = "install"] = At(q, "install", q.made)
    BY <2>1 DEF At, ThreadFields
  <2>3. MadeOf(q.made, Metric(t), Coll(t), coll[Coll(t)])
    BY <1>2, <1>4 DEF ThreadInv, Metric, Coll
  <2>4. ThreadInv(At(q, "install", q.made), coll, graph, moved)
    BY <1>4, <2>3, AtInv
  <2> QED
    BY <1>1, <1>4, <2>2, <2>4, StepKeeps
<1> QED
  BY <1>3, <1>4 DEF Store

LEMMA InstallKeeps ==
    ASSUME NEW t \in Threads, Inv, Install(t)
    PROVE  Inv'
<1> DEFINE c == Coll(t)
           m == Metric(t)
           x == coll[c]
           g == Made(t)
           r == At(thread[t], "search", EmptyGraph)
<1>1. /\ thread[t].pc = "install" /\ Becomes(t, r)
      /\ UNCHANGED <<coll, writes, moved>>
      /\ graph' = IF KeepExisting(t) THEN graph ELSE g
  BY DEF Install, Goes, At
<1>2. c \in Collections /\ MadeOf(g, m, c, x)
  BY <1>1 DEF Inv, ThreadInv, Coll, Metric, Made
<1>3. Len(SourceRows(x)) \in Nat
  BY <1>2, RowsOfSound DEF Inv
<1>4. /\ GraphInv(graph', coll, moved)
      /\ ~moved => Fits(graph', m, c, x) \/ Foreign(graph', m, c)
  <2>1. CASE KeepExisting(t)
    <3>1. GraphInv(graph, coll, moved)
      BY DEF Inv
    <3>2. ASSUME ~moved PROVE Fits(graph, m, c, x) \/ Foreign(graph, m, c)
      <4>1. CASE IsValidFor(graph, c, m)
        BY <4>1, FitsValid
      <4>2. CASE /\ graph.metric = m /\ graph.dimension = Dimension[c]
                 /\ Len(graph.nodes) > Len(g.nodes)
        <5> SUFFICES ASSUME graph.of = {c} PROVE FALSE
          BY <4>2 DEF Foreign
        <5>1. FirstRows(graph.nodes, SourceRows(x))
          BY <1>2, <3>1, <3>2, <4>2 DEF GraphInv
        <5>2. Len(graph.nodes) <= Len(SourceRows(x)) /\ Len(graph.nodes) \in Nat
          BY <5>1, LenProperties DEF FirstRows
        <5>3. g.nodes = SourceRows(x)
          BY <1>2 DEF MadeOf
        <5> HIDE DEF g, x
        <5> QED
          BY <1>3, <4>2, <5>2, <5>3
      <4> QED
        BY <2>1, <4>1, <4>2 DEF KeepExisting
    <3> QED
      BY <1>1, <2>1, <3>1, <3>2
  <2>2. CASE ~KeepExisting(t)
    <3>1. graph' = g
      BY <1>1, <2>2
    <3> HIDE DEF g, c, m
    <3>2. /\ DOMAIN g = GraphFields /\ g.metric = m /\ g.dimension = Dimension[c]
          /\ g.nodes = SourceRows(x) /\ g.of = {c}
      BY <1>2 DEF MadeOf
    <3>3. GraphInv(g, coll, moved)
      BY <1>2, <3>2, GraphOfRows
    <3>4. Fits(g, m, c, x)
      BY <3>2 DEF Fits
    <3> QED
      BY <3>1, <3>3, <3>4
  <2> QED
    BY <2>1, <2>2
<1>5. ThreadInv(r, coll, graph', moved)
  BY <1>1, <1>4, AtInv
<1> HIDE DEF r
<1> QED
  BY <1>1, <1>4, <1>5, StepKeeps

LEMMA SearchKeeps ==
    ASSUME NEW t \in Threads, Inv, Search(t)
    PROVE  Inv'
<1> DEFINE q == thread[t]
           x == coll[Coll(t)]
<1>1. /\ q.pc = "search" /\ q.coll \in Collections /\ DOMAIN q = ThreadFields
      /\ UNCHANGED <<coll, graph, writes, moved>>
      /\ GraphInv(graph, coll, moved)
  BY DEF Search, Inv, ThreadInv
<1> DEFINE misled == Mistaken(t)
<1>2. PICK hits \in Answers(t) :
        Becomes(t, [q EXCEPT !.pc = "done", !.hits = hits, !.misled = misled])
  BY DEF Search
<1>3. ~moved /\ ~misled => IsRight(hits, x)
  <2> SUFFICES ASSUME ~moved, ~misled PROVE IsRight(hits, x)
    OBVIOUS
  <2>1. Sound(x) /\ SourceRows(x) \in Seq(Node)
    BY <1>1, RowsOfSound DEF Inv, CollInv, Coll
  <2>2. ASSUME Usable(t) PROVE graph.nodes = SourceRows(x)
    <3>1. graph.of = {Coll(t)} /\ Len(graph.nodes) = Len(SourceRows(x))
      BY <2>2 DEF Usable, Mistaken, Mistakable
    <3>2. FirstRows(graph.nodes, SourceRows(x))
      BY <1>1, <3>1 DEF GraphInv, Coll
    <3> QED
      BY <2>1, <3>1, <3>2, AllRows
  <2> QED
    BY <1>2, <2>1, <2>2, AnswersRight
<1> DEFINE r == [q EXCEPT !.pc = "done", !.hits = hits, !.misled = misled]
<1>4. /\ DOMAIN r = ThreadFields /\ r.pc = "done" /\ r.hits = hits /\ r.coll = q.coll
      /\ r.misled = misled
  <2> HIDE DEF q, misled
  <2> QED
    BY <1>1 DEF ThreadFields
<1> HIDE DEF r, misled
<1>5. ~moved /\ ~r.misled => IsRight(r.hits, coll[r.coll])
  BY <1>3, <1>4 DEF Coll
<1>6. ThreadInv(r, coll, graph, moved)
  BY <1>1, <1>4, <1>5 DEF ThreadInv
<1>7. Becomes(t, r)
  BY <1>2 DEF r
<1> QED
  BY <1>1, <1>6, <1>7, StepKeeps

\* An idle thread owes nothing.
LEMMA IdleInv ==
    ASSUME NEW C, NEW g, NEW mv
    PROVE  ThreadInv(Idle, C, g, mv)
<1>1. DOMAIN Idle = ThreadFields /\ Idle.pc = "idle"
  BY DEF Idle, ThreadFields
<1> QED
  BY <1>1 DEF ThreadInv

LEMMA ReturnKeeps ==
    ASSUME NEW t \in Threads, Inv, Return(t)
    PROVE  Inv'
<1>1. /\ UNCHANGED <<coll, graph, writes, moved>> /\ thread' = [thread EXCEPT ![t] = Idle]
      /\ DOMAIN thread = Threads
  BY DEF Return, Inv
<1>2. DOMAIN thread' = Threads
  BY <1>1
<1>3. \A u \in Threads : thread'[u] = thread[u] \/ thread'[u] = Idle
  BY <1>1
<1>4. \A u \in Threads : ThreadInv(thread'[u], coll, graph, moved)
  BY <1>3, IdleInv DEF Inv
<1> QED
  BY <1>1, <1>2, <1>4 DEF Inv

LEMMA ReopenKeeps ==
    ASSUME Inv, Reopen
    PROVE  Inv'
<1>1. /\ UNCHANGED <<coll, writes>> /\ graph' = EmptyGraph /\ moved' = FALSE
      /\ thread' = [t \in Threads |-> Idle]
  BY DEF Reopen
<1>2. GraphInv(EmptyGraph, coll, FALSE)
  <2>1. DOMAIN EmptyGraph = GraphFields /\ EmptyGraph.nodes = <<>> /\ EmptyGraph.of = {}
    BY DEF EmptyGraph, GraphFields
  <2>2. ASSUME NEW c \in Collections PROVE FirstRows(<<>>, SourceRows(coll[c]))
    BY RowsOfSound DEF FirstRows, Inv
  <2> QED
    BY <2>1, <2>2 DEF GraphInv
<1>3. DOMAIN thread' = Threads /\ \A t \in Threads : thread'[t] = Idle
  BY <1>1
<1>4. \A t \in Threads : ThreadInv(thread'[t], coll, EmptyGraph, FALSE)
  BY <1>3, IdleInv
<1>5. /\ GraphInv(graph', coll', moved')
      /\ \A t \in Threads : ThreadInv(thread'[t], coll', graph', moved')
  BY <1>1, <1>2, <1>4
<1> QED
  BY <1>1, <1>3, <1>5 DEF Inv

LEMMA InvPreserved == Inv /\ [Next]_vars => Inv'
<1> SUFFICES ASSUME Inv, [Next]_vars PROVE Inv'
  OBVIOUS
<1>1. CASE UNCHANGED vars
  BY <1>1 DEF vars, Inv
<1>2. ASSUME NEW c \in Collections, NEW d \in Docs,
             Insert(c, d) \/ Replace(c, d) \/ Delete(c, d)
      PROVE  Inv'
  BY <1>2, InsertKeeps, ReplaceKeeps, DeleteKeeps
<1>3. ASSUME NEW c \in Collections, Flush(c) \/ Compact(c)
      PROVE  Inv'
  BY <1>3, FlushKeeps, CompactKeeps
<1>4. ASSUME NEW t \in Threads, NEW c \in Collections, NEW m \in Metrics[c], Begin(t, c, m)
      PROVE  Inv'
  BY <1>4, BeginKeeps
<1>5. ASSUME NEW t \in Threads, Check(t) \/ Load(t) \/ ExtendGraph(t)
      PROVE  Inv'
  BY <1>5, CheckKeeps, LoadKeeps, ExtendKeeps
<1>6. ASSUME NEW t \in Threads, Store(t) \/ Install(t) \/ Search(t) \/ Return(t)
      PROVE  Inv'
  BY <1>6, StoreKeeps, InstallKeeps, SearchKeeps, ReturnKeeps
<1>7. CASE Reopen
  BY <1>7, ReopenKeeps
<1> QED
  BY <1>1, <1>2, <1>3, <1>4, <1>5, <1>6, <1>7 DEF Next

LEMMA InvHolds == Spec => []Inv
  BY InitInv, InvPreserved, PTL DEF Spec

\* Whatever the searches of every collection and metric do to the one graph
\* they share, and whatever snapshot it was restored from, a search returns
\* documents the collection holds, scored by the vectors they have, and as many
\* as were asked for or all there are - as long as rows are only added after the
\* index was created, and unless the search used a graph with rows of another
\* collection, which has its metric, its dimension and its number of rows.
THEOREM SharedGraphAnswersRight == Spec => []RightUntilRowsMove
<1>1. Inv => RightUntilRowsMove
  <2> SUFFICES ASSUME Inv, NEW t \in Threads, thread[t].pc = "done", ~moved,
                      ~thread[t].misled
               PROVE  Right(t)
    BY DEF RightUntilRowsMove
  <2>1. IsRight(thread[t].hits, coll[thread[t].coll])
    BY DEF Inv, ThreadInv
  <2> QED
    BY <2>1 DEF Right, IsRight, Coll
<1> QED
  BY <1>1, InvHolds, PTL

\* A prepare that no other search interferes with leaves a graph that the search
\* which follows can use, for a collection that is not empty, unless one with
\* rows of another collection of its metric and dimension is in place.
THEOREM PreparedGraphIsUsed == Spec => []PreparedIsUsable
<1>1. Inv => PreparedIsUsable
  <2> SUFFICES ASSUME Inv, NEW t \in Threads, thread[t].pc = "search", thread[t].alone, ~moved,
                      SourceRows(coll[Coll(t)]) # <<>>, ~Mistakable(t)
               PROVE  Usable(t)
    BY DEF PreparedIsUsable
  <2> DEFINE S == SourceRows(coll[Coll(t)])
  <2>1. ThreadInv(thread[t], coll, graph, moved) /\ CollInv(coll)
    BY DEF Inv
  <2>2. Coll(t) \in Collections
    BY <2>1 DEF ThreadInv, Coll
  <2>3. Fits(graph, Metric(t), Coll(t), coll[Coll(t)])
    BY <2>1 DEF ThreadInv, Coll, Metric, Mistakable, Foreign
  <2>4. /\ graph.metric = Metric(t) /\ graph.dimension = Dimension[Coll(t)]
        /\ Len(graph.nodes) = Len(S)
    BY <2>3 DEF Fits
  <2>5. S \in Seq(Node) /\ Len(S) \in Nat
    BY <2>1, <2>2, RowsOfSound
  <2>6. graph.nodes # <<>>
    <3> HIDE DEF S
    <3>1. Len(S) # 0
      BY <2>5 DEF S
    <3> QED
      BY <2>4, <2>5, <3>1
  <2> QED
    BY <2>4, <2>6 DEF Usable
<1> QED
  BY <1>1, InvHolds, PTL
===============================================================================
