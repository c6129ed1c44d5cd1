---------------------------- MODULE SearchProofs -----------------------------
(***************************************************************************)
(* Proofs about Search for any searchers, requests, documents, ceilings    *)
(* and any codec and filter that read back what was written: answers are   *)
(* the best documents, the log rebuilds the memtable, and ceiling and      *)
(* cancellation hold for all searches that share a budget.                 *)
(***************************************************************************)
EXTENDS Search, FiniteSetTheorems, WellFoundedInduction, SequenceTheorems, TLAPS

-------------------------------------------------------------------------------
(* Finite sets, and those with a strict total order. *)

LEMMA LeastNatural ==
    ASSUME NEW S \in SUBSET Nat, S # {}
    PROVE  \E n \in S : \A m \in S : n <= m
<1> DEFINE R == {p \in Nat \X Nat : p[1] < p[2]}
<1>1. IsWellFoundedOn(R, Nat)
  BY NatLessThanWellFounded DEF OpToRel
<1> HIDE DEF R
<1>2. PICK n \in S : \A m \in S : ~ (<<m, n>> \in R)
  BY <1>1, WFMin, Zenon
<1>3. \A m \in S : ~ (m < n)
  BY <1>2 DEF R
<1> QED
  BY <1>3

\* The image of a finite set.
LEMMA ImageFinite ==
    ASSUME NEW S, NEW T, NEW f \in [S -> T], IsFiniteSet(S), \A y \in T : \E x \in S : f[x] = y
    PROVE  /\ IsFiniteSet(T) /\ Cardinality(T) <= Cardinality(S)
           /\ (\A x, y \in S : f[x] = f[y] => x = y) => Cardinality(T) = Cardinality(S)
<1>1. f \in Surjection(S, T)
  BY DEF Surjection
<1>2. (\A x, y \in S : f[x] = f[y] => x = y) => f \in Injection(S, T)
  BY DEF Injection, IsInjective
<1> QED
  BY <1>1, <1>2, FS_Surjection

\* A strict total order, given as a set of pairs.
IsOrder(R, S) ==
    /\ \A x \in S : <<x, x>> \notin R
    /\ \A x, y \in S : x = y \/ <<x, y>> \in R \/ <<y, x>> \in R
    /\ \A x, y, z \in S : <<x, y>> \in R /\ <<y, z>> \in R => <<x, z>> \in R

IsLast(g, R, S) == g \in S /\ \A x \in S \ {g} : <<x, g>> \in R

LEMMA LastExists ==
    ASSUME NEW S, IsFiniteSet(S), S # {}, NEW R, IsOrder(R, S)
    PROVE  \E g : IsLast(g, R, S)
<1> DEFINE Bad(n) == \E T \in SUBSET S : /\ IsFiniteSet(T) /\ Cardinality(T) = n /\ T # {}
                                         /\ ~ \E g : IsLast(g, R, T)
           B == {n \in Nat : Bad(n)}
<1>1. B = {}
  <2> SUFFICES ASSUME B # {} PROVE FALSE
    OBVIOUS
  <2>1. PICK n \in B : \A m \in B : n <= m
    <3>1. B \in SUBSET Nat
      OBVIOUS
    <3> HIDE DEF B
    <3> QED
      BY <3>1, LeastNatural
  <2>2. n \in Nat /\ Bad(n)
    BY <2>1
  <2>3. PICK T \in SUBSET S : /\ IsFiniteSet(T) /\ Cardinality(T) = n /\ T # {}
                              /\ ~ \E g : IsLast(g, R, T)
    BY <2>2
  <2>4. PICK x \in T : TRUE
    BY <2>3
  <2> DEFINE U == T \ {x}
  <2>5. IsFiniteSet(U) /\ Cardinality(U) = n - 1 /\ U \in SUBSET S /\ n - 1 \in Nat
    <3>1. IsFiniteSet(U) /\ Cardinality(U) = n - 1
      BY <2>3, <2>4, FS_RemoveElement
    <3>2. Cardinality(U) \in Nat
      BY <3>1, FS_CardinalityType
    <3> QED
      BY <3>1, <3>2
  <2>6. ~Bad(n - 1)
    <3>1. n - 1 \notin B
      <4> HIDE DEF B
      <4> QED
        BY <2>1, <2>2, <2>5
    <3> QED
      BY <2>5, <3>1
  <2>7. CASE U = {}
    <3>1. IsLast(x, R, T)
      BY <2>4, <2>7 DEF IsLast
    <3> QED
      BY <2>3, <3>1
  <2>8. CASE U # {}
    <3>1. PICK g : IsLast(g, R, U)
      <4> HIDE DEF U
      <4> QED
        BY <2>5, <2>6, <2>8
    <3>2. g \in T /\ g # x /\ \A y \in T \ {x, g} : <<y, g>> \in R
      BY <3>1 DEF IsLast
    <3>3. CASE <<x, g>> \in R
      BY <2>3, <3>2, <3>3 DEF IsLast
    <3>4. CASE <<g, x>> \in R
      <4>1. \A y \in T \ {x, g} : <<y, x>> \in R
        BY <2>3, <2>4, <3>2, <3>4 DEF IsOrder
      <4>2. IsLast(x, R, T)
        BY <2>4, <3>4, <4>1 DEF IsLast
      <4> QED
        BY <2>3, <4>2
    <3> QED
      BY <2>3, <2>4, <3>2, <3>3, <3>4 DEF IsOrder
  <2> QED
    BY <2>7, <2>8
<1>2. Cardinality(S) \in Nat
  BY FS_CardinalityType
<1>3. ~Bad(Cardinality(S))
  BY <1>1, <1>2
<1> QED
  BY <1>3

IsListOf(f, R, S) ==
    /\ f \in [1..Cardinality(S) -> S]
    /\ \A i, j \in 1..Cardinality(S) : i < j => <<f[i], f[j]>> \in R

LEMMA OrderedListExists ==
    ASSUME NEW S, IsFiniteSet(S), NEW R, IsOrder(R, S)
    PROVE  \E f : IsListOf(f, R, S)
<1> DEFINE Bad(n) == \E T \in SUBSET S : /\ IsFiniteSet(T) /\ Cardinality(T) = n
                                         /\ ~ \E f : IsListOf(f, R, T)
           B == {n \in Nat : Bad(n)}
<1>1. B = {}
  <2> SUFFICES ASSUME B # {} PROVE FALSE
    OBVIOUS
  <2>1. PICK n \in B : \A m \in B : n <= m
    <3>1. B \in SUBSET Nat
      OBVIOUS
    <3> HIDE DEF B
    <3> QED
      BY <3>1, LeastNatural
  <2>2. n \in Nat /\ Bad(n)
    BY <2>1
  <2>3. PICK T \in SUBSET S : /\ IsFiniteSet(T) /\ Cardinality(T) = n
                              /\ ~ \E f : IsListOf(f, R, T)
    BY <2>2
  <2>4. CASE T = {}
    <3>1. Cardinality(T) = 0
      BY <2>4, FS_EmptySet
    <3>2. IsListOf([i \in 1..0 |-> 0], R, T)
      BY <3>1 DEF IsListOf
    <3> QED
      BY <2>3, <3>2
  <2>5. CASE T # {}
    <3>1. PICK g : IsLast(g, R, T)
      <4>1. IsOrder(R, T)
        BY <2>3 DEF IsOrder
      <4> QED
        BY <2>3, <2>5, <4>1, LastExists
    <3> DEFINE U == T \ {g}
    <3>2. IsFiniteSet(U) /\ Cardinality(U) = n - 1 /\ U \in SUBSET S /\ n - 1 \in Nat
      <4>1. IsFiniteSet(U) /\ Cardinality(U) = n - 1
        BY <2>3, <3>1, FS_RemoveElement DEF IsLast
      <4>2. Cardinality(U) \in Nat
        BY <4>1, FS_CardinalityType
      <4> QED
        BY <4>1, <4>2
    <3>3. ~Bad(n - 1)
      <4>1. n - 1 \notin B
        <5> HIDE DEF B
        <5> QED
          BY <2>1, <2>2, <3>2
      <4> QED
        BY <3>2, <4>1
    <3>4. PICK f : IsListOf(f, R, U)
      <4> HIDE DEF U
      <4> QED
        BY <3>2, <3>3
    <3>5. f \in [1..(n - 1) -> U] /\ \A i, j \in 1..(n - 1) : i < j => <<f[i], f[j]>> \in R
      BY <3>2, <3>4 DEF IsListOf
    <3> DEFINE h == [i \in 1..n |-> IF i = n THEN g ELSE f[i]]
    <3>6. \A i \in 1..(n - 1) : f[i] \in T /\ <<f[i], g>> \in R
      BY <3>1, <3>5 DEF IsLast
    <3>7. h \in [1..n -> T]
      <4>1. g \in T
        BY <3>1 DEF IsLast
      <4>2. \A i \in 1..n : i = n \/ i \in 1..(n - 1)
        BY <3>2
      <4> QED
        BY <3>6, <4>1, <4>2
    <3>8. \A i, j \in 1..n : i < j => <<h[i], h[j]>> \in R
      <4> SUFFICES ASSUME NEW i \in 1..n, NEW j \in 1..n, i < j
                   PROVE  <<h[i], h[j]>> \in R
        OBVIOUS
      <4>1. i \in 1..(n - 1) /\ (j = n \/ j \in 1..(n - 1))
        BY <3>2
      <4> QED
        BY <3>2, <3>5, <3>6, <4>1
    <3>9. IsListOf(h, R, T)
      <4> HIDE DEF h
      <4> QED
        BY <2>3, <3>7, <3>8 DEF IsListOf
    <3> QED
      BY <2>3, <3>9
  <2> QED
    BY <2>4, <2>5
<1>2. Cardinality(S) \in Nat
  BY FS_CardinalityType
<1>3. ~Bad(Cardinality(S))
  BY <1>1, <1>2
<1> QED
  BY <1>3

\* Such a list has every element once.
LEMMA OrderedListCovers ==
    ASSUME NEW S, IsFiniteSet(S), NEW R, IsOrder(R, S), NEW f, IsListOf(f, R, S)
    PROVE  /\ Cardinality(S) \in Nat
           /\ \A s \in S : \E i \in 1..Cardinality(S) : f[i] = s
           /\ \A i, j \in 1..Cardinality(S) : f[i] = f[j] => i = j
<1> DEFINE c == Cardinality(S)
<1>1. c \in Nat
  BY FS_CardinalityType
<1>2. f \in [1..c -> S] /\ \A i, j \in 1..c : i < j => <<f[i], f[j]>> \in R
  BY DEF IsListOf
<1> HIDE DEF c
<1>3. \A i, j \in 1..c : f[i] = f[j] => i = j
  <2> SUFFICES ASSUME NEW i \in 1..c, NEW j \in 1..c, f[i] = f[j], i # j PROVE FALSE
    OBVIOUS
  <2>1. i < j \/ j < i
    BY <1>1
  <2>2. f[i] \in S /\ f[j] \in S
    BY <1>2
  <2>3. <<f[i], f[j]>> \in R \/ <<f[j], f[i]>> \in R
    BY <1>2, <2>1
  <2>4. <<f[i], f[i]>> \notin R
    BY <2>2 DEF IsOrder
  <2> QED
    BY <2>3, <2>4
<1>4. f \in Injection(1..c, S)
  BY <1>2, <1>3 DEF Injection, IsInjective
<1>5. IsFiniteSet(1..c) /\ Cardinality(1..c) = c
  BY <1>1, FS_Interval
<1>6. f \in Surjection(1..c, S)
  BY <1>4, <1>5, FS_Injection DEF c
<1> QED
  BY <1>1, <1>3, <1>6 DEF Surjection, c

-------------------------------------------------------------------------------
(* Sums over the searchers, as the size of a set. *)

Units(n) == UNION {{s} \X (1..n[s]) : s \in Searchers}

LEMMA CountTo ==
    ASSUME NEW n \in Nat
    PROVE  IsFiniteSet(1..n) /\ Cardinality(1..n) = n
  BY FS_Interval

LEMMA UnitsOfOne ==
    ASSUME NEW s, NEW k \in Nat
    PROVE  IsFiniteSet({s} \X (1..k)) /\ Cardinality({s} \X (1..k)) = k
<1> DEFINE f == [i \in 1..k |-> <<s, i>>]
           T == {s} \X (1..k)
<1>1. f \in [1..k -> T] /\ \A y \in T : \E i \in 1..k : f[i] = y
  OBVIOUS
<1>2. \A i, j \in 1..k : f[i] = f[j] => i = j
  OBVIOUS
<1>3. IsFiniteSet(1..k) /\ Cardinality(1..k) = k
  BY CountTo
<1> HIDE DEF f, T
<1>4. IsFiniteSet(T) /\ Cardinality(T) = Cardinality(1..k)
  BY <1>1, <1>2, <1>3, ImageFinite
<1> QED
  BY <1>3, <1>4 DEF T

LEMMA UnitsFinite ==
    ASSUME NEW n \in [Searchers -> Nat]
    PROVE  IsFiniteSet(Units(n)) /\ Cardinality(Units(n)) \in Nat
<1> DEFINE part == [s \in Searchers |-> {s} \X (1..n[s])]
           P == {{s} \X (1..n[s]) : s \in Searchers}
<1>1. part \in [Searchers -> P] /\ \A p \in P : \E s \in Searchers : part[s] = p
  OBVIOUS
<1>2. IsFiniteSet(Searchers)
  BY SearchAssumption
<1>3. \A p \in P : IsFiniteSet(p)
  <2> SUFFICES ASSUME NEW s \in Searchers PROVE IsFiniteSet({s} \X (1..n[s]))
    OBVIOUS
  <2>1. n[s] \in Nat
    OBVIOUS
  <2> QED
    BY <2>1, UnitsOfOne
<1> HIDE DEF part, P
<1>4. IsFiniteSet(P)
  BY <1>1, <1>2, ImageFinite
<1>5. IsFiniteSet(UNION P)
  BY <1>3, <1>4, FS_UNION
<1>6. Units(n) = UNION P
  BY DEF Units, P
<1> QED
  BY <1>5, <1>6, FS_CardinalityType

\* One searcher's share changes.
LEMMA UnitsChange ==
    ASSUME NEW n \in [Searchers -> Nat], NEW m \in [Searchers -> Nat], NEW s \in Searchers,
           \A t \in Searchers \ {s} : m[t] = n[t]
    PROVE  Cardinality(Units(m)) + n[s] = Cardinality(Units(n)) + m[s]
<1> DEFINE rest == UNION {{t} \X (1..n[t]) : t \in Searchers \ {s}}
           x == {s} \X (1..n[s])
           y == {s} \X (1..m[s])
<1>1. Units(n) = rest \cup x
  BY DEF Units
<1>2. Units(m) = rest \cup y
  <2>1. rest = UNION {{t} \X (1..m[t]) : t \in Searchers \ {s}}
    OBVIOUS
  <2> HIDE DEF rest
  <2> QED
    BY <2>1 DEF Units
<1>3. rest \cap x = {} /\ rest \cap y = {}
  OBVIOUS
<1>4. /\ n[s] \in Nat /\ m[s] \in Nat
      /\ IsFiniteSet(x) /\ Cardinality(x) = n[s]
      /\ IsFiniteSet(y) /\ Cardinality(y) = m[s]
  BY UnitsOfOne
<1>5. IsFiniteSet(rest) /\ Cardinality(rest) \in Nat
  <2>1. rest \subseteq Units(n) /\ IsFiniteSet(Units(n))
    BY <1>1, UnitsFinite
  <2> HIDE DEF rest
  <2> QED
    BY <2>1, FS_Subset, FS_CardinalityType
<1> HIDE DEF rest, x, y
<1>6. Cardinality(Units(n)) = Cardinality(rest) + n[s]
  <2>1. Cardinality(rest \cup x) = Cardinality(rest) + Cardinality(x) - Cardinality(rest \cap x)
    BY <1>4, <1>5, FS_Union
  <2>2. Cardinality(rest \cap x) = 0
    BY <1>3, FS_EmptySet
  <2> QED
    BY <1>1, <1>4, <1>5, <2>1, <2>2
<1>7. Cardinality(Units(m)) = Cardinality(rest) + m[s]
  <2>1. Cardinality(rest \cup y) = Cardinality(rest) + Cardinality(y) - Cardinality(rest \cap y)
    BY <1>4, <1>5, FS_Union
  <2>2. Cardinality(rest \cap y) = 0
    BY <1>3, FS_EmptySet
  <2> QED
    BY <1>2, <1>4, <1>5, <2>1, <2>2
<1> QED
  BY <1>4, <1>5, <1>6, <1>7

-------------------------------------------------------------------------------
(* What a searcher is doing, after each kind of step. *)

RunFields == {"pc", "req", "at", "heap", "considered", "since", "hits", "late"}

LEMMA IdleIs ==
    /\ DOMAIN Idle = RunFields /\ Idle.pc = "idle" /\ Idle.req = NoRequest /\ Idle.at = 0
    /\ Idle.heap = {} /\ Idle.considered = 0 /\ Idle.since = 0 /\ Idle.late = 0
  BY DEF Idle, RunFields

LEMMA BegunIs ==
    ASSUME NEW x, DOMAIN x = RunFields, NEW req
    PROVE  LET y == [x EXCEPT !.pc = "scan", !.req = req, !.at = 1]
           IN  /\ DOMAIN y = RunFields /\ y.pc = "scan" /\ y.req = req /\ y.at = 1
               /\ y.heap = x.heap /\ y.considered = x.considered /\ y.since = x.since
               /\ y.late = x.late
  BY DEF RunFields

LEMMA CountedIs ==
    ASSUME NEW x, DOMAIN x = RunFields, NEW at, NEW heap, NEW considered, NEW since, NEW late
    PROVE  LET y == [x EXCEPT !.at = at, !.heap = heap, !.considered = considered,
                              !.since = since, !.late = late]
           IN  /\ DOMAIN y = RunFields /\ y.pc = x.pc /\ y.req = x.req /\ y.at = at
               /\ y.heap = heap /\ y.considered = considered /\ y.since = since
               /\ y.late = late
  BY DEF RunFields

LEMMA PassedIs ==
    ASSUME NEW x, DOMAIN x = RunFields, NEW at
    PROVE  LET y == [x EXCEPT !.at = at]
           IN  /\ DOMAIN y = RunFields /\ y.pc = x.pc /\ y.req = x.req /\ y.at = at
               /\ y.heap = x.heap /\ y.considered = x.considered /\ y.since = x.since
               /\ y.late = x.late
  BY DEF RunFields

LEMMA SettledIs ==
    ASSUME NEW x, DOMAIN x = RunFields
    PROVE  LET y == [x EXCEPT !.since = 0]
           IN  /\ DOMAIN y = RunFields /\ y.pc = x.pc /\ y.req = x.req /\ y.at = x.at
               /\ y.heap = x.heap /\ y.considered = x.considered /\ y.since = 0
               /\ y.late = x.late
  BY DEF RunFields

LEMMA RefusedIs ==
    ASSUME NEW x, DOMAIN x = RunFields
    PROVE  LET y == [x EXCEPT !.pc = "cancelled"]
           IN  /\ DOMAIN y = RunFields /\ y.pc = "cancelled" /\ y.req = x.req /\ y.at = x.at
               /\ y.heap = x.heap /\ y.considered = x.considered /\ y.since = x.since
               /\ y.late = x.late
  BY DEF RunFields

LEMMA AnsweredIs ==
    ASSUME NEW x, DOMAIN x = RunFields, NEW req, NEW late, NEW hits
    PROVE  LET y == [x EXCEPT !.pc = "answered", !.req = req, !.late = late, !.hits = hits]
           IN  /\ DOMAIN y = RunFields /\ y.pc = "answered" /\ y.req = req /\ y.hits = hits
               /\ y.heap = x.heap /\ y.considered = x.considered /\ y.since = x.since
               /\ y.late = late
  BY DEF RunFields

-------------------------------------------------------------------------------
(* The budget. *)

IsBudget(b) ==
    /\ b = [cancelled |-> b.cancelled, scanned |-> b.scanned, max |-> b.max]
    /\ b.cancelled \in BOOLEAN /\ b.scanned \in Nat /\ b.max \subseteq Nat

IsRun(x) ==
    /\ DOMAIN x = RunFields
    /\ x.pc \in {"idle", "scan", "answered", "cancelled"}
    /\ x.considered \in Nat /\ x.since \in Nat /\ x.late \in Nat
    /\ x.since <= x.considered
    /\ x.pc # "scan" => x.considered = 0 /\ x.since = 0

\* Only rows of the present stride are scored after a cancellation.
Stops(x, b) ==
    /\ x.late < BudgetStride
    /\ x.pc = "scan" => /\ x.since < BudgetStride /\ x.late <= x.since
                        /\ ~ b.cancelled => x.late = 0

\* What a search has charged of what it considered.
Paid(srch) == [s \in Searchers |-> srch[s].considered - srch[s].since]

BudgetInv ==
    /\ IsBudget(budget)
    /\ search = [s \in Searchers |-> search[s]]
    /\ \A s \in Searchers : IsRun(search[s]) /\ Stops(search[s], budget)
    /\ granted \in Nat
    /\ granted + Cardinality(Units(Paid(search))) <= budget.scanned
    /\ CeilingShared

LEMMA PaidType ==
    ASSUME NEW srch, \A s \in Searchers : IsRun(srch[s])
    PROVE  Paid(srch) \in [Searchers -> Nat]
<1>1. ASSUME NEW s \in Searchers PROVE srch[s].considered - srch[s].since \in Nat
  <2>1. IsRun(srch[s])
    OBVIOUS
  <2>2. /\ srch[s].considered \in Nat /\ srch[s].since \in Nat
        /\ srch[s].since <= srch[s].considered
    BY <2>1, Zenon DEF IsRun
  <2> QED
    BY <2>2
<1> QED
  BY <1>1 DEF Paid

LEMMA IdleRuns ==
    ASSUME NEW b
    PROVE  /\ IsRun(Idle) /\ Stops(Idle, b)
           /\ IsRun([Idle EXCEPT !.pc = "cancelled"]) /\ Stops([Idle EXCEPT !.pc = "cancelled"], b)
           /\ [Idle EXCEPT !.pc = "cancelled"].considered = 0
           /\ [Idle EXCEPT !.pc = "cancelled"].since = 0
<1> DEFINE x == [Idle EXCEPT !.pc = "cancelled"]
<1>1. BudgetStride \in Nat \ {0}
  BY SearchAssumption
<1>2. /\ DOMAIN x = RunFields /\ x.pc = "cancelled" /\ x.considered = 0 /\ x.since = 0
      /\ x.late = 0
  BY IdleIs, RefusedIs
<1> HIDE DEF x
<1>3. IsRun(Idle) /\ Stops(Idle, b)
  BY <1>1, IdleIs DEF IsRun, Stops
<1>4. IsRun(x) /\ Stops(x, b)
  BY <1>1, <1>2 DEF IsRun, Stops
<1> QED
  BY <1>2, <1>3, <1>4 DEF x

LEMMA BudgetInit == Init => BudgetInv
<1> SUFFICES ASSUME Init PROVE BudgetInv
  OBVIOUS
<1>1. /\ search = [s \in Searchers |-> Idle] /\ granted = 0
      /\ \E max \in Ceilings : budget = [cancelled |-> FALSE, scanned |-> 0, max |-> max]
  BY DEF Init
<1>2. IsBudget(budget) /\ budget.scanned = 0
  BY <1>1, SearchAssumption DEF IsBudget
<1>3. IsRun(Idle) /\ Stops(Idle, budget)
  BY IdleRuns
<1>4. \A s \in Searchers : IsRun(search[s]) /\ Stops(search[s], budget)
  BY <1>1, <1>3
<1>5. Cardinality(Units(Paid(search))) = 0
  <2>1. Paid(search) = [s \in Searchers |-> 0]
    BY <1>1, IdleIs DEF Paid
  <2>2. Units(Paid(search)) = {}
    BY <2>1 DEF Units
  <2> QED
    BY <2>2, FS_EmptySet
<1>6. CeilingShared
  BY <1>1, <1>2 DEF CeilingShared, IsBudget
<1>7. search = [s \in Searchers |-> search[s]]
  BY <1>1
<1> QED
  <2>1. granted \in Nat /\ granted + Cardinality(Units(Paid(search))) <= budget.scanned
    BY <1>1, <1>2, <1>5
  <2> QED
    BY <1>2, <1>4, <1>6, <1>7, <2>1 DEF BudgetInv

\* A step of searcher s to x, charging n and granting g.
LEMMA BudgetMoves ==
    ASSUME BudgetInv, NEW s \in Searchers, NEW x, NEW n \in Nat, NEW g \in Nat,
           search' = [search EXCEPT ![s] = x], budget' = Charged(n), granted' = granted + g,
           IsRun(x), Stops(x, budget),
           x.considered - x.since + g <= search[s].considered - search[s].since + n,
           g = 0 \/ (/\ ~ Refuses(n)
                     /\ g <= search[s].considered - search[s].since + n)
    PROVE  BudgetInv'
<1>1. /\ IsBudget(budget) /\ search = [t \in Searchers |-> search[t]] /\ granted \in Nat
      /\ \A t \in Searchers : IsRun(search[t]) /\ Stops(search[t], budget)
      /\ granted + Cardinality(Units(Paid(search))) <= budget.scanned
      /\ \A max \in budget.max : granted <= max
  BY DEF BudgetInv, CeilingShared
<1>2. /\ IsBudget(budget') /\ budget'.cancelled = budget.cancelled /\ budget'.max = budget.max
      /\ budget'.scanned = budget.scanned + n
  BY <1>1 DEF Charged, IsBudget
<1>3. search'[s] = x /\ \A t \in Searchers \ {s} : search'[t] = search[t]
  BY <1>1
<1>4. search' = [t \in Searchers |-> search'[t]]
  BY <1>1
<1>5. \A t \in Searchers : IsRun(search'[t]) /\ Stops(search'[t], budget')
  BY <1>1, <1>2, <1>3 DEF Stops
<1> DEFINE p == Paid(search)
           q == Paid(search')
<1>6. p \in [Searchers -> Nat] /\ q \in [Searchers -> Nat]
  BY <1>1, <1>5, PaidType
<1>7. /\ p[s] = search[s].considered - search[s].since /\ q[s] = x.considered - x.since
      /\ \A t \in Searchers \ {s} : q[t] = p[t]
  BY <1>3 DEF Paid
<1> HIDE DEF p, q
<1>8. /\ Cardinality(Units(q)) + p[s] = Cardinality(Units(p)) + q[s]
      /\ Cardinality(Units(q)) \in Nat /\ Cardinality(Units(p)) \in Nat
  BY <1>6, <1>7, UnitsChange, UnitsFinite
<1>9. p[s] \in Nat /\ q[s] \in Nat /\ budget.scanned \in Nat /\ budget'.scanned \in Nat
  BY <1>1, <1>2, <1>6 DEF IsBudget
<1>10. granted' + Cardinality(Units(q)) <= budget'.scanned
  BY <1>1, <1>2, <1>7, <1>8, <1>9 DEF p
<1>11. p[s] <= Cardinality(Units(p))
  <2>1. {s} \X (1..p[s]) \subseteq Units(p)
    BY DEF Units
  <2>2. Cardinality({s} \X (1..p[s])) = p[s]
    BY <1>9, UnitsOfOne
  <2> QED
    BY <1>6, <2>1, <2>2, UnitsFinite, FS_Subset
<1>12. \A max \in budget'.max : granted' <= max
  <2>1. CASE g = 0
    BY <1>1, <1>2, <2>1
  <2>2. CASE g # 0
    <3>1. ~ Refuses(n) /\ g <= p[s] + n
      BY <1>7, <2>2
    <3>2. \A max \in budget.max : max \in Nat /\ ~ (budget.scanned + n > max)
      BY <1>1, <3>1 DEF Refuses, IsBudget
    <3>3. granted + g <= budget.scanned + n
      BY <1>1, <1>8, <1>9, <1>11, <3>1 DEF p
    <3> QED
      BY <1>1, <1>2, <1>9, <3>2, <3>3
  <2> QED
    BY <2>1, <2>2
<1> QED
  BY <1>1, <1>2, <1>4, <1>5, <1>10, <1>12 DEF BudgetInv, CeilingShared, q

LEMMA NothingCharged ==
    ASSUME IsBudget(budget)
    PROVE  Charged(0) = budget
  BY DEF Charged, IsBudget

LEMMA BeginBudget ==
    ASSUME BudgetInv, NEW s \in Searchers, Begin(s)
    PROVE  BudgetInv'
<1>1. PICK req \in Requests :
          search' = [search EXCEPT ![s] = [Idle EXCEPT !.pc = "scan", !.req = req, !.at = 1]]
  BY DEF Begin
<1>2. budget' = budget /\ granted' = granted /\ search[s].pc = "idle"
  BY DEF Begin
<1>3. /\ IsBudget(budget) /\ granted \in Nat /\ IsRun(search[s])
  BY DEF BudgetInv
<1> DEFINE x == [Idle EXCEPT !.pc = "scan", !.req = req, !.at = 1]
<1>4. /\ DOMAIN x = RunFields /\ x.pc = "scan" /\ x.considered = 0 /\ x.since = 0
      /\ x.late = 0
  BY IdleIs, BegunIs
<1>5. BudgetStride \in Nat \ {0}
  BY SearchAssumption
<1> HIDE DEF x
<1>6. IsRun(x) /\ Stops(x, budget)
  BY <1>4, <1>5 DEF IsRun, Stops
<1>7. x.considered - x.since + 0 <= search[s].considered - search[s].since + 0
  BY <1>2, <1>3, <1>4 DEF IsRun
<1>9. search' = [search EXCEPT ![s] = x] /\ budget' = Charged(0) /\ granted' = granted + 0
  BY <1>1, <1>2, <1>3, NothingCharged DEF x
<1> QED
  BY <1>6, <1>7, <1>9, BudgetMoves

LEMMA VisitBudget ==
    ASSUME BudgetInv, NEW s \in Searchers, Visit(s)
    PROVE  BudgetInv'
<1> DEFINE my == search[s]
           row == SourceRows[my.at]
           candidate == [row |-> row.row, id |-> row.id,
                         score |-> Score(my.req.metric, my.req.vector, row.vector)]
           heap == Offer(my.heap, my.req.top_k, my.req.min_score, candidate)
           next == [my EXCEPT !.at = @ + 1, !.heap = heap,
                              !.considered = @ + 1, !.since = @ + 1,
                              !.late = IF budget.cancelled THEN @ + 1 ELSE @]
<1>1. /\ IsBudget(budget) /\ granted \in Nat /\ IsRun(my) /\ Stops(my, budget)
      /\ search = [t \in Searchers |-> search[t]]
  BY DEF BudgetInv
<1>2. my.pc = "scan" /\ granted' = granted
  BY DEF Visit
<1>3. \/ Checkpoint(s, next)
      \/ search' = [search EXCEPT ![s].at = @ + 1] /\ UNCHANGED budget
  BY DEF Visit
<1>4. /\ DOMAIN my = RunFields
      /\ my.considered \in Nat /\ my.since \in Nat /\ my.late \in Nat /\ my.since <= my.considered
  <2> HIDE DEF my
  <2> QED
    BY <1>1, Zenon DEF IsRun
<1>5. BudgetStride \in Nat \ {0}
  BY SearchAssumption
<1>6. my.late < BudgetStride /\ my.since < BudgetStride /\ my.late <= my.since
      /\ (~ budget.cancelled => my.late = 0)
  BY <1>1, <1>2 DEF Stops
<1>7. budget.cancelled \in BOOLEAN
  BY <1>1 DEF IsBudget
<1>8. CASE search' = [search EXCEPT ![s].at = @ + 1] /\ UNCHANGED budget
  <2> DEFINE x == [my EXCEPT !.at = @ + 1]
  <2>1. search' = [search EXCEPT ![s] = x]
    BY <1>8
  <2> HIDE DEF my
  <2>2. /\ DOMAIN x = RunFields /\ x.pc = "scan" /\ x.considered = my.considered
        /\ x.since = my.since /\ x.late = my.late
    BY <1>2, <1>4, PassedIs
  <2> HIDE DEF x
  <2>3. IsRun(x)
    BY <1>4, <2>2 DEF IsRun
  <2>4. Stops(x, budget) /\ x.considered = my.considered /\ x.since = my.since
    BY <1>6, <2>2 DEF Stops
  <2>5. budget' = Charged(0) /\ granted' = granted + 0
    BY <1>1, <1>2, <1>8, NothingCharged
  <2>6. x.considered - x.since + 0 <= my.considered - my.since + 0
    BY <1>4, <2>4
  <2> QED
    BY <2>1, <2>3, <2>4, <2>5, <2>6, BudgetMoves DEF my
<1>9. CASE Checkpoint(s, next)
  <2> HIDE DEF my, heap
  <2>2. /\ DOMAIN next = RunFields /\ next.pc = "scan"
        /\ next.considered = my.considered + 1 /\ next.since = my.since + 1
        /\ next.late = IF budget.cancelled THEN my.late + 1 ELSE my.late
    BY <1>2, <1>4, CountedIs
  <2> HIDE DEF next
  <2>3. IsRun(next)
    <3>1. next.since <= next.considered /\ next.late \in Nat
      BY <1>4, <2>2
    <3> QED
      BY <1>4, <2>2, <3>1 DEF IsRun
  <2>4. CASE next.since < BudgetStride
    <3>1. search' = [search EXCEPT ![s] = next] /\ UNCHANGED budget
      BY <1>9, <2>4 DEF Checkpoint
    <3>2. Stops(next, budget)
      BY <1>4, <1>5, <1>6, <1>7, <2>2, <2>4 DEF Stops
    <3>3. budget' = Charged(0) /\ granted' = granted + 0
      BY <1>1, <1>2, <3>1, NothingCharged
    <3>4. next.considered - next.since + 0 <= my.considered - my.since + 0
      BY <1>4, <2>2
    <3> QED
      BY <2>3, <3>1, <3>2, <3>3, <3>4, BudgetMoves DEF my
  <2>5. CASE ~ (next.since < BudgetStride) /\ Refuses(next.since)
    <3> DEFINE x == [Idle EXCEPT !.pc = "cancelled"]
    <3>1. search' = [search EXCEPT ![s] = x] /\ budget' = Charged(next.since)
      BY <1>9, <2>5 DEF Checkpoint
    <3>2. IsRun(x) /\ Stops(x, budget) /\ x.considered = 0 /\ x.since = 0
      BY IdleRuns
    <3> HIDE DEF x
    <3>3. x.considered - x.since + 0 <= my.considered - my.since + next.since
      BY <1>4, <2>2, <3>2
    <3>4. granted' = granted + 0 /\ next.since \in Nat
      BY <1>1, <1>2, <1>4, <2>2
    <3> QED
      BY <3>1, <3>2, <3>3, <3>4, BudgetMoves DEF my
  <2>6. CASE ~ (next.since < BudgetStride) /\ ~ Refuses(next.since)
    <3> DEFINE x == [next EXCEPT !.since = 0]
    <3>1. search' = [search EXCEPT ![s] = x] /\ budget' = Charged(next.since)
      BY <1>9, <2>6 DEF Checkpoint
    <3>2. /\ DOMAIN x = RunFields /\ x.pc = "scan" /\ x.considered = next.considered
          /\ x.since = 0 /\ x.late = next.late
      BY <2>2, SettledIs
    <3> HIDE DEF x
    <3>3. ~ budget.cancelled
      BY <2>6 DEF Refuses
    <3>4. IsRun(x) /\ Stops(x, budget)
      <4>1. x.late = 0
        BY <1>6, <2>2, <3>2, <3>3
      <4> QED
        BY <1>4, <1>5, <2>2, <3>2, <3>3, <4>1 DEF IsRun, Stops
    <3>5. x.considered - x.since + 0 <= my.considered - my.since + next.since
      BY <1>4, <2>2, <3>2
    <3>6. granted' = granted + 0 /\ next.since \in Nat
      BY <1>1, <1>2, <1>4, <2>2
    <3> QED
      BY <3>1, <3>4, <3>5, <3>6, BudgetMoves DEF my
  <2> QED
    BY <2>4, <2>5, <2>6
<1> QED
  BY <1>3, <1>8, <1>9

LEMMA FinishBudget ==
    ASSUME BudgetInv, NEW s \in Searchers, Finish(s)
    PROVE  BudgetInv'
<1> DEFINE my == search[s]
<1>1. /\ IsBudget(budget) /\ granted \in Nat /\ IsRun(my) /\ Stops(my, budget)
  BY DEF BudgetInv
<1>2. /\ my.pc = "scan" /\ budget' = Charged(my.since)
      /\ search' = [search EXCEPT ![s] =
                      IF Refuses(my.since) THEN [Idle EXCEPT !.pc = "cancelled"]
                      ELSE [Idle EXCEPT !.pc = "answered", !.req = my.req, !.late = my.late,
                                        !.hits = Ranked(my.heap)]]
      /\ granted' = IF Refuses(my.since) THEN granted ELSE granted + my.considered
  BY DEF Finish
<1>3. /\ my.considered \in Nat /\ my.since \in Nat /\ my.late \in Nat /\ my.since <= my.considered
  <2> HIDE DEF my
  <2> QED
    BY <1>1, Zenon DEF IsRun
<1>4. CASE Refuses(my.since)
  <2> DEFINE x == [Idle EXCEPT !.pc = "cancelled"]
  <2>1. IsRun(x) /\ Stops(x, budget) /\ x.considered = 0 /\ x.since = 0
    BY IdleRuns
  <2>2. search' = [search EXCEPT ![s] = x]
    BY <1>2, <1>4
  <2> HIDE DEF x, my
  <2>3. x.considered - x.since + 0 <= my.considered - my.since + my.since
    BY <1>3, <2>1
  <2>4. granted' = granted + 0
    BY <1>1, <1>2, <1>4
  <2> QED
    BY <1>2, <1>3, <2>1, <2>2, <2>3, <2>4, BudgetMoves DEF my
<1>5. CASE ~ Refuses(my.since)
  <2> DEFINE hits == Ranked(my.heap)
             x == [Idle EXCEPT !.pc = "answered", !.req = my.req, !.late = my.late, !.hits = hits]
  <2>1. search' = [search EXCEPT ![s] = x] /\ granted' = granted + my.considered
    BY <1>2, <1>5
  <2> HIDE DEF hits
  <2>2. /\ DOMAIN x = RunFields /\ x.pc = "answered" /\ x.considered = 0 /\ x.since = 0
        /\ x.late = my.late
    BY IdleIs, AnsweredIs
  <2> HIDE DEF x, my
  <2>3. IsRun(x)
    BY <1>3, <2>2 DEF IsRun
  <2>4. Stops(x, budget) /\ x.considered = 0 /\ x.since = 0
    BY <1>1, <2>2 DEF Stops
  <2>5. /\ x.considered - x.since + my.considered <= my.considered - my.since + my.since
        /\ my.considered <= my.considered - my.since + my.since
    BY <1>3, <2>4
  <2> QED
    BY <1>2, <1>3, <1>5, <2>1, <2>3, <2>4, <2>5, BudgetMoves DEF my
<1> QED
  BY <1>4, <1>5

LEMMA ReturnBudget ==
    ASSUME BudgetInv, NEW s \in Searchers, Return(s)
    PROVE  BudgetInv'
<1>1. /\ IsBudget(budget) /\ granted \in Nat /\ IsRun(search[s])
  BY DEF BudgetInv
<1>2. search' = [search EXCEPT ![s] = Idle] /\ budget' = budget /\ granted' = granted
  BY DEF Return
<1>3. search[s].considered = 0 /\ search[s].since = 0
  BY <1>1 DEF Return, IsRun
<1>4. IsRun(Idle) /\ Stops(Idle, budget) /\ Idle.considered = 0 /\ Idle.since = 0
  BY IdleIs, IdleRuns
<1>5. Idle.considered - Idle.since + 0 <= search[s].considered - search[s].since + 0
  BY <1>3, <1>4
<1>6. budget' = Charged(0) /\ granted' = granted + 0
  BY <1>1, <1>2, NothingCharged
<1> QED
  BY <1>2, <1>4, <1>6, <1>5, BudgetMoves

\* A step that leaves the searches alone, or only cancels.
LEMMA OthersBudget ==
    ASSUME BudgetInv, UNCHANGED <<search, granted>>,
           budget' = budget \/ budget' = [budget EXCEPT !.cancelled = TRUE]
    PROVE  BudgetInv'
<1>1. /\ IsBudget(budget) /\ search = [s \in Searchers |-> search[s]] /\ granted \in Nat
      /\ \A s \in Searchers : IsRun(search[s]) /\ Stops(search[s], budget)
      /\ granted + Cardinality(Units(Paid(search))) <= budget.scanned
      /\ \A max \in budget.max : granted <= max
  BY DEF BudgetInv, CeilingShared
<1>2. /\ IsBudget(budget') /\ budget'.scanned = budget.scanned /\ budget'.max = budget.max
      /\ ~ budget'.cancelled => ~ budget.cancelled
  BY <1>1 DEF IsBudget
<1>3. \A s \in Searchers : Stops(search[s], budget')
  BY <1>1, <1>2 DEF Stops
<1> QED
  BY <1>1, <1>2, <1>3 DEF BudgetInv, CeilingShared

LEMMA BudgetStep == BudgetInv /\ [Next]_vars => BudgetInv'
<1> SUFFICES ASSUME BudgetInv, [Next]_vars PROVE BudgetInv'
  OBVIOUS
<1>1. CASE UNCHANGED vars
  BY <1>1, OthersBudget DEF vars
<1>2. CASE Write \/ Erase \/ Flush \/ Reopen
  BY <1>2, OthersBudget DEF Write, Erase, Flush, Reopen, Writing
<1>3. CASE Cancel
  BY <1>3, OthersBudget DEF Cancel
<1>4. ASSUME NEW s \in Searchers, Begin(s) \/ Visit(s) \/ Finish(s) \/ Return(s)
      PROVE  BudgetInv'
  BY <1>4, BeginBudget, VisitBudget, FinishBudget, ReturnBudget
<1> QED
  BY <1>1, <1>2, <1>3, <1>4 DEF Next

LEMMA BudgetHolds == Spec => []BudgetInv
BY BudgetInit, BudgetStep, PTL DEF Spec

\* The searches that share a budget and were answered considered no more rows
\* between them than its ceiling, whatever they charge and whenever.
THEOREM BudgetSharesCeiling == Spec => []CeilingShared
<1>1. BudgetInv => CeilingShared
  BY DEF BudgetInv
<1> QED
  BY <1>1, BudgetHolds, PTL

LEMMA StopsStep ==
    ASSUME BudgetInv, BudgetInv', [Next]_vars, NEW s \in Searchers
    PROVE  /\ budget.cancelled /\ search[s].pc = "scan" => search'[s].pc # "answered"
           /\ search'[s].late < BudgetStride
<1>1. search'[s].late < BudgetStride
  BY DEF BudgetInv, Stops
<1>2. SUFFICES ASSUME budget.cancelled, search[s].pc = "scan", search'[s].pc = "answered"
               PROVE  FALSE
  BY <1>1
<1>3. search = [t \in Searchers |-> search[t]] /\ IsRun(search[s])
  BY DEF BudgetInv
<1>4. search' # search
  BY <1>2
<1>5. PICK t \in Searchers : Begin(t) \/ Visit(t) \/ Finish(t) \/ Return(t)
  BY <1>4 DEF Next, vars, Write, Erase, Flush, Reopen, Writing, Cancel
<1>6. \A n : Refuses(n)
  BY <1>2 DEF Refuses
<1>7. CASE t # s
  <2>1. search'[s] = search[s]
    BY <1>3, <1>5, <1>7 DEF Begin, Visit, Checkpoint, Finish, Return
  <2> QED
    BY <1>2, <2>1
<1>8. CASE t = s
  <2>1. CASE Visit(s)
    <3> DEFINE my == search[s]
    <3>1. DOMAIN my = RunFields
      BY <1>3 DEF IsRun
    <3> DEFINE IsNext(next) ==
            /\ next.pc = "scan"
            /\ Checkpoint(s, next) \/ search' = [search EXCEPT ![s] = next]
    <3>2. PICK next : IsNext(next)
      <4> DEFINE row == SourceRows[my.at]
                 candidate == [row |-> row.row, id |-> row.id,
                               score |-> Score(my.req.metric, my.req.vector, row.vector)]
                 heap == Offer(my.heap, my.req.top_k, my.req.min_score, candidate)
                 counted == [my EXCEPT !.at = @ + 1, !.heap = heap,
                                       !.considered = @ + 1, !.since = @ + 1,
                                       !.late = IF budget.cancelled THEN @ + 1 ELSE @]
                 passed == [my EXCEPT !.at = @ + 1]
      <4>1. \/ Checkpoint(s, counted)
            \/ search' = [search EXCEPT ![s] = passed]
        BY <2>1 DEF Visit
      <4> HIDE DEF my, heap
      <4>2. my.pc = "scan"
        BY <1>2 DEF my
      <4>3. counted.pc = "scan" /\ passed.pc = "scan"
        BY <3>1, <4>2, CountedIs, PassedIs
      <4> HIDE DEF counted, passed
      <4> QED
        BY <4>1, <4>3
    <3>3. search'[s] = next \/ search'[s] = [Idle EXCEPT !.pc = "cancelled"]
      BY <1>3, <1>6, <3>2 DEF Checkpoint
    <3>4. [Idle EXCEPT !.pc = "cancelled"].pc = "cancelled"
      BY IdleIs, RefusedIs
    <3> QED
      BY <1>2, <3>2, <3>3, <3>4
  <2>2. CASE Finish(s)
    <3>1. search'[s] = [Idle EXCEPT !.pc = "cancelled"]
      BY <1>3, <1>6, <2>2 DEF Finish
    <3> QED
      BY <1>2, <3>1, IdleIs, RefusedIs
  <2>3. CASE Begin(s) \/ Return(s)
    <3>1. CASE Begin(s)
      BY <1>2, <3>1 DEF Begin
    <3>2. CASE Return(s)
      BY <1>2, <3>2 DEF Return
    <3> QED
      BY <2>3, <3>1, <3>2
  <2> QED
    BY <1>5, <1>8, <2>1, <2>2, <2>3
<1> QED
  BY <1>7, <1>8

\* A search that had not answered when its budget was cancelled never answers,
\* and is refused before it has scored a stride of rows more.
THEOREM CancellationStops == Spec => CancelStops
<1> DEFINE A(s) == /\ budget.cancelled /\ search[s].pc = "scan" => search'[s].pc # "answered"
                   /\ search'[s].late < BudgetStride
<1>1. BudgetInv /\ BudgetInv' /\ [Next]_vars => [\A s \in Searchers : A(s)]_vars
  BY StopsStep
<1> QED
  BY <1>1, BudgetHolds, PTL DEF Spec, CancelStops

-------------------------------------------------------------------------------
(* The memtable. *)

\* A document that was accepted, and its metadata encoded.
Good(d) ==
    /\ d \in Inputs /\ ValidId(d.id) /\ ValidVector(d.vector)
    /\ StoredMeta(d.meta) # {}

GoodDocs == {d \in Inputs : Good(d)}

OneEach(rows) == \A i, j \in DOMAIN rows : rows[i].id = rows[j].id => i = j

LEMMA WithoutIs ==
    ASSUME NEW D, NEW m \in Seq(D), OneEach(m), NEW id
    PROVE  /\ Without(m, id) \in Seq(D) /\ OneEach(Without(m, id))
           /\ \A i \in DOMAIN Without(m, id) :
                Without(m, id)[i].id # id /\ \E j \in DOMAIN m : m[j] = Without(m, id)[i]
           /\ \A j \in DOMAIN m :
                m[j].id # id => \E i \in DOMAIN Without(m, id) : Without(m, id)[i] = m[j]
<1> DEFINE at == {i \in DOMAIN m : m[i].id = id}
           n == Len(m)
<1>1. n \in Nat /\ DOMAIN m = 1..n
  BY LenProperties
<1>2. CASE at = {}
  <2>1. Without(m, id) = m
    BY <1>2 DEF Without
  <2> QED
    BY <1>2, <2>1
<1>3. CASE at # {}
  <2> DEFINE k == CHOOSE i \in at : TRUE
             w == RemoveAt(m, k)
             a == SubSeq(m, 1, k - 1)
             b == SubSeq(m, k + 1, n)
  <2>1. k \in 1..n /\ m[k].id = id /\ Without(m, id) = w
    BY <1>1, <1>3 DEF Without
  <2>2. w = a \o b
    BY DEF RemoveAt
  <2> HIDE DEF k, w, a, b, n, at
  <2>3. /\ a \in Seq(D) /\ Len(a) = k - 1
        /\ \A i \in 1..(k - 1) : a[i] = m[i]
    BY <1>1, <2>1, SubSeqProperties DEF a, n
  <2>4. /\ b \in Seq(D) /\ Len(b) = n - k
        /\ \A i \in 1..(n - k) : b[i] = m[k + i]
    <3>1. k + 1 \in 1..(n + 1) /\ n \in k..n
      BY <1>1, <2>1
    <3>2. /\ b \in Seq(D) /\ Len(b) = IF k + 1 <= n THEN n - (k + 1) + 1 ELSE 0
          /\ \A i \in 1..(n - (k + 1) + 1) : b[i] = m[k + 1 + i - 1]
      BY <1>1, <2>1, <3>1, SubSeqProperties DEF b, n
    <3> QED
      BY <1>1, <2>1, <3>2
  <2>5. w \in Seq(D) /\ Len(w) = n - 1
    <3>1. a \o b \in Seq(D) /\ Len(a \o b) = Len(a) + Len(b)
      BY <2>3, <2>4, ConcatProperties
    <3> QED
      BY <1>1, <2>1, <2>2, <2>3, <2>4, <3>1
  <2> DEFINE p(i) == IF i < k THEN i ELSE i + 1
  <2>6. \A i \in 1..(n - 1) : p(i) \in 1..n /\ p(i) # k /\ w[i] = m[p(i)]
    <3> SUFFICES ASSUME NEW i \in 1..(n - 1) PROVE p(i) \in 1..n /\ p(i) # k /\ w[i] = m[p(i)]
      OBVIOUS
    <3>1. CASE i < k
      <4>1. i \in 1..(k - 1) /\ w[i] = a[i]
        BY <1>1, <2>1, <2>2, <2>3, <2>4, <2>5, <3>1, ConcatProperties
      <4> QED
        BY <1>1, <2>1, <2>3, <3>1, <4>1
    <3>2. CASE ~(i < k)
      <4>1. i - (k - 1) \in 1..(n - k) /\ k + (i - (k - 1)) = i + 1
        BY <1>1, <2>1, <3>2
      <4>2. w[i] = b[i - (k - 1)]
        BY <1>1, <2>1, <2>2, <2>3, <2>4, <2>5, <3>2, ConcatProperties
      <4> QED
        BY <1>1, <2>1, <2>4, <3>2, <4>1, <4>2
    <3> QED
      BY <3>1, <3>2
  <2>7. \A i, j \in 1..(n - 1) : p(i) = p(j) => i = j
    BY <1>1, <2>1
  <2>8. \A j \in 1..n : j # k => \E i \in 1..(n - 1) : p(i) = j
    <3> SUFFICES ASSUME NEW j \in 1..n, j # k PROVE \E i \in 1..(n - 1) : p(i) = j
      OBVIOUS
    <3>1. CASE j < k
      <4>1. j \in 1..(n - 1) /\ p(j) = j
        BY <1>1, <2>1, <3>1
      <4> QED
        BY <4>1
    <3>2. CASE ~(j < k)
      <4>1. j - 1 \in 1..(n - 1) /\ p(j - 1) = j
        BY <1>1, <2>1, <3>2
      <4> QED
        BY <4>1
    <3> QED
      BY <3>1, <3>2
  <2> HIDE DEF p
  <2>9. DOMAIN w = 1..(n - 1)
    BY <2>5, LenProperties
  <2>10. \A i \in DOMAIN w : w[i].id # id
    BY <1>1, <2>1, <2>6, <2>9 DEF OneEach
  <2>11. OneEach(w)
    BY <1>1, <2>6, <2>7, <2>9 DEF OneEach
  <2>12. \A j \in DOMAIN m : m[j].id # id => \E i \in DOMAIN w : w[i] = m[j]
    <3> SUFFICES ASSUME NEW j \in 1..n, m[j].id # id PROVE \E i \in 1..(n - 1) : w[i] = m[j]
      BY <1>1, <2>9
    <3>1. PICK i \in 1..(n - 1) : p(i) = j
      BY <2>1, <2>8
    <3> QED
      BY <2>6, <3>1
  <2> QED
    BY <1>1, <2>1, <2>5, <2>6, <2>9, <2>10, <2>11, <2>12
<1> QED
  BY <1>2, <1>3

\* What the memtable has the last word on, after a write.
LEMMA PutIs ==
    ASSUME NEW D, NEW mem, mem.rows \in Seq(D), OneEach(mem.rows), NEW doc
    PROVE  LET next == Put(mem, doc)
               kept == {mem.rows[i] : i \in {j \in DOMAIN mem.rows : mem.rows[j].id # doc.id}}
           IN  /\ next = [rows |-> next.rows, deleted |-> next.deleted]
               /\ next.rows \in Seq(D \cup {doc}) /\ OneEach(next.rows)
               /\ {next.rows[i] : i \in DOMAIN next.rows} = kept \cup {doc}
               /\ \A x : Holds(next, x) <=> Holds(mem, x) \/ x = doc.id
<1> DEFINE m == mem.rows
           w == Without(m, doc.id)
           next == Put(mem, doc)
           kept == {m[i] : i \in {j \in DOMAIN m : m[j].id # doc.id}}
<1>1. /\ w \in Seq(D) /\ OneEach(w)
      /\ \A i \in DOMAIN w : w[i].id # doc.id /\ \E j \in DOMAIN m : m[j] = w[i]
      /\ \A j \in DOMAIN m : m[j].id # doc.id => \E i \in DOMAIN w : w[i] = m[j]
  BY WithoutIs
<1>2. next.rows = Append(w, doc) /\ next.deleted = mem.deleted \ {doc.id}
      /\ next = [rows |-> next.rows, deleted |-> next.deleted]
  BY DEF Put
<1> HIDE DEF w, next
<1>3. /\ DOMAIN w = 1..Len(w) /\ Len(w) \in Nat /\ w \in Seq(D \cup {doc})
  BY <1>1, LenProperties, SeqMonotonic, Zenon
<1>4. /\ next.rows \in Seq(D \cup {doc}) /\ Len(next.rows) = Len(w) + 1
      /\ \A i \in 1..Len(w) : next.rows[i] = w[i]
      /\ next.rows[Len(w) + 1] = doc
  BY <1>2, <1>3, AppendProperties
<1>5. DOMAIN next.rows = 1..(Len(w) + 1)
  BY <1>4, LenProperties
<1>6. OneEach(next.rows)
  BY <1>1, <1>3, <1>4, <1>5 DEF OneEach
<1>7. {next.rows[i] : i \in DOMAIN next.rows} = kept \cup {doc}
  <2>1. ASSUME NEW i \in DOMAIN next.rows PROVE next.rows[i] \in kept \cup {doc}
    <3>1. CASE i = Len(w) + 1
      BY <1>4, <3>1
    <3>2. CASE i # Len(w) + 1
      <4>1. i \in DOMAIN w /\ next.rows[i] = w[i]
        BY <1>3, <1>4, <1>5, <3>2
      <4> QED
        BY <1>1, <4>1
    <3> QED
      BY <3>1, <3>2
  <2>2. ASSUME NEW r \in kept PROVE \E i \in DOMAIN next.rows : next.rows[i] = r
    <3>1. PICK j \in DOMAIN m : m[j].id # doc.id /\ m[j] = r
      OBVIOUS
    <3>2. PICK i \in DOMAIN w : w[i] = r
      BY <1>1, <3>1
    <3> QED
      BY <1>3, <1>4, <1>5, <3>2
  <2>3. Len(w) + 1 \in DOMAIN next.rows
    BY <1>3, <1>5
  <2> HIDE DEF kept
  <2> QED
    BY <1>4, <2>1, <2>2, <2>3
<1>8. ASSUME NEW x PROVE Holds(next, x) <=> Holds(mem, x) \/ x = doc.id
  <2>1. (\E i \in DOMAIN next.rows : next.rows[i].id = x)
          <=> \E r \in kept \cup {doc} : r.id = x
    <3> HIDE DEF kept
    <3> QED
      BY <1>7
  <2>2. (\E r \in kept \cup {doc} : r.id = x)
          <=> (\E i \in DOMAIN m : m[i].id = x) \/ x = doc.id
    OBVIOUS
  <2> QED
    BY <1>2, <2>1, <2>2 DEF Holds
<1> QED
  BY <1>2, <1>4, <1>6, <1>7, <1>8 DEF next

LEMMA DeleteIs ==
    ASSUME NEW D, NEW mem, mem.rows \in Seq(D), OneEach(mem.rows), NEW id
    PROVE  LET next == Delete(mem, id)
               kept == {mem.rows[i] : i \in {j \in DOMAIN mem.rows : mem.rows[j].id # id}}
           IN  /\ next = [rows |-> next.rows, deleted |-> next.deleted]
               /\ next.rows \in Seq(D) /\ OneEach(next.rows)
               /\ {next.rows[i] : i \in DOMAIN next.rows} = kept
               /\ \A x : Holds(next, x) <=> Holds(mem, x) \/ x = id
<1> DEFINE m == mem.rows
           w == Without(m, id)
           next == Delete(mem, id)
           kept == {m[i] : i \in {j \in DOMAIN m : m[j].id # id}}
<1>1. /\ w \in Seq(D) /\ OneEach(w)
      /\ \A i \in DOMAIN w : w[i].id # id /\ \E j \in DOMAIN m : m[j] = w[i]
      /\ \A j \in DOMAIN m : m[j].id # id => \E i \in DOMAIN w : w[i] = m[j]
  BY WithoutIs
<1>2. next.rows = w /\ next.deleted = mem.deleted \cup {id}
      /\ next = [rows |-> next.rows, deleted |-> next.deleted]
  BY DEF Delete
<1> HIDE DEF w, next
<1>3. {w[i] : i \in DOMAIN w} = kept
  BY <1>1
<1>4. ASSUME NEW x PROVE Holds(next, x) <=> Holds(mem, x) \/ x = id
  <2>1. (\E i \in DOMAIN w : w[i].id = x) <=> \E r \in kept : r.id = x
    <3> HIDE DEF kept
    <3> QED
      BY <1>3
  <2>2. (\E r \in kept : r.id = x) => \E i \in DOMAIN m : m[i].id = x
    OBVIOUS
  <2>3. (\E i \in DOMAIN m : m[i].id = x) => (\E r \in kept : r.id = x) \/ x = id
    OBVIOUS
  <2> HIDE DEF kept
  <2> QED
    BY <1>2, <2>1, <2>2, <2>3 DEF Holds
<1> QED
  BY <1>1, <1>2, <1>3, <1>4 DEF next

-------------------------------------------------------------------------------
(* Documents, and the rows that stand for them. *)

Encoding(d) == UNION {Encoded(m) : m \in d.meta}

\* A row of a segment holds what the document held when it was flushed.
RowOf(d, live) ==
    [id |-> d.id, vector |-> d.vector, live |-> live, meta |-> Encoding(d), content |-> d.content]

SegmentRows == {RowOf(d, TRUE) : d \in GoodDocs} \cup {RowOf(d, FALSE) : d \in GoodDocs}

Stores(row, d) == row.id = d.id /\ row.vector = d.vector /\ row.meta = Encoding(d)

Buffered == {memtable.rows[i] : i \in DOMAIN memtable.rows}

DocsSound ==
    /\ docs \subseteq GoodDocs
    /\ \A d, e \in docs : d.id = e.id => d = e

MemtableSound ==
    /\ memtable = [rows |-> memtable.rows, deleted |-> memtable.deleted]
    /\ memtable.rows \in Seq(GoodDocs)
    /\ OneEach(memtable.rows)

SegmentsSound == segments \in Seq(Seq(SegmentRows))

\* The rows that a search sees are the documents, one for each.
Shown ==
    /\ Buffered \subseteq docs
    /\ \A r \in Visible : \E d \in docs : Stores(StoredRow(r), d)
    /\ \A r, q \in Visible : StoredRow(r).id = StoredRow(q).id => r = q
    /\ \A d \in docs : d \in Buffered \/ \E r \in Visible : Stores(StoredRow(r), d)

StoreSound == DocsSound /\ MemtableSound /\ SegmentsSound /\ Shown

LiveIn(s) == {x \in UNION {{i} \X DOMAIN s[i] : i \in DOMAIN s} : s[x[1]][x[2]].live}

LEMMA LiveInIs ==
    ASSUME NEW s, NEW r
    PROVE  r \in LiveIn(s) <=> \E i \in DOMAIN s : \E j \in DOMAIN s[i] :
                                  r = <<i, j>> /\ s[i][j].live
  BY DEF LiveIn

LEMMA LiveRowsAre ==
    ASSUME NEW r
    PROVE  r \in LiveRows <=> \E i \in DOMAIN segments : \E j \in DOMAIN segments[i] :
                                 r = <<i, j>> /\ segments[i][j].live
<1>1. LiveRows = LiveIn(segments)
  BY DEF LiveRows, StoredRow, LiveIn
<1> QED
  BY <1>1, LiveInIs

LEMMA StoreInit == Init => StoreSound
<1> SUFFICES ASSUME Init PROVE StoreSound
  OBVIOUS
<1>1. segments = <<>> /\ memtable = EmptyMemtable /\ docs = {}
  BY DEF Init
<1>2. DOMAIN segments = {} /\ DOMAIN memtable.rows = {} /\ memtable.rows = <<>>
  BY <1>1 DEF EmptyMemtable
<1>3. LiveRows = {}
  BY <1>2, LiveRowsAre
<1>4. Visible = {} /\ Buffered = {}
  BY <1>2, <1>3 DEF Visible, Buffered
<1>5. SegmentsSound
  <2>1. <<>> \in Seq(Seq(SegmentRows))
    OBVIOUS
  <2> QED
    BY <1>1, <2>1 DEF SegmentsSound
<1>6. MemtableSound
  <2>1. <<>> \in Seq(GoodDocs)
    OBVIOUS
  <2> QED
    BY <1>1, <1>2, <2>1 DEF MemtableSound, OneEach, EmptyMemtable
<1> QED
  BY <1>1, <1>4, <1>5, <1>6 DEF StoreSound, DocsSound, Shown

\* The store that a write of one document leaves, or a deletion.
LEMMA MemtableWritten ==
    ASSUME StoreSound, UNCHANGED segments, NEW id,
           NEW add \in SUBSET GoodDocs, \A d, e \in add : d.id = id /\ d = e,
           memtable' = [rows |-> memtable'.rows, deleted |-> memtable'.deleted],
           memtable'.rows \in Seq(GoodDocs), OneEach(memtable'.rows),
           {memtable'.rows[i] : i \in DOMAIN memtable'.rows}
              = {b \in Buffered : b.id # id} \cup add,
           \A x : Holds(memtable', x) <=> Holds(memtable, x) \/ x = id,
           docs' = {d \in docs : d.id # id} \cup add
    PROVE  StoreSound'
<1>1. DocsSound'
  BY DEF StoreSound, DocsSound
<1>2. MemtableSound'
  BY DEF MemtableSound
<1>3. SegmentsSound'
  BY DEF StoreSound, SegmentsSound
<1>4. Visible' = {r \in Visible : StoredRow(r).id # id} /\ \A r : StoredRow(r)' = StoredRow(r)
  BY DEF Visible, LiveRows, StoredRow
<1>5. Buffered' = {b \in Buffered : b.id # id} \cup add
  BY DEF Buffered
<1>6. Shown
  BY DEF StoreSound
<1>7. Buffered' \subseteq docs'
  BY <1>5, <1>6 DEF Shown
<1>8. ASSUME NEW r \in Visible' PROVE \E d \in docs' : Stores(StoredRow(r)', d)
  <2>1. r \in Visible /\ StoredRow(r).id # id
    BY <1>4
  <2>2. PICK d \in docs : Stores(StoredRow(r), d)
    BY <1>6, <2>1 DEF Shown
  <2> QED
    BY <1>4, <2>1, <2>2 DEF Stores
<1>9. \A r, q \in Visible' : StoredRow(r)'.id = StoredRow(q)'.id => r = q
  BY <1>4, <1>6 DEF Shown
<1>10. ASSUME NEW d \in docs', d \notin Buffered' PROVE \E r \in Visible' : Stores(StoredRow(r)', d)
  <2>1. d \in docs /\ d.id # id /\ d \notin Buffered
    BY <1>5, <1>10
  <2>2. PICK r \in Visible : Stores(StoredRow(r), d)
    BY <1>6, <2>1 DEF Shown
  <2> QED
    BY <1>4, <2>1, <2>2 DEF Stores
<1>11. Shown'
  BY <1>7, <1>8, <1>9, <1>10 DEF Shown
<1> QED
  BY <1>1, <1>2, <1>3, <1>11 DEF StoreSound

LEMMA BufferedLess ==
    ASSUME NEW id
    PROVE  {memtable.rows[i] : i \in {j \in DOMAIN memtable.rows : memtable.rows[j].id # id}}
             = {b \in Buffered : b.id # id}
  BY DEF Buffered

LEMMA WriteSound ==
    ASSUME StoreSound, NEW doc \in GoodDocs, UNCHANGED segments,
           memtable' = Put(memtable, doc), docs' = {d \in docs : d.id # doc.id} \cup {doc}
    PROVE  StoreSound'
<1>1. memtable.rows \in Seq(GoodDocs) /\ OneEach(memtable.rows)
  BY DEF StoreSound, MemtableSound
<1>2. GoodDocs \cup {doc} = GoodDocs
  OBVIOUS
<1> DEFINE id == doc.id
<1>3. /\ memtable' = [rows |-> memtable'.rows, deleted |-> memtable'.deleted]
      /\ memtable'.rows \in Seq(GoodDocs) /\ OneEach(memtable'.rows)
      /\ {memtable'.rows[i] : i \in DOMAIN memtable'.rows} = {b \in Buffered : b.id # id} \cup {doc}
      /\ \A x : Holds(memtable', x) <=> Holds(memtable, x) \/ x = id
  <2> DEFINE next == Put(memtable, doc)
             kept == {memtable.rows[i] :
                        i \in {j \in DOMAIN memtable.rows : memtable.rows[j].id # id}}
  <2>1. /\ next = [rows |-> next.rows, deleted |-> next.deleted]
        /\ next.rows \in Seq(GoodDocs \cup {doc}) /\ OneEach(next.rows)
        /\ {next.rows[i] : i \in DOMAIN next.rows} = kept \cup {doc}
        /\ \A x : Holds(next, x) <=> Holds(memtable, x) \/ x = id
    BY <1>1, PutIs
  <2>2. kept = {b \in Buffered : b.id # id}
    BY BufferedLess
  <2>3. memtable' = next
    OBVIOUS
  <2> HIDE DEF next, kept
  <2> QED
    BY <1>2, <2>1, <2>2, <2>3
<1>4. {doc} \in SUBSET GoodDocs /\ \A d, e \in {doc} : d.id = id /\ d = e
  OBVIOUS
<1> QED
  BY <1>3, <1>4, MemtableWritten

LEMMA EraseSound ==
    ASSUME StoreSound, NEW id, UNCHANGED segments,
           memtable' = Delete(memtable, id), docs' = {d \in docs : d.id # id}
    PROVE  StoreSound'
<1>1. memtable.rows \in Seq(GoodDocs) /\ OneEach(memtable.rows)
  BY DEF StoreSound, MemtableSound
<1>2. /\ memtable' = [rows |-> memtable'.rows, deleted |-> memtable'.deleted]
      /\ memtable'.rows \in Seq(GoodDocs) /\ OneEach(memtable'.rows)
      /\ {memtable'.rows[i] : i \in DOMAIN memtable'.rows} = {b \in Buffered : b.id # id} \cup {}
      /\ \A x : Holds(memtable', x) <=> Holds(memtable, x) \/ x = id
  <2> DEFINE next == Delete(memtable, id)
             kept == {memtable.rows[i] :
                        i \in {j \in DOMAIN memtable.rows : memtable.rows[j].id # id}}
  <2>1. /\ next = [rows |-> next.rows, deleted |-> next.deleted]
        /\ next.rows \in Seq(GoodDocs) /\ OneEach(next.rows)
        /\ {next.rows[i] : i \in DOMAIN next.rows} = kept
        /\ \A x : Holds(next, x) <=> Holds(memtable, x) \/ x = id
    BY <1>1, DeleteIs
  <2>2. kept = {b \in Buffered : b.id # id}
    BY BufferedLess
  <2>3. memtable' = next
    OBVIOUS
  <2> HIDE DEF next, kept
  <2> QED
    BY <2>1, <2>2, <2>3
<1>3. docs' = {d \in docs : d.id # id} \cup {}
  OBVIOUS
<1>4. {} \in SUBSET GoodDocs
  OBVIOUS
<1> QED
  BY <1>2, <1>3, <1>4, MemtableWritten

LEMMA RowOfIs ==
    ASSUME NEW d, NEW live
    PROVE  Stores(RowOf(d, live), d) /\ RowOf(d, live).id = d.id /\ RowOf(d, TRUE).live
  BY DEF RowOf, Stores

\* A row that may have died is a row still, of the same document.
LEMMA SupersededIs ==
    ASSUME NEW rows \in Seq(SegmentRows)
    PROVE  /\ Superseded(rows) \in Seq(SegmentRows) /\ DOMAIN Superseded(rows) = DOMAIN rows
           /\ \A i \in DOMAIN rows :
                /\ \A d : Stores(Superseded(rows)[i], d) <=> Stores(rows[i], d)
                /\ Superseded(rows)[i].id = rows[i].id
                /\ Superseded(rows)[i].live <=> rows[i].live /\ ~ Holds(memtable, rows[i].id)
<1> DEFINE s == Superseded(rows)
           gone(i) == rows[i].live /\ ~ Holds(memtable, rows[i].id)
<1>1. /\ DOMAIN rows = 1..Len(rows) /\ Len(rows) \in Nat
      /\ \A i \in 1..Len(rows) : rows[i] \in SegmentRows
  BY LenProperties, ElementOfSeq
<1>2. s = [i \in 1..Len(rows) |-> [rows[i] EXCEPT !.live = gone(i)]]
  BY <1>1 DEF Superseded
<1>3. ASSUME NEW i \in 1..Len(rows)
      PROVE  /\ s[i] \in SegmentRows /\ s[i].id = rows[i].id /\ (s[i].live <=> gone(i))
             /\ \A d : Stores(s[i], d) <=> Stores(rows[i], d)
  <2>1. PICK d \in GoodDocs : rows[i] = RowOf(d, TRUE) \/ rows[i] = RowOf(d, FALSE)
    BY <1>1 DEF SegmentRows
  <2>2. gone(i) \in BOOLEAN
    BY <2>1 DEF RowOf
  <2>3. s[i] = RowOf(d, gone(i))
    <3>1. s[i] = [rows[i] EXCEPT !.live = gone(i)]
      BY <1>2
    <3> HIDE DEF gone, s
    <3> QED
      BY <2>1, <3>1 DEF RowOf
  <2> HIDE DEF gone, s
  <2>4. s[i] = RowOf(d, TRUE) \/ s[i] = RowOf(d, FALSE)
    BY <2>2, <2>3
  <2>5. s[i] \in SegmentRows
    BY <2>4 DEF SegmentRows
  <2>6. s[i].live <=> gone(i)
    BY <2>2, <2>3 DEF RowOf
  <2>7. s[i].id = rows[i].id /\ \A e : Stores(s[i], e) <=> Stores(rows[i], e)
    BY <2>1, <2>4 DEF RowOf, Stores
  <2> QED
    BY <2>5, <2>6, <2>7
<1> HIDE DEF s, gone
<1>4. s \in Seq(SegmentRows) /\ DOMAIN s = DOMAIN rows
  <2>1. s \in [1..Len(rows) -> SegmentRows]
    <3>1. s = [i \in 1..Len(rows) |-> s[i]]
      BY <1>2
    <3> QED
      BY <1>3, <3>1
  <2> QED
    BY <1>1, <2>1, IsASeq
<1> QED
  BY <1>1, <1>3, <1>4 DEF s, gone

LEMMA FlushedRowsAre ==
    ASSUME memtable.rows \in Seq(GoodDocs)
    PROVE  /\ FlushedRows \in Seq(SegmentRows) /\ DOMAIN FlushedRows = DOMAIN memtable.rows
           /\ \A i \in DOMAIN memtable.rows : FlushedRows[i] = RowOf(memtable.rows[i], TRUE)
<1> DEFINE m == memtable.rows
<1>1. DOMAIN m = 1..Len(m) /\ Len(m) \in Nat /\ \A i \in 1..Len(m) : m[i] \in GoodDocs
  BY LenProperties, ElementOfSeq
<1>2. FlushedRows = [i \in 1..Len(m) |-> RowOf(m[i], TRUE)]
  BY <1>1 DEF FlushedRows, RowOf, Encoding
<1>3. \A i \in 1..Len(m) : RowOf(m[i], TRUE) \in SegmentRows
  <2>1. \A d \in GoodDocs : RowOf(d, TRUE) \in SegmentRows
    BY DEF SegmentRows
  <2> QED
    BY <1>1, <2>1
<1>4. FlushedRows \in Seq(SegmentRows)
  <2>1. FlushedRows \in [1..Len(m) -> SegmentRows]
    BY <1>2, <1>3
  <2> QED
    BY <1>1, <2>1, IsASeq
<1> QED
  BY <1>1, <1>2, <1>4

LEMMA FlushSound ==
    ASSUME StoreSound, memtable' = EmptyMemtable, UNCHANGED docs,
           segments' = [i \in DOMAIN segments |-> Superseded(segments[i])]
                       \o (IF FlushedRows = <<>> THEN <<>> ELSE <<FlushedRows>>)
    PROVE  StoreSound'
<1>1. PICK n : n = Len(segments)
  OBVIOUS
<1> DEFINE a == [i \in DOMAIN segments |-> Superseded(segments[i])]
           F == FlushedRows
           b == IF F = <<>> THEN <<>> ELSE <<F>>
<1>2. /\ n \in Nat /\ DOMAIN segments = 1..n
      /\ \A i \in 1..n : segments[i] \in Seq(SegmentRows)
  BY <1>1, LenProperties, ElementOfSeq DEF StoreSound, SegmentsSound
<1>3. /\ F \in Seq(SegmentRows) /\ DOMAIN F = DOMAIN memtable.rows
      /\ \A i \in DOMAIN memtable.rows : F[i] = RowOf(memtable.rows[i], TRUE)
  BY FlushedRowsAre DEF StoreSound, MemtableSound
<1>4. a \in Seq(Seq(SegmentRows)) /\ Len(a) = n /\ \A i \in 1..n : a[i] = Superseded(segments[i])
  <2>1. \A i \in 1..n : Superseded(segments[i]) \in Seq(SegmentRows)
    BY <1>2, SupersededIs
  <2>2. a = [i \in 1..n |-> Superseded(segments[i])]
    BY <1>2
  <2>3. a \in [1..n -> Seq(SegmentRows)]
    BY <2>1, <2>2
  <2> QED
    BY <1>2, <2>2, <2>3, IsASeq, LenProperties
<1> HIDE DEF a, F
<1>5. /\ segments' \in Seq(Seq(SegmentRows))
      /\ \A i \in 1..n : i \in DOMAIN segments' /\ segments'[i] = a[i]
      /\ \A i \in DOMAIN segments' : i \in 1..n \/ (i = n + 1 /\ segments'[i] = F)
      /\ F # <<>> => n + 1 \in DOMAIN segments' /\ segments'[n + 1] = F
  <2>1. segments' = a \o b
    BY DEF a, F
  <2>2. /\ b \in Seq(Seq(SegmentRows)) /\ Len(b) = (IF F = <<>> THEN 0 ELSE 1)
        /\ F # <<>> => b[1] = F
    BY <1>3
  <2> HIDE DEF b
  <2>3. /\ a \o b \in Seq(Seq(SegmentRows)) /\ Len(a \o b) = n + Len(b)
        /\ \A i \in 1..Len(a) + Len(b) :
             (a \o b)[i] = IF i <= Len(a) THEN a[i] ELSE b[i - Len(a)]
    BY <1>4, <2>2, ConcatProperties
  <2>4. DOMAIN segments' = 1..(n + Len(b))
    BY <2>1, <2>3, LenProperties
  <2> QED
    BY <1>2, <1>4, <2>1, <2>2, <2>3, <2>4
<1>6. F = <<>> => DOMAIN F = {}
  OBVIOUS
<1>7. /\ DocsSound /\ Shown
      /\ memtable.rows \in Seq(GoodDocs) /\ OneEach(memtable.rows)
  BY DEF StoreSound, MemtableSound
<1>8. \A x : ~ Holds(memtable', x)
  BY DEF Holds, EmptyMemtable
<1>9. \A r : r \in LiveRows' <=> \E i \in DOMAIN segments' : \E j \in DOMAIN segments'[i] :
                                     r = <<i, j>> /\ segments'[i][j].live
  <2>1. LiveRows' = LiveIn(segments')
    BY DEF LiveRows, StoredRow, LiveIn
  <2> QED
    BY <2>1, LiveInIs
<1>10. ASSUME NEW r \in Visible
      PROVE  /\ r \in Visible' /\ StoredRow(r)'.id = StoredRow(r).id
             /\ \A d : Stores(StoredRow(r)', d) <=> Stores(StoredRow(r), d)
  <2>1. PICK i \in DOMAIN segments :
            \E j \in DOMAIN segments[i] : r = <<i, j>> /\ segments[i][j].live
    BY LiveRowsAre DEF Visible
  <2>2. PICK j \in DOMAIN segments[i] : r = <<i, j>> /\ segments[i][j].live
    BY <2>1
  <2>3. StoredRow(r) = segments[i][j] /\ ~ Holds(memtable, segments[i][j].id)
    BY <2>2 DEF StoredRow, Visible
  <2>4. /\ i \in DOMAIN segments' /\ segments'[i] = Superseded(segments[i])
    BY <1>2, <1>4, <1>5
  <2>5. /\ j \in DOMAIN segments'[i] /\ segments'[i][j].live
        /\ segments'[i][j].id = segments[i][j].id
        /\ \A d : Stores(segments'[i][j], d) <=> Stores(segments[i][j], d)
    BY <1>2, <2>2, <2>3, <2>4, SupersededIs
  <2>6. r \in LiveRows'
    BY <1>9, <2>2, <2>4, <2>5
  <2>7. StoredRow(r)' = segments'[i][j]
    BY <2>2 DEF StoredRow
  <2>8. r \in Visible'
    BY <1>8, <2>6 DEF Visible
  <2> QED
    BY <2>3, <2>5, <2>7, <2>8
<1>11. ASSUME NEW j \in DOMAIN memtable.rows
      PROVE  /\ <<n + 1, j>> \in Visible' /\ StoredRow(<<n + 1, j>>)'.id = memtable.rows[j].id
             /\ Stores(StoredRow(<<n + 1, j>>)', memtable.rows[j])
  <2>1. j \in DOMAIN F /\ F # <<>>
    BY <1>3, <1>6
  <2>2. n + 1 \in DOMAIN segments' /\ segments'[n + 1] = F
    BY <1>5, <2>1
  <2>3. StoredRow(<<n + 1, j>>)' = RowOf(memtable.rows[j], TRUE)
    BY <1>3, <2>2 DEF StoredRow
  <2>4. <<n + 1, j>> \in LiveRows'
    <3>1. F[j].live
      BY <1>3, RowOfIs
    <3> QED
      BY <1>9, <2>1, <2>2, <3>1
  <2>5. <<n + 1, j>> \in Visible'
    BY <1>8, <2>4 DEF Visible
  <2> DEFINE x == RowOf(memtable.rows[j], TRUE)
  <2>6. Stores(x, memtable.rows[j]) /\ x.id = memtable.rows[j].id
    BY RowOfIs
  <2>7. StoredRow(<<n + 1, j>>)' = x
    BY <2>3
  <2> HIDE DEF x
  <2> QED
    BY <2>5, <2>6, <2>7
<1>12. ASSUME NEW r \in Visible'
       PROVE  r \in Visible \/ \E j \in DOMAIN memtable.rows : r = <<n + 1, j>>
  <2>1. r \in LiveRows'
    BY DEF Visible
  <2>2. PICK i \in DOMAIN segments' :
            \E j \in DOMAIN segments'[i] : r = <<i, j>> /\ segments'[i][j].live
    BY <1>9, <2>1
  <2>3. PICK j \in DOMAIN segments'[i] : r = <<i, j>> /\ segments'[i][j].live
    BY <2>2
  <2>4. CASE i \in 1..n
    <3>1. segments'[i] = Superseded(segments[i]) /\ segments[i] \in Seq(SegmentRows)
      BY <1>2, <1>4, <1>5, <2>4
    <3>2. /\ j \in DOMAIN segments[i] /\ segments[i][j].live
          /\ ~ Holds(memtable, segments[i][j].id)
      BY <2>3, <3>1, SupersededIs
    <3>3. r \in LiveRows /\ StoredRow(r) = segments[i][j]
      BY <1>2, <2>3, <2>4, <3>2, LiveRowsAre DEF StoredRow
    <3> QED
      BY <3>2, <3>3 DEF Visible
  <2>5. CASE i \notin 1..n
    <3>1. i = n + 1 /\ segments'[i] = F
      BY <1>5, <2>5
    <3> QED
      BY <1>3, <2>3, <3>1
  <2> QED
    BY <2>4, <2>5
<1>13. \A r \in Visible : ~ Holds(memtable, StoredRow(r).id)
  BY DEF Visible
<1>14. Buffered' = {}
  BY DEF Buffered, EmptyMemtable
<1>15. ASSUME NEW r \in Visible' PROVE \E d \in docs' : Stores(StoredRow(r)', d)
  <2>1. CASE r \in Visible
    BY <1>7, <1>10, <2>1 DEF Shown
  <2>2. CASE \E j \in DOMAIN memtable.rows : r = <<n + 1, j>>
    BY <1>7, <1>11, <2>2 DEF Shown, Buffered
  <2> QED
    BY <1>12, <2>1, <2>2
<1>16. ASSUME NEW r \in Visible', NEW q \in Visible', StoredRow(r)'.id = StoredRow(q)'.id
       PROVE  r = q
  <2>1. CASE r \in Visible /\ q \in Visible
    BY <1>7, <1>10, <1>16, <2>1 DEF Shown
  <2>2. \A x \in Visible : \A j \in DOMAIN memtable.rows : StoredRow(x)'.id # memtable.rows[j].id
    BY <1>10, <1>13 DEF Holds
  <2>3. CASE r \notin Visible \/ q \notin Visible
    <3>1. /\ \E j \in DOMAIN memtable.rows : r = <<n + 1, j>>
          /\ \E j \in DOMAIN memtable.rows : q = <<n + 1, j>>
      BY <1>11, <1>12, <1>16, <2>2, <2>3
    <3> QED
      BY <1>7, <1>11, <1>16, <3>1 DEF OneEach
  <2> QED
    BY <2>1, <2>3
<1>17. ASSUME NEW d \in docs' PROVE \E r \in Visible' : Stores(StoredRow(r)', d)
  <2>1. CASE d \in Buffered
    BY <1>11, <2>1 DEF Buffered
  <2>2. CASE \E r \in Visible : Stores(StoredRow(r), d)
    BY <1>10, <2>2
  <2> QED
    BY <1>7, <2>1, <2>2 DEF Shown
<1>18. Shown'
  BY <1>14, <1>15, <1>16, <1>17 DEF Shown
<1>19. SegmentsSound'
  BY <1>5 DEF SegmentsSound
<1>20. MemtableSound'
  <2>1. memtable'.rows = <<>> /\ DOMAIN memtable'.rows = {}
    BY DEF EmptyMemtable
  <2>2. <<>> \in Seq(GoodDocs)
    OBVIOUS
  <2> QED
    BY <2>1, <2>2 DEF MemtableSound, OneEach, EmptyMemtable
<1>21. DocsSound'
  BY <1>7 DEF DocsSound
<1> QED
  BY <1>18, <1>19, <1>20, <1>21 DEF StoreSound

-------------------------------------------------------------------------------
(* The log. *)

\* One record, and what the memtable was before and after it.
Follows(mem, record, next) ==
    \/ \E doc \in GoodDocs : \E bytes \in StoredMeta(doc.meta) :
          record = PutRecord(doc, bytes) /\ next = Put(mem, doc)
    \/ \E id \in Deletes : record = DeleteRecord(id) /\ next = Delete(mem, id)

\* The memtables that led from an empty one to mem, record by record.
Leads(records, mem) ==
    \E R, h :
        /\ records \in Seq(R)
        /\ h[0] = EmptyMemtable /\ h[Len(records)] = mem
        /\ \A n \in 1..Len(records) : Follows(h[n - 1], records[n], h[n])

LEMMA NothingLeads == Leads(<<>>, EmptyMemtable)
<1> DEFINE h == [n \in {0} |-> EmptyMemtable]
<1>1. <<>> \in Seq({}) /\ Len(<<>>) = 0
  OBVIOUS
<1>2. h[0] = EmptyMemtable
  OBVIOUS
<1> HIDE DEF h
<1> QED
  BY <1>1, <1>2 DEF Leads

LEMMA AppendLeads ==
    ASSUME NEW records, NEW mem, Leads(records, mem),
           NEW record, NEW next, Follows(mem, record, next)
    PROVE  Leads(Append(records, record), next)
<1>1. PICK R, h :
          /\ records \in Seq(R)
          /\ h[0] = EmptyMemtable /\ h[Len(records)] = mem
          /\ \A n \in 1..Len(records) : Follows(h[n - 1], records[n], h[n])
  BY DEF Leads
<1> DEFINE k == Len(records)
           S == R \cup {record}
           g == [n \in 0..(k + 1) |-> IF n = k + 1 THEN next ELSE h[n]]
           more == Append(records, record)
<1>2. k \in Nat /\ records \in Seq(S)
  BY <1>1, LenProperties, SeqMonotonic
<1> HIDE DEF k
<1>3. /\ more \in Seq(S) /\ Len(more) = k + 1
      /\ \A i \in 1..k : more[i] = records[i]
      /\ more[k + 1] = record
  BY <1>2, AppendProperties DEF k
<1>4. /\ g[0] = h[0] /\ g[k + 1] = next /\ g[k] = h[k]
      /\ \A n \in 1..k : g[n] = h[n] /\ g[n - 1] = h[n - 1]
  BY <1>2
<1> HIDE DEF g, S, more
<1>5. ASSUME NEW n \in 1..(k + 1) PROVE Follows(g[n - 1], more[n], g[n])
  <2>1. CASE n = k + 1
    <3>1. n - 1 = k
      BY <1>2, <2>1
    <3> QED
      BY <1>1, <1>3, <1>4, <2>1, <3>1 DEF k
  <2>2. CASE n # k + 1
    <3>1. n \in 1..k
      BY <1>2, <2>2
    <3> QED
      BY <1>1, <1>3, <1>4, <3>1 DEF k
  <2> QED
    BY <2>1, <2>2
<1> QED
  BY <1>1, <1>3, <1>4, <1>5 DEF Leads, more

LEMMA ReplayOne ==
    ASSUME NEW mem, NEW record, NEW next, Follows(mem, record, next),
           \A id \in Deletes : record = DeleteRecord(id) => ValidId(id)
    PROVE  ReplayRecord({mem}, record) = {next}
<1>1. CASE \E doc \in GoodDocs : \E bytes \in StoredMeta(doc.meta) :
              record = PutRecord(doc, bytes) /\ next = Put(mem, doc)
  <2>1. PICK doc \in GoodDocs : \E bytes \in StoredMeta(doc.meta) :
            record = PutRecord(doc, bytes) /\ next = Put(mem, doc)
    BY <1>1
  <2>2. PICK bytes \in StoredMeta(doc.meta) :
            record = PutRecord(doc, bytes) /\ next = Put(mem, doc)
    BY <2>1
  <2>3. doc \in Inputs /\ ValidId(doc.id)
    BY DEF GoodDocs, Good
  <2>4. /\ doc = [id |-> doc.id, vector |-> doc.vector, meta |-> doc.meta,
                  content |-> doc.content]
        /\ IdsOf(IdBytes(doc.id)) = {doc.id}
        /\ LoadedMeta(bytes) = {doc.meta}
    BY <2>3, InputsAssumption, BytesAssumption
  <2>5. /\ record.op = "put" /\ record.id = IdBytes(doc.id) /\ record.vector = doc.vector
        /\ record.meta = bytes /\ record.content = doc.content
    BY <2>2 DEF PutRecord
  <2>6. ReplayRecord({mem}, record) =
          {Put(m, [id |-> id, vector |-> doc.vector, meta |-> meta, content |-> doc.content]) :
             m \in {mem}, id \in {doc.id}, meta \in {doc.meta}}
    <3>1. ReplayRecord({mem}, record) =
            {Put(m, [id |-> id, vector |-> record.vector, meta |-> meta,
                     content |-> record.content]) :
               m \in {mem}, id \in IdsOf(record.id), meta \in LoadedMeta(record.meta)}
      BY <2>5 DEF ReplayRecord
    <3>2. IdsOf(record.id) = {doc.id} /\ LoadedMeta(record.meta) = {doc.meta}
      BY <2>4, <2>5
    <3>3. record.vector = doc.vector /\ record.content = doc.content
      BY <2>5
    <3> QED
      BY <3>1, <3>2, <3>3
  <2>7. ReplayRecord({mem}, record) =
          {Put(mem, [id |-> doc.id, vector |-> doc.vector, meta |-> doc.meta,
                     content |-> doc.content])}
    BY <2>6
  <2> QED
    BY <2>2, <2>4, <2>7
<1>2. CASE \E id \in Deletes : record = DeleteRecord(id) /\ next = Delete(mem, id)
  <2>1. PICK id \in Deletes : record = DeleteRecord(id) /\ next = Delete(mem, id)
    BY <1>2
  <2>2. IdsOf(IdBytes(id)) = {id}
    BY <2>1, BytesAssumption
  <2>3. record.op = "delete" /\ record.id = IdBytes(id)
    BY <2>1 DEF DeleteRecord
  <2>4. ReplayRecord({mem}, record) = {Delete(m, x) : m \in {mem}, x \in {id}}
    BY <2>2, <2>3 DEF ReplayRecord
  <2>5. {Delete(m, x) : m \in {mem}, x \in {id}} = {Delete(mem, id)}
    OBVIOUS
  <2> QED
    BY <2>1, <2>4, <2>5
<1> QED
  BY <1>1, <1>2 DEF Follows

LEMMA ReplayIs ==
    ASSUME Leads(log, memtable), ~ ForeignDelete
    PROVE  Replay(log) = {memtable}
<1>1. PICK R, h :
          /\ log \in Seq(R)
          /\ h[0] = EmptyMemtable /\ h[Len(log)] = memtable
          /\ \A n \in 1..Len(log) : Follows(h[n - 1], log[n], h[n])
  BY DEF Leads
<1>2. PICK k : k = Len(log) /\ k \in Nat
  BY <1>1, LenProperties
<1>3. \A n \in 1..k : ReplayRecord({h[n - 1]}, log[n]) = {h[n]}
  <2> SUFFICES ASSUME NEW n \in 1..k PROVE ReplayRecord({h[n - 1]}, log[n]) = {h[n]}
    OBVIOUS
  <2>1. \A id \in Deletes : log[n] = DeleteRecord(id) => ValidId(id)
    BY <1>2 DEF ForeignDelete, Contains
  <2> QED
    BY <1>1, <1>2, <2>1, ReplayOne
<1> DEFINE Step(f) == [n \in 0..k |-> IF n = 0 THEN {EmptyMemtable}
                                      ELSE ReplayRecord(f[n - 1], log[n])]
           w == [n \in 0..k |-> {h[n]}]
           after == CHOOSE f : f = Step(f)
<1>4. Replay(log) = after[k]
  BY <1>2 DEF Replay
<1>5. w = Step(w)
  <2>1. ASSUME NEW n \in 0..k
        PROVE  w[n] = IF n = 0 THEN {EmptyMemtable} ELSE ReplayRecord(w[n - 1], log[n])
    <3>1. CASE n = 0
      BY <1>1, <1>2, <3>1
    <3>2. CASE n # 0
      <4>1. n \in 1..k /\ n - 1 \in 0..k /\ w[n - 1] = {h[n - 1]} /\ w[n] = {h[n]}
        BY <1>2, <3>2
      <4> HIDE DEF w
      <4> QED
        BY <1>3, <3>2, <4>1
    <3> QED
      BY <3>1, <3>2
  <2> QED
    BY <2>1
<1>6. after = Step(after)
  <2>1. \E f : f = Step(f)
    BY <1>5
  <2> HIDE DEF Step, w
  <2> QED
    BY <2>1
<1> HIDE DEF after, w
<1>7. \A n \in 0..k : after[n] = IF n = 0 THEN {EmptyMemtable}
                                 ELSE ReplayRecord(after[n - 1], log[n])
  BY <1>6
<1> DEFINE B == {n \in 0..k : after[n] # {h[n]}}
<1>8. B = {}
  <2> SUFFICES ASSUME B # {} PROVE FALSE
    OBVIOUS
  <2>1. PICK n \in B : \A m \in B : n <= m
    <3>1. B \in SUBSET Nat
      BY <1>2
    <3> HIDE DEF B
    <3> QED
      BY <3>1, LeastNatural
  <2>2. n # 0
    BY <1>1, <1>2, <1>7, <2>1
  <2>3. n - 1 \in 0..k /\ n \in 1..k /\ n - 1 \notin B
    BY <1>2, <2>1, <2>2
  <2>4. after[n - 1] = {h[n - 1]}
    BY <2>3
  <2> QED
    BY <1>3, <1>7, <2>1, <2>2, <2>3, <2>4
<1>9. after[k] = {h[k]}
  BY <1>2, <1>8
<1> QED
  BY <1>1, <1>2, <1>4, <1>9

-------------------------------------------------------------------------------
(* The rows of a search. *)

IsRow(r) == r = <<r[1], r[2]>> /\ r[1] \in Nat /\ r[2] \in Nat

\* A row shows a document: its id, its vector, and its metadata to every filter.
Presents(row, d) ==
    /\ row.id = d.id /\ row.vector = d.vector /\ row.live /\ IsRow(row.row)
    /\ \A req \in Requests : \A f \in req.filter :
          FilterMatches(f, row.fields) <=> FilterMatches(f, RowFields(d.meta, {}))

\* The rows present the documents, each of them once.
SourceSound ==
    /\ Len(SourceRows) \in Nat
    /\ \A k \in 1..Len(SourceRows) : \E d \in docs : Presents(SourceRows[k], d)
    /\ \A d \in docs : \E k \in 1..Len(SourceRows) : SourceRows[k].id = d.id
    /\ \A k, l \in 1..Len(SourceRows) :
          SourceRows[k].id = SourceRows[l].id \/ SourceRows[k].row = SourceRows[l].row => k = l

LEMMA RowsOrdered ==
    ASSUME NEW S, \A r \in S : IsRow(r)
    PROVE  IsOrder({p \in S \X S : RowLess(p[1], p[2])}, S)
<1> DEFINE R == {p \in S \X S : RowLess(p[1], p[2])}
<1>1. \A r, q \in S : <<r, q>> \in R <=> RowLess(r, q)
  OBVIOUS
<1> HIDE DEF R
<1>2. \A r \in S : ~ RowLess(r, r)
  BY DEF IsRow, RowLess
<1>3. \A r, q \in S : r = q \/ RowLess(r, q) \/ RowLess(q, r)
  <2> SUFFICES ASSUME NEW r \in S, NEW q \in S PROVE r = q \/ RowLess(r, q) \/ RowLess(q, r)
    OBVIOUS
  <2>1. IsRow(r) /\ IsRow(q)
    OBVIOUS
  <2>2. CASE r[1] = q[1] /\ r[2] = q[2]
    BY <2>1, <2>2 DEF IsRow
  <2>3. CASE r[1] # q[1] \/ r[2] # q[2]
    BY <2>1, <2>3 DEF IsRow, RowLess
  <2> QED
    BY <2>2, <2>3
<1>4. \A x, y, z \in S : RowLess(x, y) /\ RowLess(y, z) => RowLess(x, z)
  <2> SUFFICES ASSUME NEW x \in S, NEW y \in S, NEW z \in S, RowLess(x, y), RowLess(y, z)
               PROVE  RowLess(x, z)
    OBVIOUS
  <2>1. IsRow(x) /\ IsRow(y) /\ IsRow(z)
    OBVIOUS
  <2> QED
    BY <2>1 DEF IsRow, RowLess
<1>5. IsOrder(R, S)
  BY <1>1, <1>2, <1>3, <1>4 DEF IsOrder
<1> QED
  BY <1>5 DEF R

LEMMA InRowOrderIs ==
    ASSUME NEW S, IsFiniteSet(S), \A r \in S : IsRow(r)
    PROVE  LET f == InRowOrder(S)  n == Cardinality(S)
           IN  /\ n \in Nat /\ f \in [1..n -> S]
               /\ \A s \in S : \E i \in 1..n : f[i] = s
               /\ \A i, j \in 1..n : f[i] = f[j] => i = j
<1> DEFINE R == {p \in S \X S : RowLess(p[1], p[2])}
           n == Cardinality(S)
           Lists(f) == \A i, j \in 1..n : i < j => RowLess(f[i], f[j])
<1>1. IsOrder(R, S)
  BY RowsOrdered
<1>2. \A r, q \in S : <<r, q>> \in R <=> RowLess(r, q)
  OBVIOUS
<1> HIDE DEF R
<1>3. \A f \in [1..n -> S] : Lists(f) <=> IsListOf(f, R, S)
  BY <1>2 DEF IsListOf
<1>4. \E f : IsListOf(f, R, S)
  BY <1>1, OrderedListExists
<1>5. \E f \in [1..n -> S] : Lists(f)
  BY <1>3, <1>4 DEF IsListOf
<1>6. InRowOrder(S) \in [1..n -> S] /\ Lists(InRowOrder(S))
  BY <1>5 DEF InRowOrder
<1> HIDE DEF n, Lists
<1>7. IsListOf(InRowOrder(S), R, S)
  BY <1>3, <1>6
<1> QED
  BY <1>1, <1>6, <1>7, OrderedListCovers DEF n

LEMMA VisibleRows ==
    ASSUME SegmentsSound
    PROVE  /\ IsFiniteSet(Visible)
           /\ \A r \in Visible : IsRow(r) /\ r[1] \in 1..Len(segments)
<1>1. /\ Len(segments) \in Nat /\ DOMAIN segments = 1..Len(segments)
      /\ \A i \in 1..Len(segments) :
           Len(segments[i]) \in Nat /\ DOMAIN segments[i] = 1..Len(segments[i])
  <2>1. /\ Len(segments) \in Nat /\ DOMAIN segments = 1..Len(segments)
        /\ \A i \in 1..Len(segments) : segments[i] \in Seq(SegmentRows)
    BY LenProperties, ElementOfSeq DEF SegmentsSound
  <2> QED
    BY <2>1, LenProperties
<1>2. ASSUME NEW r \in Visible PROVE IsRow(r) /\ r[1] \in 1..Len(segments)
  <2>1. r \in LiveRows
    BY DEF Visible
  <2>2. PICK i \in DOMAIN segments : \E j \in DOMAIN segments[i] : r = <<i, j>>
    BY <2>1, LiveRowsAre
  <2>3. PICK j \in DOMAIN segments[i] : r = <<i, j>>
    BY <2>2
  <2> QED
    BY <1>1, <2>2, <2>3 DEF IsRow
<1>3. IsFiniteSet(Visible)
  <2> DEFINE part == [i \in DOMAIN segments |-> {i} \X DOMAIN segments[i]]
             P == {{i} \X DOMAIN segments[i] : i \in DOMAIN segments}
  <2>1. part \in [DOMAIN segments -> P] /\ \A p \in P : \E i \in DOMAIN segments : part[i] = p
    OBVIOUS
  <2>2. IsFiniteSet(DOMAIN segments)
    BY <1>1, CountTo
  <2>3. \A p \in P : IsFiniteSet(p)
    <3> SUFFICES ASSUME NEW i \in DOMAIN segments PROVE IsFiniteSet({i} \X DOMAIN segments[i])
      OBVIOUS
    <3> QED
      BY <1>1, UnitsOfOne
  <2> HIDE DEF part, P
  <2>4. IsFiniteSet(P)
    BY <2>1, <2>2, ImageFinite
  <2>5. IsFiniteSet(UNION P)
    BY <2>3, <2>4, FS_UNION
  <2>6. Visible \subseteq UNION P
    BY DEF Visible, LiveRows, P
  <2> QED
    BY <2>5, <2>6, FS_Subset
<1> QED
  BY <1>2, <1>3

LEMMA SegmentRowPresents ==
    ASSUME NEW r \in Visible, IsRow(r), NEW d \in docs, Good(d), Stores(StoredRow(r), d)
    PROVE  Presents(SegmentRow(r), d) /\ SegmentRow(r).row = r
<1>1. /\ SegmentRow(r).row = r /\ SegmentRow(r).id = d.id /\ SegmentRow(r).vector = d.vector
      /\ SegmentRow(r).live /\ SegmentRow(r).fields = RowFields({}, Encoding(d))
  BY DEF SegmentRow, Stores
<1>2. d \in Inputs /\ StoredMeta(d.meta) # {}
  BY DEF Good
<1>3. ASSUME NEW req \in Requests, NEW f \in req.filter
      PROVE  FilterMatches(f, RowFields({}, Encoding(d))) = FilterMatches(f, RowFields(d.meta, {}))
  BY <1>2, FiltersAssumption DEF Encoding
<1> HIDE DEF SegmentRow
<1> QED
  BY <1>1, <1>3 DEF Presents

LEMMA MemtableRowPresents ==
    ASSUME NEW i \in DOMAIN memtable.rows, i \in Nat, Len(segments) \in Nat
    PROVE  /\ Presents(MemtableRow(i), memtable.rows[i])
           /\ MemtableRow(i).row = <<Len(segments) + 1, i>>
  BY DEF Presents, MemtableRow, MemtableSegment, IsRow

LEMMA SourceRowsAre ==
    ASSUME StoreSound
    PROVE  SourceSound
<1>1. PICK n, order : n = Cardinality(Visible) /\ order = InRowOrder(Visible)
  OBVIOUS
<1>2. PICK m : m = Len(memtable.rows)
  OBVIOUS
<1>3. /\ DocsSound /\ Shown /\ SegmentsSound
      /\ memtable.rows \in Seq(GoodDocs) /\ OneEach(memtable.rows)
  BY DEF StoreSound, MemtableSound
<1>4. m \in Nat /\ DOMAIN memtable.rows = 1..m /\ Len(segments) \in Nat
  BY <1>2, <1>3, LenProperties DEF SegmentsSound
<1>5. \A r \in Visible : IsRow(r) /\ r[1] \in 1..Len(segments)
  BY <1>3, VisibleRows
<1>6. /\ n \in Nat /\ order \in [1..n -> Visible]
      /\ \A s \in Visible : \E i \in 1..n : order[i] = s
      /\ \A i, j \in 1..n : order[i] = order[j] => i = j
  BY <1>1, <1>3, <1>5, VisibleRows, InRowOrderIs
<1> DEFINE a == [k \in DOMAIN order |-> SegmentRow(order[k])]
           b == [i \in DOMAIN memtable.rows |-> MemtableRow(i)]
           rows == SourceRows
<1>7. rows = a \o b
  BY <1>1 DEF SourceRows
<1>8. /\ Len(rows) = n + m
      /\ \A k \in 1..n : rows[k] = SegmentRow(order[k])
      /\ \A k \in (n + 1)..(n + m) : k - n \in 1..m /\ rows[k] = MemtableRow(k - n)
  <2> DEFINE T == {a[k] : k \in 1..n} \cup {b[i] : i \in 1..m}
  <2>1. DOMAIN a = 1..n /\ DOMAIN b = 1..m
    BY <1>4, <1>6
  <2>2. a \in [1..n -> T] /\ b \in [1..m -> T]
    BY <2>1
  <2> HIDE DEF T
  <2>3. a \in Seq(T) /\ Len(a) = n /\ b \in Seq(T) /\ Len(b) = m
    BY <1>4, <1>6, <2>2, IsASeq, LenProperties
  <2>4. /\ Len(a \o b) = n + m
        /\ \A k \in 1..n + m : (a \o b)[k] = IF k <= n THEN a[k] ELSE b[k - n]
    BY <2>3, ConcatProperties
  <2>5. /\ \A k \in 1..n : a[k] = SegmentRow(order[k])
        /\ \A i \in 1..m : b[i] = MemtableRow(i)
    BY <1>4, <1>6
  <2> HIDE DEF a, b, rows
  <2> QED
    <3>1. Len(rows) = n + m
      BY <1>7, <2>4
    <3>2. ASSUME NEW k \in 1..n PROVE rows[k] = SegmentRow(order[k])
      <4>1. k \in 1..n + m /\ k <= n
        BY <1>4, <1>6
      <4> QED
        BY <1>7, <2>4, <2>5, <4>1
    <3>3. ASSUME NEW k \in (n + 1)..(n + m) PROVE k - n \in 1..m /\ rows[k] = MemtableRow(k - n)
      <4>1. k \in 1..n + m /\ ~(k <= n) /\ k - n \in 1..m
        BY <1>4, <1>6
      <4> QED
        BY <1>7, <2>4, <2>5, <4>1
    <3> QED
      BY <3>1, <3>2, <3>3
<1> HIDE DEF a, b, rows
<1>9. ASSUME NEW k \in 1..n
      PROVE  /\ \E d \in docs : Presents(rows[k], d)
             /\ order[k] \in Visible /\ rows[k].row = order[k]
             /\ rows[k].row[1] \in 1..Len(segments)
             /\ rows[k].id = StoredRow(order[k]).id /\ ~ Holds(memtable, rows[k].id)
  <2>1. order[k] \in Visible
    BY <1>6
  <2>2. PICK d \in docs : Stores(StoredRow(order[k]), d)
    BY <1>3, <2>1 DEF Shown
  <2>3. Good(d)
    BY <1>3 DEF DocsSound, GoodDocs
  <2>4. Presents(rows[k], d) /\ rows[k].row = order[k]
    BY <1>5, <1>8, <2>1, <2>2, <2>3, SegmentRowPresents
  <2>5. rows[k].id = StoredRow(order[k]).id
    BY <2>2, <2>4 DEF Presents, Stores
  <2> QED
    BY <1>5, <2>1, <2>4, <2>5 DEF Visible
<1>10. ASSUME NEW k \in (n + 1)..(n + m)
       PROVE  /\ k - n \in DOMAIN memtable.rows /\ memtable.rows[k - n] \in docs
              /\ Presents(rows[k], memtable.rows[k - n])
              /\ rows[k].row = <<Len(segments) + 1, k - n>>
              /\ rows[k].id = memtable.rows[k - n].id /\ Holds(memtable, rows[k].id)
  <2>1. k - n \in DOMAIN memtable.rows /\ k - n \in Nat /\ rows[k] = MemtableRow(k - n)
    BY <1>4, <1>8
  <2>2. memtable.rows[k - n] \in docs
    BY <1>3, <2>1 DEF Shown, Buffered
  <2>3. Presents(rows[k], memtable.rows[k - n]) /\ rows[k].row = <<Len(segments) + 1, k - n>>
    BY <1>4, <2>1, MemtableRowPresents
  <2>4. rows[k].id = memtable.rows[k - n].id
    BY <2>3 DEF Presents
  <2> QED
    BY <2>1, <2>2, <2>3, <2>4 DEF Holds
<1>11. \A k \in 1..(n + m) : k \in 1..n \/ k \in (n + 1)..(n + m)
  BY <1>4, <1>6
<1>12. \A k \in 1..(n + m) : \E d \in docs : Presents(rows[k], d)
  BY <1>9, <1>10, <1>11
<1>13. ASSUME NEW d \in docs PROVE \E k \in 1..(n + m) : rows[k].id = d.id
  <2>1. CASE d \in Buffered
    <3>1. PICK i \in 1..m : memtable.rows[i] = d
      BY <1>4, <2>1 DEF Buffered
    <3>2. n + i \in (n + 1)..(n + m) /\ (n + i) - n = i /\ n + i \in 1..(n + m)
      BY <1>4, <1>6
    <3> QED
      BY <1>10, <3>1, <3>2
  <2>2. CASE \E r \in Visible : Stores(StoredRow(r), d)
    <3>1. PICK r \in Visible : Stores(StoredRow(r), d)
      BY <2>2
    <3>2. PICK i \in 1..n : order[i] = r
      BY <1>6
    <3>3. rows[i].id = d.id /\ i \in 1..(n + m)
      BY <1>4, <1>6, <1>9, <3>1, <3>2 DEF Stores
    <3> QED
      BY <3>3
  <2> QED
    BY <1>3, <2>1, <2>2 DEF Shown
<1>14. ASSUME NEW k \in 1..(n + m), NEW l \in 1..(n + m),
              rows[k].id = rows[l].id \/ rows[k].row = rows[l].row
       PROVE  k = l
  <2>1. CASE k \in 1..n /\ l \in 1..n
    <3>1. order[k] = order[l]
      BY <1>3, <1>9, <1>14, <2>1 DEF Shown
    <3> QED
      BY <1>6, <2>1, <3>1
  <2>2. CASE k \in (n + 1)..(n + m) /\ l \in (n + 1)..(n + m)
    <3>1. k - n = l - n
      BY <1>3, <1>10, <1>14, <2>2 DEF OneEach
    <3> QED
      BY <1>6, <2>2, <3>1
  <2>3. CASE k \in 1..n /\ l \in (n + 1)..(n + m)
    BY <1>4, <1>9, <1>10, <1>14, <2>3
  <2>4. CASE l \in 1..n /\ k \in (n + 1)..(n + m)
    BY <1>4, <1>9, <1>10, <1>14, <2>4
  <2> QED
    BY <1>11, <2>1, <2>2, <2>3, <2>4
<1>15. Len(rows) \in Nat /\ Len(rows) = n + m
  BY <1>4, <1>6, <1>8
<1> QED
  BY <1>12, <1>13, <1>14, <1>15 DEF SourceSound, rows

-------------------------------------------------------------------------------
(* The selector. *)

\* Candidates that the selector can compare: each of a row of its own.
Comparable(C) ==
    /\ \A c \in C : IsRow(c.row) /\ c.score \in Int
    /\ \A a, b \in C : a.row = b.row => a = b

\* The k best of the candidates.
IsTop(heap, k, C) ==
    /\ heap \subseteq C /\ IsFiniteSet(heap) /\ Cardinality(heap) <= k
    /\ \A c \in C \ heap : Cardinality(heap) = k /\ \A h \in heap : Worse(c, h)

LEMMA WorseIsOrder ==
    ASSUME NEW C, Comparable(C)
    PROVE  /\ \A a \in C : ~ Worse(a, a)
           /\ \A a, b \in C : a = b \/ Worse(a, b) \/ Worse(b, a)
           /\ \A a, b, c \in C : Worse(a, b) /\ Worse(b, c) => Worse(a, c)
<1>1. ASSUME NEW a \in C PROVE ~ Worse(a, a)
  <2>1. IsRow(a.row) /\ a.score \in Int
    BY DEF Comparable
  <2> QED
    BY <2>1 DEF IsRow, RowLess, Worse
<1>2. ASSUME NEW a \in C, NEW b \in C PROVE a = b \/ Worse(a, b) \/ Worse(b, a)
  <2>1. /\ IsRow(a.row) /\ a.score \in Int /\ IsRow(b.row) /\ b.score \in Int
        /\ a.row = b.row => a = b
    BY DEF Comparable
  <2>2. a.row = b.row \/ RowLess(a.row, b.row) \/ RowLess(b.row, a.row)
    <3>1. CASE a.row[1] = b.row[1] /\ a.row[2] = b.row[2]
      BY <2>1, <3>1 DEF IsRow
    <3>2. CASE a.row[1] # b.row[1] \/ a.row[2] # b.row[2]
      BY <2>1, <3>2 DEF IsRow, RowLess
    <3> QED
      BY <3>1, <3>2
  <2> QED
    BY <2>1, <2>2 DEF Worse
<1>3. ASSUME NEW a \in C, NEW b \in C, NEW c \in C, Worse(a, b), Worse(b, c) PROVE Worse(a, c)
  <2>1. /\ IsRow(a.row) /\ a.score \in Int /\ IsRow(b.row) /\ b.score \in Int
        /\ IsRow(c.row) /\ c.score \in Int
    BY DEF Comparable
  <2>2. RowLess(c.row, b.row) /\ RowLess(b.row, a.row) => RowLess(c.row, a.row)
    BY <2>1 DEF IsRow, RowLess
  <2> QED
    BY <1>3, <2>1, <2>2 DEF Worse
<1> QED
  BY <1>1, <1>2, <1>3

LEMMA WorstIs ==
    ASSUME NEW heap, Comparable(heap), IsFiniteSet(heap), heap # {}
    PROVE  /\ WorstOf(heap) \in heap
           /\ \A c \in heap \ {WorstOf(heap)} : Worse(WorstOf(heap), c)
<1> DEFINE R == {p \in heap \X heap : Worse(p[2], p[1])}
<1>1. \A a, b \in heap : <<a, b>> \in R <=> Worse(b, a)
  OBVIOUS
<1> HIDE DEF R
<1>2. IsOrder(R, heap)
  <2>1. /\ \A a \in heap : ~ Worse(a, a)
        /\ \A a, b \in heap : a = b \/ Worse(a, b) \/ Worse(b, a)
        /\ \A a, b, c \in heap : Worse(a, b) /\ Worse(b, c) => Worse(a, c)
    BY WorseIsOrder
  <2> QED
    BY <1>1, <2>1 DEF IsOrder
<1>3. PICK w : IsLast(w, R, heap)
  BY <1>2, LastExists
<1>4. \E x \in heap : \A c \in heap \ {x} : Worse(x, c)
  BY <1>1, <1>3 DEF IsLast
<1> QED
  BY <1>4 DEF WorstOf

LEMMA OfferTop ==
    ASSUME NEW C, NEW c, c \notin C, Comparable(C \cup {c}),
           NEW k \in Nat \ {0}, NEW heap, IsTop(heap, k, C),
           NEW min_score, ~ \E m \in min_score : c.score < m
    PROVE  IsTop(Offer(heap, k, min_score, c), k, C \cup {c})
<1> DEFINE new == Offer(heap, k, min_score, c)
           w == WorstOf(heap)
<1>1. /\ heap \subseteq C /\ IsFiniteSet(heap) /\ Cardinality(heap) <= k
      /\ \A x \in C \ heap : Cardinality(heap) = k /\ \A h \in heap : Worse(x, h)
      /\ Cardinality(heap) \in Nat /\ c \notin heap
  BY FS_CardinalityType DEF IsTop
<1>2. /\ \A a, b \in C \cup {c} : a = b \/ Worse(a, b) \/ Worse(b, a)
      /\ \A x, y, z \in C \cup {c} : Worse(x, y) /\ Worse(y, z) => Worse(x, z)
  BY WorseIsOrder
<1>3. CASE Cardinality(heap) < k
  <2>1. new = heap \cup {c}
    BY <1>3 DEF Offer
  <2>2. IsFiniteSet(new) /\ Cardinality(new) = Cardinality(heap) + 1
    BY <1>1, <2>1, FS_AddElement
  <2>3. C \ heap = {}
    BY <1>1, <1>3
  <2> QED
    BY <1>1, <1>3, <2>1, <2>2, <2>3 DEF IsTop
<1>4. CASE ~ (Cardinality(heap) < k)
  <2>1. Cardinality(heap) = k /\ heap # {}
    BY <1>1, <1>4, FS_EmptySet
  <2>2. w \in heap /\ \A x \in heap \ {w} : Worse(w, x)
    <3>1. Comparable(heap)
      BY <1>1 DEF Comparable
    <3> QED
      BY <1>1, <2>1, <3>1, WorstIs
  <2>3. CASE Worse(w, c)
    <3>1. new = (heap \ {w}) \cup {c}
      BY <1>4, <2>3 DEF Offer
    <3> HIDE DEF w, new
    <3>2. IsFiniteSet(heap \ {w}) /\ Cardinality(heap \ {w}) = k - 1
      BY <1>1, <2>1, <2>2, FS_RemoveElement
    <3>3. IsFiniteSet(new) /\ Cardinality(new) = k
      <4>1. c \notin heap \ {w}
        BY <1>1
      <4>2. /\ IsFiniteSet((heap \ {w}) \cup {c})
            /\ Cardinality((heap \ {w}) \cup {c}) = Cardinality(heap \ {w}) + 1
        BY <3>2, <4>1, FS_AddElement
      <4> QED
        BY <3>1, <3>2, <4>2
    <3>4. ASSUME NEW x \in (C \cup {c}) \ new, NEW h \in new PROVE Worse(x, h)
      <4>1. x = w \/ x \in C \ heap
        BY <3>1
      <4>2. CASE x = w
        BY <2>2, <2>3, <3>1, <4>2
      <4>3. CASE x \in C \ heap
        <5>1. Worse(x, w) /\ w \in C
          BY <1>1, <2>2, <4>3
        <5> QED
          BY <1>1, <1>2, <2>3, <3>1, <4>3, <5>1
      <4> QED
        BY <4>1, <4>2, <4>3
    <3>5. new \subseteq C \cup {c}
      BY <1>1, <3>1
    <3> HIDE DEF new
    <3> QED
      BY <3>3, <3>4, <3>5 DEF IsTop, new
  <2>4. CASE ~ Worse(w, c)
    <3>1. new = heap
      BY <1>4, <2>4 DEF Offer
    <3> HIDE DEF w
    <3>2. Worse(c, w)
      BY <1>1, <1>2, <2>2, <2>4
    <3>3. \A h \in heap : Worse(c, h)
      BY <1>1, <1>2, <2>2, <3>2
    <3> QED
      BY <1>1, <2>1, <3>1, <3>3 DEF IsTop
  <2> QED
    BY <2>3, <2>4
<1> QED
  BY <1>1, <1>3, <1>4

-------------------------------------------------------------------------------
(* The candidates of a request, row by row. *)

Candidate(rows, req, k) ==
    LET row == rows[k]
    IN  [row |-> row.row, id |-> row.id, score |-> Score(req.metric, req.vector, row.vector)]

Meets(req, c) == ~ \E m \in req.min_score : c.score < m

\* What the rows before n have offered to the selector.
Offered(rows, req, n) ==
    {c \in {Candidate(rows, req, k) : k \in {j \in 1..(n - 1) : Admits(req, rows[j])}} :
        Meets(req, c)}

ScanSound(rows, x) ==
    /\ x.req \in Requests /\ ~ Refused(x.req)
    /\ x.at \in 1..(Len(rows) + 1)
    /\ IsTop(x.heap, x.req.top_k, Offered(rows, x.req, x.at))

LEMMA ScoreType ==
    ASSUME NEW metric \in Metrics, NEW q, NEW x, Number(q[1]) \in Int, Number(x[1]) \in Int
    PROVE  Score(metric, q, x) \in Int
<1>1. PICK a, b : a = Number(q[1]) /\ b = Number(x[1])
  OBVIOUS
<1>2. Sign(a) \in Int /\ Sign(b) \in Int /\ a \in Int /\ b \in Int
  BY <1>1 DEF Sign
<1>3. \A m, n \in Int : m * n \in Int
  OBVIOUS
<1>4. /\ Sign(a) * Sign(b) \in Int /\ a * b \in Int /\ a - b \in Int
      /\ (a - b) * (a - b) \in Int
  BY <1>2, <1>3
<1>5. -((a - b) * (a - b)) \in Int
  BY <1>4
<1>6. CASE metric = "cosine"
  BY <1>1, <1>4, <1>6 DEF Score
<1>7. CASE metric = "dot"
  BY <1>1, <1>4, <1>7 DEF Score
<1>8. CASE metric = "l2"
  BY <1>1, <1>5, <1>8 DEF Score
<1> QED
  BY <1>6, <1>7, <1>8 DEF Metrics

LEMMA CandidateIs ==
    ASSUME StoreSound, SourceSound, NEW req \in Requests, ~ Refused(req),
           NEW k \in 1..Len(SourceRows)
    PROVE  LET c == Candidate(SourceRows, req, k)
           IN  /\ IsRow(c.row) /\ c.score \in Int
               /\ c.row = SourceRows[k].row /\ c.id = SourceRows[k].id
               /\ \E d \in docs :
                    /\ Good(d) /\ c.id = d.id
                    /\ c.score = Score(req.metric, req.vector, d.vector)
                    /\ Admits(req, SourceRows[k])
                         <=> \A f \in req.filter : FilterMatches(f, RowFields(d.meta, {}))
<1> DEFINE c == Candidate(SourceRows, req, k)
<1>1. PICK d \in docs : Presents(SourceRows[k], d)
  BY DEF SourceSound
<1>2. Good(d)
  BY DEF StoreSound, DocsSound, GoodDocs
<1>3. /\ c.row = SourceRows[k].row /\ c.id = SourceRows[k].id
      /\ c.score = Score(req.metric, req.vector, SourceRows[k].vector)
  BY DEF Candidate
<1> HIDE DEF c
<1>4. /\ SourceRows[k].id = d.id /\ SourceRows[k].vector = d.vector /\ SourceRows[k].live
      /\ IsRow(SourceRows[k].row)
      /\ \A f \in req.filter :
           FilterMatches(f, SourceRows[k].fields) <=> FilterMatches(f, RowFields(d.meta, {}))
  BY <1>1 DEF Presents
<1>5. Admits(req, SourceRows[k])
        <=> \A f \in req.filter : FilterMatches(f, RowFields(d.meta, {}))
  BY <1>4 DEF Admits
<1>6. Score(req.metric, req.vector, d.vector) \in Int
  <2>1. req.metric \in Metrics /\ Number(req.vector[1]) \in Int
    BY InputsAssumption DEF Refused
  <2>2. Number(d.vector[1]) \in Int
    BY <1>2, InputsAssumption DEF Good
  <2> QED
    BY <2>1, <2>2, ScoreType
<1> QED
  BY <1>2, <1>3, <1>4, <1>5, <1>6 DEF c

LEMMA OfferedComparable ==
    ASSUME StoreSound, SourceSound, NEW req \in Requests, ~ Refused(req),
           NEW n \in 1..(Len(SourceRows) + 1)
    PROVE  Comparable(Offered(SourceRows, req, n))
<1>1. \A c \in Offered(SourceRows, req, n) :
         \E k \in 1..Len(SourceRows) : c = Candidate(SourceRows, req, k)
  BY DEF Offered, SourceSound
<1>2. \A k \in 1..Len(SourceRows) :
        LET c == Candidate(SourceRows, req, k)
        IN  IsRow(c.row) /\ c.score \in Int /\ c.row = SourceRows[k].row
  BY CandidateIs
<1>3. \A k, l \in 1..Len(SourceRows) : SourceRows[k].row = SourceRows[l].row => k = l
  BY DEF SourceSound
<1> QED
  BY <1>1, <1>2, <1>3 DEF Comparable

\* The scan of one row.
LEMMA VisitTop ==
    ASSUME StoreSound, SourceSound, NEW req \in Requests, ~ Refused(req),
           NEW n \in 1..Len(SourceRows),
           NEW heap, IsTop(heap, req.top_k, Offered(SourceRows, req, n))
    PROVE  /\ n + 1 \in 1..(Len(SourceRows) + 1)
           /\ Admits(req, SourceRows[n]) =>
                IsTop(Offer(heap, req.top_k, req.min_score, Candidate(SourceRows, req, n)),
                      req.top_k, Offered(SourceRows, req, n + 1))
           /\ ~ Admits(req, SourceRows[n]) =>
                Offered(SourceRows, req, n + 1) = Offered(SourceRows, req, n)
<1> DEFINE c == Candidate(SourceRows, req, n)
           Before == {j \in 1..(n - 1) : Admits(req, SourceRows[j])}
           After == {j \in 1..((n + 1) - 1) : Admits(req, SourceRows[j])}
<1>1. Len(SourceRows) \in Nat /\ n \in Nat /\ n \in 1..(Len(SourceRows) + 1)
      /\ n + 1 \in 1..(Len(SourceRows) + 1)
  BY DEF SourceSound
<1>2. /\ Admits(req, SourceRows[n]) => After = Before \cup {n}
      /\ ~ Admits(req, SourceRows[n]) => After = Before
  <2>1. 1..((n + 1) - 1) = (1..(n - 1)) \cup {n}
    BY <1>1
  <2> QED
    BY <2>1
<1>3. /\ Offered(SourceRows, req, n) =
            {x \in {Candidate(SourceRows, req, k) : k \in Before} : Meets(req, x)}
      /\ Offered(SourceRows, req, n + 1) =
            {x \in {Candidate(SourceRows, req, k) : k \in After} : Meets(req, x)}
  BY DEF Offered
<1> HIDE DEF After
<1>4. CASE ~ Admits(req, SourceRows[n])
  BY <1>1, <1>2, <1>3, <1>4
<1>5. CASE Admits(req, SourceRows[n]) /\ ~ Meets(req, c)
  <2>1. Offered(SourceRows, req, n + 1) = Offered(SourceRows, req, n)
    BY <1>2, <1>3, <1>5
  <2>2. Offer(heap, req.top_k, req.min_score, c) = heap
    BY <1>5 DEF Offer, Meets
  <2> QED
    BY <1>1, <1>5, <2>1, <2>2
<1>6. CASE Admits(req, SourceRows[n]) /\ Meets(req, c)
  <2>1. Offered(SourceRows, req, n + 1) = Offered(SourceRows, req, n) \cup {c}
    BY <1>2, <1>3, <1>6
  <2>2. Comparable(Offered(SourceRows, req, n) \cup {c})
    BY <1>1, <2>1, OfferedComparable
  <2>3. c \notin Offered(SourceRows, req, n)
    <3> SUFFICES ASSUME NEW k \in Before, c = Candidate(SourceRows, req, k) PROVE FALSE
      BY <1>3
    <3>1. k \in 1..Len(SourceRows) /\ k # n
      BY <1>1
    <3>2. SourceRows[k].id = SourceRows[n].id
      BY <3>1, CandidateIs
    <3> QED
      BY <3>1, <3>2 DEF SourceSound
  <2>4. req.top_k \in Nat \ {0}
    BY SearchAssumption DEF Refused
  <2>5. ~ \E m \in req.min_score : c.score < m
    BY <1>6 DEF Meets
  <2> HIDE DEF c
  <2>6. IsTop(Offer(heap, req.top_k, req.min_score, c), req.top_k,
              Offered(SourceRows, req, n) \cup {c})
    BY <2>2, <2>3, <2>4, <2>5, OfferTop
  <2> QED
    BY <1>1, <1>6, <2>1, <2>6 DEF c
<1> QED
  BY <1>4, <1>5, <1>6

-------------------------------------------------------------------------------
(* Answers. *)

Hit(c) == [id |-> c.id, score |-> c.score]

\* The hits are the top_k best of the documents that match.
Right(wanted, req, hits) ==
    /\ ToSet(hits) \subseteq wanted
    /\ Len(hits) = IF Cardinality(wanted) < req.top_k THEN Cardinality(wanted) ELSE req.top_k
    /\ \A h \in wanted \ ToSet(hits) : \A i \in DOMAIN hits : hits[i].score >= h.score
    /\ \A i, j \in DOMAIN hits : i < j => Better(hits[i], hits[j])

\* What has been offered when every row was scanned.
All(req) == Offered(SourceRows, req, Len(SourceRows) + 1)

LEMMA AllAre ==
    ASSUME SourceSound, NEW req
    PROVE  \A c : c \in All(req) <=> \E k \in 1..Len(SourceRows) :
                     /\ c = Candidate(SourceRows, req, k)
                     /\ Admits(req, SourceRows[k]) /\ Meets(req, c)
<1>1. 1..((Len(SourceRows) + 1) - 1) = 1..Len(SourceRows)
  BY DEF SourceSound
<1> QED
  BY <1>1 DEF All, Offered

LEMMA WantedAre ==
    ASSUME StoreSound, SourceSound, NEW req \in Requests, ~ Refused(req)
    PROVE  /\ Wanted(req) = {Hit(c) : c \in All(req)}
           /\ \A a, b \in All(req) : a.id = b.id => a = b
           /\ \A c \in All(req) : \E d \in docs : Good(d) /\ c.id = d.id
           /\ \A c \in All(req) : c.score \in Int
           /\ IsFiniteSet(All(req))
<1> DEFINE n == Len(SourceRows)
           Matches(d) == \A f \in req.filter : FilterMatches(f, RowFields(d.meta, {}))
           ScoreOf(d) == Score(req.metric, req.vector, d.vector)
<1>1. \A c : c \in All(req) <=> \E k \in 1..n :
                c = Candidate(SourceRows, req, k) /\ Admits(req, SourceRows[k]) /\ Meets(req, c)
  BY AllAre
<1>2. ASSUME NEW k \in 1..n
      PROVE  /\ Candidate(SourceRows, req, k).id = SourceRows[k].id
             /\ Candidate(SourceRows, req, k).score \in Int
             /\ \E d \in docs : /\ Good(d) /\ Candidate(SourceRows, req, k).id = d.id
                                /\ Candidate(SourceRows, req, k).score = ScoreOf(d)
                                /\ Admits(req, SourceRows[k]) <=> Matches(d)
  BY CandidateIs
<1>3. req.min_score \subseteq Int
  BY InputsAssumption
<1> HIDE DEF Matches, ScoreOf, n
<1>4. Wanted(req) = {h \in {[id |-> d.id, score |-> ScoreOf(d)] : d \in {x \in docs : Matches(x)}} :
                        \A m \in req.min_score : h.score >= m}
  BY DEF Wanted, Matches, ScoreOf
<1>5. \A c : c.score \in Int => (Meets(req, c) <=> \A m \in req.min_score : c.score >= m)
  BY <1>3 DEF Meets
<1>6. ASSUME NEW c \in All(req) PROVE Hit(c) \in Wanted(req)
  <2>1. PICK k \in 1..n : /\ c = Candidate(SourceRows, req, k)
                          /\ Admits(req, SourceRows[k]) /\ Meets(req, c)
    BY <1>1
  <2>2. PICK d \in docs : c.id = d.id /\ c.score = ScoreOf(d) /\ Matches(d)
    BY <1>2, <2>1
  <2>3. c.score \in Int
    BY <1>2, <2>1
  <2>4. Hit(c) = [id |-> d.id, score |-> ScoreOf(d)] /\ Hit(c).score = c.score
    BY <2>2 DEF Hit
  <2>5. \A m \in req.min_score : Hit(c).score >= m
    BY <1>5, <2>1, <2>3, <2>4
  <2> QED
    BY <1>4, <2>2, <2>4, <2>5
<1>7. ASSUME NEW h \in Wanted(req) PROVE \E c \in All(req) : h = Hit(c)
  <2>1. PICK d \in docs : /\ Matches(d) /\ h = [id |-> d.id, score |-> ScoreOf(d)]
                          /\ \A m \in req.min_score : h.score >= m
    BY <1>4
  <2>2. PICK k \in 1..n : SourceRows[k].id = d.id
    BY DEF SourceSound, n
  <2>3. PICK e \in docs : /\ Candidate(SourceRows, req, k).id = e.id
                          /\ Candidate(SourceRows, req, k).score = ScoreOf(e)
                          /\ Admits(req, SourceRows[k]) <=> Matches(e)
    BY <1>2
  <2>4. e = d
    BY <1>2, <2>2, <2>3 DEF StoreSound, DocsSound
  <2> DEFINE c == Candidate(SourceRows, req, k)
  <2>5. c.id = d.id /\ c.score = ScoreOf(d) /\ c.score \in Int /\ Admits(req, SourceRows[k])
    BY <1>2, <2>1, <2>3, <2>4
  <2> HIDE DEF c
  <2>6. h = Hit(c) /\ h.score = c.score
    BY <2>1, <2>5 DEF Hit
  <2>7. Meets(req, c)
    BY <1>5, <2>1, <2>5, <2>6
  <2>8. c \in All(req)
    BY <1>1, <2>5, <2>7 DEF c
  <2> QED
    BY <2>6, <2>8
<1>8. Wanted(req) = {Hit(c) : c \in All(req)}
  BY <1>6, <1>7
<1>9. ASSUME NEW a \in All(req), NEW b \in All(req), a.id = b.id PROVE a = b
  <2>1. PICK k \in 1..n : a = Candidate(SourceRows, req, k)
    BY <1>1
  <2>2. PICK l \in 1..n : b = Candidate(SourceRows, req, l)
    BY <1>1
  <2>3. SourceRows[k].id = SourceRows[l].id
    BY <1>2, <1>9, <2>1, <2>2
  <2>4. k = l
    BY <2>3 DEF SourceSound, n
  <2> QED
    BY <2>1, <2>2, <2>4
<1>10. \A c \in All(req) : c.score \in Int /\ \E d \in docs : Good(d) /\ c.id = d.id
  BY <1>1, <1>2
<1>11. IsFiniteSet(All(req))
  <2> DEFINE T == {Candidate(SourceRows, req, k) : k \in 1..n}
             f == [k \in 1..n |-> Candidate(SourceRows, req, k)]
  <2>1. IsFiniteSet(1..n)
    BY CountTo DEF SourceSound, n
  <2>2. f \in [1..n -> T] /\ \A y \in T : \E k \in 1..n : f[k] = y
    OBVIOUS
  <2>3. All(req) \subseteq T
    BY <1>1
  <2> HIDE DEF T, f
  <2> QED
    <3>1. IsFiniteSet(T)
      BY <2>1, <2>2, ImageFinite
    <3> QED
      BY <2>3, <3>1, FS_Subset
<1> QED
  BY <1>8, <1>9, <1>10, <1>11

LEMMA HitsCount ==
    ASSUME NEW C, IsFiniteSet(C), \A a, b \in C : a.id = b.id => a = b
    PROVE  /\ IsFiniteSet({Hit(c) : c \in C})
           /\ Cardinality({Hit(c) : c \in C}) = Cardinality(C) /\ Cardinality(C) \in Nat
<1> DEFINE T == {Hit(c) : c \in C}
           f == [c \in C |-> Hit(c)]
<1>1. f \in [C -> T] /\ \A y \in T : \E c \in C : f[c] = y
  OBVIOUS
<1>2. \A a, b \in C : f[a] = f[b] => a = b
  <2>1. \A c \in C : f[c].id = c.id
    BY DEF Hit
  <2> QED
    BY <2>1
<1> HIDE DEF f, T
<1>3. IsFiniteSet(T) /\ Cardinality(T) = Cardinality(C)
  BY <1>1, <1>2, ImageFinite
<1> QED
  BY <1>3, FS_CardinalityType DEF T

LEMMA BetterIsOrder ==
    ASSUME NEW T, \A h \in T : h.score \in Int /\ \E d : Good(d) /\ h.id = d.id,
           \A g, h \in T : g.id = h.id => g = h
    PROVE  IsOrder({p \in T \X T : Better(p[1], p[2])}, T)
<1> DEFINE R == {p \in T \X T : Better(p[1], p[2])}
           ids == {id \in {doc.id : doc \in Inputs} : ValidId(id)}
<1>1. \A g, h \in T : <<g, h>> \in R <=> Better(g, h)
  OBVIOUS
<1>2. \A h \in T : h.id \in ids /\ h.score \in Int
  BY DEF Good
<1>3. /\ \A a \in ids : ~ IdLess(a, a)
      /\ \A a, b \in ids : a = b \/ IdLess(a, b) \/ IdLess(b, a)
      /\ \A a, b, c \in ids : IdLess(a, b) /\ IdLess(b, c) => IdLess(a, c)
  BY OrderAssumption
<1> HIDE DEF R, ids
<1>4. \A h \in T : ~ Better(h, h)
  BY <1>2, <1>3 DEF Better
<1>5. \A g, h \in T : g = h \/ Better(g, h) \/ Better(h, g)
  BY <1>2, <1>3 DEF Better
<1>6. ASSUME NEW x \in T, NEW y \in T, NEW z \in T, Better(x, y), Better(y, z) PROVE Better(x, z)
  <2>1. /\ x.score \in Int /\ y.score \in Int /\ z.score \in Int
        /\ x.id \in ids /\ y.id \in ids /\ z.id \in ids
    BY <1>2
  <2>2. IdLess(x.id, y.id) /\ IdLess(y.id, z.id) => IdLess(x.id, z.id)
    BY <1>3, <2>1
  <2> QED
    BY <1>6, <2>1, <2>2 DEF Better
<1>7. IsOrder(R, T)
  BY <1>1, <1>4, <1>5, <1>6 DEF IsOrder
<1> QED
  BY <1>7 DEF R

LEMMA RankedIs ==
    ASSUME NEW heap, IsFiniteSet(heap), \A a, b \in heap : a.id = b.id => a = b,
           \A c \in heap : c.score \in Int /\ \E d : Good(d) /\ c.id = d.id
    PROVE  LET f == Ranked(heap)
           IN  /\ Len(f) = Cardinality(heap) /\ DOMAIN f = 1..Cardinality(heap)
               /\ ToSet(f) = {Hit(c) : c \in heap}
               /\ \A i, j \in DOMAIN f : i < j => Better(f[i], f[j])
<1> DEFINE T == {Hit(c) : c \in heap}
           n == Cardinality(T)
           R == {p \in T \X T : Better(p[1], p[2])}
           Lists(f) == \A i, j \in 1..n : i < j => Better(f[i], f[j])
<1>1. IsFiniteSet(T) /\ n = Cardinality(heap) /\ n \in Nat
  BY HitsCount
<1>2. IsOrder(R, T)
  <2>1. /\ \A h \in T : h.score \in Int /\ \E d : Good(d) /\ h.id = d.id
        /\ \A g, h \in T : g.id = h.id => g = h
    BY DEF Hit
  <2> HIDE DEF T
  <2> QED
    BY <2>1, BetterIsOrder
<1>3. \A g, h \in T : <<g, h>> \in R <=> Better(g, h)
  OBVIOUS
<1>4. Ranked(heap) = CHOOSE f \in [1..n -> T] : Lists(f)
  BY DEF Ranked, Hit
<1> HIDE DEF R, T
<1>5. \A f \in [1..n -> T] : Lists(f) <=> IsListOf(f, R, T)
  BY <1>3 DEF IsListOf
<1>6. \E f \in [1..n -> T] : Lists(f)
  <2>1. PICK f : IsListOf(f, R, T)
    BY <1>1, <1>2, OrderedListExists
  <2> QED
    BY <1>5, <2>1 DEF IsListOf
<1> HIDE DEF Lists, n
<1>7. Ranked(heap) \in [1..n -> T] /\ Lists(Ranked(heap))
  BY <1>4, <1>6
<1>8. IsListOf(Ranked(heap), R, T)
  BY <1>5, <1>7
<1>9. \A s \in T : \E i \in 1..n : Ranked(heap)[i] = s
  BY <1>1, <1>2, <1>8, OrderedListCovers DEF n
<1>10. Ranked(heap) \in Seq(T) /\ Len(Ranked(heap)) = n /\ DOMAIN Ranked(heap) = 1..n
  BY <1>1, <1>7, IsASeq, LenProperties
<1>11. ToSet(Ranked(heap)) = T
  BY <1>7, <1>9, <1>10 DEF ToSet
<1> QED
  BY <1>1, <1>7, <1>10, <1>11 DEF Lists, T

LEMMA RankedRight ==
    ASSUME StoreSound, SourceSound, NEW req \in Requests, ~ Refused(req),
           NEW heap, IsTop(heap, req.top_k, All(req))
    PROVE  Right(Wanted(req), req, Ranked(heap))
<1> DEFINE C == All(req)
           k == req.top_k
           hits == Ranked(heap)
           wanted == Wanted(req)
<1>1. /\ wanted = {Hit(c) : c \in C}
      /\ \A a, b \in C : a.id = b.id => a = b
      /\ \A c \in C : c.score \in Int /\ \E d : Good(d) /\ c.id = d.id
      /\ IsFiniteSet(C)
  BY WantedAre
<1>2. /\ heap \subseteq C /\ IsFiniteSet(heap) /\ Cardinality(heap) <= k
      /\ \A c \in C \ heap : Cardinality(heap) = k /\ \A h \in heap : Worse(c, h)
      /\ k \in Nat
  BY SearchAssumption DEF IsTop, Refused
<1> HIDE DEF C, k, hits, wanted
<1>3. /\ Len(hits) = Cardinality(heap) /\ DOMAIN hits = 1..Cardinality(heap)
      /\ ToSet(hits) = {Hit(c) : c \in heap}
      /\ \A i, j \in DOMAIN hits : i < j => Better(hits[i], hits[j])
  <2>1. /\ \A a, b \in heap : a.id = b.id => a = b
        /\ \A c \in heap : c.score \in Int /\ \E d : Good(d) /\ c.id = d.id
    BY <1>1, <1>2
  <2> QED
    BY <1>2, <2>1, RankedIs DEF hits
<1>4. Cardinality(wanted) = Cardinality(C) /\ Cardinality(C) \in Nat /\ Cardinality(heap) \in Nat
  BY <1>1, <1>2, HitsCount, FS_CardinalityType
<1>5. ToSet(hits) \subseteq wanted
  BY <1>1, <1>2, <1>3
<1>6. Len(hits) = IF Cardinality(wanted) < k THEN Cardinality(wanted) ELSE k
  <2>1. CASE C \ heap = {}
    <3>1. heap = C
      BY <1>2, <2>1
    <3> QED
      BY <1>2, <1>3, <1>4, <3>1
  <2>2. CASE C \ heap # {}
    <3>1. Cardinality(heap) = k
      BY <1>2, <2>2
    <3>2. Cardinality(heap) <= Cardinality(C)
      BY <1>1, <1>2, FS_Subset
    <3> QED
      BY <1>2, <1>3, <1>4, <3>1, <3>2
  <2> QED
    BY <2>1, <2>2
<1>7. ASSUME NEW h \in wanted \ ToSet(hits), NEW i \in DOMAIN hits PROVE hits[i].score >= h.score
  <2>1. PICK c \in C : h = Hit(c)
    BY <1>1, <1>7
  <2>2. c \notin heap
    BY <1>3, <1>7, <2>1
  <2>3. hits[i] \in ToSet(hits)
    BY DEF ToSet
  <2>4. PICK x \in heap : hits[i] = Hit(x)
    BY <1>3, <2>3
  <2>5. Worse(c, x) /\ c.score \in Int /\ x.score \in Int
    BY <1>1, <1>2, <2>2, <2>4
  <2>6. c.score <= x.score
    BY <2>5 DEF Worse
  <2>7. h.score = c.score /\ hits[i].score = x.score
    BY <2>1, <2>4 DEF Hit
  <2> QED
    BY <2>5, <2>6, <2>7
<1> QED
  BY <1>3, <1>5, <1>6, <1>7 DEF Right, k, hits, wanted

-------------------------------------------------------------------------------
(* The invariant: until a log with a foreign deletion is replayed, the store *)
(* shows the documents, the log leads to the memtable, and every search is   *)
(* right about the rows it has seen.                                         *)

WantedFrom(D, req) ==
    {h \in {[id |-> d.id, score |-> Score(req.metric, req.vector, d.vector)] :
              d \in {x \in D : \A f \in req.filter : FilterMatches(f, RowFields(x.meta, {}))}} :
        \A m \in req.min_score : h.score >= m}

SearcherSound(rows, D, x) ==
    /\ x.pc = "scan" => ScanSound(rows, x)
    /\ x.pc = "answered" => Right(WantedFrom(D, x.req), x.req, x.hits)

SearchInv ==
    /\ diverged \in BOOLEAN
    /\ ~ diverged =>
          /\ StoreSound /\ Leads(log, memtable)
          /\ \A s \in Searchers : SearcherSound(SourceRows, docs, search[s])

LEMMA IdleSound ==
    ASSUME NEW rows, NEW D, NEW x, x.pc \in {"idle", "cancelled"}
    PROVE  SearcherSound(rows, D, x)
  BY DEF SearcherSound

LEMMA SearchInit == Init => SearchInv
<1> SUFFICES ASSUME Init PROVE SearchInv
  OBVIOUS
<1>1. StoreSound /\ diverged = FALSE
  BY StoreInit DEF Init
<1>2. Leads(log, memtable)
  BY NothingLeads DEF Init
<1>3. ASSUME NEW s \in Searchers PROVE SearcherSound(SourceRows, docs, search[s])
  <2>1. search[s].pc = "idle"
    BY IdleIs DEF Init
  <2> QED
    BY <2>1, IdleSound
<1> QED
  BY <1>1, <1>2, <1>3 DEF SearchInv

\* The write lock: nobody is searching.
LEMMA StoreMoves ==
    ASSUME Writing, diverged' \in BOOLEAN,
           ~ diverged' => StoreSound' /\ Leads(log', memtable')
    PROVE  SearchInv'
<1>1. ASSUME NEW s \in Searchers PROVE SearcherSound(SourceRows', docs', search'[s])
  <2>1. search'[s].pc = "idle"
    BY DEF Writing
  <2> QED
    BY <2>1, IdleSound
<1> QED
  BY <1>1 DEF SearchInv

LEMMA WriteKeeps ==
    ASSUME SearchInv, Write
    PROVE  SearchInv'
<1>1. PICK doc \in Inputs, batch \in BOOLEAN :
          /\ Accepts(doc, batch)
          /\ \E bytes \in StoredMeta(doc.meta) : log' = Append(log, PutRecord(doc, bytes))
          /\ memtable' = Put(memtable, doc)
          /\ docs' = {d \in docs : d.id # doc.id} \cup {doc}
  BY DEF Write
<1>2. Writing /\ UNCHANGED <<segments, diverged>> /\ diverged \in BOOLEAN
  BY DEF Write, SearchInv
<1>3. PICK bytes \in StoredMeta(doc.meta) : log' = Append(log, PutRecord(doc, bytes))
  BY <1>1
<1>4. doc \in GoodDocs
  BY <1>1, <1>3 DEF GoodDocs, Good, Accepts
<1>5. CASE ~ diverged
  <2>1. StoreSound /\ Leads(log, memtable)
    BY <1>5 DEF SearchInv
  <2>2. StoreSound'
    BY <1>1, <1>2, <1>4, <2>1, WriteSound
  <2>3. Follows(memtable, PutRecord(doc, bytes), memtable')
    BY <1>1, <1>3, <1>4 DEF Follows
  <2>4. Leads(log', memtable')
    BY <1>3, <2>1, <2>3, AppendLeads
  <2> QED
    BY <1>2, <2>2, <2>4, StoreMoves
<1> QED
  BY <1>2, <1>5, StoreMoves

LEMMA EraseKeeps ==
    ASSUME SearchInv, Erase
    PROVE  SearchInv'
<1>1. PICK id \in Deletes :
          /\ log' = Append(log, DeleteRecord(id))
          /\ memtable' = Delete(memtable, id)
          /\ docs' = {d \in docs : d.id # id}
  BY DEF Erase
<1>2. Writing /\ UNCHANGED <<segments, diverged>> /\ diverged \in BOOLEAN
  BY DEF Erase, SearchInv
<1>3. CASE ~ diverged
  <2>1. StoreSound /\ Leads(log, memtable)
    BY <1>3 DEF SearchInv
  <2>2. StoreSound'
    BY <1>1, <1>2, <2>1, EraseSound
  <2>3. Follows(memtable, DeleteRecord(id), memtable')
    BY <1>1 DEF Follows
  <2>4. Leads(log', memtable')
    BY <1>1, <2>1, <2>3, AppendLeads
  <2> QED
    BY <1>2, <2>2, <2>4, StoreMoves
<1> QED
  BY <1>2, <1>3, StoreMoves

LEMMA FlushKeeps ==
    ASSUME SearchInv, Flush
    PROVE  SearchInv'
<1>1. /\ Writing /\ UNCHANGED <<docs, diverged>> /\ diverged \in BOOLEAN
      /\ memtable' = EmptyMemtable /\ log' = <<>>
      /\ segments' = [i \in DOMAIN segments |-> Superseded(segments[i])]
                     \o (IF FlushedRows = <<>> THEN <<>> ELSE <<FlushedRows>>)
  BY DEF Flush, SearchInv
<1>2. CASE ~ diverged
  <2>1. StoreSound
    BY <1>2 DEF SearchInv
  <2>2. StoreSound'
    BY <1>1, <2>1, FlushSound
  <2>3. Leads(log', memtable')
    BY <1>1, NothingLeads
  <2> QED
    BY <1>1, <2>2, <2>3, StoreMoves
<1> QED
  BY <1>1, <1>2, StoreMoves

LEMMA SameStore ==
    ASSUME StoreSound, UNCHANGED <<segments, memtable, docs>>
    PROVE  StoreSound'
<1>1. DocsSound' /\ MemtableSound' /\ SegmentsSound'
  BY DEF StoreSound, DocsSound, MemtableSound, SegmentsSound
<1>2. Visible' = Visible /\ Buffered' = Buffered /\ \A r : StoredRow(r)' = StoredRow(r)
  BY DEF Visible, LiveRows, StoredRow, Buffered
<1>3. Shown'
  BY <1>2 DEF StoreSound, Shown
<1> QED
  BY <1>1, <1>3 DEF StoreSound

LEMMA ReopenKeeps ==
    ASSUME SearchInv, Reopen
    PROVE  SearchInv'
<1>1. /\ Writing /\ UNCHANGED <<segments, log, docs>>
      /\ diverged' = (diverged \/ ForeignDelete) /\ diverged \in BOOLEAN
  BY DEF Reopen, SearchInv
<1>2. diverged' \in BOOLEAN
  BY <1>1 DEF ForeignDelete
<1>3. CASE ~ diverged'
  <2>1. ~ diverged /\ ~ ForeignDelete
    BY <1>1, <1>3
  <2>2. StoreSound /\ Leads(log, memtable)
    BY <2>1 DEF SearchInv
  <2>3. Replay(log) = {memtable}
    BY <2>1, <2>2, ReplayIs
  <2>4. memtable' = memtable
    BY <2>3 DEF Reopen
  <2>5. StoreSound' /\ Leads(log', memtable')
    BY <1>1, <2>2, <2>4, SameStore
  <2> QED
    BY <1>1, <1>2, <2>5, StoreMoves
<1> QED
  BY <1>1, <1>2, <1>3, StoreMoves

LEMMA SameRows ==
    ASSUME UNCHANGED <<segments, memtable>>
    PROVE  SourceRows' = SourceRows
  BY DEF SourceRows, Visible, LiveRows, StoredRow, SegmentRow, MemtableRow, MemtableSegment

\* The read lock: one searcher moves over a store that does not.
LEMMA SearcherMoves ==
    ASSUME SearchInv, BudgetInv, UNCHANGED store, NEW s \in Searchers, NEW x,
           search' = [search EXCEPT ![s] = x],
           ~ diverged => SearcherSound(SourceRows, docs, x)
    PROVE  SearchInv'
<1>1. UNCHANGED <<segments, memtable, log, docs, diverged>>
  BY DEF store
<1>2. SourceRows' = SourceRows
  BY <1>1, SameRows
<1>3. search = [t \in Searchers |-> search[t]]
  BY DEF BudgetInv
<1>4. ASSUME ~ diverged', NEW t \in Searchers
      PROVE  SearcherSound(SourceRows', docs', search'[t])
  <2>1. SearcherSound(SourceRows, docs, search[t]) /\ SearcherSound(SourceRows, docs, x)
    BY <1>1, <1>4 DEF SearchInv
  <2>2. search'[t] = search[t] \/ search'[t] = x
    BY <1>3
  <2> QED
    BY <1>1, <1>2, <2>1, <2>2
<1>5. ~ diverged' => StoreSound' /\ Leads(log', memtable')
  BY <1>1, SameStore DEF SearchInv
<1> QED
  BY <1>1, <1>4, <1>5 DEF SearchInv

LEMMA BeginKeeps ==
    ASSUME SearchInv, BudgetInv, NEW s \in Searchers, Begin(s)
    PROVE  SearchInv'
<1>1. PICK req \in Requests :
          /\ ~ Refused(req)
          /\ search' = [search EXCEPT ![s] = [Idle EXCEPT !.pc = "scan", !.req = req, !.at = 1]]
  BY DEF Begin
<1>2. UNCHANGED store
  BY DEF Begin
<1> DEFINE x == [Idle EXCEPT !.pc = "scan", !.req = req, !.at = 1]
<1>3. x.pc = "scan" /\ x.req = req /\ x.at = 1 /\ x.heap = {}
  BY IdleIs, BegunIs
<1>4. ASSUME ~ diverged PROVE SearcherSound(SourceRows, docs, x)
  <2>1. SourceSound
    BY <1>4, SourceRowsAre DEF SearchInv
  <2>2. 1 \in 1..(Len(SourceRows) + 1)
    BY <2>1 DEF SourceSound
  <2>3. Offered(SourceRows, req, 1) = {}
    BY DEF Offered
  <2>4. IsTop({}, req.top_k, Offered(SourceRows, req, 1))
    <3>1. IsFiniteSet({}) /\ Cardinality({}) = 0
      BY FS_EmptySet
    <3>2. req.top_k \in Nat
      BY <1>1, SearchAssumption DEF Refused
    <3> QED
      BY <2>3, <3>1, <3>2 DEF IsTop
  <2> HIDE DEF x
  <2> QED
    BY <1>1, <1>3, <2>2, <2>4 DEF SearcherSound, ScanSound
<1> HIDE DEF x
<1>5. search' = [search EXCEPT ![s] = x]
  BY <1>1 DEF x
<1> QED
  BY <1>2, <1>4, <1>5, SearcherMoves

LEMMA RefusedSound ==
    ASSUME NEW rows, NEW D
    PROVE  SearcherSound(rows, D, [Idle EXCEPT !.pc = "cancelled"])
<1> DEFINE x == [Idle EXCEPT !.pc = "cancelled"]
<1>1. x.pc = "cancelled"
  BY IdleIs, RefusedIs
<1> HIDE DEF x
<1>2. SearcherSound(rows, D, x)
  BY <1>1, IdleSound
<1> QED
  BY <1>2 DEF x

LEMMA VisitKeeps ==
    ASSUME SearchInv, BudgetInv, NEW s \in Searchers, Visit(s)
    PROVE  SearchInv'
<1> DEFINE my == search[s]
           row == SourceRows[my.at]
           candidate == [row |-> row.row, id |-> row.id,
                         score |-> Score(my.req.metric, my.req.vector, row.vector)]
           heap == Offer(my.heap, my.req.top_k, my.req.min_score, candidate)
           next == [my EXCEPT !.at = @ + 1, !.heap = heap,
                              !.considered = @ + 1, !.since = @ + 1,
                              !.late = IF budget.cancelled THEN @ + 1 ELSE @]
           passed == [my EXCEPT !.at = @ + 1]
<1>1. /\ my.pc = "scan" /\ my.at <= Len(SourceRows) /\ UNCHANGED store
      /\ \/ Admits(my.req, row) /\ Checkpoint(s, next)
         \/ ~ Admits(my.req, row) /\ search' = [search EXCEPT ![s] = passed]
  BY DEF Visit
<1>2. DOMAIN my = RunFields
  BY DEF BudgetInv, IsRun
<1>3. candidate = Candidate(SourceRows, my.req, my.at)
  BY DEF Candidate
<1> HIDE DEF my, row, candidate
<1>4. /\ DOMAIN next = RunFields /\ next.pc = "scan" /\ next.req = my.req
      /\ next.at = my.at + 1 /\ next.heap = heap
  BY <1>1, <1>2, CountedIs
<1>5. /\ passed.pc = "scan" /\ passed.req = my.req
      /\ passed.at = my.at + 1 /\ passed.heap = my.heap
  BY <1>1, <1>2, PassedIs
<1> HIDE DEF next, passed, heap
<1>6. ASSUME ~ diverged
      PROVE  /\ Admits(my.req, row) => \A x : /\ x.pc = "scan" /\ x.req = my.req
                                             /\ x.at = my.at + 1 /\ x.heap = heap
                                             => SearcherSound(SourceRows, docs, x)
             /\ ~ Admits(my.req, row) => SearcherSound(SourceRows, docs, passed)
  <2>1. StoreSound /\ SourceSound /\ ScanSound(SourceRows, my)
    BY <1>1, <1>6, SourceRowsAre DEF SearchInv, SearcherSound, my
  <2>2. /\ my.req \in Requests /\ ~ Refused(my.req) /\ my.at \in 1..Len(SourceRows)
        /\ IsTop(my.heap, my.req.top_k, Offered(SourceRows, my.req, my.at))
    BY <1>1, <2>1 DEF ScanSound, SourceSound
  <2>3. /\ my.at + 1 \in 1..(Len(SourceRows) + 1)
        /\ Admits(my.req, row) =>
             IsTop(heap, my.req.top_k, Offered(SourceRows, my.req, my.at + 1))
        /\ ~ Admits(my.req, row) =>
             Offered(SourceRows, my.req, my.at + 1) = Offered(SourceRows, my.req, my.at)
    BY <1>3, <2>1, <2>2, VisitTop DEF heap, row
  <2>4. ASSUME Admits(my.req, row), NEW x, x.pc = "scan", x.req = my.req,
               x.at = my.at + 1, x.heap = heap
        PROVE  SearcherSound(SourceRows, docs, x)
    BY <2>2, <2>3, <2>4 DEF SearcherSound, ScanSound
  <2>5. ASSUME ~ Admits(my.req, row) PROVE SearcherSound(SourceRows, docs, passed)
    BY <1>5, <2>2, <2>3, <2>5 DEF SearcherSound, ScanSound
  <2> QED
    BY <2>4, <2>5
<1>7. CASE ~ Admits(my.req, row) /\ search' = [search EXCEPT ![s] = passed]
  BY <1>1, <1>6, <1>7, SearcherMoves
<1>8. CASE Admits(my.req, row) /\ Checkpoint(s, next)
  <2>1. CASE next.since < BudgetStride
    <3>1. search' = [search EXCEPT ![s] = next]
      BY <1>8, <2>1 DEF Checkpoint
    <3> QED
      BY <1>1, <1>4, <1>6, <1>8, <3>1, SearcherMoves
  <2>2. CASE ~ (next.since < BudgetStride) /\ Refuses(next.since)
    <3>1. search' = [search EXCEPT ![s] = [Idle EXCEPT !.pc = "cancelled"]]
      BY <1>8, <2>2 DEF Checkpoint
    <3> QED
      BY <1>1, <3>1, RefusedSound, SearcherMoves
  <2>3. CASE ~ (next.since < BudgetStride) /\ ~ Refuses(next.since)
    <3> DEFINE x == [next EXCEPT !.since = 0]
    <3>1. search' = [search EXCEPT ![s] = x]
      BY <1>8, <2>3 DEF Checkpoint
    <3>2. x.pc = "scan" /\ x.req = my.req /\ x.at = my.at + 1 /\ x.heap = heap
      BY <1>4, SettledIs
    <3> HIDE DEF x
    <3> QED
      BY <1>1, <1>6, <1>8, <3>1, <3>2, SearcherMoves
  <2> QED
    BY <2>1, <2>2, <2>3
<1> QED
  BY <1>1, <1>7, <1>8

LEMMA FinishKeeps ==
    ASSUME SearchInv, BudgetInv, NEW s \in Searchers, Finish(s)
    PROVE  SearchInv'
<1> DEFINE my == search[s]
           hits == Ranked(my.heap)
           x == [Idle EXCEPT !.pc = "answered", !.req = my.req, !.late = my.late, !.hits = hits]
<1>1. /\ my.pc = "scan" /\ my.at > Len(SourceRows) /\ UNCHANGED store
      /\ search' = [search EXCEPT ![s] = IF Refuses(my.since) THEN [Idle EXCEPT !.pc = "cancelled"]
                                         ELSE x]
  BY DEF Finish
<1> HIDE DEF my, hits
<1>2. x.pc = "answered" /\ x.req = my.req /\ x.hits = hits
  BY IdleIs, AnsweredIs
<1> HIDE DEF x
<1>3. ASSUME ~ diverged PROVE SearcherSound(SourceRows, docs, x)
  <2>1. StoreSound /\ SourceSound /\ ScanSound(SourceRows, my)
    BY <1>1, <1>3, SourceRowsAre DEF SearchInv, SearcherSound, my
  <2>2. /\ my.req \in Requests /\ ~ Refused(my.req) /\ my.at = Len(SourceRows) + 1
        /\ IsTop(my.heap, my.req.top_k, All(my.req))
    BY <1>1, <2>1 DEF ScanSound, SourceSound, All
  <2>3. Right(Wanted(my.req), my.req, hits)
    BY <2>1, <2>2, RankedRight DEF hits
  <2>4. Wanted(my.req) = WantedFrom(docs, my.req)
    BY DEF Wanted, WantedFrom
  <2> QED
    BY <1>2, <2>3, <2>4 DEF SearcherSound
<1>4. CASE Refuses(my.since)
  <2>1. search' = [search EXCEPT ![s] = [Idle EXCEPT !.pc = "cancelled"]]
    BY <1>1, <1>4
  <2> QED
    BY <1>1, <2>1, RefusedSound, SearcherMoves
<1>5. CASE ~ Refuses(my.since)
  <2>1. search' = [search EXCEPT ![s] = x]
    BY <1>1, <1>5
  <2> QED
    BY <1>1, <1>3, <2>1, SearcherMoves
<1> QED
  BY <1>4, <1>5

LEMMA ReturnKeeps ==
    ASSUME SearchInv, BudgetInv, NEW s \in Searchers, Return(s)
    PROVE  SearchInv'
<1>1. UNCHANGED store /\ search' = [search EXCEPT ![s] = Idle]
  BY DEF Return
<1>2. SearcherSound(SourceRows, docs, Idle)
  BY IdleIs, IdleSound
<1> QED
  BY <1>1, <1>2, SearcherMoves

LEMMA SearchesStill ==
    ASSUME SearchInv, UNCHANGED <<store, search>>
    PROVE  SearchInv'
<1>1. UNCHANGED <<segments, memtable, log, docs, diverged, search>>
  BY DEF store
<1>2. SourceRows' = SourceRows
  BY <1>1, SameRows
<1> QED
  BY <1>1, <1>2, SameStore DEF SearchInv

LEMMA SearchStep == SearchInv /\ BudgetInv /\ [Next]_vars => SearchInv'
<1> SUFFICES ASSUME SearchInv, BudgetInv, [Next]_vars PROVE SearchInv'
  OBVIOUS
<1>1. CASE UNCHANGED vars \/ Cancel
  BY <1>1, SearchesStill DEF vars, Cancel
<1>2. CASE Write \/ Erase \/ Flush \/ Reopen
  BY <1>2, WriteKeeps, EraseKeeps, FlushKeeps, ReopenKeeps
<1>3. ASSUME NEW s \in Searchers, Begin(s) \/ Visit(s) \/ Finish(s) \/ Return(s)
      PROVE  SearchInv'
  BY <1>3, BeginKeeps, VisitKeeps, FinishKeeps, ReturnKeeps
<1> QED
  BY <1>1, <1>2, <1>3 DEF Next

LEMMA SearchHolds == Spec => []SearchInv
BY SearchInit, SearchStep, BudgetHolds, PTL DEF Spec

\* An answer is the top_k best of the documents that match, and all of them if they are
\* fewer, whichever are buffered, flushed or superseded.
THEOREM AnswersAreExact == Spec => []AnswerExact
<1>1. SearchInv => AnswerExact
  <2> SUFFICES ASSUME SearchInv, NEW s \in Searchers, search[s].pc = "answered", ~ diverged,
                      NEW wanted, wanted = Wanted(search[s].req), NEW hits, hits = search[s].hits
               PROVE  Right(wanted, search[s].req, hits)
    BY DEF AnswerExact, Right
  <2>1. SearcherSound(SourceRows, docs, search[s])
    BY DEF SearchInv
  <2>2. WantedFrom(docs, search[s].req) = Wanted(search[s].req)
    BY DEF Wanted, WantedFrom
  <2> QED
    BY <2>1, <2>2 DEF SearcherSound
<1> QED
  BY <1>1, SearchHolds, PTL

\* Replaying the log gives the memtable as it is, in order, unless an id of the other
\* kind was deleted.
THEOREM LogRebuildsMemtable == Spec => []LogRebuilds
<1>1. SearchInv => LogRebuilds
  BY ReplayIs DEF SearchInv, LogRebuilds
<1> QED
  BY <1>1, SearchHolds, PTL
=============================================================================
