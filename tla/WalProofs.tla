------------------------------- MODULE WalProofs -------------------------------
(***************************************************************************)
(* Proofs about Wal for batches of any size and any number of writes and   *)
(* failures: what was acknowledged is replayed, and kills alone never      *)
(* leave a log out of order or one that open reports as corruption.        *)
(*                                                                         *)
(* The invariants of Wal speak of what a scan of the file would find; what *)
(* every step preserves is where the frames of each write call lie.        *)
(***************************************************************************)
EXTENDS Wal, FiniteSetTheorems, WellFoundedInduction, SequenceTheorems, TLAPS

-------------------------------------------------------------------------------
(* Numbers. *)

LEMMA LeastNatural ==
    ASSUME NEW S \in SUBSET Nat, S # {}
    PROVE  \E n \in S : \A m \in S : n <= m
<1> DEFINE R == {p \in Nat \X Nat : p[1] < p[2]}
<1>1. IsWellFoundedOn(R, Nat)
  BY NatLessThanWellFounded DEF OpToRel
<1> HIDE DEF R
<1>2. PICK n \in S : \A m \in S : ~ (<<m, n>> \in R)
  BY <1>1, WFMin, Zenon
<1>3. \A m \in S : ~ (m < n)
  BY <1>2 DEF R
<1> QED
  BY <1>3

LEMMA GreatestNatural ==
    ASSUME NEW S \in SUBSET Nat, S # {}, NEW b \in Nat, \A m \in S : m <= b
    PROVE  \E n \in S : \A m \in S : m <= n
<1> DEFINE T == {k \in 0..b : b - k \in S}
<1>1. \A m \in S : b - m \in T
  OBVIOUS
<1>2. T \in SUBSET Nat /\ T # {}
  <2>1. PICK m \in S : TRUE
    OBVIOUS
  <2>2. b - m \in T
    BY <1>1
  <2>3. T \in SUBSET Nat
    OBVIOUS
  <2> HIDE DEF T
  <2> QED
    BY <2>2, <2>3
<1>3. PICK t \in T : \A u \in T : t <= u
  <2> HIDE DEF T
  <2> QED
    BY <1>2, LeastNatural
<1> QED
  BY <1>1, <1>3

LEMMA BoundedNaturals ==
    ASSUME NEW n \in Nat, NEW f \in [1..n -> Nat]
    PROVE  \E b \in Nat : \A i \in 1..n : f[i] <= b
<1> DEFINE T == {k \in 0..n : ~ \E b \in Nat : \A i \in 1..k : f[i] <= b}
<1>1. T = {}
  <2> SUFFICES ASSUME T # {} PROVE FALSE
    OBVIOUS
  <2>1. PICK k \in T : \A j \in T : k <= j
    <3>1. T \in SUBSET Nat
      OBVIOUS
    <3> HIDE DEF T
    <3> QED
      BY <3>1, LeastNatural
  <2>2. k # 0
    <3>1. \A i \in 1..0 : f[i] <= 0
      OBVIOUS
    <3> QED
      BY <3>1
  <2>3. k - 1 \in 0..n /\ k - 1 \notin T
    <3>1. k - 1 \in 0..n
      BY <2>2
    <3>2. ~ (k <= k - 1)
      BY <3>1
    <3> HIDE DEF T
    <3> QED
      BY <2>1, <3>1, <3>2
  <2>4. PICK b \in Nat : \A i \in 1..(k - 1) : f[i] <= b
    BY <2>3
  <2>5. k \in 1..n /\ f[k] \in Nat
    <3>1. k \in 0..n
      BY DEF T
    <3> HIDE DEF T
    <3> QED
      BY <2>2, <3>1
  <2>6. b + f[k] \in Nat /\ \A i \in 1..k : f[i] <= b + f[k]
    <3> HIDE DEF T
    <3> QED
      BY <2>4, <2>5
  <2> QED
    BY <2>6
<1>2. n \notin T
  <2> HIDE DEF T
  <2> QED
    BY <1>1
<1> QED
  BY <1>2

-------------------------------------------------------------------------------
(* The inductive invariant. *)

\* The number of frames of a write call's buffer.
FrameCount(n) == IF n = 0 THEN 1 ELSE n + 1

\* The frames of write call w found in the file are those from first + 1 to
\* last, the beginning of the buffer of a call of size n.  If it returned Ok
\* they are all there, and nothing up to the last of them is cut.
Span(w, n, first, last) ==
    /\ writes[w].ops = Size(n)
    /\ last <= Len(file) /\ last <= first + FrameCount(n)
    /\ \A i \in 1..Len(file) : file[i].write = w <=> first < i /\ i <= last
    /\ \A i \in 1..Len(file) : first < i /\ i <= last =>
         /\ file[i].commit <=> n # 0 /\ i = first + n + 1
         /\ file[i].txn = 0 <=> n = 0
    /\ \A i, j \in 1..Len(file) :
         first < i /\ i <= last /\ first < j /\ j <= last =>
             file[i].txn = file[j].txn
    /\ writes[w].outcome = "ok" =>
         /\ last = first + FrameCount(n)
         /\ \A i \in 1..last : file[i].whole

Placed ==
    \A w \in 1..Len(writes) :
        \E n \in {0} \cup GroupSizes : \E first, last \in Nat : Span(w, n, first, last)

\* Every frame comes from a write call.
KnownWrites == \A i \in 1..Len(file) : file[i].write \in 1..Len(writes)

\* The writer's length covers whole frames only, and all of the file unless an
\* append failed: the next append that succeeds follows a whole frame.
Covered ==
    mode = "open" =>
        /\ writer.next_txn > 0
        /\ writer.bytes <= Len(file)
        /\ \A i \in 1..writer.bytes : file[i].whole
        /\ NoneFailed => writer.bytes = Len(file)

CutIsLast ==
    NoneFailed => \A i \in 1..Len(file) : ~file[i].whole => i = Len(file)

\* Only a log that a failed append was made to has been refused.
Refused == mode = "refused" => ~NoneFailed

\* The open writer goes on after the last number in the file.
Ascending ==
    NoneFailed =>
        /\ \A i, j \in 1..Len(file) : i < j => file[i].sequence < file[j].sequence
        /\ mode = "open" =>
             \A i \in 1..Len(file) : file[i].sequence < writer.next_sequence

Inv ==
    /\ TypeOK
    /\ KnownWrites
    /\ Placed
    /\ Covered
    /\ CutIsLast
    /\ Refused
    /\ Ascending

-------------------------------------------------------------------------------
(* The highest sequence number. *)

\* The highest sequence number of a log exists and bounds them all.
LEMMA HighestSequence ==
    ASSUME NEW log \in Seq(Item)
    PROVE  LET S == {log[i].sequence : i \in DOMAIN log}
           IN  Highest(S) \in Nat /\ \A i \in 1..Len(log) : log[i].sequence <= Highest(S)
<1> DEFINE S == {log[i].sequence : i \in DOMAIN log}
           f == [i \in 1..Len(log) |-> log[i].sequence]
<1>1. Len(log) \in Nat /\ DOMAIN log = 1..Len(log)
      /\ \A i \in 1..Len(log) : log[i].sequence \in Nat
  <2>1. Len(log) \in Nat /\ DOMAIN log = 1..Len(log)
    OBVIOUS
  <2>2. ASSUME NEW i \in 1..Len(log) PROVE log[i].sequence \in Nat
    <3>1. log[i] \in Item
      OBVIOUS
    <3> QED
      BY <3>1 DEF Item
  <2> QED
    BY <2>1, <2>2
<1>2. S \in SUBSET Nat /\ \A i \in 1..Len(log) : log[i].sequence \in S
  BY <1>1
<1>3. CASE S = {}
  BY <1>2, <1>3 DEF Highest
<1>4. CASE S # {}
  <2>1. f \in [1..Len(log) -> Nat]
    BY <1>1
  <2>2. PICK b \in Nat : \A i \in 1..Len(log) : f[i] <= b
    <3> HIDE DEF f
    <3> QED
      BY <1>1, <2>1, BoundedNaturals
  <2>3. \A m \in S : m <= b
    BY <1>1, <2>2
  <2>4. \E n \in S : \A m \in S : m <= n
    <3> HIDE DEF S
    <3> QED
      BY <1>2, <1>4, <2>3, GreatestNatural
  <2> HIDE DEF S
  <2>5. Highest(S) \in S /\ \A m \in S : m <= Highest(S)
    BY <1>4, <2>4 DEF Highest
  <2> QED
    BY <1>2, <2>5 DEF S
<1> QED
  BY <1>3, <1>4

-------------------------------------------------------------------------------
(* What the scan returns. *)

\* Scan stops at the first cut frame and nowhere else.
LEMMA ScanFacts ==
    ASSUME NEW log \in Seq(Item)
    PROVE  /\ Scan(log) \in Seq(Item)
           /\ Len(Scan(log)) <= Len(log)
           /\ \A i \in 1..Len(Scan(log)) : Scan(log)[i] = log[i] /\ log[i].whole
           /\ Len(Scan(log)) < Len(log) => ~log[Len(Scan(log)) + 1].whole
<1>1. CASE CutItems(log) = {}
  BY <1>1 DEF Scan, CutItems
<1>2. CASE CutItems(log) # {}
  <2> DEFINE c == FirstCut(log)
  <2>1. CutItems(log) \in SUBSET Nat
    BY DEF CutItems
  <2>2. \E i \in CutItems(log) : \A j \in CutItems(log) : i <= j
    BY <1>2, <2>1, LeastNatural
  <2>3. c \in CutItems(log) /\ \A j \in CutItems(log) : c <= j
    BY <2>2 DEF FirstCut
  <2>4. c \in 1..Len(log) /\ ~log[c].whole
    BY <2>3 DEF CutItems
  <2>5. \A i \in 1..(c - 1) : log[i].whole
    BY <2>3, <2>4 DEF CutItems
  <2>6. Scan(log) = SubSeq(log, 1, c - 1)
    BY <1>2 DEF Scan
  <2> HIDE DEF c
  <2>7. /\ Scan(log) \in Seq(Item) /\ Len(Scan(log)) = c - 1
        /\ \A i \in 1..(c - 1) : Scan(log)[i] = log[i]
    BY <2>4, <2>6
  <2> QED
    BY <2>4, <2>5, <2>7
<1> QED
  BY <1>1, <1>2

-------------------------------------------------------------------------------
(* What an append adds. *)

\* kept is a beginning of the buffer of a write call of size n, its last frame
\* perhaps cut.
IsKept(n, kept) ==
    /\ kept \in Seq(Item)
    /\ Len(kept) <= FrameCount(n)
    /\ \A i \in 1..Len(kept) :
         /\ kept[i].write = Len(writes) + 1
         /\ kept[i].sequence = writer.next_sequence + i - 1
         /\ kept[i].txn = IF n = 0 THEN 0 ELSE writer.next_txn
         /\ kept[i].commit <=> n # 0 /\ i = n + 1
         /\ i < Len(kept) => kept[i].whole

LEMMA FramesFacts ==
    ASSUME TypeOK, NEW n \in {0} \cup GroupSizes
    PROVE  /\ IsKept(n, Frames(n))
           /\ Len(Frames(n)) = FrameCount(n)
           /\ \A i \in 1..FrameCount(n) : Frames(n)[i].whole
<1>1. n \in Nat /\ Len(writes) \in Nat /\ writer.next_sequence \in Nat /\ writer.next_txn \in Nat
  BY WalAssumption DEF TypeOK
<1>2. CASE n = 0
  <2>1. StandaloneFrames \in Seq(Item) /\ Len(StandaloneFrames) = 1
    BY <1>1 DEF StandaloneFrames, Item
  <2>2. StandaloneFrames[1] =
          [write |-> Len(writes) + 1, sequence |-> writer.next_sequence,
           txn |-> 0, commit |-> FALSE, whole |-> TRUE]
    BY DEF StandaloneFrames
  <2>3. /\ StandaloneFrames[1].write = Len(writes) + 1
        /\ StandaloneFrames[1].sequence = writer.next_sequence + 1 - 1
        /\ StandaloneFrames[1].txn = 0
        /\ ~StandaloneFrames[1].commit
        /\ StandaloneFrames[1].whole
    BY <1>1, <2>2
  <2>4. Frames(n) = StandaloneFrames /\ FrameCount(n) = 1
    BY <1>2 DEF Frames, FrameCount
  <2>5. \A i \in 1..1 : i = 1
    OBVIOUS
  <2>6. Len(Frames(n)) = 1 /\ Frames(n) \in Seq(Item)
    BY <2>1, <2>4
  <2>7. \A i \in 1..1 :
          /\ Frames(n)[i].write = Len(writes) + 1
          /\ Frames(n)[i].sequence = writer.next_sequence + i - 1
          /\ Frames(n)[i].txn = 0
          /\ ~Frames(n)[i].commit
          /\ Frames(n)[i].whole
    BY <2>3, <2>4, <2>5
  <2>8. IsKept(n, Frames(n))
    <3>1. \A i \in 1..1 : (Frames(n)[i].commit <=> n # 0 /\ i = n + 1)
      BY <1>2, <2>7
    <3>2. (IF n = 0 THEN 0 ELSE writer.next_txn) = 0
      BY <1>2
    <3> QED
      BY <2>4, <2>6, <2>7, <3>1, <3>2 DEF IsKept
  <2> QED
    BY <2>4, <2>6, <2>7, <2>8
<1>3. CASE n # 0
  <2> DEFINE frame(i) == [write |-> Len(writes) + 1, sequence |-> writer.next_sequence + i - 1,
                          txn |-> writer.next_txn, commit |-> i = n + 1, whole |-> TRUE]
  <2>1. \A i \in 1..(n + 1) : frame(i) \in Item
    BY <1>1 DEF Item
  <2>2. Frames(n) = [i \in 1..(n + 1) |-> frame(i)]
    BY <1>3 DEF Frames, GroupFrames
  <2>3. \A i \in 1..(n + 1) : Frames(n)[i] = frame(i)
    BY <2>2
  <2>4. Frames(n) \in Seq(Item) /\ Len(Frames(n)) = n + 1
    <3> HIDE DEF frame
    <3> QED
      BY <1>1, <2>1, <2>2
  <2>5. ASSUME NEW i \in 1..(n + 1)
        PROVE  /\ Frames(n)[i].write = Len(writes) + 1
               /\ Frames(n)[i].sequence = writer.next_sequence + i - 1
               /\ Frames(n)[i].txn = writer.next_txn
               /\ Frames(n)[i].commit <=> i = n + 1
               /\ Frames(n)[i].whole
    <3>1. frame(i).commit <=> i = n + 1
      OBVIOUS
    <3>2. Frames(n)[i] = frame(i)
      BY <2>3
    <3>3. Frames(n)[i].commit <=> i = n + 1
      <4> HIDE DEF frame
      <4> QED
        BY <3>1, <3>2
    <3> QED
      BY <3>2, <3>3
  <2>6. FrameCount(n) = n + 1
    BY <1>3 DEF FrameCount
  <2> HIDE DEF frame
  <2> QED
    BY <1>1, <1>3, <2>4, <2>5, <2>6 DEF IsKept
<1> QED
  BY <1>2, <1>3

LEMMA CutFacts ==
    ASSUME TypeOK, NEW n \in {0} \cup GroupSizes, NEW kept \in Cut(Frames(n))
    PROVE  IsKept(n, kept)
<1> DEFINE f == Frames(n)
<1>1. IsKept(n, f) /\ Len(f) = FrameCount(n) /\ \A i \in 1..FrameCount(n) : f[i].whole
  BY FramesFacts
<1>2. f \in Seq(Item) /\ Len(f) \in Nat /\ FrameCount(n) \in Nat /\ n \in Nat
  BY <1>1, WalAssumption DEF IsKept, FrameCount
<1>3. ASSUME NEW k \in 0..Len(f), kept = SubSeq(f, 1, k) PROVE IsKept(n, kept)
  <2> HIDE DEF f
  <2>1. kept \in Seq(Item) /\ Len(kept) = k /\ \A i \in 1..k : kept[i] = f[i]
    BY <1>2, <1>3
  <2> QED
    BY <1>1, <1>2, <2>1 DEF IsKept
<1>4. ASSUME NEW k \in 0..(Len(f) - 1),
             kept = Append(SubSeq(f, 1, k), [f[k + 1] EXCEPT !.whole = FALSE])
      PROVE  IsKept(n, kept)
  <2> HIDE DEF f
  <2> DEFINE last == [f[k + 1] EXCEPT !.whole = FALSE]
  <2>1. f[k + 1] \in Item /\ k + 1 \in 1..Len(f)
    BY <1>2
  <2>2. last \in Item /\ last.write = f[k + 1].write /\ last.sequence = f[k + 1].sequence
        /\ last.txn = f[k + 1].txn /\ last.commit = f[k + 1].commit
    BY <2>1 DEF Item
  <2>3. SubSeq(f, 1, k) \in Seq(Item) /\ Len(SubSeq(f, 1, k)) = k
        /\ \A i \in 1..k : SubSeq(f, 1, k)[i] = f[i]
    BY <1>2
  <2>4. kept \in Seq(Item) /\ Len(kept) = k + 1 /\ kept[k + 1] = last
        /\ \A i \in 1..k : kept[i] = f[i]
    <3> HIDE DEF last
    <3> QED
      BY <1>4, <2>2, <2>3, AppendProperties DEF last
  <2> HIDE DEF last
  <2> QED
    BY <1>1, <1>2, <2>1, <2>2, <2>4 DEF IsKept
<1> QED
  BY <1>3, <1>4 DEF Cut

-------------------------------------------------------------------------------
(* Steps that append. *)

\* A write call of size n that ended with outcome o has left kept at the end
\* of the file.
Appended(n, kept, o) ==
    /\ file' = file \o kept
    /\ writes' = Record(n, o)

LEMMA AppendedFacts ==
    ASSUME TypeOK, NEW n \in {0} \cup GroupSizes, NEW kept, IsKept(n, kept),
           NEW o \in Outcome, Appended(n, kept, o)
    PROVE  /\ file' \in Seq(Item)
           /\ Len(file') = Len(file) + Len(kept)
           /\ \A i \in 1..Len(file) : file'[i] = file[i]
           /\ \A i \in (Len(file) + 1)..Len(file') :
                i - Len(file) \in 1..Len(kept) /\ file'[i] = kept[i - Len(file)]
           /\ writes' \in Seq([ops : Nat, outcome : Outcome])
           /\ Len(writes') = Len(writes) + 1
           /\ \A w \in 1..Len(writes) : writes'[w] = writes[w]
           /\ writes'[Len(writes) + 1].ops = Size(n)
           /\ writes'[Len(writes) + 1].outcome = o
           /\ Len(file) \in Nat /\ Len(kept) \in Nat /\ Len(writes) \in Nat
           /\ n \in Nat /\ Size(n) \in Nat
<1>1. n \in Nat /\ Size(n) \in Nat
  BY WalAssumption DEF Size
<1>2. kept \in Seq(Item) /\ file \in Seq(Item)
  BY DEF TypeOK, IsKept
<1>3. /\ file' \in Seq(Item) /\ Len(file') = Len(file) + Len(kept)
      /\ \A i \in 1..Len(file) : file'[i] = file[i]
      /\ \A i \in (Len(file) + 1)..Len(file') :
           i - Len(file) \in 1..Len(kept) /\ file'[i] = kept[i - Len(file)]
      /\ Len(file) \in Nat /\ Len(kept) \in Nat
  <2>1. file' = file \o kept
    BY DEF Appended
  <2> QED
    BY <1>2, <2>1, ConcatProperties
<1>4. [ops |-> Size(n), outcome |-> o] \in [ops : Nat, outcome : Outcome]
  BY <1>1
<1>5. writes \in Seq([ops : Nat, outcome : Outcome])
  BY DEF TypeOK
<1>6. /\ writes' \in Seq([ops : Nat, outcome : Outcome])
      /\ Len(writes) \in Nat /\ Len(writes') = Len(writes) + 1
      /\ \A w \in 1..Len(writes) : writes'[w] = writes[w]
      /\ writes'[Len(writes) + 1] = [ops |-> Size(n), outcome |-> o]
  BY <1>4, <1>5, AppendProperties DEF Appended, Record
<1> QED
  BY <1>1, <1>3, <1>6

\* An append leaves the frames of earlier write calls where they were, and
\* its own follow one another at the end.
LEMMA AppendedPlaces ==
    ASSUME TypeOK, KnownWrites, Placed, writer.next_txn > 0,
           NEW n \in {0} \cup GroupSizes, NEW kept, IsKept(n, kept),
           NEW o \in Outcome, Appended(n, kept, o),
           o = "ok" =>
               /\ \A i \in 1..Len(file) : file[i].whole
               /\ Len(kept) = FrameCount(n)
               /\ \A i \in 1..Len(kept) : kept[i].whole
    PROVE  KnownWrites' /\ Placed'
<1>a. PICK L \in Nat : L = Len(file)
  BY DEF TypeOK
<1>b. PICK W \in Nat : W = Len(writes)
  BY DEF TypeOK
<1>c. PICK K \in Nat : K = Len(file')
  BY AppendedFacts
<1>1. /\ K = L + Len(kept)
      /\ \A i \in 1..L : file'[i] = file[i]
      /\ \A i \in (L + 1)..K :
           i - L \in 1..Len(kept) /\ file'[i] = kept[i - L]
      /\ Len(writes') = W + 1
      /\ \A w \in 1..W : writes'[w] = writes[w]
      /\ writes'[W + 1].ops = Size(n)
      /\ writes'[W + 1].outcome = o
      /\ Len(kept) \in Nat /\ n \in Nat
  BY AppendedFacts, <1>a, <1>b, <1>c
<1>2. \A i \in (L + 1)..K : file'[i].write = W + 1
  BY <1>1, <1>b DEF IsKept
<1>3. KnownWrites'
  <2> SUFFICES ASSUME NEW i \in 1..K PROVE file'[i].write \in 1..(W + 1)
    BY <1>1, <1>c DEF KnownWrites
  <2>1. CASE i \in 1..L
    <3>1. file[i].write \in 1..W
      BY <1>a, <1>b, <2>1 DEF KnownWrites
    <3> QED
      BY <1>1, <2>1, <3>1
  <2>2. CASE i \in (L + 1)..K
    BY <1>1, <1>2, <2>2
  <2> QED
    BY <1>1, <2>1, <2>2
<1>4. ASSUME NEW w \in 1..W
      PROVE  \E m \in {0} \cup GroupSizes : \E first, last \in Nat : Span(w, m, first, last)'
  <2>1. PICK m \in {0} \cup GroupSizes : \E first, last \in Nat : Span(w, m, first, last)
    BY <1>b DEF Placed
  <2>2. PICK first \in Nat, last \in Nat : Span(w, m, first, last)
    BY <2>1
  <2>3. last <= L /\ \A i \in 1..K : first < i /\ i <= last => i \in 1..L
    BY <1>1, <1>a, <2>2 DEF Span
  <2>4. \A i \in 1..K : file'[i].write = w <=> first < i /\ i <= last
    <3> SUFFICES ASSUME NEW i \in 1..K
                 PROVE  file'[i].write = w <=> first < i /\ i <= last
      OBVIOUS
    <3>1. CASE i \in 1..L
      BY <1>1, <1>a, <2>2, <3>1 DEF Span
    <3>2. CASE i \in (L + 1)..K
      BY <1>1, <1>2, <2>3, <3>2
    <3> QED
      BY <1>1, <3>1, <3>2
  <2>5. \A i \in 1..last : file'[i] = file[i]
    BY <1>1, <2>3
  <2>6. \A i \in 1..K : first < i /\ i <= last =>
          /\ file'[i].commit <=> m # 0 /\ i = first + m + 1
          /\ file'[i].txn = 0 <=> m = 0
    BY <1>1, <1>a, <2>2, <2>3 DEF Span
  <2>7. \A i, j \in 1..K : first < i /\ i <= last /\ first < j /\ j <= last =>
          file'[i].txn = file'[j].txn
    BY <1>1, <1>a, <2>2, <2>3 DEF Span
  <2>8. writes[w].outcome = "ok" =>
          last = first + FrameCount(m) /\ \A i \in 1..last : file'[i].whole
    BY <2>2, <2>5 DEF Span
  <2>9. Span(w, m, first, last)'
    BY <1>1, <1>c, <2>2, <2>3, <2>4, <2>6, <2>7, <2>8 DEF Span
  <2> QED
    BY <2>9
<1>5. Span(W + 1, n, L, K)'
  <2>1. \A i \in 1..K : file'[i].write = W + 1 <=> L < i /\ i <= K
    <3>1. \A i \in 1..L : file'[i].write # W + 1
      BY <1>1, <1>a, <1>b DEF KnownWrites
    <3>2. L <= K
      BY <1>1
    <3> SUFFICES ASSUME NEW i \in 1..K
                 PROVE  file'[i].write = W + 1 <=> L < i /\ i <= K
      OBVIOUS
    <3>3. CASE L < i
      <4>1. i \in (L + 1)..K
        BY <3>2, <3>3
      <4> QED
        BY <1>2, <3>3, <4>1
    <3>4. CASE ~(L < i)
      <4>1. i \in 1..L
        BY <3>4
      <4> QED
        BY <3>1, <3>4, <4>1
    <3> QED
      BY <3>3, <3>4
  <2>2. \A i \in (L + 1)..K :
          /\ file'[i].commit <=> n # 0 /\ i = L + n + 1
          /\ file'[i].txn = IF n = 0 THEN 0 ELSE writer.next_txn
    <3> SUFFICES ASSUME NEW i \in (L + 1)..K
                 PROVE  /\ file'[i].commit <=> n # 0 /\ i = L + n + 1
                        /\ file'[i].txn = IF n = 0 THEN 0 ELSE writer.next_txn
      OBVIOUS
    <3>1. i - L \in 1..Len(kept) /\ file'[i] = kept[i - L]
      BY <1>1
    <3>2. (i - L = n + 1) <=> (i = L + n + 1)
      <4>1. i \in Int /\ L \in Int /\ n \in Int
        BY <1>1
      <4> QED
        BY <4>1
    <3> QED
      BY <3>1, <3>2 DEF IsKept
  <2>3. K <= L + FrameCount(n)
    BY <1>1 DEF IsKept, FrameCount
  <2>4. o = "ok" => /\ K = L + FrameCount(n)
                    /\ \A i \in 1..K : file'[i].whole
    <3> SUFFICES ASSUME o = "ok" PROVE /\ K = L + FrameCount(n)
                                       /\ \A i \in 1..K : file'[i].whole
      OBVIOUS
    <3>1. \A i \in 1..L : file'[i].whole
      BY <1>1, <1>a
    <3>2. \A i \in (L + 1)..K : file'[i].whole
      BY <1>1
    <3>3. K = L + FrameCount(n)
      BY <1>1
    <3> QED
      BY <3>1, <3>2, <3>3
  <2>5. \A i \in 1..K : L < i => i \in (L + 1)..K
    BY <1>1
  <2>6. writer.next_txn # 0
    BY DEF TypeOK
  <2>7. \A i \in 1..K : L < i /\ i <= K =>
          /\ file'[i].commit <=> n # 0 /\ i = L + n + 1
          /\ file'[i].txn = 0 <=> n = 0
    BY <2>2, <2>5, <2>6
  <2>8. \A i, j \in 1..K :
          L < i /\ i <= K /\ L < j /\ j <= K => file'[i].txn = file'[j].txn
    BY <2>2, <2>5
  <2>9. writes'[W + 1].ops = Size(n) /\ writes'[W + 1].outcome = o /\ K <= K
    BY <1>1
  <2> QED
    BY <1>c, <2>1, <2>3, <2>4, <2>7, <2>8, <2>9 DEF Span
<1>6. ASSUME NEW w \in 1..(W + 1)
      PROVE  \E m \in {0} \cup GroupSizes : \E first, last \in Nat : Span(w, m, first, last)'
  <2>1. CASE w = W + 1
    BY <1>5, <2>1
  <2>2. CASE w # W + 1
    BY <1>1, <1>4, <2>2
  <2> QED
    BY <2>1, <2>2
<1>7. Placed'
  BY <1>1, <1>6 DEF Placed
<1> QED
  BY <1>3, <1>7

LEMMA AppendedFails ==
    ASSUME TypeOK, NEW n \in {0} \cup GroupSizes, NEW kept, IsKept(n, kept),
           NEW o \in Outcome, Appended(n, kept, o)
    PROVE  NoneFailed' <=> NoneFailed /\ o # "error"
<1>1. PICK W \in Nat : W = Len(writes)
  BY DEF TypeOK
<1>2. /\ DOMAIN writes = 1..W
      /\ DOMAIN writes' = 1..(W + 1)
      /\ \A w \in 1..W : writes'[w] = writes[w]
      /\ writes'[W + 1].outcome = o
  <2>1. /\ writes' \in Seq([ops : Nat, outcome : Outcome])
        /\ Len(writes') = Len(writes) + 1
        /\ \A w \in 1..Len(writes) : writes'[w] = writes[w]
        /\ writes'[Len(writes) + 1].outcome = o
    BY AppendedFacts
  <2> QED
    BY <1>1, <2>1 DEF TypeOK
<1>3. 1..(W + 1) = (1..W) \cup {W + 1}
  OBVIOUS
<1> QED
  BY <1>2, <1>3 DEF NoneFailed

\* What an append adds ascends, after everything a writer that saw no failure
\* knows of.
LEMMA AppendedAscends ==
    ASSUME TypeOK, Ascending, NoneFailed, mode = "open",
           NEW n \in {0} \cup GroupSizes, NEW kept, IsKept(n, kept),
           NEW o \in Outcome, Appended(n, kept, o)
    PROVE  /\ \A i, j \in 1..Len(file') : i < j => file'[i].sequence < file'[j].sequence
           /\ \A i \in 1..Len(file') : file'[i].sequence < writer.next_sequence + Len(kept)
<1>1. PICK L \in Nat : L = Len(file)
  BY DEF TypeOK
<1>2. PICK K \in Nat : K = Len(file')
  BY AppendedFacts
<1>3. /\ K = L + Len(kept) /\ Len(kept) \in Nat
      /\ \A i \in 1..L : file'[i] = file[i]
      /\ \A i \in (L + 1)..K : i - L \in 1..Len(kept) /\ file'[i] = kept[i - L]
  <2>1. /\ Len(file') = Len(file) + Len(kept) /\ Len(kept) \in Nat
        /\ \A i \in 1..Len(file) : file'[i] = file[i]
        /\ \A i \in (Len(file) + 1)..Len(file') :
             i - Len(file) \in 1..Len(kept) /\ file'[i] = kept[i - Len(file)]
    BY AppendedFacts
  <2> QED
    BY <1>1, <1>2, <2>1
<1>4. writer.next_sequence \in Nat
  BY DEF TypeOK
<1>5. \A i \in (L + 1)..K : file'[i].sequence = writer.next_sequence + (i - L) - 1
  BY <1>3 DEF IsKept
<1>6. \A i \in 1..L : file'[i].sequence < writer.next_sequence
  BY <1>1, <1>3 DEF Ascending
<1>7. \A i, j \in 1..L : i < j => file'[i].sequence < file'[j].sequence
  BY <1>1, <1>3 DEF Ascending
<1>8. \A i \in 1..L : file'[i].sequence \in Nat
  <2> SUFFICES ASSUME NEW i \in 1..L PROVE file'[i].sequence \in Nat
    OBVIOUS
  <2>1. file[i] \in Item
    BY <1>1 DEF TypeOK
  <2> QED
    BY <1>3, <2>1 DEF Item
<1>9. ASSUME NEW i \in 1..K, NEW j \in 1..K, i < j
      PROVE  file'[i].sequence < file'[j].sequence
  <2>1. CASE j \in 1..L
    BY <1>7, <1>9, <2>1
  <2>2. CASE j \in (L + 1)..K /\ i \in 1..L
    BY <1>4, <1>5, <1>6, <1>8, <2>2
  <2>3. CASE j \in (L + 1)..K /\ i \in (L + 1)..K
    BY <1>4, <1>5, <1>9, <2>3
  <2> QED
    BY <1>3, <2>1, <2>2, <2>3
<1>10. ASSUME NEW i \in 1..K
       PROVE  file'[i].sequence < writer.next_sequence + Len(kept)
  <2>1. CASE i \in 1..L
    BY <1>3, <1>4, <1>6, <1>8, <2>1
  <2>2. CASE i \in (L + 1)..K
    BY <1>3, <1>4, <1>5, <2>2
  <2> QED
    BY <2>1, <2>2
<1> QED
  BY <1>2, <1>9, <1>10

-------------------------------------------------------------------------------
(* Every step preserves the invariant. *)

\* AppendOk and SyncFails: the frames are whole and follow whole frames.
LEMMA WriteStep ==
    ASSUME Inv, NEW n \in {0} \cup GroupSizes, NEW o \in {"ok", "error"},
           Write(n), writes' = Record(n, o), mode' = mode,
           failures' \in 0..MaxFailures
    PROVE  Inv'
<1> DEFINE f == Frames(n)
<1>1. IsKept(n, f) /\ Len(f) = FrameCount(n) /\ \A i \in 1..FrameCount(n) : f[i].whole
  BY FramesFacts DEF Inv
<1>2. Appended(n, f, o) /\ mode = "open" /\ Len(file) = writer.bytes
      /\ writer' = [next_sequence |-> writer.next_sequence + Len(f),
                    next_txn |-> writer.next_txn + (IF n = 0 THEN 0 ELSE 1),
                    bytes |-> writer.bytes + Len(f)]
  BY DEF Write, Appended
<1>3. TypeOK /\ KnownWrites /\ Placed /\ Ascending
  BY DEF Inv
<1>4. o \in Outcome
  BY DEF Outcome
<1> HIDE DEF f
<1>5. /\ file' \in Seq(Item) /\ Len(file') = Len(file) + Len(f)
      /\ \A i \in 1..Len(file) : file'[i] = file[i]
      /\ \A i \in (Len(file) + 1)..Len(file') :
           i - Len(file) \in 1..Len(f) /\ file'[i] = f[i - Len(file)]
      /\ writes' \in Seq([ops : Nat, outcome : Outcome])
      /\ Len(file) \in Nat /\ Len(f) \in Nat
  <2>1. TypeOK /\ IsKept(n, f) /\ Appended(n, f, o)
    BY <1>1, <1>2, <1>3
  <2>2. /\ file' \in Seq(Item) /\ Len(file') = Len(file) + Len(f)
        /\ \A i \in 1..Len(file) : file'[i] = file[i]
    BY <1>4, <2>1, AppendedFacts
  <2>3. \A i \in (Len(file) + 1)..Len(file') :
          i - Len(file) \in 1..Len(f) /\ file'[i] = f[i - Len(file)]
    BY <1>4, <2>1, AppendedFacts
  <2>4. /\ writes' \in Seq([ops : Nat, outcome : Outcome])
        /\ Len(file) \in Nat /\ Len(f) \in Nat
    BY <1>4, <2>1, AppendedFacts
  <2> QED
    BY <2>2, <2>3, <2>4
<1>6. writer.next_txn > 0 /\ \A i \in 1..Len(file) : file[i].whole
  BY <1>2 DEF Inv, Covered
<1>7. /\ writer' \in [next_sequence : Nat, next_txn : Nat, bytes : Nat]
      /\ writer'.next_txn > 0
      /\ writer'.bytes = Len(file')
      /\ writer'.next_sequence = writer.next_sequence + Len(f)
  BY <1>2, <1>3, <1>5, <1>6 DEF TypeOK
<1>8. TypeOK'
  BY <1>2, <1>5, <1>7 DEF TypeOK
<1>9. KnownWrites' /\ Placed'
  BY <1>1, <1>2, <1>3, <1>4, <1>6, AppendedPlaces
<1>10. \A i \in 1..Len(file') : file'[i].whole
  <2> SUFFICES ASSUME NEW i \in 1..Len(file') PROVE file'[i].whole
    OBVIOUS
  <2>1. CASE i \in 1..Len(file)
    BY <1>5, <1>6, <2>1
  <2>2. CASE i \in (Len(file) + 1)..Len(file')
    BY <1>1, <1>5, <2>2
  <2> QED
    BY <1>5, <2>1, <2>2
<1>11. Covered' /\ CutIsLast' /\ Refused'
  BY <1>2, <1>5, <1>7, <1>10 DEF Covered, CutIsLast, Refused
<1>12. Ascending'
  <2> SUFFICES ASSUME NoneFailed' PROVE Ascending'
    BY DEF Ascending
  <2>1. NoneFailed
    BY <1>1, <1>2, <1>3, <1>4, AppendedFails
  <2> QED
    BY <1>1, <1>2, <1>3, <1>4, <1>7, <2>1, AppendedAscends DEF Ascending
<1> QED
  BY <1>8, <1>9, <1>11, <1>12 DEF Inv

\* AppendMisplaced and AppendFails: the counters do not move, so a later
\* append that succeeds cannot follow what this one left.
LEMMA ErrorStep ==
    ASSUME Inv, NEW n \in {0} \cup GroupSizes, NEW kept, IsKept(n, kept),
           mode = "open", Appended(n, kept, "error"), mode' = mode,
           writer' = [writer EXCEPT !.next_txn = @ + (IF n = 0 THEN 0 ELSE 1)],
           failures' \in 0..MaxFailures
    PROVE  Inv'
<1>1. TypeOK /\ KnownWrites /\ Placed /\ Covered
  BY DEF Inv
<1>2. "error" \in Outcome /\ "error" # "ok"
  BY DEF Outcome
<1>3. writer.next_txn > 0 /\ writer.bytes <= Len(file)
      /\ \A i \in 1..writer.bytes : file[i].whole
  BY <1>1 DEF Covered
<1>4. KnownWrites' /\ Placed'
  BY <1>1, <1>2, <1>3, AppendedPlaces
<1>5. ~NoneFailed'
  BY <1>1, <1>2, AppendedFails
<1>6. /\ file' \in Seq(Item) /\ Len(file') = Len(file) + Len(kept)
      /\ \A i \in 1..Len(file) : file'[i] = file[i]
      /\ writes' \in Seq([ops : Nat, outcome : Outcome])
      /\ Len(file) \in Nat /\ Len(kept) \in Nat
  BY <1>1, <1>2, AppendedFacts
<1>7. /\ writer' \in [next_sequence : Nat, next_txn : Nat, bytes : Nat]
      /\ writer'.next_txn > 0 /\ writer'.bytes = writer.bytes
      /\ writer.bytes \in Nat
  <2>1. writer \in [next_sequence : Nat, next_txn : Nat, bytes : Nat]
    BY <1>1 DEF TypeOK
  <2>2. PICK k \in {0, 1} : writer' = [writer EXCEPT !.next_txn = @ + k]
    OBVIOUS
  <2> QED
    BY <1>3, <2>1, <2>2
<1>8. TypeOK'
  BY <1>6, <1>7 DEF TypeOK
<1>9. Covered'
  <2>1. writer'.bytes <= Len(file')
    BY <1>3, <1>6, <1>7
  <2>2. \A i \in 1..writer.bytes : file'[i].whole
    <3>1. \A i \in 1..writer.bytes : i \in 1..Len(file)
      BY <1>3, <1>6, <1>7
    <3> QED
      BY <1>3, <1>6, <3>1
  <2> QED
    BY <1>5, <1>7, <2>1, <2>2 DEF Covered
<1> QED
  BY <1>4, <1>5, <1>8, <1>9 DEF Inv, CutIsLast, Refused, Ascending

\* KilledInAppend: at most the last frame is cut.
LEMMA KilledInAppendStep ==
    ASSUME Inv, NEW n \in {0} \cup GroupSizes, KilledInAppend(n)
    PROVE  Inv'
<1>1. PICK kept \in Cut(Frames(n)) : file' = file \o kept
  BY DEF KilledInAppend
<1>2. TypeOK /\ KnownWrites /\ Placed /\ Covered /\ Ascending
  BY DEF Inv
<1>3. IsKept(n, kept)
  BY <1>2, CutFacts
<1>4. Appended(n, kept, "interrupted")
  BY <1>1 DEF KilledInAppend, Appended
<1>5. "interrupted" \in Outcome /\ "interrupted" # "ok" /\ "interrupted" # "error"
  BY DEF Outcome
<1>6. mode = "open" /\ mode' = "down" /\ writer' = writer /\ failures' \in 0..MaxFailures
  BY <1>2, WalAssumption DEF KilledInAppend, TypeOK
<1>7. writer.next_txn > 0
  BY <1>2, <1>6 DEF Covered
<1>8. KnownWrites' /\ Placed'
  BY <1>2, <1>3, <1>4, <1>5, <1>7, AppendedPlaces
<1>9. NoneFailed' <=> NoneFailed
  BY <1>2, <1>3, <1>4, <1>5, AppendedFails
<1>10. /\ file' \in Seq(Item) /\ Len(file') = Len(file) + Len(kept)
       /\ \A i \in 1..Len(file) : file'[i] = file[i]
       /\ \A i \in (Len(file) + 1)..Len(file') :
            i - Len(file) \in 1..Len(kept) /\ file'[i] = kept[i - Len(file)]
       /\ writes' \in Seq([ops : Nat, outcome : Outcome])
       /\ Len(file) \in Nat /\ Len(kept) \in Nat
  BY <1>2, <1>3, <1>4, <1>5, AppendedFacts
<1>11. TypeOK'
  BY <1>2, <1>6, <1>10 DEF TypeOK
<1>12. CutIsLast'
  <2> SUFFICES ASSUME NoneFailed', NEW i \in 1..Len(file'), ~file'[i].whole
               PROVE  i = Len(file')
    BY DEF CutIsLast
  <2>1. i \notin 1..Len(file)
    BY <1>2, <1>6, <1>9, <1>10 DEF Covered
  <2>2. i - Len(file) \in 1..Len(kept) /\ ~kept[i - Len(file)].whole
    BY <1>10, <2>1
  <2>3. ~ (i - Len(file) < Len(kept))
    BY <1>3, <2>2 DEF IsKept
  <2> QED
    BY <1>10, <2>2, <2>3
<1>13. Ascending'
  <2> SUFFICES ASSUME NoneFailed' PROVE Ascending'
    BY DEF Ascending
  <2> QED
    BY <1>2, <1>3, <1>4, <1>5, <1>6, <1>9, AppendedAscends DEF Ascending
<1>14. Covered' /\ Refused'
  BY <1>6 DEF Covered, Refused
<1> QED
  BY <1>8, <1>11, <1>12, <1>13, <1>14 DEF Inv

\* Reopen: the scan keeps everything before the first cut frame, so all of
\* every write call that returned Ok.
LEMMA ReopenStep ==
    ASSUME Inv, Reopen
    PROVE  Inv'
<1>1. TypeOK /\ KnownWrites /\ Placed /\ Ascending
  BY DEF Inv
<1>2. PICK L \in Nat : L = Len(file)
  BY <1>1 DEF TypeOK
<1>3. PICK c \in Nat : c = Len(file')
  BY <1>1, ScanFacts DEF Reopen, TypeOK
<1>4. /\ file' \in Seq(Item)
      /\ c <= L
      /\ \A i \in 1..c : file'[i] = file[i] /\ file[i].whole
      /\ c < L => ~file[c + 1].whole
  BY <1>1, <1>2, <1>3, ScanFacts DEF Reopen, TypeOK
<1>5. mode' = "open" /\ writes' = writes /\ failures' = failures
  BY DEF Reopen
<1>6. PICK h \in Nat :
        /\ \A i \in 1..c : file'[i].sequence <= h
        /\ writer' = [next_sequence |-> h + 1, next_txn |-> 1, bytes |-> c]
  <2> DEFINE S == {file'[i].sequence : i \in DOMAIN file'}
  <2>1. Highest(S) \in Nat /\ \A i \in 1..c : file'[i].sequence <= Highest(S)
    BY <1>3, <1>4, HighestSequence
  <2>2. writer' = [next_sequence |-> Highest(S) + 1, next_txn |-> 1, bytes |-> c]
    BY <1>3 DEF Reopen
  <2> QED
    BY <2>1, <2>2
<1>7. TypeOK'
  BY <1>1, <1>4, <1>5, <1>6 DEF TypeOK
<1>8. KnownWrites'
  BY <1>1, <1>2, <1>3, <1>4, <1>5 DEF KnownWrites
<1>9. Placed'
  <2> SUFFICES ASSUME NEW w \in 1..Len(writes)
               PROVE  \E m \in {0} \cup GroupSizes :
                          \E first, last \in Nat : Span(w, m, first, last)'
    BY <1>5 DEF Placed
  <2>1. PICK m \in {0} \cup GroupSizes : \E first, last \in Nat : Span(w, m, first, last)
    BY <1>1 DEF Placed
  <2>2. PICK first \in Nat, last \in Nat : Span(w, m, first, last)
    BY <2>1
  <2>3. PICK k \in Nat : k = IF last <= c THEN last ELSE c
    OBVIOUS
  <2>4. k <= c /\ k <= last /\ \A i \in 1..c : i <= k <=> i <= last
    BY <2>3
  <2>5. last <= L /\ last <= first + FrameCount(m) /\ FrameCount(m) \in Nat
    BY <1>2, <2>2, WalAssumption DEF Span, FrameCount
  <2>6. \A i \in 1..c : file'[i].write = w <=> first < i /\ i <= k
    <3> SUFFICES ASSUME NEW i \in 1..c
                 PROVE  file'[i].write = w <=> first < i /\ i <= k
      OBVIOUS
    <3>1. i \in 1..Len(file) /\ file'[i] = file[i]
      BY <1>2, <1>4
    <3>2. file[i].write = w <=> first < i /\ i <= last
      BY <2>2, <3>1 DEF Span
    <3> QED
      BY <2>4, <3>1, <3>2
  <2>7. \A i \in 1..c : first < i /\ i <= k =>
          /\ file'[i].commit <=> m # 0 /\ i = first + m + 1
          /\ file'[i].txn = 0 <=> m = 0
    BY <1>2, <1>4, <2>2, <2>4 DEF Span
  <2>8. \A i, j \in 1..c : first < i /\ i <= k /\ first < j /\ j <= k =>
          file'[i].txn = file'[j].txn
    BY <1>2, <1>4, <2>2, <2>4 DEF Span
  <2>9. writes[w].outcome = "ok" =>
          k = first + FrameCount(m) /\ \A i \in 1..k : file'[i].whole
    <3> SUFFICES ASSUME writes[w].outcome = "ok"
                 PROVE  k = first + FrameCount(m) /\ \A i \in 1..k : file'[i].whole
      OBVIOUS
    <3>1. last = first + FrameCount(m) /\ \A i \in 1..last : file[i].whole
      BY <2>2 DEF Span
    <3>2. last <= c
      BY <1>4, <2>5, <3>1
    <3> QED
      BY <1>4, <2>3, <3>1, <3>2
  <2>10. k <= first + FrameCount(m)
    BY <2>4, <2>5
  <2>11. Span(w, m, first, k)'
    BY <1>3, <1>5, <2>2, <2>4, <2>6, <2>7, <2>8, <2>9, <2>10 DEF Span
  <2> QED
    BY <2>11
<1>10. NoneFailed' <=> NoneFailed
  BY <1>5 DEF NoneFailed
<1>11. Covered' /\ CutIsLast' /\ Refused'
  BY <1>3, <1>4, <1>5, <1>6 DEF Covered, CutIsLast, Refused
<1>12. Ascending'
  <2>1. \A i \in 1..c : file'[i].sequence < writer'.next_sequence
    <3> SUFFICES ASSUME NEW i \in 1..c PROVE file'[i].sequence < h + 1
      BY <1>6
    <3>1. file'[i] \in Item
      BY <1>3, <1>4
    <3>2. file'[i].sequence \in Nat
      BY <3>1 DEF Item
    <3> QED
      BY <1>6, <3>2
  <2>2. NoneFailed => \A i, j \in 1..c : i < j => file'[i].sequence < file'[j].sequence
    BY <1>1, <1>2, <1>4 DEF Ascending
  <2> QED
    BY <1>3, <1>10, <2>1, <2>2 DEF Ascending
<1> QED
  BY <1>7, <1>8, <1>9, <1>11, <1>12 DEF Inv

\* Checkpoint: the log is empty, and no write call waits to be replayed.
LEMMA CheckpointStep ==
    ASSUME Inv, Checkpoint
    PROVE  Inv'
<1>1. TypeOK /\ Placed /\ Covered
  BY DEF Inv
<1>2. PICK W \in Nat : W = Len(writes)
  BY <1>1 DEF TypeOK
<1>3. /\ writes' \in Seq([ops : Nat, outcome : Outcome]) /\ Len(writes') = W
      /\ \A w \in 1..W : writes'[w].ops = writes[w].ops
                         /\ writes'[w].outcome = "checkpointed"
  <2>1. \A w \in 1..W : writes[w] \in [ops : Nat, outcome : Outcome]
    BY <1>1, <1>2, ElementOfSeq DEF TypeOK
  <2>2. "checkpointed" \in Outcome
    BY DEF Outcome
  <2>3. writes' = [w \in 1..W |-> [writes[w] EXCEPT !.outcome = "checkpointed"]]
    BY <1>1, <1>2 DEF Checkpoint, TypeOK
  <2>4. \A w \in 1..W :
          /\ writes'[w] \in [ops : Nat, outcome : Outcome]
          /\ writes'[w].ops = writes[w].ops
          /\ writes'[w].outcome = "checkpointed"
    BY <2>1, <2>2, <2>3
  <2> DEFINE e(w) == [writes[w] EXCEPT !.outcome = "checkpointed"]
  <2>5. \A w \in 1..W : e(w) \in [ops : Nat, outcome : Outcome]
    BY <2>1, <2>2
  <2>6. writes' = [w \in 1..W |-> e(w)]
    BY <2>3
  <2>7. writes' \in Seq([ops : Nat, outcome : Outcome]) /\ Len(writes') = W
    <3> HIDE DEF e
    <3> QED
      BY <2>5, <2>6
  <2> QED
    BY <2>4, <2>7
<1>4. file' = <<>> /\ Len(file') = 0 /\ file' \in Seq(Item)
  BY DEF Checkpoint
<1>5. /\ mode = "open" /\ mode' = mode /\ failures' = failures
      /\ writer' = [writer EXCEPT !.next_txn = 1, !.bytes = 0]
  BY DEF Checkpoint
<1>6. /\ writer' \in [next_sequence : Nat, next_txn : Nat, bytes : Nat]
      /\ writer'.next_txn = 1 /\ writer'.bytes = 0
  BY <1>1, <1>5 DEF TypeOK
<1>7. TypeOK'
  BY <1>1, <1>3, <1>4, <1>5, <1>6 DEF TypeOK
<1>8. Placed'
  <2> SUFFICES ASSUME NEW w \in 1..W
               PROVE  \E m \in {0} \cup GroupSizes :
                          \E first, last \in Nat : Span(w, m, first, last)'
    BY <1>3 DEF Placed
  <2>1. PICK m \in {0} \cup GroupSizes : \E first, last \in Nat : Span(w, m, first, last)
    BY <1>1, <1>2 DEF Placed
  <2>2. writes[w].ops = Size(m) /\ FrameCount(m) \in Nat
    BY <2>1, WalAssumption DEF Span, FrameCount
  <2>3. Span(w, m, 0, 0)'
    BY <1>3, <1>4, <2>2 DEF Span
  <2> QED
    BY <2>3
<1> QED
  BY <1>4, <1>5, <1>6, <1>7, <1>8
  DEF Inv, KnownWrites, Covered, CutIsLast, Refused, Ascending

\* Without a failed append no bytes follow a cut frame, so no scan is Corrupt.
LEMMA CutIsLastFacts == Inv /\ NoneFailed => "Corrupt" \notin Tails(file)
<1> SUFFICES ASSUME Inv, NoneFailed, "Corrupt" \in Tails(file) PROVE FALSE
  OBVIOUS
<1>1. file \in Seq(Item) /\ \A i \in 1..Len(file) : ~file[i].whole => i = Len(file)
  BY DEF Inv, TypeOK, CutIsLast
<1>2. CutItems(file) # {} /\ FirstCut(file) < Len(file)
  BY DEF Tails, BytesAfterCut
<1>3. CutItems(file) \in SUBSET Nat
  BY <1>1 DEF CutItems
<1>4. \E i \in CutItems(file) : \A j \in CutItems(file) : i <= j
  BY <1>2, <1>3, LeastNatural
<1>5. FirstCut(file) \in CutItems(file)
  BY <1>4 DEF FirstCut
<1> QED
  BY <1>1, <1>2, <1>5 DEF CutItems

\* The frames lie where they lay if neither the log nor the calls change.
LEMMA SamePlaces ==
    ASSUME Placed, UNCHANGED <<file, writes>>
    PROVE  Placed'
<1>1. ASSUME NEW w, NEW n, NEW first, NEW last, Span(w, n, first, last)
      PROVE  Span(w, n, first, last)'
  BY <1>1 DEF Span
<1> QED
  BY <1>1 DEF Placed

LEMMA InvInit == Init => Inv
<1> SUFFICES ASSUME Init PROVE Inv
  OBVIOUS
<1>1. file = <<>> /\ Len(file) = 0 /\ writes = <<>> /\ Len(writes) = 0
      /\ file \in Seq(Item) /\ writes \in Seq([ops : Nat, outcome : Outcome])
  BY DEF Init
<1>2. TypeOK
  BY <1>1, WalAssumption DEF Init, TypeOK
<1> QED
  BY <1>1, <1>2 DEF Init, Inv, KnownWrites, Placed, Covered, CutIsLast, Refused, Ascending

LEMMA InvNext == Inv /\ [Next]_vars => Inv'
<1> SUFFICES ASSUME Inv, [Next]_vars PROVE Inv'
  OBVIOUS
<1>1. TypeOK /\ failures \in 0..MaxFailures
      /\ (failures < MaxFailures => failures + 1 \in 0..MaxFailures)
  BY WalAssumption DEF Inv, TypeOK
<1>2. ASSUME NEW n \in {0} \cup GroupSizes, AppendOk(n) PROVE Inv'
  BY <1>1, <1>2, WriteStep DEF AppendOk
<1>3. ASSUME NEW n \in {0} \cup GroupSizes, SyncFails(n) PROVE Inv'
  BY <1>1, <1>3, WriteStep DEF SyncFails
<1>4. ASSUME NEW n \in {0} \cup GroupSizes, AppendMisplaced(n) PROVE Inv'
  <2>1. IsKept(n, Frames(n))
    BY <1>1, FramesFacts
  <2>2. Appended(n, Frames(n), "error")
    BY <1>4 DEF AppendMisplaced, Appended
  <2> QED
    BY <1>1, <1>4, <2>1, <2>2, ErrorStep DEF AppendMisplaced
<1>5. ASSUME NEW n \in {0} \cup GroupSizes, AppendFails(n) PROVE Inv'
  <2>1. PICK kept \in Cut(Frames(n)) : file' = file \o kept
    BY <1>5 DEF AppendFails
  <2>2. IsKept(n, kept)
    BY <1>1, CutFacts
  <2>3. Appended(n, kept, "error")
    BY <1>5, <2>1 DEF AppendFails, Appended
  <2> QED
    BY <1>1, <1>5, <2>2, <2>3, ErrorStep DEF AppendFails
<1>6. ASSUME NEW n \in {0} \cup GroupSizes, KilledInAppend(n) PROVE Inv'
  BY <1>6, KilledInAppendStep
<1>7. CASE Killed
  <2>1. mode' = "down" /\ failures' \in 0..MaxFailures
        /\ UNCHANGED <<file, writer, writes>>
    BY <1>1, <1>7 DEF Killed
  <2> QED
    <3>1. TypeOK' /\ KnownWrites'
      BY <2>1 DEF Inv, TypeOK, KnownWrites
    <3>2. Placed'
      BY <2>1, SamePlaces DEF Inv
    <3>3. NoneFailed' <=> NoneFailed
      BY <2>1 DEF NoneFailed
    <3>4. Covered' /\ CutIsLast' /\ Refused' /\ Ascending'
      BY <2>1, <3>3 DEF Inv, Covered, CutIsLast, Refused, Ascending
    <3> QED
      BY <3>1, <3>2, <3>4 DEF Inv
<1>8. CASE Reopen
  BY <1>8, ReopenStep
<1>9. CASE Checkpoint
  BY <1>9, CheckpointStep
<1>10. CASE OpenRefused
  <2>1. "Corrupt" \in Tails(file) /\ mode' = "refused"
        /\ UNCHANGED <<file, writer, writes, failures>>
    BY <1>10 DEF OpenRefused
  <2>2. ~NoneFailed /\ (NoneFailed' <=> NoneFailed)
    BY <2>1, CutIsLastFacts DEF NoneFailed
  <2>3. Placed'
    BY <2>1, SamePlaces DEF Inv
  <2>4. TypeOK' /\ KnownWrites'
    BY <2>1 DEF Inv, TypeOK, KnownWrites
  <2> QED
    BY <2>1, <2>2, <2>3, <2>4 DEF Inv, Covered, CutIsLast, Refused, Ascending
<1>11. CASE UNCHANGED vars
  <2>1. UNCHANGED <<file, mode, writer, writes, failures>>
    BY <1>11 DEF vars
  <2>2. NoneFailed' <=> NoneFailed
    BY <2>1 DEF NoneFailed
  <2>3. Placed'
    BY <2>1, SamePlaces DEF Inv
  <2> QED
    BY <2>1, <2>2, <2>3
    DEF Inv, TypeOK, KnownWrites, Covered, CutIsLast, Refused, Ascending
<1> QED
  BY <1>2, <1>3, <1>4, <1>5, <1>6, <1>7, <1>8, <1>9, <1>10, <1>11 DEF Next

LEMMA Invariance == Spec => []Inv
  BY InvInit, InvNext, PTL DEF Spec

-------------------------------------------------------------------------------
(* What a replay finds. *)

\* The frames of a write call that a replay applies, from where they lie.
LEMMA ReplayedFacts ==
    ASSUME TypeOK, NEW w, NEW n \in {0} \cup GroupSizes,
           NEW first \in Nat, NEW last \in Nat, Span(w, n, first, last)
    PROVE  /\ writes[w].outcome = "ok" => Replayed(w) = writes[w].ops
           /\ Replayed(w) \notin {0, writes[w].ops} =>
                \E i, j \in 1..Len(file) :
                    /\ file[i].write = w
                    /\ file[j].write # w /\ file[j].commit
                    /\ file[j].txn = file[i].txn
<1> DEFINE log == Scan(file)
           R == {i \in Committed(log) : file[i].write = w}
<1>1. PICK c \in Nat : c = Len(log)
  BY ScanFacts DEF TypeOK
<1>2. PICK L \in Nat : L = Len(file)
  BY DEF TypeOK
<1>3. /\ DOMAIN log = 1..c /\ c <= L
      /\ \A i \in 1..c : log[i] = file[i] /\ file[i].whole
      /\ c < L => ~file[c + 1].whole
  BY <1>1, <1>2, ScanFacts DEF TypeOK
<1>4. PICK k \in Nat : k = IF last <= c THEN last ELSE c
  OBVIOUS
<1>5. /\ last <= L /\ last <= first + FrameCount(n)
      /\ \A i \in 1..L : file[i].write = w <=> first < i /\ i <= last
      /\ \A i \in 1..L : first < i /\ i <= last =>
           /\ file[i].commit <=> n # 0 /\ i = first + n + 1
           /\ file[i].txn = 0 <=> n = 0
      /\ \A i, j \in 1..L : first < i /\ i <= last /\ first < j /\ j <= last =>
           file[i].txn = file[j].txn
      /\ writes[w].ops = Size(n)
  BY <1>2 DEF Span
<1>6. n \in Nat
  BY WalAssumption
<1>7. k <= c /\ k <= last /\ \A i \in 1..c : i <= k <=> i <= last
  BY <1>4
<1>8. \A i : i \in R <=>
        /\ i \in 1..k /\ first < i
        /\ ~file[i].commit
        /\ file[i].txn = 0 \/ file[i].txn \in CommittedTxns(log)
  <2> SUFFICES ASSUME NEW i
               PROVE  i \in R <=> /\ i \in 1..k /\ first < i
                                  /\ ~file[i].commit
                                  /\ file[i].txn = 0 \/ file[i].txn \in CommittedTxns(log)
    BY Zenon
  <2> HIDE DEF log
  <2>1. i \in R <=> /\ i \in 1..c /\ file[i].write = w
                    /\ ~file[i].commit
                    /\ file[i].txn = 0 \/ file[i].txn \in CommittedTxns(log)
    BY <1>3 DEF Committed
  <2>2. i \in 1..c /\ file[i].write = w <=> i \in 1..k /\ first < i
    <3>1. i \in 1..k => i \in 1..c
      BY <1>7
    <3>2. i \in 1..c => (file[i].write = w <=> first < i /\ i <= last)
      BY <1>3, <1>5
    <3>3. i \in 1..c => (i <= last <=> i \in 1..k)
      BY <1>7
    <3> QED
      BY <3>1, <3>2, <3>3
  <2> QED
    BY <2>1, <2>2
<1>9. \A t : t \in CommittedTxns(log) <=> \E j \in 1..c : file[j].commit /\ t = file[j].txn
  BY <1>3 DEF CommittedTxns
<1>10. Replayed(w) = Cardinality(R)
  BY DEF Replayed
<1> HIDE DEF R, log
<1>11. CASE n = 0
  <2>1. R = (first + 1)..k
    <3>1. \A i \in 1..k : first < i => ~file[i].commit /\ file[i].txn = 0
      BY <1>3, <1>5, <1>7, <1>11
    <3>2. \A i : i \in R <=> i \in (first + 1)..k
      BY <1>8, <3>1
    <3> QED
      BY <3>2, Zenon
  <2>2. k <= first + 1 /\ writes[w].ops = 1
    BY <1>5, <1>7, <1>11 DEF FrameCount, Size
  <2>3. Cardinality(R) = IF k = first + 1 THEN 1 ELSE 0
    <3>1. Cardinality((first + 1)..k) = IF first + 1 > k THEN 0 ELSE k - (first + 1) + 1
      BY FS_Interval
    <3> QED
      BY <2>1, <2>2, <3>1
  <2>4. writes[w].outcome = "ok" => k = first + 1
    <3> SUFFICES ASSUME writes[w].outcome = "ok" PROVE k = first + 1
      OBVIOUS
    <3>1. last = first + 1 /\ \A i \in 1..last : file[i].whole
      BY <1>11 DEF Span, FrameCount
    <3> QED
      BY <1>3, <1>4, <1>5, <3>1
  <2> QED
    BY <1>10, <2>2, <2>3, <2>4
<1>12. CASE n # 0
  <2>1. writes[w].ops = n /\ FrameCount(n) = n + 1
    BY <1>5, <1>12 DEF Size, FrameCount
  <2>2. CASE k = first + n + 1
    <3>1. k \in 1..c /\ file[k].commit
      BY <1>3, <1>5, <1>6, <1>7, <1>12, <2>2
    <3>2. R = (first + 1)..(first + n)
      <4>1. \A i \in (first + 1)..k : file[i].txn \in CommittedTxns(log)
        BY <1>3, <1>5, <1>6, <1>7, <1>9, <1>12, <2>2, <3>1
      <4>2. \A i \in (first + 1)..k : ~file[i].commit <=> i # k
        BY <1>3, <1>5, <1>6, <1>7, <1>12, <2>2
      <4>3. ASSUME NEW i PROVE i \in R <=> i \in (first + 1)..(first + n)
        <5>1. i \in 1..k /\ first < i <=> i \in (first + 1)..k
          OBVIOUS
        <5>2. i \in R <=> i \in (first + 1)..k /\ i # k
          BY <1>8, <4>1, <4>2, <5>1
        <5> QED
          BY <1>6, <2>2, <5>2
      <4> QED
        BY <4>3, Zenon
    <3>3. Cardinality(R) = n
      BY <1>6, <1>12, <3>2, FS_Interval
    <3> QED
      BY <1>10, <2>1, <3>3
  <2>3. CASE k # first + n + 1
    <3>1. k <= first + n
      BY <1>5, <1>6, <1>7, <2>1, <2>3
    <3>2. writes[w].outcome # "ok"
      <4> SUFFICES ASSUME writes[w].outcome = "ok" PROVE FALSE
        OBVIOUS
      <4>1. last = first + FrameCount(n) /\ \A i \in 1..last : file[i].whole
        BY DEF Span
      <4> QED
        BY <1>3, <1>4, <1>5, <1>6, <2>1, <2>3, <4>1
    <3>3. CASE R = {}
      BY <1>10, <3>2, <3>3, FS_EmptySet
    <3>4. CASE R # {}
      <4>1. PICK i \in R : TRUE
        BY <3>4
      <4>2. i \in 1..L /\ first < i /\ i <= k /\ file[i].write = w
        BY <1>3, <1>5, <1>7, <1>8
      <4>3. file[i].txn # 0
        BY <1>5, <1>7, <1>12, <4>2
      <4>4. PICK j \in 1..c : file[j].commit /\ file[i].txn = file[j].txn
        BY <1>8, <1>9, <4>3
      <4>5. file[j].write # w
        BY <1>3, <1>5, <1>6, <1>7, <3>1, <4>4
      <4> QED
        BY <1>2, <1>3, <3>2, <4>2, <4>4, <4>5
    <3> QED
      BY <3>3, <3>4
  <2> QED
    BY <2>2, <2>3
<1> QED
  BY <1>11, <1>12

-------------------------------------------------------------------------------
(* The theorems. *)

\* The log's items, the writer's counters and the outcomes stay well formed
\* under every append, failure, kill, repair and checkpoint.
THEOREM TypeCorrect == Spec => []TypeOK
<1>1. Inv => TypeOK
  BY DEF Inv
<1> QED
  BY <1>1, Invariance, PTL

\* For every write that returned Ok, an open that does not refuse the log
\* replays exactly its operations, in whatever order later appends fail, the
\* process is killed and the tail is repaired; and it may refuse the log only if
\* an append failed since the last checkpoint.
THEOREM AcknowledgedWritesReplay == Spec => []AckedReplayed
<1>1. Inv => AckedReplayed
  <2> SUFFICES ASSUME Inv, NEW tail \in Tails(file)
               PROVE  IF tail = "Corrupt"
                      THEN ~NoneFailed
                      ELSE \A w \in DOMAIN writes :
                               writes[w].outcome = "ok" => Replayed(w) = writes[w].ops
    BY DEF AckedReplayed
  <2>1. tail = "Corrupt" => ~NoneFailed
    BY CutIsLastFacts
  <2>2. ASSUME NEW w \in DOMAIN writes, writes[w].outcome = "ok"
        PROVE  Replayed(w) = writes[w].ops
    <3>1. TypeOK /\ DOMAIN writes = 1..Len(writes)
      BY DEF Inv, TypeOK
    <3>2. PICK n \in {0} \cup GroupSizes : \E first, last \in Nat : Span(w, n, first, last)
      BY <2>2, <3>1 DEF Inv, Placed
    <3> QED
      BY <2>2, <3>1, <3>2, ReplayedFacts
  <2> QED
    BY <2>1, <2>2
<1> QED
  BY <1>1, Invariance, PTL

\* Sequence numbers ascend strictly through the file as long as no append
\* failed: reopening continues after the highest frame it kept.
THEOREM SequencesStayAscending == Spec => []SequencesAscend
<1>1. Inv => SequencesAscend
  BY DEF Inv, TypeOK, Ascending, SequencesAscend
<1> QED
  BY <1>1, Invariance, PTL

\* Kills alone never make an open report corruption: a cut frame is the last one.
THEOREM KillsNeverCorrupt == Spec => []NeverCorrupt
<1>1. Inv => NeverCorrupt
  BY CutIsLastFacts DEF NeverCorrupt, Inv, Refused
<1> QED
  BY <1>1, Invariance, PTL

\* The only way to replay part of a batch is the reuse of its transaction
\* number by a batch that did commit: WalWriter::open starts again at 1.
THEOREM HalfBatchesNeedReuse == Spec => []HalfBatchNeedsReuse
<1>1. Inv => HalfBatchNeedsReuse
  <2> SUFFICES ASSUME Inv, NEW w \in DOMAIN writes, Replayed(w) \notin {0, writes[w].ops}
               PROVE  \E i, j \in DOMAIN file :
                          /\ file[i].write = w
                          /\ file[j].write # w /\ file[j].commit
                          /\ file[j].txn = file[i].txn
    BY DEF HalfBatchNeedsReuse
  <2>1. TypeOK /\ DOMAIN writes = 1..Len(writes) /\ DOMAIN file = 1..Len(file)
    BY DEF Inv, TypeOK
  <2>2. PICK n \in {0} \cup GroupSizes : \E first, last \in Nat : Span(w, n, first, last)
    BY <2>1 DEF Inv, Placed
  <2>3. PICK first \in Nat, last \in Nat : Span(w, n, first, last)
    BY <2>2
  <2> QED
    BY <2>1, <2>3, ReplayedFacts
<1> QED
  BY <1>1, Invariance, PTL
===============================================================================
