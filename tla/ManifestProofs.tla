---------------------------- MODULE ManifestProofs ----------------------------
(***************************************************************************)
(* Proofs about ManifestStore for any set of roots and any number of       *)
(* commits: the two slot files always hold a root that load finds, and no  *)
(* failure takes it back.                                                  *)
(*                                                                         *)
(* The results about failures need PowerAlone: where power may be lost,    *)
(* the process is not killed on its own.  Otherwise load may adopt a slot  *)
(* that the dead process had not synced, and ReturnedCommitSurvives fails. *)
(***************************************************************************)
EXTENDS ManifestStore, TLAPS

PowerAlone == \A F \in FaultSets : "power" \in F => F = {"power"}

-------------------------------------------------------------------------------
(* The inductive invariant. *)

\* The contents slot s may be found with by the next open.
Found(s) == {live[s]} \cup (IF "power" \in faults THEN disk[s] ELSE {})

\* Whatever decodes has been numbered by create or commit.
Numbered == \A s \in Slot : \A c \in Found(s) :
    IsValid(c) => c.manifest.sequence > 0

\* A content of the other slot that load may prefer to the root in force is
\* one of the attempts since.
Yields(c) ==
    IsValid(c) =>
        /\ c.manifest.sequence # acked.sequence
        /\ c.manifest.sequence > acked.sequence => c.manifest \in attempts

\* Slot s holds the root in force, on stable storage if that matters.
Holds(s) ==
    /\ Found(s) = {Valid(acked)}
    /\ \A c \in Found(Other(s)) : Yields(c)

\* Before the first commit returns only slot A has been written.
Fresh ==
    /\ Found("B") = {Missing}
    /\ \A c \in Found("A") : IsValid(c) => c.manifest \in attempts
    /\ mode = "open" => pc # "idle" /\ store.slot = "B"

InForce ==
    /\ acked.sequence > 0
    /\ mode = "open" => store.current = acked /\ Holds(store.slot)
    /\ mode = "down" => \E s \in Slot : Holds(s)

\* The manifest being written.
Writing ==
    pc # "idle" =>
        /\ next \in attempts
        /\ next.sequence = acked.sequence + 1
        /\ pc = "write" => live[Target] = Missing
        /\ pc = "sync" => live[Target] = Valid(next)

\* Nothing is pending while no store is open.
AtRest ==
    mode = "down" =>
        /\ pc = "idle"
        /\ "power" \in faults => \A s \in Slot : disk[s] = {live[s]}

Inv ==
    /\ TypeOK
    /\ Numbered
    /\ acked = NoManifest => Fresh
    /\ acked # NoManifest => InForce
    /\ Writing
    /\ AtRest

-------------------------------------------------------------------------------
(* Types. *)

LEMMA ContentFacts ==
    /\ NoManifest \in Manifest
    /\ Missing \in Content
    /\ Torn \in Content
    /\ \A m \in Manifest : Valid(m) \in Content
    /\ \A s \in Slot : Other(s) \in Slot
  BY RootsAssumption
  DEF NoManifest, Manifest, Missing, Torn, Valid, Content, Slot, Other

\* scan_slots picks a slot, and its manifest is well formed.
LEMMA ChosenType ==
    ASSUME NEW files \in [Slot -> Content]
    PROVE  /\ ScanSlots(files) \in Slot
           /\ ChosenManifest(files) \in Manifest
  BY DEF ScanSlots, ChosenManifest, Slot, Content

LEMMA TypeInit == Init => TypeOK
<1> SUFFICES ASSUME Init PROVE TypeOK
  OBVIOUS
<1>1. live \in [Slot -> Content] /\ disk \in [Slot -> SUBSET Content]
  BY ContentFacts DEF Init
<1>2. store \in [current : Manifest, slot : Slot]
  BY ContentFacts DEF Init, Slot
<1> QED
  BY <1>1, <1>2, ContentFacts DEF Init, TypeOK

LEMMA TypeNext == TypeOK /\ [Next]_vars => TypeOK'
<1> SUFFICES ASSUME TypeOK, [Next]_vars PROVE TypeOK'
  OBVIOUS
<1> USE DEF TypeOK
<1>1. CASE Load
  BY <1>1, ChosenType DEF Load
<1>2. CASE Create
  <2>1. [sequence |-> 1, root |-> EmptyRoot] \in Manifest
    BY RootsAssumption DEF Manifest
  <2> QED
    BY <1>2, <2>1 DEF Create, Slot
<1>3. ASSUME NEW root \in Roots, BeginCommit(root) PROVE TypeOK'
  <2>1. [sequence |-> store.current.sequence + 1, root |-> root] \in Manifest
    BY DEF Manifest
  <2> QED
    BY <1>3, <2>1 DEF BeginCommit
<1>4. CASE TruncateSlot
  BY <1>4, ContentFacts DEF TruncateSlot, Target
<1>5. CASE WriteSlot
  <2>1. Target \in Slot /\ Valid(next) \in Content /\ Torn \in Content
    BY ContentFacts DEF Target
  <2>2. live' \in [Slot -> Content] /\ disk' \in [Slot -> SUBSET Content]
    BY <1>5, <2>1 DEF WriteSlot
  <2> QED
    BY <1>5, <2>2 DEF WriteSlot
<1>6. CASE SyncSlot
  <2>1. Target \in Slot
    BY ContentFacts DEF Target
  <2>2. disk' \in [Slot -> SUBSET Content]
    BY <1>6, <2>1 DEF SyncSlot
  <2> QED
    BY <1>6, <2>1, <2>2 DEF SyncSlot
<1>7. Target \in Slot /\ Interrupted \subseteq [Slot -> Content]
  BY ContentFacts DEF Target, Interrupted
<1>8. CASE IoError
  BY <1>8, <1>7 DEF IoError
<1>9. CASE Crash
  BY <1>9, <1>7 DEF Crash
<1>10. CASE PowerLoss
  <2>1. PICK a \in Surviving("A"), b \in Surviving("B") :
          /\ live' = Files(a, b)
          /\ disk' = [s \in Slot |-> {Files(a, b)[s]}]
    BY <1>10 DEF PowerLoss
  <2>2. a \in Content /\ b \in Content
    BY <2>1, ContentFacts DEF Surviving, Slot
  <2>3. Files(a, b) \in [Slot -> Content]
    BY <2>2 DEF Files, Slot
  <2> QED
    BY <1>10, <2>1, <2>3 DEF PowerLoss
<1>11. CASE UNCHANGED vars
  BY <1>11 DEF vars
<1> QED
  BY <1>1, <1>2, <1>3, <1>4, <1>5, <1>6, <1>8, <1>9, <1>10, <1>11 DEF Next

\* In every state of every behaviour the store, the slot files and the write
\* in progress are well formed.
THEOREM TypeCorrect == Spec => []TypeOK
  BY TypeInit, TypeNext, PTL DEF Spec

-------------------------------------------------------------------------------
(* The invariant is inductive. *)

LEMMA ContentCases ==
    /\ ~IsValid(Missing) /\ ~IsValid(Torn)
    /\ \A m \in Manifest : IsValid(Valid(m)) /\ Valid(m).manifest = m
    /\ \A c \in Content : IsValid(c) => c = Valid(c.manifest)
    /\ \A s \in Slot : Other(s) # s /\ Other(Other(s)) = s
    /\ \A s, t \in Slot : t = s \/ t = Other(s)
  BY DEF IsValid, Missing, Torn, Valid, Content, Slot, Other

LEMMA FoundType == TypeOK => \A s \in Slot : Found(s) \subseteq Content
  BY DEF TypeOK, Found

\* scan_slots: what it picks decodes, and nothing that decodes is newer.
LEMMA ChosenIsNewest ==
    ASSUME NEW files \in [Slot -> Content], Readable(files)
    PROVE  /\ IsValid(files[ScanSlots(files)])
           /\ LET other == files[Other(ScanSlots(files))] IN
              IsValid(other) =>
                other.manifest.sequence <= ChosenManifest(files).sequence
<1>1. \A s \in Slot : files[s].manifest.sequence \in Nat
  BY DEF Content, Manifest
<1> QED
  BY <1>1 DEF Readable, ScanSlots, ChosenManifest, Other, Slot

\* Two slots in files that a failure may have left never tie.
LEMMA FoundDiffer ==
    ASSUME Inv, NEW a \in Found("A"), NEW b \in Found("B"),
           IsValid(a), IsValid(b)
    PROVE  a.manifest.sequence # b.manifest.sequence
<1>1. acked # NoManifest
  BY ContentCases DEF Inv, Fresh
<1>2. \E s \in Slot : Holds(s)
  BY <1>1 DEF Inv, TypeOK, InForce
<1>3. PICK s \in Slot : Holds(s)
  BY <1>2
<1>4. acked \in Manifest
  BY DEF Inv, TypeOK
<1> QED
  BY <1>3, <1>4, ContentCases DEF Holds, Yields, Slot, Other

LEMMA InvInit == Init => Inv
<1> SUFFICES ASSUME Init PROVE Inv
  OBVIOUS
<1>1. TypeOK
  BY TypeInit
<1>2. \A s \in Slot : Found(s) = {Missing}
  BY DEF Init, Found
<1>3. Numbered /\ Fresh
  BY <1>2, ContentCases DEF Numbered, Fresh, Init, Slot
<1>4. Writing /\ AtRest
  BY DEF Init, Writing, AtRest
<1> QED
  BY <1>1, <1>3, <1>4 DEF Inv, Init

\* A step that touches only the slot being written, and leaves in it nothing
\* but what was there, an empty or torn file, or the manifest being written,
\* does not disturb the root in force.
LEMMA TargetStep ==
    ASSUME Inv, mode = "open", TypeOK',
           UNCHANGED <<faults, acked, attempts, store>>,
           pc # "idle",
           \A c \in Found(store.slot)' : c \in Found(store.slot),
           \A c \in Found(Target)' :
               c \in Found(Target) \cup {Missing, Torn, Valid(next)}
    PROVE  /\ Numbered'
           /\ acked = NoManifest =>
                /\ (Found("B") = {Missing})'
                /\ (\A c \in Found("A") : IsValid(c) => c.manifest \in attempts)'
           /\ acked # NoManifest => (acked.sequence > 0 /\ Holds(store.slot))'
<1> DEFINE S == store.slot
<1>1. S \in Slot /\ Target \in Slot /\ Target # S /\ Target = Other(S)
      /\ S = Other(Target) /\ acked \in Manifest /\ next \in Manifest
  BY ContentFacts, ContentCases DEF Inv, TypeOK, Target
<1>2. next \in attempts /\ next.sequence = acked.sequence + 1
      /\ acked.sequence \in Nat
  BY <1>1 DEF Inv, Writing, Manifest
<1>3. \A c \in Found(Target)' :
        c \in Found(Target) \/ ~IsValid(c) \/ c = Valid(next)
  BY ContentCases
<1>4. IsValid(Valid(next)) /\ Valid(next).manifest = next
  BY <1>1, ContentCases
<1>5. \A t \in Slot : t = S \/ t = Target
  BY <1>1, ContentCases
<1>6. Numbered'
  <2>1. \A c \in Found(S)' : IsValid(c) => c.manifest.sequence > 0
    BY <1>1 DEF Inv, Numbered
  <2>2. \A c \in Found(Target)' : IsValid(c) => c.manifest.sequence > 0
    BY <1>1, <1>2, <1>3, <1>4 DEF Inv, Numbered
  <2>3. \A t \in Slot : \A c \in Found(t)' :
          IsValid(c) => c.manifest.sequence > 0
    BY <1>5, <2>1, <2>2 DEF Target
  <2> QED
    BY <2>3 DEF Numbered
<1>7. ASSUME acked = NoManifest
      PROVE /\ (Found("B") = {Missing})'
            /\ (\A c \in Found("A") : IsValid(c) => c.manifest \in attempts)'
  <2>1. S = "B" /\ Target = "A" /\ Found("B") = {Missing}
        /\ \A c \in Found("A") : IsValid(c) => c.manifest \in attempts
    BY <1>7 DEF Inv, Fresh, Target, Other
  <2>2. Found("B")' # {}
    BY DEF Found
  <2>3. Found("B")' = {Missing}
    BY <2>1, <2>2
  <2>4. \A c \in Found(Target)' : IsValid(c) => c.manifest \in attempts
    BY <1>2, <1>3, <1>4, <2>1
  <2>5. Target' = "A"
    BY <2>1 DEF Target
  <2> QED
    BY <2>3, <2>4, <2>5
<1>8. ASSUME acked # NoManifest
      PROVE (acked.sequence > 0 /\ Holds(store.slot))'
  <2>1. acked.sequence > 0 /\ Holds(S)
    BY <1>8 DEF Inv, InForce
  <2>2. Found(S)' # {}
    BY DEF Found
  <2>3. Found(S)' = {Valid(acked)}
    BY <2>1, <2>2 DEF Holds
  <2>4. \A c \in Found(Target)' : Yields(c)
    BY <1>1, <1>2, <1>3, <1>4, <2>1 DEF Holds, Yields
  <2> QED
    BY <2>1, <2>3, <2>4 DEF Holds, Yields, Target
<1> QED
  BY <1>6, <1>7, <1>8

LEMMA InvNext == PowerAlone /\ Inv /\ [Next]_vars => Inv'
<1> SUFFICES ASSUME PowerAlone, Inv, [Next]_vars PROVE Inv'
  OBVIOUS
<1>1. TypeOK /\ TypeOK'
  BY TypeNext DEF Inv
<1>2. CASE Load
  <2> DEFINE c == ScanSlots(live)
             m == ChosenManifest(live)
  <2>1. mode = "down" /\ mode' = "open" /\ pc' = "idle" /\ Readable(live)
        /\ store' = [current |-> m, slot |-> c] /\ acked' = m /\ attempts' = {}
        /\ faults' = faults /\ live' = live /\ disk' = disk
    BY <1>2 DEF Load
  <2>2. c \in Slot /\ Other(c) \in Slot /\ m \in Manifest
        /\ live \in [Slot -> Content]
    BY <1>1, ChosenType, ContentFacts DEF TypeOK
  <2>3. \A s \in Slot : Found(s) = {live[s]} /\ Found(s)' = {live[s]}
    BY <2>1 DEF Inv, AtRest, Found
  <2>4. IsValid(live[c]) /\ live[c] = Valid(m)
    BY <2>1, <2>2, ChosenIsNewest, ContentCases DEF ChosenManifest
  <2>5. m.sequence \in Nat /\ m.sequence > 0 /\ m # NoManifest
    BY <2>2, <2>3, <2>4 DEF Inv, Numbered, ChosenManifest, Manifest, NoManifest
  <2>6. IsValid(live[Other(c)]) =>
          /\ live[Other(c)].manifest.sequence \in Nat
          /\ live[Other(c)].manifest.sequence < m.sequence
    <3>1. ASSUME IsValid(live[Other(c)])
          PROVE  live[Other(c)].manifest.sequence # m.sequence
      BY <3>1, <2>2, <2>3, <2>4, FoundDiffer DEF ChosenManifest, Slot, Other
    <3>2. live[Other(c)].manifest.sequence \in Nat
      BY <2>2 DEF Content, Manifest
    <3> QED
      BY <3>1, <3>2, <2>1, <2>2, <2>5, ChosenIsNewest
  <2>7. Holds(c)'
    BY <2>1, <2>2, <2>3, <2>4, <2>5, <2>6 DEF Holds, Yields
  <2>8. InForce'
    BY <2>1, <2>5, <2>7 DEF InForce
  <2>9. Numbered'
    BY <2>3 DEF Inv, Numbered
  <2> QED
    BY <1>1, <2>1, <2>5, <2>8, <2>9 DEF Inv, Writing, AtRest
<1>3. CASE Create
  <2>1. mode = "down" /\ mode' = "open" /\ NeverCommitted(live)
        /\ store'.slot = "B" /\ next' = [sequence |-> 1, root |-> EmptyRoot]
        /\ attempts' = attempts \cup {next'} /\ pc' = "truncate"
        /\ faults' = faults /\ live' = live /\ disk' = disk /\ acked' = acked
    BY <1>3 DEF Create, EmptyDatabase
  <2>2. \A s \in Slot : Found(s) = {Missing} /\ Found(s)' = {Missing}
    BY <2>1 DEF Inv, AtRest, Found, NeverCommitted
  <2>3. acked = NoManifest
    BY <1>1, <2>1, <2>2, ContentCases DEF Inv, InForce, Holds, TypeOK
  <2>4. Numbered' /\ Fresh'
    BY <2>1, <2>2, ContentCases DEF Numbered, Fresh, Slot
  <2>5. Writing' /\ AtRest'
    BY <2>1, <2>3 DEF Writing, AtRest, NoManifest
  <2> QED
    BY <1>1, <2>1, <2>3, <2>4, <2>5 DEF Inv
<1>4. ASSUME NEW root \in Roots, BeginCommit(root) PROVE Inv'
  <2>1. mode = "open" /\ mode' = "open" /\ pc = "idle" /\ pc' = "truncate"
        /\ next' = [sequence |-> store.current.sequence + 1, root |-> root]
        /\ attempts' = attempts \cup {next'}
        /\ faults' = faults /\ live' = live /\ disk' = disk
        /\ acked' = acked /\ store' = store
    BY <1>4 DEF BeginCommit
  <2>2. acked # NoManifest /\ InForce
    BY <2>1 DEF Inv, Fresh
  <2>3. \A s \in Slot : Found(s)' = Found(s)
    BY <2>1 DEF Found
  <2>4. store.slot \in Slot /\ Other(store.slot) \in Slot
    BY <1>1, ContentFacts DEF TypeOK
  <2>5. InForce'
    BY <2>1, <2>2, <2>3, <2>4 DEF InForce, Holds, Yields
  <2>6. Numbered'
    BY <2>3 DEF Inv, Numbered
  <2>7. Writing' /\ AtRest'
    BY <2>1, <2>2 DEF Writing, AtRest, InForce
  <2> QED
    BY <1>1, <2>1, <2>2, <2>5, <2>6, <2>7 DEF Inv
<1>5. store.slot \in Slot /\ Target \in Slot /\ Target # store.slot
      /\ Other(Target) = store.slot
  BY <1>1, ContentFacts, ContentCases DEF TypeOK, Target
<1>6. CASE TruncateSlot
  <2>1. mode = "open" /\ mode' = "open" /\ pc = "truncate" /\ pc' = "write"
        /\ live' = [live EXCEPT ![Target] = Missing]
        /\ disk' = [disk EXCEPT ![Target] = @ \cup {Missing}]
        /\ UNCHANGED <<faults, acked, attempts, store, next>>
    BY <1>6 DEF TruncateSlot
  <2>2. Target' = Target
    BY <2>1 DEF Target
  <2>3. Found(store.slot)' = Found(store.slot)
        /\ Found(Target)' \subseteq Found(Target) \cup {Missing}
        /\ live'[Target] = Missing
    BY <1>1, <1>5, <2>1, <2>2 DEF TypeOK, Found
  <2>4. /\ Numbered'
        /\ acked = NoManifest =>
             /\ (Found("B") = {Missing})'
             /\ (\A c \in Found("A") : IsValid(c) => c.manifest \in attempts)'
        /\ acked # NoManifest => (acked.sequence > 0 /\ Holds(store.slot))'
    BY <1>1, <2>1, <2>3, TargetStep
  <2>5. acked' = NoManifest => Fresh'
    BY <2>1, <2>4 DEF Fresh, Inv
  <2>6. acked' # NoManifest => InForce'
    BY <2>1, <2>4 DEF InForce, Inv
  <2>7. Writing' /\ AtRest'
    BY <2>1, <2>2, <2>3 DEF Writing, AtRest, Inv
  <2> QED
    BY <1>1, <2>4, <2>5, <2>6, <2>7 DEF Inv
<1>7. CASE WriteSlot
  <2>1. mode = "open" /\ mode' = "open" /\ pc = "write" /\ pc' = "sync"
        /\ live' = [live EXCEPT ![Target] = Valid(next)]
        /\ disk' = [disk EXCEPT ![Target] = @ \cup {Torn, Valid(next)}]
        /\ UNCHANGED <<faults, acked, attempts, store, next>>
    BY <1>7 DEF WriteSlot
  <2>2. Target' = Target
    BY <2>1 DEF Target
  <2>3. Found(store.slot)' = Found(store.slot)
        /\ Found(Target)' \subseteq Found(Target) \cup {Torn, Valid(next)}
        /\ live'[Target] = Valid(next)
    BY <1>1, <1>5, <2>1, <2>2 DEF TypeOK, Found
  <2>4. /\ Numbered'
        /\ acked = NoManifest =>
             /\ (Found("B") = {Missing})'
             /\ (\A c \in Found("A") : IsValid(c) => c.manifest \in attempts)'
        /\ acked # NoManifest => (acked.sequence > 0 /\ Holds(store.slot))'
    BY <1>1, <2>1, <2>3, TargetStep
  <2>5. acked' = NoManifest => Fresh'
    BY <2>1, <2>4 DEF Fresh, Inv
  <2>6. acked' # NoManifest => InForce'
    BY <2>1, <2>4 DEF InForce, Inv
  <2>7. Writing' /\ AtRest'
    BY <2>1, <2>2, <2>3 DEF Writing, AtRest, Inv
  <2> QED
    BY <1>1, <2>4, <2>5, <2>6, <2>7 DEF Inv
<1>8. CASE SyncSlot
  <2>1. mode = "open" /\ mode' = "open" /\ pc = "sync" /\ pc' = "idle"
        /\ disk' = [disk EXCEPT ![Target] = {live[Target]}] /\ live' = live
        /\ store' = [current |-> next, slot |-> Target]
        /\ acked' = next /\ attempts' = {} /\ faults' = faults
    BY <1>8 DEF SyncSlot
  <2>2. live[Target] = Valid(next) /\ next.sequence = acked.sequence + 1
        /\ acked \in Manifest /\ next \in Manifest /\ acked.sequence \in Nat
    BY <1>1, <2>1 DEF Inv, Writing, TypeOK, Manifest
  <2>3. next.sequence > 0 /\ next # NoManifest
    BY <2>2 DEF NoManifest
  <2>4. \A c \in Found(store.slot) :
          IsValid(c) => c.manifest.sequence = acked.sequence
    BY <2>1, <2>2, ContentCases DEF Inv, Fresh, InForce, Holds
  <2>5. \A t \in Slot :
          /\ t = Target => Found(t)' = {Valid(next)}
          /\ t = store.slot => Found(t)' = Found(t)
    BY <1>1, <1>5, <2>1, <2>2 DEF TypeOK, Found
  <2>6. (\A c \in Found(store.slot) : Yields(c)')
    BY <2>1, <2>2, <2>4 DEF Yields
  <2>7. Holds(store.slot)'
    BY <1>5, <2>1, <2>5, <2>6 DEF Holds, Yields
  <2>8. InForce'
    BY <2>1, <2>3, <2>7 DEF InForce
  <2>9. Numbered'
    BY <1>5, <2>2, <2>3, <2>5, ContentCases DEF Inv, Numbered
  <2> QED
    BY <1>1, <2>1, <2>3, <2>8, <2>9 DEF Inv, Writing, AtRest
<1>9. ASSUME "power" \notin faults, mode = "open",
             live' \in Interrupted, pc' = "idle",
             UNCHANGED <<faults, store, next, acked, attempts>>,
             mode' = "open" => acked # NoManifest
      PROVE  Inv'
  <2>1. \A s \in Slot : Found(s) = {live[s]} /\ Found(s)' = {live'[s]}
    BY <1>9 DEF Found
  <2>2. live'[store.slot] = live[store.slot]
        /\ live'[Target] \in {live[Target], Torn}
    BY <1>1, <1>5, <1>9 DEF TypeOK, Interrupted
  <2>3. Target' = Target
    BY <1>9 DEF Target
  <2>4. Writing' /\ AtRest'
    BY <1>9 DEF Writing, AtRest
  <2>5. /\ Numbered'
        /\ acked = NoManifest =>
             /\ (Found("B") = {Missing})'
             /\ (\A c \in Found("A") : IsValid(c) => c.manifest \in attempts)'
        /\ acked # NoManifest => (acked.sequence > 0 /\ Holds(store.slot))'
    <3>1. CASE pc # "idle"
      <4>1. Found(store.slot)' = Found(store.slot)
            /\ Found(Target)' \subseteq Found(Target) \cup {Torn}
        BY <1>5, <1>9, <2>1, <2>2, <2>3
      <4> QED
        BY <1>1, <1>9, <3>1, <4>1, TargetStep
    <3>2. CASE pc = "idle"
      <4>1. acked # NoManifest /\ InForce /\ live' = live
        BY <1>9, <3>2 DEF Inv, Fresh, Interrupted
      <4>2. \A s \in Slot : Found(s)' = Found(s)
        BY <2>1, <4>1
      <4>3. (acked.sequence > 0 /\ Holds(store.slot))'
        BY <1>5, <1>9, <4>1, <4>2, ContentFacts DEF InForce, Holds, Yields
      <4> QED
        BY <4>1, <4>2, <4>3 DEF Inv, Numbered
    <3> QED
      BY <3>1, <3>2
  <2>6. acked' = NoManifest => Fresh'
    BY <1>1, <1>9, <2>5 DEF Fresh, TypeOK
  <2>7. acked' # NoManifest => InForce'
    BY <1>5, <1>9, <2>5 DEF InForce, Inv
  <2> QED
    BY <1>1, <2>4, <2>5, <2>6, <2>7 DEF Inv
<1>10. CASE IoError
  <2>1. "power" \notin faults
    BY <1>1, <1>10 DEF IoError, PowerAlone, TypeOK
  <2>2. mode' = "open" => acked # NoManifest
    BY <1>10 DEF IoError
  <2> QED
    BY <1>9, <1>10, <2>1, <2>2 DEF IoError
<1>11. CASE Crash
  <2>1. "power" \notin faults
    BY <1>1, <1>11 DEF Crash, PowerAlone, TypeOK
  <2> QED
    BY <1>9, <1>11, <2>1 DEF Crash
<1>12. CASE PowerLoss
  <2>1. PICK a \in Surviving("A"), b \in Surviving("B") :
          /\ live' = Files(a, b)
          /\ disk' = [s \in Slot |-> {Files(a, b)[s]}]
    BY <1>12 DEF PowerLoss
  <2>2. "power" \in faults /\ mode = "open" /\ mode' = "down" /\ pc' = "idle"
        /\ UNCHANGED <<faults, store, next, acked, attempts>>
    BY <1>12 DEF PowerLoss
  <2>3. \A s \in Slot : live'[s] \in Surviving(s) /\ disk'[s] = {live'[s]}
    BY <2>1 DEF Files, Slot
  <2>4. \A s \in Slot : Found(s)' = {live'[s]}
    BY <2>3 DEF Found
  <2>5. live'[store.slot] \in Found(store.slot)
        /\ live'[Target] \in Found(Target) \cup {Torn}
    BY <1>5, <2>2, <2>3 DEF Surviving, Found
  <2>6. Target' = Target
    BY <2>2 DEF Target
  <2>7. Writing' /\ AtRest'
    BY <2>2, <2>3 DEF Writing, AtRest
  <2>8. /\ Numbered'
        /\ acked = NoManifest =>
             /\ (Found("B") = {Missing})'
             /\ (\A c \in Found("A") : IsValid(c) => c.manifest \in attempts)'
        /\ acked # NoManifest => (acked.sequence > 0 /\ Holds(store.slot))'
    <3>1. Found(store.slot)' = {live'[store.slot]}
          /\ Found(Target)' = {live'[Target]}
      BY <1>5, <2>2, <2>4, <2>6
    <3>2. CASE pc # "idle"
      BY <1>1, <2>2, <2>5, <3>1, <3>2, TargetStep
    <3>3. CASE pc = "idle"
      <4>1. acked # NoManifest /\ InForce
        BY <2>2, <3>3 DEF Inv, Fresh
      <4>2. Holds(store.slot) /\ acked.sequence > 0
        BY <2>2, <4>1 DEF InForce
      <4>3. live'[store.slot] = Valid(acked)
        BY <2>5, <4>2 DEF Holds
      <4>4. Yields(live'[Target])
        BY <2>5, <4>2, ContentCases DEF Holds, Yields, Target
      <4>5. (acked.sequence > 0 /\ Holds(store.slot))'
        BY <1>5, <2>2, <2>6, <3>1, <4>2, <4>3, <4>4 DEF Holds, Yields, Target
      <4>6. Numbered'
        BY <1>5, <2>4, <2>5, ContentCases DEF Inv, Numbered
      <4> QED
        BY <4>1, <4>5, <4>6
    <3> QED
      BY <3>2, <3>3
  <2>9. acked' = NoManifest => Fresh'
    BY <2>2, <2>8 DEF Fresh
  <2>10. acked' # NoManifest => InForce'
    BY <1>5, <2>2, <2>8 DEF InForce
  <2> QED
    BY <1>1, <2>7, <2>8, <2>9, <2>10 DEF Inv
<1>13. CASE UNCHANGED vars
  <2>1. \A s \in Slot : Found(s)' = Found(s)
    BY <1>13 DEF vars, Found
  <2>2. Target' = Target
    BY <1>13 DEF vars, Target
  <2>3. \A s \in Slot : Holds(s)' = Holds(s)
    BY <1>13, <2>1, ContentFacts DEF vars, Holds, Yields
  <2>4. Fresh' = Fresh /\ Numbered' = Numbered
    BY <1>13, <2>1 DEF vars, Fresh, Numbered, Slot
  <2>5. InForce' = InForce
    BY <1>5, <1>13, <2>3 DEF vars, InForce
  <2> QED
    BY <1>1, <1>13, <2>2, <2>4, <2>5 DEF vars, Inv, Writing, AtRest
<1> QED
  BY <1>2, <1>3, <1>4, <1>6, <1>7, <1>8, <1>10, <1>11, <1>12, <1>13 DEF Next

\* For every set of roots and any number of commits and failures the slots hold
\* the root in force.
THEOREM RootHeld == PowerAlone => (Spec => []Inv)
<1> SUFFICES ASSUME PowerAlone PROVE Spec => []Inv
  OBVIOUS
<1>1. Inv /\ [Next]_vars => Inv'
  BY InvNext
<1> QED
  BY <1>1, InvInit, PTL DEF Spec

-------------------------------------------------------------------------------
(* What follows from it. *)

\* The contents a failure leaves are contents the invariant speaks of, or a
\* torn file in the slot being written.
LEMMA AftermathFound ==
    ASSUME Inv, NEW files \in Aftermath
    PROVE  /\ files \in [Slot -> Content]
           /\ \A s \in Slot :
                files[s] \in Found(s) \/ (pc # "idle" /\ s = Target /\ files[s] = Torn)
<1>1. Target \in Slot /\ TypeOK
  BY ContentFacts DEF Inv, TypeOK, Target
<1>2. CASE files \in Interrupted
  BY <1>1, <1>2, ContentFacts DEF TypeOK, Interrupted, Found
<1>3. ASSUME "power" \in faults,
             NEW a \in Surviving("A"), NEW b \in Surviving("B"),
             files = Files(a, b)
      PROVE  /\ files \in [Slot -> Content]
             /\ \A s \in Slot :
                  files[s] \in Found(s) \/ (pc # "idle" /\ s = Target /\ files[s] = Torn)
  <2>1. files["A"] = a /\ files["B"] = b
    BY <1>3 DEF Files, Slot
  <2>2. \A s \in Slot : \A c \in Surviving(s) :
          c \in Found(s) \/ (pc # "idle" /\ s = Target /\ c = Torn)
    BY <1>3 DEF Surviving, Found
  <2>3. a \in Content /\ b \in Content
    BY <1>1, ContentFacts DEF TypeOK, Surviving, Slot
  <2> QED
    BY <1>3, <2>1, <2>2, <2>3 DEF Files, Slot
<1> QED
  BY <1>2, <1>3 DEF Aftermath

\* Whenever a root is in force some slot holds it.
LEMMA SomeSlotHolds ==
    ASSUME Inv, acked # NoManifest
    PROVE  \E s \in Slot : Holds(s) /\ (mode = "open" => s = store.slot)
  BY DEF Inv, InForce, TypeOK

\* load, after any failure, finds the root in force or a later attempt.
LEMMA NextRoot ==
    ASSUME Inv, acked # NoManifest, NEW files \in Aftermath
    PROVE  /\ Readable(files)
           /\ \/ ChosenManifest(files) = acked
              \/ /\ ChosenManifest(files) \in attempts
                 /\ ChosenManifest(files).sequence > acked.sequence
<1>1. PICK s \in Slot : Holds(s) /\ (mode = "open" => s = store.slot)
  BY SomeSlotHolds
<1>2. acked \in Manifest /\ acked.sequence \in Nat /\ Other(s) \in Slot
      /\ Other(s) # s
  BY ContentFacts, ContentCases DEF Inv, TypeOK, Manifest
<1>3. files[s] = Valid(acked)
  <2>1. ~(pc # "idle" /\ s = Target)
    BY <1>1, ContentCases DEF Inv, AtRest, TypeOK, Target
  <2> QED
    BY <1>1, <2>1, AftermathFound DEF Holds
<1>4. files \in [Slot -> Content] /\ Yields(files[Other(s)])
  BY <1>1, <1>2, AftermathFound, ContentCases DEF Holds, Yields
<1>5. IsValid(files[s]) /\ files[s].manifest = acked /\ Readable(files)
  BY <1>2, <1>3, ContentCases DEF Readable
<1>6. CASE ScanSlots(files) = s
  BY <1>5, <1>6 DEF ChosenManifest
<1>7. CASE ScanSlots(files) = Other(s)
  <2>1. Other(Other(s)) = s
    BY ContentCases
  <2>2. IsValid(files[Other(s)])
        /\ acked.sequence <= files[Other(s)].manifest.sequence
    BY <1>4, <1>5, <1>7, <2>1, ChosenIsNewest DEF ChosenManifest
  <2>3. files[Other(s)].manifest.sequence \in Nat
    BY <1>2, <1>4 DEF Content, Manifest
  <2> QED
    BY <1>2, <1>4, <1>5, <1>7, <2>2, <2>3 DEF Yields, ChosenManifest
<1> QED
  BY <1>4, <1>6, <1>7, ChosenType, ContentCases

\* A failure at any instant of a commit leaves the last committed root or an
\* attempt at the next: Database::open finds one of them.
THEOREM CommitIsAtomic == PowerAlone => (Spec => []CommitAtomic)
<1>1. Inv => CommitAtomic
  BY NextRoot DEF CommitAtomic
<1> QED
  BY <1>1, RootHeld, PTL

\* scan_slots never meets two slots of one sequence, whatever was retried or
\* torn.
THEOREM SlotsNeverTie == PowerAlone => (Spec => []NoTie)
<1>1. Inv => NoTie
  <2> SUFFICES ASSUME Inv, NEW files \in Aftermath,
                      IsValid(files["A"]), IsValid(files["B"])
               PROVE  files["A"].manifest.sequence # files["B"].manifest.sequence
    BY DEF NoTie
  <2>1. files["A"] \in Found("A") /\ files["B"] \in Found("B")
    BY AftermathFound, ContentCases DEF Slot
  <2> QED
    BY <2>1, FoundDiffer
<1> QED
  BY <1>1, RootHeld, PTL

\* What load adopts is the root in force, or an attempt newer than it.
LEMMA LoadedRoot ==
    ASSUME Inv, Load
    PROVE  /\ acked' = acked \/ acked' \in attempts
           /\ acked' = acked \/ acked'.sequence > acked.sequence
           /\ attempts' = {}
<1>1. mode = "down" /\ Readable(live) /\ acked' = ChosenManifest(live)
      /\ attempts' = {} /\ live \in [Slot -> Content]
  BY DEF Load, Inv, TypeOK
<1>2. live \in Aftermath
  BY <1>1 DEF Inv, AtRest, Aftermath, Interrupted
<1>3. CASE acked # NoManifest
  BY <1>1, <1>2, <1>3, NextRoot
<1>4. CASE acked = NoManifest
  <2>1. live["A"] \in Found("A") /\ live["B"] = Missing
    BY <1>4 DEF Found, Inv, Fresh
  <2>2. IsValid(live["A"]) /\ ChosenManifest(live) = live["A"].manifest
    BY <1>1, <2>1, ContentCases
    DEF Readable, ScanSlots, ChosenManifest, Slot
  <2>3. ChosenManifest(live) \in attempts
    BY <1>4, <2>1, <2>2 DEF Inv, Fresh
  <2>4. ChosenManifest(live).sequence > 0
    BY <2>1, <2>2 DEF Inv, Numbered, Slot
  <2> QED
    BY <1>1, <1>4, <2>3, <2>4 DEF NoManifest
<1> QED
  BY <1>3, <1>4

\* No step, a restart or a retry included, takes the root in force back.
THEOREM RootOnlyAdvances == PowerAlone => (Spec => RootNeverGoesBack)
<1> SUFFICES ASSUME PowerAlone PROVE Spec => RootNeverGoesBack
  OBVIOUS
<1>1. Inv /\ [Next]_vars =>
        [acked' = acked \/ acked'.sequence > acked.sequence]_vars
  <2> SUFFICES ASSUME Inv, Next
               PROVE  acked' = acked \/ acked'.sequence > acked.sequence
    OBVIOUS
  <2>1. CASE Load
    BY <2>1, LoadedRoot
  <2>2. CASE SyncSlot
    <3>1. acked' = next /\ next.sequence = acked.sequence + 1
          /\ acked.sequence \in Nat
      BY <2>2 DEF SyncSlot, Inv, Writing, TypeOK, Manifest
    <3> QED
      BY <3>1
  <2>3. CASE ~Load /\ ~SyncSlot
    BY <2>3
    DEF Next, Create, BeginCommit, TruncateSlot, WriteSlot, IoError, Crash,
        PowerLoss
  <2> QED
    BY <2>1, <2>2, <2>3
<1> QED
  BY <1>1, RootHeld, PTL DEF Spec, RootNeverGoesBack

\* The two slot files, under any interleaving of commits and failures, behave
\* as one root record that changes atomically.
THEOREM SlotsImplementRoot == PowerAlone => (Spec => ImplementsAtomicRoot)
<1> SUFFICES ASSUME PowerAlone PROVE Spec => ImplementsAtomicRoot
  OBVIOUS
<1>1. Init => Root!Init
  BY DEF Init, Root!Init
<1>2. Inv /\ [Next]_vars => [Root!Next]_(Root!vars)
  <2> SUFFICES ASSUME Inv, [Next]_vars
               PROVE  Root!Next \/ UNCHANGED <<acked, attempts>>
    BY DEF Root!vars
  <2>1. CASE Load
    BY <2>1, LoadedRoot DEF Root!Next, Root!TakeEffect, Root!Forget
  <2>2. CASE Create
    <3> DEFINE m == [sequence |-> 1, root |-> EmptyRoot]
    <3>1. m \in [sequence : 0..MaxSequence, root : Roots]
      BY RootsAssumption, BoundAssumption
    <3>2. attempts' = attempts \cup {m} /\ acked' = acked
      BY <2>2 DEF Create
    <3> QED
      BY <3>1, <3>2 DEF Root!Next, Root!Begin
  <2>3. ASSUME NEW root \in Roots, BeginCommit(root) PROVE Root!Next
    <3> DEFINE m == [sequence |-> store.current.sequence + 1, root |-> root]
    <3>1. store.current.sequence \in Nat
      BY DEF Inv, TypeOK, Manifest
    <3>2. m \in [sequence : 0..MaxSequence, root : Roots]
      BY <2>3, <3>1, BoundAssumption DEF BeginCommit
    <3>3. attempts' = attempts \cup {m} /\ acked' = acked
      BY <2>3 DEF BeginCommit
    <3> QED
      BY <3>2, <3>3 DEF Root!Next, Root!Begin
  <2>4. CASE SyncSlot
    <3>1. acked' \in attempts /\ attempts' = {}
      BY <2>4 DEF SyncSlot, Inv, Writing
    <3> QED
      BY <3>1 DEF Root!Next, Root!TakeEffect
  <2>5. CASE TruncateSlot \/ WriteSlot \/ IoError \/ Crash \/ PowerLoss
    BY <2>5 DEF TruncateSlot, WriteSlot, IoError, Crash, PowerLoss
  <2>6. CASE UNCHANGED vars
    BY <2>6 DEF vars
  <2> QED
    BY <2>1, <2>2, <2>3, <2>4, <2>5, <2>6 DEF Next
<1> QED
  BY <1>1, <1>2, RootHeld, PTL DEF Spec, ImplementsAtomicRoot, Root!Spec
===============================================================================
