---------------------------- MODULE ManifestStore ----------------------------
(***************************************************************************)
(* The database root: persistence/manifest.rs driving the two slot files   *)
(* MANIFEST-A and MANIFEST-B, with the slot choice of format/manifest.rs.  *)
(*                                                                         *)
(* A manifest is a sequence number and a root (everything else it records).*)
(* A slot file is seen through what SlotStatus::examine makes of it.  Each *)
(* file has the content a running system reads (live) and the set of       *)
(* contents a power loss may leave (disk): writes widen that set, a sync   *)
(* collapses it.                                                           *)
(***************************************************************************)
EXTENDS Naturals

CONSTANTS
    Roots,         \* what a manifest may record
    EmptyRoot,     \* the root of a new database: no collections
    FaultSets,     \* the combinations of "process", "power" and "io" considered
    MaxSequence    \* bound on the sequence number; the code's is 2^64 - 1

ASSUME RootsAssumption == EmptyRoot \in Roots
ASSUME FaultsAssumption == FaultSets \subseteq SUBSET {"process", "power", "io"}
ASSUME BoundAssumption == MaxSequence \in Nat \ {0}

VARIABLES
    faults,      \* the kinds of failure this behaviour may meet; never changes
    live,        \* slot -> content a reader sees
    disk,        \* slot -> contents a power loss may leave behind
    mode,        \* "down", or "open" while a ManifestStore is in memory
    store,       \* the in-memory ManifestStore: current and slot
    pc,          \* where ManifestStore::write is: idle, truncate, write, sync
    next,        \* the manifest being written
    populated,   \* collections/ has something in it
    acked,       \* ghost: the last manifest created, committed or adopted
    attempts,    \* ghost: the manifests begun since then
    returned     \* ghost: the last manifest whose create or commit returned Ok

vars == <<faults, live, disk, mode, store, pc, next, populated, acked,
          attempts, returned>>

Slot == {"A", "B"}

Other(slot) == IF slot = "A" THEN "B" ELSE "A"

Manifest == [sequence : Nat, root : Roots]

NoManifest == [sequence |-> 0, root |-> EmptyRoot]

\* SlotStatus: a missing or zero-length file, one that does not decode, a
\* manifest.
Content == [status : {"missing", "invalid", "valid"}, manifest : Manifest]

Missing == [status |-> "missing", manifest |-> NoManifest]
Torn == [status |-> "invalid", manifest |-> NoManifest]
Valid(m) == [status |-> "valid", manifest |-> m]

IsValid(c) == c.status = "valid"

\* Seeded fault: the first readable slot wins, whatever its sequence.
ScanFirstReadable(files) == IF IsValid(files["A"]) THEN "A" ELSE "B"

\* Manifest::scan_slots on the contents of the two files: the slot chosen.
\* A tie goes to A.
ScanSlots(files) ==
    IF IsValid(files["B"])
       /\ (IsValid(files["A"]) =>
             files["B"].manifest.sequence > files["A"].manifest.sequence)
    THEN "B" ELSE "A"

\* scan_slots found a slot at all.
Readable(files) == \E s \in Slot : IsValid(files[s])

\* Both slots absent: a database that has never committed.
NeverCommitted(files) == \A s \in Slot : files[s] = Missing

ChosenManifest(files) == files[ScanSlots(files)].manifest

-------------------------------------------------------------------------------
TypeOK ==
    /\ faults \in FaultSets
    /\ live \in [Slot -> Content]
    /\ disk \in [Slot -> SUBSET Content]
    /\ mode \in {"down", "open"}
    /\ store \in [current : Manifest, slot : Slot]
    /\ pc \in {"idle", "truncate", "write", "sync"}
    /\ next \in Manifest
    /\ populated \in BOOLEAN
    /\ acked \in Manifest
    /\ attempts \in SUBSET Manifest
    /\ returned \in Manifest

\* An empty directory.
Init ==
    /\ faults \in FaultSets
    /\ live = [s \in Slot |-> Missing]
    /\ disk = [s \in Slot |-> {Missing}]
    /\ mode = "down"
    /\ store = [current |-> NoManifest, slot |-> "B"]
    /\ pc = "idle"
    /\ next = NoManifest
    /\ populated = FALSE
    /\ acked = NoManifest
    /\ attempts = {}
    /\ returned = NoManifest

\* ManifestStore::load adopts the authoritative slot.  Nothing is synced.
Load ==
    /\ mode = "down"
    /\ Readable(live)
    /\ mode' = "open"
    /\ pc' = "idle"
    /\ store' = [current |-> ChosenManifest(live), slot |-> ScanSlots(live)]
    /\ acked' = ChosenManifest(live)
    /\ attempts' = {}
    /\ UNCHANGED <<faults, live, disk, next, populated, returned>>

\* Seeded fault: a new store records no slot.
CreateWithoutSlot ==
    /\ mode = "down"
    /\ NeverCommitted(live)
    /\ ~populated
    /\ mode' = "open"
    /\ store' = [current |-> NoManifest, slot |-> "none"]
    /\ pc' = "idle"
    /\ UNCHANGED <<faults, live, disk, next, populated, acked, attempts,
                   returned>>

\* Database::open takes a directory for an empty one only if it holds neither a
\* manifest nor collections.
EmptyDatabase == NeverCommitted(live) /\ ~populated

\* ManifestStore::create: slot B is recorded so that the write goes to A.
Create ==
    /\ mode = "down"
    /\ EmptyDatabase
    /\ mode' = "open"
    /\ LET first == [sequence |-> 1, root |-> EmptyRoot] IN
         /\ store' = [current |-> first, slot |-> "B"]
         /\ next' = first
         /\ attempts' = attempts \cup {first}
    /\ pc' = "truncate"
    /\ UNCHANGED <<faults, live, disk, populated, acked, returned>>

\* Seeded fault: commit does not advance the sequence.
CommitSameSequence(root) ==
    /\ mode = "open" /\ pc = "idle"
    /\ LET m == [sequence |-> store.current.sequence, root |-> root] IN
         /\ next' = m
         /\ attempts' = attempts \cup {m}
    /\ pc' = "truncate"
    /\ populated' = (populated \/ root # EmptyRoot)
    /\ UNCHANGED <<faults, live, disk, mode, store, acked, returned>>

\* ManifestStore::commit numbers the next manifest and enters write.  A root
\* that names collections has their directories on disk by now.
BeginCommit(root) ==
    /\ mode = "open" /\ pc = "idle"
    /\ store.current.sequence < MaxSequence
    /\ LET m == [sequence |-> store.current.sequence + 1, root |-> root] IN
         /\ next' = m
         /\ attempts' = attempts \cup {m}
    /\ pc' = "truncate"
    /\ populated' = (populated \/ root # EmptyRoot)
    /\ UNCHANGED <<faults, live, disk, mode, store, acked, returned>>

\* Seeded fault: the slot in force is overwritten.
TargetInForce == store.slot

Target == Other(store.slot)

\* file.truncate(0)
TruncateSlot ==
    /\ mode = "open" /\ pc = "truncate"
    /\ live' = [live EXCEPT ![Target] = Missing]
    /\ disk' = [disk EXCEPT ![Target] = @ \cup {Missing}]
    /\ pc' = "write"
    /\ UNCHANGED <<faults, mode, store, next, populated, acked, attempts,
                   returned>>

\* file.write_at(&bytes, 0)
WriteSlot ==
    /\ mode = "open" /\ pc = "write"
    /\ live' = [live EXCEPT ![Target] = Valid(next)]
    /\ disk' = [disk EXCEPT ![Target] = @ \cup {Torn, Valid(next)}]
    /\ pc' = "sync"
    /\ UNCHANGED <<faults, mode, store, next, populated, acked, attempts,
                   returned>>

\* file.sync_data(), then the store adopts what it wrote.
SyncSlot ==
    /\ mode = "open" /\ pc = "sync"
    /\ disk' = [disk EXCEPT ![Target] = {live[Target]}]
    /\ store' = [current |-> next, slot |-> Target]
    /\ acked' = next
    /\ attempts' = {}
    /\ returned' = next
    /\ pc' = "idle"
    /\ UNCHANGED <<faults, live, mode, next, populated>>

\* What the write in progress may leave in the files: a write that has been
\* started may have stored a prefix.
Interrupted ==
    IF pc = "write" THEN {live, [live EXCEPT ![Target] = Torn]} ELSE {live}

\* A storage call of write fails: the error is returned and the store keeps
\* its current manifest and slot.  A store being created is dropped with it.
IoError ==
    /\ "io" \in faults
    /\ mode = "open" /\ pc # "idle"
    /\ live' \in Interrupted
    /\ disk' = [disk EXCEPT ![Target] = @ \cup {live'[Target]}]
    /\ pc' = "idle"
    /\ mode' = IF acked = NoManifest THEN "down" ELSE "open"
    /\ UNCHANGED <<faults, store, next, populated, acked, attempts, returned>>

\* The process ends, at any instant: killed, or closed when idle.
Crash ==
    /\ "process" \in faults
    /\ mode = "open"
    /\ live' \in Interrupted
    /\ disk' = [disk EXCEPT ![Target] = @ \cup {live'[Target]}]
    /\ mode' = "down"
    /\ pc' = "idle"
    /\ UNCHANGED <<faults, store, next, populated, acked, attempts, returned>>

\* What a power loss may leave in slot s.
Surviving(s) ==
    disk[s] \cup {c \in {Torn} : pc = "write" /\ s = Target}

Files(a, b) == [s \in Slot |-> IF s = "A" THEN a ELSE b]

\* The machine loses power: each file keeps one of the contents it may have.
PowerLoss ==
    /\ "power" \in faults
    /\ mode = "open"
    /\ \E a \in Surviving("A"), b \in Surviving("B") :
         /\ live' = Files(a, b)
         /\ disk' = [s \in Slot |-> {Files(a, b)[s]}]
    /\ mode' = "down"
    /\ pc' = "idle"
    /\ UNCHANGED <<faults, store, next, populated, acked, attempts, returned>>

Next ==
    \/ Load
    \/ Create
    \/ \E root \in Roots : BeginCommit(root)
    \/ TruncateSlot
    \/ WriteSlot
    \/ SyncSlot
    \/ IoError
    \/ Crash
    \/ PowerLoss

Spec == Init /\ [][Next]_vars

-------------------------------------------------------------------------------
\* The pairs of files a failure in this state may leave for the next open.
Aftermath ==
    Interrupted \cup
    (IF "power" \in faults
     THEN {Files(a, b) : a \in Surviving("A"), b \in Surviving("B")}
     ELSE {})

\* Once a manifest has been committed, a failure at any instant of a later
\* commit leaves files from which load picks a manifest, and the one it picks
\* is the last committed one or one whose write has begun since: never
\* an older root, never NoValidManifest.
CommitAtomic ==
    acked # NoManifest =>
        \A files \in Aftermath :
            /\ Readable(files)
            /\ ChosenManifest(files) \in {acked} \cup attempts

\* The two slots never hold manifests of the same sequence, so scan_slots
\* never has to break a tie (format/manifest.rs calls it impossible), whatever
\* was retried, torn or lost.
NoTie ==
    \A files \in Aftermath :
        (IsValid(files["A"]) /\ IsValid(files["B"])) =>
            files["A"].manifest.sequence # files["B"].manifest.sequence

\* No step, restarts included, replaces the root in force by one that is not
\* newer: a committed root is never rolled back by a crash, a failed commit or
\* a retry.
RootNeverGoesBack ==
    [][acked' = acked \/ acked'.sequence > acked.sequence]_vars

\* The two slot files behave as one root record that changes atomically.
Root == INSTANCE AtomicRoot
          WITH Record <- [sequence : 0..MaxSequence, root : Roots],
               NoRecord <- NoManifest,
               root <- acked, attempts <- attempts

ImplementsAtomicRoot == Root!Spec

\* Whatever fails afterwards, a commit that returned Ok is never lost: load
\* finds it or a newer one.
ReturnedCommitSurvives ==
    returned # NoManifest =>
        \A files \in Aftermath :
            /\ Readable(files)
            /\ ChosenManifest(files).sequence >= returned.sequence
===============================================================================
