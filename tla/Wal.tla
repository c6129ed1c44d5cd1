--------------------------------- MODULE Wal ---------------------------------
(***************************************************************************)
(* One collection's write-ahead log: WalWriter (persistence/wal.rs), the   *)
(* scan and commit filter of format/wal.rs, and the replay and tail repair *)
(* that CollInner::open does with them.                                    *)
(*                                                                         *)
(* The file is a sequence of items: whole frames, and frames that were cut *)
(* short.  A frame's payload is only which write call it came from; an     *)
(* item stands for its bytes, so the file's length in items stands for its *)
(* length in bytes.                                                        *)
(***************************************************************************)
EXTENDS Naturals, Sequences, FiniteSets

CONSTANTS
    Failures,    \* which of "process" and "io" may happen
    GroupSizes,  \* numbers of operations a batch may have
    MaxWrites,   \* bound on the number of write calls
    MaxFailures  \* bound on the number of failures

ASSUME WalAssumption ==
    /\ Failures \subseteq {"process", "io"}
    /\ GroupSizes \subseteq Nat \ {0}
    /\ MaxWrites \in Nat /\ MaxFailures \in Nat

VARIABLES
    file,        \* the items of the log file
    mode,        \* "open" while a WalWriter holds the file, "down" between two
                 \* processes, "refused" once an open has reported corruption
    writer,      \* next_sequence, next_txn and bytes of the WalWriter
    writes,      \* ghost: for each write call its size and what became of it
    failures     \* failures so far

vars == <<file, mode, writer, writes, failures>>

Item == [write : Nat, sequence : Nat, txn : Nat, commit : BOOLEAN, whole : BOOLEAN]

Outcome == {"ok", "error", "interrupted", "checkpointed"}

\* The highest number of a set of naturals, 0 for none.
Highest(S) == IF S = {} THEN 0 ELSE CHOOSE n \in S : \A m \in S : m <= n

-------------------------------------------------------------------------------
\* The buffer append builds: one standalone frame, in transaction 0.
StandaloneFrames ==
    <<[write |-> Len(writes) + 1, sequence |-> writer.next_sequence,
       txn |-> 0, commit |-> FALSE, whole |-> TRUE]>>

\* The buffer append_group builds: n operations and their commit record.
GroupFrames(n) ==
    [i \in 1..(n + 1) |->
        [write |-> Len(writes) + 1, sequence |-> writer.next_sequence + i - 1,
         txn |-> writer.next_txn, commit |-> i = n + 1, whole |-> TRUE]]

\* The buffers a write call may append: n = 0 stands for a standalone one.
Frames(n) == IF n = 0 THEN StandaloneFrames ELSE GroupFrames(n)

Size(n) == IF n = 0 THEN 1 ELSE n

Record(n, outcome) == Append(writes, [ops |-> Size(n), outcome |-> outcome])

\* The frames wal::scan returns: the whole ones up to the first cut one.
CutItems(log) == {i \in DOMAIN log : ~log[i].whole}

FirstCut(log) == CHOOSE i \in CutItems(log) : \A j \in CutItems(log) : i <= j

Scan(log) ==
    IF CutItems(log) = {} THEN log ELSE SubSeq(log, 1, FirstCut(log) - 1)

\* Bytes follow a cut frame.
BytesAfterCut(log) == CutItems(log) # {} /\ FirstCut(log) < Len(log)

\* The tails wal::scan may report.  decode_at takes the bytes behind a cut frame
\* for the rest of its header and body: mostly that gives a complete frame that
\* fails its checksum or claims more than a frame may hold, which is Corrupt;
\* if the lengths leave too few bytes it is one more Torn tail.
Tails(log) ==
    IF CutItems(log) = {} THEN {"Clean"}
    ELSE IF BytesAfterCut(log) THEN {"Torn", "Corrupt"} ELSE {"Torn"}

\* WalScan::committed: the frames of a transaction count if any commit record
\* in the log carries its number.
CommittedTxns(log) == {log[i].txn : i \in {j \in DOMAIN log : log[j].commit}}

\* Seeded fault: frames are replayed whether or not their commit arrived.
CommittedUnfiltered(log) == {i \in DOMAIN log : ~log[i].commit}

Committed(log) ==
    {i \in DOMAIN log :
        /\ ~log[i].commit
        /\ log[i].txn = 0 \/ log[i].txn \in CommittedTxns(log)}

\* What replay applies of write call w when the tail is not Corrupt.
Replayed(w) ==
    Cardinality({i \in Committed(Scan(file)) : file[i].write = w})

-------------------------------------------------------------------------------
TypeOK ==
    /\ file \in Seq(Item)
    /\ mode \in {"open", "down", "refused"}
    /\ writer \in [next_sequence : Nat, next_txn : Nat, bytes : Nat]
    /\ writes \in Seq([ops : Nat, outcome : Outcome])
    /\ failures \in 0..MaxFailures

\* A new collection: WalWriter::open has created an empty file.
Init ==
    /\ file = <<>>
    /\ mode = "open"
    /\ writer = [next_sequence |-> 1, next_txn |-> 1, bytes |-> 0]
    /\ writes = <<>>
    /\ failures = 0

\* Seeded fault: where the append landed is not checked.
WriteAnywhere(n) ==
    /\ mode = "open" /\ Len(writes) < MaxWrites
    /\ LET f == Frames(n) IN
         /\ file' = file \o f
         /\ writer' = [next_sequence |-> writer.next_sequence + Len(f),
                       next_txn |-> writer.next_txn + (IF n = 0 THEN 0 ELSE 1),
                       bytes |-> writer.bytes + Len(f)]

\* append and append_group up to their sync, when the append lands where the
\* writer expects it.
Write(n) ==
    /\ mode = "open" /\ Len(writes) < MaxWrites
    /\ Len(file) = writer.bytes
    /\ LET f == Frames(n) IN
         /\ file' = file \o f
         /\ writer' = [next_sequence |-> writer.next_sequence + Len(f),
                       next_txn |-> writer.next_txn + (IF n = 0 THEN 0 ELSE 1),
                       bytes |-> writer.bytes + Len(f)]

AppendOk(n) ==
    /\ Write(n)
    /\ writes' = Record(n, "ok")
    /\ UNCHANGED <<mode, failures>>

\* The sync the durability policy asks for fails: an error is returned although
\* the frames are in the file and the counters have moved on.
SyncFails(n) ==
    /\ "io" \in Failures /\ failures < MaxFailures
    /\ Write(n)
    /\ writes' = Record(n, "error")
    /\ failures' = failures + 1
    /\ UNCHANGED mode

\* The append landed past the length the writer knows of: write returns an
\* error, with the frames in the file and the counters not advanced.
AppendMisplaced(n) ==
    /\ mode = "open" /\ Len(writes) < MaxWrites
    /\ Len(file) # writer.bytes
    /\ file' = file \o Frames(n)
    /\ writer' = [writer EXCEPT !.next_txn = @ + (IF n = 0 THEN 0 ELSE 1)]
    /\ writes' = Record(n, "error")
    /\ UNCHANGED <<mode, failures>>

\* What an interrupted append of f leaves: whole frames, then perhaps part of
\* one.
Cut(f) ==
    {SubSeq(f, 1, k) : k \in 0..Len(f)} \cup
    {Append(SubSeq(f, 1, k), [f[k + 1] EXCEPT !.whole = FALSE]) :
        k \in 0..(Len(f) - 1)}

\* The storage fails the append, having stored a prefix of it.
AppendFails(n) ==
    /\ "io" \in Failures /\ failures < MaxFailures
    /\ mode = "open" /\ Len(writes) < MaxWrites
    /\ \E kept \in Cut(Frames(n)) : file' = file \o kept
    /\ writer' = [writer EXCEPT !.next_txn = @ + (IF n = 0 THEN 0 ELSE 1)]
    /\ writes' = Record(n, "error")
    /\ failures' = failures + 1
    /\ UNCHANGED mode

\* The process is killed inside an append.
KilledInAppend(n) ==
    /\ "process" \in Failures /\ failures < MaxFailures
    /\ mode = "open" /\ Len(writes) < MaxWrites
    /\ \E kept \in Cut(Frames(n)) : file' = file \o kept
    /\ mode' = "down"
    /\ writes' = Record(n, "interrupted")
    /\ failures' = failures + 1
    /\ UNCHANGED writer

\* The process ends between two writes.
Killed ==
    /\ "process" \in Failures /\ failures < MaxFailures
    /\ mode = "open"
    /\ mode' = "down"
    /\ failures' = failures + 1
    /\ UNCHANGED <<file, writer, writes>>

\* Seeded fault: numbering restarts with every open.
ReopenFromOne ==
    /\ mode = "down"
    /\ mode' = "open"
    /\ file' = Scan(file)
    /\ writer' = [next_sequence |-> 1, next_txn |-> 1, bytes |-> Len(Scan(file))]
    /\ UNCHANGED <<writes, failures>>

\* Seeded fault: a torn tail stays in the file.
ReopenKeepsTail ==
    /\ mode = "down"
    /\ mode' = "open"
    /\ writer' = [next_sequence |->
                     Highest({Scan(file)[i].sequence : i \in DOMAIN Scan(file)}) + 1,
                  next_txn |-> 1,
                  bytes |-> Len(file)]
    /\ UNCHANGED <<file, writes, failures>>

\* CollInner::open when the tail is Clean or Torn: replay_into applies the log,
\* truncate_tail removes what the scan did not cover, WalWriter::open continues
\* after the highest sequence found.
Reopen ==
    /\ mode = "down"
    /\ mode' = "open"
    /\ file' = Scan(file)
    /\ writer' = [next_sequence |->
                     Highest({Scan(file)[i].sequence : i \in DOMAIN Scan(file)}) + 1,
                  next_txn |-> 1,
                  bytes |-> Len(Scan(file))]
    /\ UNCHANGED <<writes, failures>>

\* CollInner::open when the tail is Corrupt: replay_into returns an error, so the
\* open fails before anything is applied or repaired.  The bytes stay what they
\* are, and every later open fails the same way.
OpenRefused ==
    /\ mode = "down"
    /\ "Corrupt" \in Tails(file)
    /\ mode' = "refused"
    /\ UNCHANGED <<file, writer, writes, failures>>

\* The end of do_flush: everything logged is in a segment, the file is
\* truncated, and a writer is opened that keeps the numbering.
Checkpoint ==
    /\ mode = "open"
    /\ file # <<>>
    /\ file' = <<>>
    /\ writer' = [writer EXCEPT !.next_txn = 1, !.bytes = 0]
    /\ writes' = [w \in DOMAIN writes |-> [writes[w] EXCEPT !.outcome = "checkpointed"]]
    /\ UNCHANGED <<mode, failures>>

Next ==
    \/ \E n \in {0} \cup GroupSizes :
         \/ AppendOk(n)
         \/ SyncFails(n)
         \/ AppendMisplaced(n)
         \/ AppendFails(n)
         \/ KilledInAppend(n)
    \/ Killed
    \/ Reopen
    \/ OpenRefused
    \/ Checkpoint

Spec == Init /\ [][Next]_vars

-------------------------------------------------------------------------------
\* No write call since the last checkpoint returned an error.
NoneFailed == \A w \in DOMAIN writes : writes[w].outcome # "error"

\* An open that happens now replays in full every write call that returned Ok and
\* that no checkpoint has folded into a segment - or it refuses the log, which
\* takes an append that returned an error since the last checkpoint.
AckedReplayed ==
    \A tail \in Tails(file) :
        IF tail = "Corrupt"
        THEN ~NoneFailed
        ELSE \A w \in DOMAIN writes :
                 writes[w].outcome = "ok" => Replayed(w) = writes[w].ops

\* The frames of the log ascend strictly in sequence, across any number of
\* kills, repairs and checkpoints, as long as no append failed.
SequencesAscend ==
    NoneFailed =>
        \A i, j \in DOMAIN file : i < j => file[i].sequence < file[j].sequence

\* As long as no append failed, kills never leave a log that an open reports, or
\* has reported, as corruption: a frame that was cut is always the last thing in
\* the file.
NeverCorrupt == NoneFailed => mode # "refused" /\ "Corrupt" \notin Tails(file)

\* A batch is replayed whole or not at all, unless another batch in the log,
\* written before or after a restart, committed under the same transaction
\* number.
HalfBatchNeedsReuse ==
    \A w \in DOMAIN writes :
        Replayed(w) \notin {0, writes[w].ops} =>
            \E i, j \in DOMAIN file :
                /\ file[i].write = w
                /\ file[j].write # w /\ file[j].commit
                /\ file[j].txn = file[i].txn

\* What wal.rs promises: an interrupted batch is discarded as a whole.
GroupAtomic ==
    \A w \in DOMAIN writes : Replayed(w) \in {0, writes[w].ops}
===============================================================================
