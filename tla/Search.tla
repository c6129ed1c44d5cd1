------------------------------- MODULE Search --------------------------------
(***************************************************************************)
(* The exact search of a collection: requests checked and run under the    *)
(* collection's read lock, row by row over segments and memtable, with a   *)
(* bounded selector and a budget that callers share and may cancel.        *)
(* Writes, flushes and reopens happen between searches.                    *)
(*                                                                         *)
(* Scores are exact: the rounding of the float kernels is left out.  Rows  *)
(* have one component, so that cosine needs no square root.                *)
(***************************************************************************)
EXTENDS Memtable, FiniteSets

CONSTANTS
    Searchers,          \* threads that search
    Requests,           \* requests they may make
    Inputs,             \* documents that are written, valid or not
    Deletes,            \* ids that are deleted, of either kind
    MaxContentBytes,    \* MAX_CONTENT_BYTES
    MaxTopK,            \* MAX_TOP_K
    BudgetStride,       \* BUDGET_STRIDE (1024)
    Ceilings,           \* what max_scanned may be: {} for None, {n} for Some(n)
    MaxWrites,          \* bound on writes, flushes and reopens
    MaxSearches         \* bound on searches

CONSTANTS
    ValidId(_),         \* DocId::validate
    IdLess(_, _),       \* Ord of DocId
    ValidVector(_),     \* check_dimension and check_finite
    Number(_),          \* the number that the bits of a float are
    ValidMetadata(_),   \* Metadata::validate
    FilterValid(_),     \* Filter::validate
    FilterMatches(_, _) \* Filter::matches_fields: a filter on a row's metadata

\* A row's metadata where it is: nothing, a decoded map or the bytes of one.
RowFields(map, bytes) == [map |-> map, bytes |-> bytes]

Metrics == {"cosine", "dot", "l2"}

ASSUME SearchAssumption ==
    /\ IsFiniteSet(Searchers)
    /\ BudgetStride \in Nat \ {0}
    /\ {MaxTopK, MaxWrites, MaxSearches} \subseteq Nat
    /\ \A max \in Ceilings : max \subseteq Nat

\* Documents have metadata ({} or one map) and content ({} or one length); the
\* component of a valid vector is a number.
ASSUME InputsAssumption ==
    /\ \A doc \in Inputs : /\ doc = [id |-> doc.id, vector |-> doc.vector, meta |-> doc.meta,
                                     content |-> doc.content]
                           /\ ValidVector(doc.vector) => Number(doc.vector[1]) \in Int
    /\ \A req \in Requests : /\ req.metric \in Metrics /\ req.min_score \subseteq Int
                             /\ ValidVector(req.vector) => Number(req.vector[1]) \in Int

\* What is written is read back: ids that are valid, and metadata that was encoded.
ASSUME BytesAssumption ==
    /\ \A id \in {doc.id : doc \in Inputs} \cup Deletes : ValidId(id) => IdsOf(IdBytes(id)) = {id}
    /\ \A doc \in Inputs : \A bytes \in StoredMeta(doc.meta) : LoadedMeta(bytes) = {doc.meta}

\* A filter finds in the bytes of metadata what it finds in the metadata.
ASSUME FiltersAssumption ==
    \A doc \in Inputs, req \in Requests : \A f \in req.filter :
        StoredMeta(doc.meta) # {} =>
            FilterMatches(f, RowFields({}, UNION {Encoded(m) : m \in doc.meta}))
                = FilterMatches(f, RowFields(doc.meta, {}))

\* Valid ids have an order.
ASSUME OrderAssumption ==
    LET ids == {id \in {doc.id : doc \in Inputs} : ValidId(id)}
    IN  /\ \A a \in ids : ~ IdLess(a, a)
        /\ \A a, b \in ids : a = b \/ IdLess(a, b) \/ IdLess(b, a)
        /\ \A a, b, c \in ids : IdLess(a, b) /\ IdLess(b, c) => IdLess(a, c)

VARIABLES
    segments,   \* the collection's segments, each the sequence of its rows
    memtable,   \* what is buffered
    log,        \* the records of the write-ahead log
    status,     \* "open", or "failed" when the log could not be replayed
    search,     \* what each searcher is doing
    budget,     \* the Budget the searchers share
    writes,     \* writes so far
    begun,      \* searches so far
    docs,       \* ghost: the documents that were written and not deleted
    granted,    \* ghost: rows considered by the searches that were answered
    diverged    \* ghost: a log with a deletion of an id of the other kind was replayed

store == <<segments, memtable, log, status, docs, diverged>>
vars == <<store, search, budget, writes, begun, granted>>

NoRequest == [vector |-> <<>>, metric |-> "dot", top_k |-> 0, filter |-> {}, min_score |-> {}]
Idle == [pc |-> "idle", req |-> NoRequest, at |-> 0, heap |-> {}, considered |-> 0, since |-> 0,
         hits |-> <<>>, late |-> 0]

Init ==
    /\ segments = <<>>
    /\ memtable = EmptyMemtable
    /\ log = <<>>
    /\ status = "open"
    /\ search = [s \in Searchers |-> Idle]
    /\ budget \in {[cancelled |-> FALSE, scanned |-> 0, max |-> max] : max \in Ceilings}
    /\ writes = 0
    /\ begun = 0
    /\ docs = {}
    /\ granted = 0
    /\ diverged = FALSE

(***************************************************************************)
(* Writes: under the write lock, so with no search under way.              *)
(***************************************************************************)
Writing ==
    /\ status = "open"
    /\ \A s \in Searchers : search[s].pc = "idle"
    /\ writes < MaxWrites
    /\ writes' = writes + 1
    /\ UNCHANGED <<search, budget, begun, granted>>

\* Seeded fault: a path that forgets to check the id.
AcceptsAnyId(doc, batch) ==
    /\ ValidVector(doc.vector)
    /\ \A m \in doc.meta : ValidMetadata(m)
    /\ batch \/ \A n \in doc.content : n <= MaxContentBytes

\* DocumentInput::validate, and validate_op for a batch, which has no check of the content.
Accepts(doc, batch) ==
    /\ ValidId(doc.id)
    /\ ValidVector(doc.vector)
    /\ \A m \in doc.meta : ValidMetadata(m)
    /\ batch \/ \A n \in doc.content : n <= MaxContentBytes

\* insert, upsert or an operation of a batch: checked, logged, then buffered.
Write ==
    /\ Writing
    /\ \E doc \in Inputs, batch \in BOOLEAN :
        /\ Accepts(doc, batch)
        /\ \E bytes \in StoredMeta(doc.meta) : log' = Append(log, PutRecord(doc, bytes))
        /\ memtable' = Put(memtable, doc)
        /\ docs' = {d \in docs : d.id # doc.id} \cup {doc}
    /\ UNCHANGED <<segments, status, diverged>>

\* delete logs and buffers whatever id it is given; a batch checks the id first.
Erase ==
    /\ Writing
    /\ \E id \in Deletes, batch \in BOOLEAN :
        /\ batch => ValidId(id)
        /\ log' = Append(log, DeleteRecord(id))
        /\ memtable' = Delete(memtable, id)
        /\ docs' = {d \in docs : d.id # id}
    /\ UNCHANGED <<segments, status, diverged>>

\* The rows of a new segment: metadata in its encoded form.
FlushedRows ==
    [i \in DOMAIN memtable.rows |->
        [id |-> memtable.rows[i].id, vector |-> memtable.rows[i].vector, live |-> TRUE,
         meta |-> UNION {Encoded(m) : m \in memtable.rows[i].meta},
         content |-> memtable.rows[i].content]]

\* What a flush supersedes is dead from then on.
Superseded(rows) ==
    [i \in DOMAIN rows |-> [rows[i] EXCEPT !.live = @ /\ ~Holds(memtable, rows[i].id)]]

Flush ==
    /\ Writing
    /\ memtable # EmptyMemtable
    /\ segments' = [i \in DOMAIN segments |-> Superseded(segments[i])]
                   \o (IF FlushedRows = <<>> THEN <<>> ELSE <<FlushedRows>>)
    /\ memtable' = EmptyMemtable
    /\ log' = <<>>
    /\ UNCHANGED <<status, docs, diverged>>

\* A delete of an id of the other kind is in the log: its bytes mean another id, or none.
ForeignDelete == \E id \in Deletes : ~ValidId(id) /\ Contains(log, DeleteRecord(id))

\* The process ends and the collection is opened: the log is replayed, or open fails.
Reopen ==
    /\ Writing
    /\ IF Replay(log) = {}
       THEN status' = "failed" /\ UNCHANGED memtable
       ELSE memtable' \in Replay(log) /\ UNCHANGED status
    /\ diverged' = (diverged \/ ForeignDelete)
    /\ UNCHANGED <<segments, log, docs>>

(***************************************************************************)
(* The rows of a search: CollectionSource.                                 *)
(***************************************************************************)
\* RowId: segment then row; the memtable's rows come last.
RowLess(r, q) == r[1] < q[1] \/ (r[1] = q[1] /\ r[2] < q[2])

MemtableSegment == Len(segments) + 1

StoredRow(r) == segments[r[1]][r[2]]

LiveRows ==
    {r \in UNION {{i} \X DOMAIN segments[i] : i \in DOMAIN segments} : StoredRow(r).live}

\* Seeded fault: a deletion in the memtable does not hide the row under it.
VisibleUnhidden ==
    {r \in LiveRows : \A i \in DOMAIN memtable.rows : memtable.rows[i].id # StoredRow(r).id}

\* Neither dead rows nor rows the memtable has the last word on.
Visible == {r \in LiveRows : ~ Holds(memtable, StoredRow(r).id)}

\* Rows of segments as a list, segment by segment.
InRowOrder(S) ==
    CHOOSE f \in [1..Cardinality(S) -> S] :
        \A i, j \in 1..Cardinality(S) : i < j => RowLess(f[i], f[j])

SegmentRow(r) ==
    [row |-> r, id |-> StoredRow(r).id, vector |-> StoredRow(r).vector, live |-> TRUE,
     fields |-> RowFields({}, StoredRow(r).meta)]

MemtableRow(i) ==
    [row |-> <<MemtableSegment, i>>, id |-> memtable.rows[i].id,
     vector |-> memtable.rows[i].vector, live |-> TRUE,
     fields |-> RowFields(memtable.rows[i].meta, {})]

\* for_each: the visible rows of the segments, then the memtable's.
SourceRows ==
    LET order == InRowOrder(Visible)
    IN  [k \in DOMAIN order |-> SegmentRow(order[k])]
        \o [i \in DOMAIN memtable.rows |-> MemtableRow(i)]

(***************************************************************************)
(* Scoring and selection.                                                  *)
(***************************************************************************)
Sign(n) == IF n > 0 THEN 1 ELSE IF n < 0 THEN -1 ELSE 0

\* Higher is better for every metric; a zero vector has no direction and scores 0.
Score(metric, q, x) ==
    LET a == Number(q[1])  b == Number(x[1])
    IN  CASE metric = "cosine" -> Sign(a) * Sign(b)
          [] metric = "dot" -> a * b
          [] metric = "l2" -> -((a - b) * (a - b))

\* Worst: a ranks after b, by score and then by row.
Worse(a, b) == a.score < b.score \/ (a.score = b.score /\ RowLess(b.row, a.row))

WorstOf(heap) == CHOOSE w \in heap : \A c \in heap \ {w} : Worse(w, c)

\* TopK::offer: fill up to k, then replace the worst by what ranks before it.
Offer(heap, k, min_score, c) ==
    IF \E m \in min_score : c.score < m THEN heap
    ELSE IF Cardinality(heap) < k THEN heap \cup {c}
    ELSE IF Worse(WorstOf(heap), c) THEN (heap \ {WorstOf(heap)}) \cup {c}
    ELSE heap

\* Score descending, then id ascending.
Better(a, b) == a.score > b.score \/ (a.score = b.score /\ IdLess(a.id, b.id))

\* into_sorted and the last sort of the hits.
Ranked(heap) ==
    LET hits == {[id |-> c.id, score |-> c.score] : c \in heap}
    IN  CHOOSE f \in [1..Cardinality(hits) -> hits] :
            \A i, j \in 1..Cardinality(hits) : i < j => Better(f[i], f[j])

(***************************************************************************)
(* The budget.                                                             *)
(***************************************************************************)
Cancel ==
    /\ ~budget.cancelled
    /\ budget' = [budget EXCEPT !.cancelled = TRUE]
    /\ UNCHANGED <<store, search, writes, begun, granted>>

Charged(n) == [budget EXCEPT !.scanned = @ + n]

\* Seeded fault: a search is refused for its own rows only.
RefusesOwn(n) == budget.cancelled \/ \E max \in budget.max : n > max

\* Budget::charge fails: cancelled, or more charged by everyone than the ceiling.
Refuses(n) == budget.cancelled \/ \E max \in budget.max : budget.scanned + n > max

(***************************************************************************)
(* A search, from its checks to its answer.                                *)
(***************************************************************************)
\* check_top_k, check_dimension, check_finite and the filter's own check.
Refused(req) ==
    \/ req.top_k \notin 1..MaxTopK
    \/ ~ValidVector(req.vector)
    \/ \E f \in req.filter : ~FilterValid(f)

\* A request that is refused changes nothing; any other takes the read lock.
Begin(s) ==
    /\ status = "open"
    /\ search[s].pc = "idle"
    /\ begun < MaxSearches
    /\ \E req \in Requests :
        /\ ~Refused(req)
        /\ search' = [search EXCEPT ![s] = [Idle EXCEPT !.pc = "scan", !.req = req, !.at = 1]]
    /\ begun' = begun + 1
    /\ UNCHANGED <<store, budget, writes, granted>>

\* SearchCtx::admits: a live row whose metadata the filter matches.
Admits(req, row) == row.live /\ \A f \in req.filter : FilterMatches(f, row.fields)

\* Record progress once a stride is full.
Checkpoint(s, next) ==
    IF next.since < BudgetStride
    THEN search' = [search EXCEPT ![s] = next] /\ UNCHANGED budget
    ELSE /\ budget' = Charged(next.since)
         /\ search' = [search EXCEPT ![s] =
                          IF Refuses(next.since) THEN [Idle EXCEPT !.pc = "cancelled"]
                          ELSE [next EXCEPT !.since = 0]]

\* The visitor of ExactScan and FlatIndex, on one row.
Visit(s) ==
    LET my == search[s]
        row == SourceRows[my.at]
        candidate == [row |-> row.row, id |-> row.id,
                      score |-> Score(my.req.metric, my.req.vector, row.vector)]
    IN  /\ my.pc = "scan" /\ my.at <= Len(SourceRows)
        /\ IF Admits(my.req, row)
           THEN Checkpoint(s, [my EXCEPT !.at = @ + 1,
                                         !.heap = Offer(@, my.req.top_k, my.req.min_score, candidate),
                                         !.considered = @ + 1,
                                         !.since = @ + 1,
                                         !.late = IF budget.cancelled THEN @ + 1 ELSE @])
           ELSE search' = [search EXCEPT ![s].at = @ + 1] /\ UNCHANGED budget
        /\ UNCHANGED <<store, writes, begun, granted>>

\* Seeded fault: nothing is charged, and nothing checked, when the last stride is empty.
FinishUncharged(s) ==
    LET my == search[s]
        cancelled == my.since > 0 /\ Refuses(my.since)
    IN  /\ my.pc = "scan" /\ my.at > Len(SourceRows)
        /\ budget' = Charged(my.since)
        /\ search' = [search EXCEPT ![s] =
                        IF cancelled THEN [Idle EXCEPT !.pc = "cancelled"]
                        ELSE [Idle EXCEPT !.pc = "answered", !.req = my.req, !.late = my.late,
                                          !.hits = Ranked(my.heap)]]
        /\ granted' = IF cancelled THEN granted ELSE granted + my.considered
        /\ UNCHANGED <<store, writes, begun>>

\* The last charge, and the hits.  Putting them together reads the heap of this
\* search and rows that its read lock keeps as they are, and no longer looks at the
\* budget: no step of another thread can tell it from the charge.
Finish(s) ==
    LET my == search[s]
        cancelled == Refuses(my.since)
    IN  /\ my.pc = "scan" /\ my.at > Len(SourceRows)
        /\ budget' = Charged(my.since)
        /\ search' = [search EXCEPT ![s] =
                        IF cancelled THEN [Idle EXCEPT !.pc = "cancelled"]
                        ELSE [Idle EXCEPT !.pc = "answered", !.req = my.req, !.late = my.late,
                                          !.hits = Ranked(my.heap)]]
        /\ granted' = IF cancelled THEN granted ELSE granted + my.considered
        /\ UNCHANGED <<store, writes, begun>>

Return(s) ==
    /\ search[s].pc \in {"answered", "cancelled"}
    /\ search' = [search EXCEPT ![s] = Idle]
    /\ UNCHANGED <<store, budget, writes, begun, granted>>

Next ==
    \/ Write \/ Erase \/ Flush \/ Reopen \/ Cancel
    \/ \E s \in Searchers : Begin(s) \/ Visit(s) \/ Finish(s) \/ Return(s)

Spec == Init /\ [][Next]_vars

-----------------------------------------------------------------------------
\* Every document that matches a request, with its score: read off the documents.
Wanted(req) ==
    {h \in {[id |-> d.id, score |-> Score(req.metric, req.vector, d.vector)] :
              d \in {x \in docs : \A f \in req.filter : FilterMatches(f, RowFields(x.meta, {}))}} :
        \A m \in req.min_score : h.score >= m}

\* An answer is the top_k best of the documents that match, whichever are buffered, flushed,
\* superseded or indexed: Collection::search over CollectionSource, the filter read from
\* decoded or from encoded metadata, and TopK.
AnswerExact ==
    \A s \in {x \in Searchers : search[x].pc = "answered" /\ ~diverged} :
        \A wanted \in {Wanted(search[s].req)}, hits \in {search[s].hits} :
            /\ ToSet(hits) \subseteq wanted
            /\ Len(hits) = IF Cardinality(wanted) < search[s].req.top_k THEN Cardinality(wanted)
                           ELSE search[s].req.top_k
            /\ \A h \in wanted \ ToSet(hits) : \A i \in DOMAIN hits : hits[i].score >= h.score
            /\ \A i, j \in DOMAIN hits : i < j =>
                  Better(hits[i], hits[j])

\* A search that had not answered when its budget was cancelled never answers: it is
\* refused by the time it has scored a stride of rows more (Budget::charge, from the scan and after it).
CancelStops ==
    [][\A s \in Searchers :
        /\ budget.cancelled /\ search[s].pc = "scan" => search'[s].pc # "answered"
        /\ search'[s].late < BudgetStride]_vars

\* The searches that share a budget and were answered considered no more rows between them
\* than its ceiling (Budget::charge).
CeilingShared == \A max \in budget.max : granted <= max

\* What is buffered is what replaying the log gives, ids, metadata and order included, unless
\* an id of the other kind was deleted (apply_put, delete, replay_into).
LogRebuilds == ~ForeignDelete /\ ~diverged => Replay(log) = {memtable}

\* "Deleting an absent document is a no-op, not an error" (Collection::delete): the log of
\* writes that were accepted can always be replayed.
AlwaysReplays == status = "open"
=============================================================================
