------------------------------- MODULE HnswIndex -------------------------------
(***************************************************************************)
(* The graph index of a database: one HnswIndex behind a lock, shared by   *)
(* the searches of every collection, and one snapshot file per collection. *)
(*                                                                         *)
(* A search holds its collection's read lock from the moment it lists the  *)
(* rows until it returns; the graph's own lock is taken three times in     *)
(* between (to check, to replace, to search), so searches of different     *)
(* collections or metrics meet in it.                                      *)
(*                                                                         *)
(* A vector is the number of the write that stored it.  A graph is the     *)
(* list of its nodes, each with the row it stands for and the vector that  *)
(* was copied in; which nodes a traversal finds is left open.  The code    *)
(* tells the graph of one collection from that of another by its metric,   *)
(* its dimension and its number of rows alone: the ghost of says whose     *)
(* rows it really has.                                                     *)
(***************************************************************************)
EXTENDS Naturals, Sequences, FiniteSets, SequencesExt

CONSTANTS
    Collections,
    Docs,
    Threads,
    Metrics,       \* collection -> the metrics its searches ask for
    Dimension,     \* collection -> the dimension of its vectors
    Writes,        \* which of "insert", "replace", "delete", "flush", "compact"
    TopK,          \* how many results a search asks for
    MaxWrites      \* bound on the writes of a behaviour

ASSUME TopKAssumption == TopK \in Nat \ {0}
ASSUME WritesAssumption ==
    Writes \subseteq {"insert", "replace", "delete", "flush", "compact"}

VARIABLES
    coll,        \* collection -> its segments and its memtable
    graph,       \* the shared graph
    snapshot,    \* collection -> the file of its index snapshot
    thread,      \* thread -> the search it runs
    writes,      \* how many writes there have been
    moved        \* ghost: rows were replaced, deleted, flushed or compacted
                 \* since the index was created

vars == <<coll, graph, snapshot, thread, writes, moved>>

NoMetric == "none"

\* Graph::default(): no nodes, no metric.  Ghost: the rows of no collection.
EmptyGraph == [metric |-> NoMetric, dimension |-> 0, nodes |-> <<>>, of |-> {}]

\* A snapshot file that does not open: missing, cut off, or of other contents.
NoSnapshot == [metric |-> NoMetric, dimension |-> 0, rows |-> <<>>]

Idle == [pc |-> "idle", coll |-> CHOOSE c \in Collections : TRUE,
         metric |-> NoMetric, made |-> EmptyGraph, alone |-> FALSE,
         misled |-> FALSE, hits |-> {}]

Memtable == 0    \* MEMTABLE_SEGMENT; the segments are numbered from 1

-------------------------------------------------------------------------------
(* The rows of a collection x, as CollectionSource presents them.  A row is  *)
(* addressed by its segment and its place there.                             *)

\* A document the memtable holds a row or a tombstone for.
Shadowed(x, d) == d \in x.deleted \/ \E i \in DOMAIN x.memtable : x.memtable[i].doc = d

Stored(x, r) == x.segments[r[1]][r[2]]

LiveRows(x) ==
    {r \in UNION {{s} \X DOMAIN x.segments[s] : s \in DOMAIN x.segments} : Stored(x, r).live}

Visible(x) == {r \in LiveRows(x) : ~Shadowed(x, Stored(x, r).doc)}

Before(r, q) == r[1] < q[1] \/ (r[1] = q[1] /\ r[2] < q[2])

\* Rows of segments as a list, segment by segment.
InRowOrder(S) ==
    CHOOSE f \in [1..Cardinality(S) -> S] :
        \A i, j \in 1..Cardinality(S) : i < j => Before(f[i], f[j])

\* CollectionSource::for_each: segment by segment, then the memtable.
SourceRows(x) ==
    LET order == InRowOrder(Visible(x))
    IN  [k \in DOMAIN order |-> [row |-> order[k], vector |-> Stored(x, order[k]).vector]]
        \o [i \in DOMAIN x.memtable |->
              [row |-> <<Memtable, i>>, vector |-> x.memtable[i].vector]]

\* CollectionSource as a LiveSet: a segment row is live whatever the memtable
\* says of its document.
IsLive(x, row) ==
    IF row[1] = Memtable THEN row[2] <= Len(x.memtable) ELSE row \in LiveRows(x)

\* CollectionSource::doc_id, for a row that is live.
DocId(x, row) ==
    IF row[1] = Memtable THEN x.memtable[row[2]].doc ELSE Stored(x, row).doc

\* What the collection holds: each document with its vector.
Held(x) ==
    {[doc |-> DocId(x, n.row), vector |-> n.vector] : n \in ToSet(SourceRows(x))}

-------------------------------------------------------------------------------
(* What the graph and the snapshot are checked for. *)

\* Graph::is_valid_for
IsValidFor(g, c, m) ==
    /\ g.metric = m
    /\ g.dimension = Dimension[c]
    /\ Len(g.nodes) = Len(SourceRows(coll[c]))

RowsOf(nodes) == [i \in DOMAIN nodes |-> nodes[i].row]

\* Graph::is_prefix_of
IsPrefixOf(g, c, m) ==
    /\ g.metric = m
    /\ g.dimension = Dimension[c]
    /\ IsPrefix(RowsOf(g.nodes), RowsOf(SourceRows(coll[c])))

\* build_from: the graph of the rows as they are now.
BuildFrom(c, m) ==
    [metric |-> m, dimension |-> Dimension[c], nodes |-> SourceRows(coll[c]), of |-> {c}]

\* extend: the rows past the ones the graph has are added.
Extend(g, c) ==
    LET source == SourceRows(coll[c])
    IN  [g EXCEPT !.nodes = @ \o SubSeq(source, Len(g.nodes) + 1, Len(source)),
                  !.of = @ \cup {c}]

\* snapshot::encode: the structure and the rows, not the vectors.
Encode(g) ==
    [metric |-> g.metric, dimension |-> g.dimension, rows |-> RowsOf(g.nodes)]

\* decode_header and decode: the snapshot is of this metric and dimension and
\* its rows are the source's, one by one.
Matches(s, c, m) ==
    /\ s.metric = m
    /\ s.dimension = Dimension[c]
    /\ s.rows = RowsOf(SourceRows(coll[c]))

\* snapshot::decode takes the vectors from the source.
Decode(s, c) ==
    [metric |-> s.metric, dimension |-> s.dimension,
     nodes |-> SubSeq(SourceRows(coll[c]), 1, Len(s.rows)), of |-> {c}]

-------------------------------------------------------------------------------
Row == [doc : Docs, vector : 0..MaxWrites]

TypeOK ==
    /\ \A c \in Collections :
         /\ \A i \in DOMAIN coll[c].memtable : coll[c].memtable[i] \in Row
         /\ coll[c].deleted \subseteq Docs
    /\ graph.metric \in (UNION Range(Metrics)) \cup {NoMetric}
    /\ Len(graph.nodes) <= Cardinality(Docs)
    /\ \A i \in DOMAIN graph.nodes : graph.nodes[i].vector \in 0..MaxWrites
    /\ \A c \in Collections : snapshot[c].metric \in Metrics[c] \cup {NoMetric}
    /\ graph.of \subseteq Collections
    /\ writes \in 0..MaxWrites
    /\ moved \in BOOLEAN

Init ==
    /\ coll = [c \in Collections |->
                 [segments |-> <<>>, memtable |-> <<>>, deleted |-> {}]]
    /\ graph = EmptyGraph
    /\ snapshot = [c \in Collections |-> NoSnapshot]
    /\ thread = [t \in Threads |-> Idle]
    /\ writes = 0
    /\ moved = FALSE

\* No search holds the collection's read lock.
Unread(c) == \A t \in Threads : thread[t].pc # "idle" => thread[t].coll # c

Present(c, d) == \E h \in Held(coll[c]) : h.doc = d

\* The rows of a memtable without that of document d.
Without(rows, d) ==
    LET at == {i \in DOMAIN rows : rows[i].doc = d}
    IN  IF at = {} THEN rows ELSE RemoveAt(rows, CHOOSE i \in at : TRUE)

\* Memtable::put_view: a new row at the end, the one it replaces no longer live.
Put(c, d) ==
    coll' = [coll EXCEPT
               ![c].memtable = Append(Without(@, d), [doc |-> d, vector |-> writes + 1]),
               ![c].deleted = @ \ {d}]

Write(kind, c) ==
    /\ kind \in Writes
    /\ Unread(c)
    /\ writes < MaxWrites
    /\ writes' = writes + 1
    /\ moved' = (moved \/ kind # "insert")
    /\ UNCHANGED <<graph, snapshot, thread>>

Insert(c, d) ==
    /\ Write("insert", c)
    /\ ~Present(c, d)
    /\ Put(c, d)

Replace(c, d) ==
    /\ Write("replace", c)
    /\ Present(c, d)
    /\ Put(c, d)

\* Memtable::delete
Delete(c, d) ==
    /\ Write("delete", c)
    /\ Present(c, d)
    /\ coll' = [coll EXCEPT
                  ![c].memtable = Without(@, d),
                  ![c].deleted = @ \cup {d}]

\* do_flush: shadowed rows die, the live rows of the memtable become a segment.
Flush(c) ==
    /\ Write("flush", c)
    /\ coll[c].memtable # <<>> \/ coll[c].deleted # {}
    /\ LET kill(seg) == [i \in DOMAIN seg |->
                           [seg[i] EXCEPT !.live = @ /\ ~Shadowed(coll[c], seg[i].doc)]]
           old == [s \in DOMAIN coll[c].segments |-> kill(coll[c].segments[s])]
           new == [i \in DOMAIN coll[c].memtable |->
                     [doc |-> coll[c].memtable[i].doc, vector |-> coll[c].memtable[i].vector,
                      live |-> TRUE]]
       IN  coll' = [coll EXCEPT ![c] =
                      [segments |-> IF new = <<>> THEN old ELSE Append(old, new),
                       memtable |-> <<>>, deleted |-> {}]]

\* Collection::compact: the segments are merged into one without the dead rows.
Compact(c) ==
    /\ Write("compact", c)
    /\ coll[c].segments # <<>>
    /\ LET order == InRowOrder(LiveRows(coll[c]))
           live  == [k \in DOMAIN order |-> Stored(coll[c], order[k])]
       IN  coll' = [coll EXCEPT ![c].segments =
                      IF live = <<>> THEN <<>> ELSE <<live>>]

-------------------------------------------------------------------------------
(* One search: prepare, then search. *)

\* Thread t goes on to r; no other search has run alone from here on.
Becomes(t, r) ==
    thread' = [u \in Threads |->
                 IF u = t THEN r ELSE [thread[u] EXCEPT !.alone = FALSE]]

\* Thread t goes on to pc with nothing of its own in hand.
Goes(t, pc) == Becomes(t, [thread[t] EXCEPT !.pc = pc, !.made = EmptyGraph])

\* search_with_budget takes the collection's read lock and lists its rows.
Begin(t, c, m) ==
    /\ thread[t].pc = "idle"
    /\ Becomes(t, [Idle EXCEPT !.pc = "check", !.coll = c, !.metric = m,
                     !.alone = \A v \in Threads \ {t} : thread[v].pc = "idle"])
    /\ UNCHANGED <<coll, graph, snapshot, writes, moved>>

Coll(t) == thread[t].coll
Metric(t) == thread[t].metric
Made(t) == thread[t].made

\* prepare under the read lock: a graph of as many rows needs no work.
Check(t) ==
    /\ thread[t].pc = "check"
    /\ Goes(t, IF IsValidFor(graph, Coll(t), Metric(t)) THEN "search" ELSE "load")
    /\ UNCHANGED <<coll, graph, snapshot, writes, moved>>

\* prepare reads the snapshot slot; what it cannot use is no snapshot.
Load(t) ==
    /\ thread[t].pc = "load"
    /\ LET s == snapshot[Coll(t)] IN
         IF Matches(s, Coll(t), Metric(t))
         THEN Becomes(t, [thread[t] EXCEPT !.pc = "install",
                                           !.made = Decode(s, Coll(t))])
         ELSE Goes(t, "extend")
    /\ UNCHANGED <<coll, graph, snapshot, writes, moved>>

\* The graph has the first rows of the source.
Extends(t) == graph.nodes # <<>> /\ IsPrefixOf(graph, Coll(t), Metric(t))

\* prepare under the write lock, without a snapshot: another search may have
\* done the work, or the graph has the first rows and gets the rest.
ExtendGraph(t) ==
    /\ thread[t].pc = "extend"
    /\ \/ /\ IsValidFor(graph, Coll(t), Metric(t))
          /\ Goes(t, "search")
          /\ UNCHANGED graph
       \/ /\ ~IsValidFor(graph, Coll(t), Metric(t))
          /\ Extends(t)
          /\ graph' = Extend(graph, Coll(t))
          /\ Becomes(t, [thread[t] EXCEPT !.pc = "store", !.made = graph'])
       \/ /\ ~IsValidFor(graph, Coll(t), Metric(t))
          /\ ~Extends(t)
          /\ Becomes(t, [thread[t] EXCEPT !.pc = "store_new",
                                         !.made = BuildFrom(Coll(t), Metric(t))])
          /\ UNCHANGED graph
    /\ UNCHANGED <<coll, snapshot, writes, moved>>

\* StoredSnapshots::store truncates the slot, writes it and syncs it, without a
\* lock.  Its errors are ignored, and two stores may overwrite each other: what
\* is left is the snapshot, or a file that does not open.
Store(t) ==
    /\ \/ /\ thread[t].pc = "store"
          /\ Goes(t, "search")
       \/ /\ thread[t].pc = "store_new"
          /\ Becomes(t, [thread[t] EXCEPT !.pc = "install"])
    /\ \E s \in {Encode(Made(t)), NoSnapshot} :
         snapshot' = [snapshot EXCEPT ![Coll(t)] = s]
    /\ UNCHANGED <<coll, graph, writes, moved>>

\* Seeded fault: a graph in place is never replaced.
KeepAny(t) == graph.nodes # <<>>

\* The graph in place is kept when it has the rows, or more of them.
KeepExisting(t) ==
    \/ IsValidFor(graph, Coll(t), Metric(t))
    \/ /\ graph.metric = Metric(t)
       /\ graph.dimension = Dimension[Coll(t)]
       /\ Len(graph.nodes) > Len(Made(t).nodes)

\* The end of prepare, under the write lock.
Install(t) ==
    /\ thread[t].pc = "install"
    /\ Goes(t, "search")
    /\ graph' = IF KeepExisting(t) THEN graph ELSE Made(t)
    /\ UNCHANGED <<coll, snapshot, writes, moved>>

\* Seeded fault: what prepare left is not checked again.
UsableUnchecked(t) == graph.nodes # <<>>

\* search checks the graph again: the lock was released after prepare.
Usable(t) ==
    /\ graph.nodes # <<>>
    /\ Len(graph.nodes) = Len(SourceRows(coll[Coll(t)]))
    /\ graph.metric = Metric(t)
    /\ graph.dimension = Dimension[Coll(t)]

Least(a, b) == IF a < b THEN a ELSE b

Admitted(c, found) == {n \in found : IsLive(coll[c], n.row)}

\* What may become of the rows offered to TopK: the documents of the best ones.
\* Which are the best depends on the query.
Best(c, nodes) ==
    {{[doc |-> DocId(coll[c], n.row), vector |-> n.vector] : n \in best} :
       best \in {b \in SUBSET nodes :
                   Cardinality(b) = Least(TopK, Cardinality(nodes))}}

\* fallback: the exact scan offers the rows of the source.
Scanned(c) == Best(c, ToSet(SourceRows(coll[c])))

\* The outcomes of a graph search that found these nodes: the live ones are
\* offered, unless they are too few and the traversal missed some node.
Found(c, found) ==
    IF /\ Cardinality(Admitted(c, found)) < TopK
       /\ Cardinality(found) < Len(graph.nodes)
    THEN Scanned(c)
    ELSE Best(c, Admitted(c, found))

Answers(t) ==
    IF Usable(t)
    THEN UNION {Found(Coll(t), found) :
                  found \in (SUBSET ToSet(graph.nodes)) \ {{}}}
    ELSE Scanned(Coll(t))

\* Ghost: the graph has rows of another collection, and passes for one of this
\* collection and this metric.
Mistakable(t) ==
    /\ graph.of # {Coll(t)}
    /\ graph.metric = Metric(t)
    /\ graph.dimension = Dimension[Coll(t)]

\* Ghost: it has as many rows, too.
Mistaken(t) == Mistakable(t) /\ Len(graph.nodes) = Len(SourceRows(coll[Coll(t)]))

\* search, under the read lock of the graph.
Search(t) ==
    /\ thread[t].pc = "search"
    /\ \E hits \in Answers(t) :
         Becomes(t, [thread[t] EXCEPT !.pc = "done", !.hits = hits,
                                      !.misled = Mistaken(t)])
    /\ UNCHANGED <<coll, graph, snapshot, writes, moved>>

\* The response is returned and the collection's lock released.
Return(t) ==
    /\ thread[t].pc = "done"
    /\ thread' = [thread EXCEPT ![t] = Idle]
    /\ UNCHANGED <<coll, graph, snapshot, writes, moved>>

\* The database is closed or dies and is opened again: the graph is gone, the
\* memtable is replayed in the order of its writes.
Reopen ==
    /\ graph # EmptyGraph
    /\ graph' = EmptyGraph
    /\ thread' = [t \in Threads |-> Idle]
    /\ moved' = FALSE
    /\ UNCHANGED <<coll, snapshot, writes>>

Next ==
    \/ \E c \in Collections, d \in Docs :
         Insert(c, d) \/ Replace(c, d) \/ Delete(c, d)
    \/ \E c \in Collections : Flush(c) \/ Compact(c)
    \/ \E t \in Threads, c \in Collections : \E m \in Metrics[c] : Begin(t, c, m)
    \/ \E t \in Threads :
         \/ Check(t) \/ Load(t) \/ ExtendGraph(t) \/ Store(t) \/ Install(t)
         \/ Search(t) \/ Return(t)
    \/ Reopen

Spec == Init /\ [][Next]_vars

-------------------------------------------------------------------------------
\* A search returns as many documents as were asked for, or all there are, each
\* scored by the vector it has now.
Right(t) ==
    /\ thread[t].hits \subseteq Held(coll[Coll(t)])
    /\ Cardinality(thread[t].hits) = Least(TopK, Cardinality(Held(coll[Coll(t)])))

\* Every search returns current documents with current scores, as search.rs
\* says of a stale graph ("a licence to return slightly worse results, not
\* wrong ones").
AnswersCurrent == \A t \in Threads : thread[t].pc = "done" => Right(t)

\* As long as rows are only added after the index was created, every search
\* returns current documents with current scores, whatever other searches did
\* to the shared graph between its prepare and its search, and whatever rows
\* the snapshot it was restored from had been taken of; except where the graph
\* has rows of another collection, and the two have the metric, the dimension and
\* the number of rows in common, which is all the code compares.
RightUntilRowsMove ==
    \A t \in Threads :
        (thread[t].pc = "done" /\ ~moved /\ ~thread[t].misled) => Right(t)

\* Until then, a prepare that no other search interferes with leaves a graph the
\* search that follows can use, and it is not built anew before every search;
\* except where a graph with rows of another collection of that metric and
\* dimension is in its place.
PreparedIsUsable ==
    \A t \in Threads :
        (/\ thread[t].pc = "search" /\ thread[t].alone /\ ~moved
         /\ SourceRows(coll[Coll(t)]) # <<>>) => Usable(t) \/ Mistakable(t)

===============================================================================
