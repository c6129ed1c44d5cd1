------------------------------- MODULE Engine -------------------------------
(***************************************************************************)
(* The database API of isha-vector-db-core as its callers see it: one      *)
(* operator for each operation, from an engine and a call to an outcome.   *)
(* What an operation does on storage, step by step and under failures, is  *)
(* the subject of Database and Collection; here it either takes effect or  *)
(* reports an error.  An engine is                                         *)
(*    made   whether the directory holds a database;                       *)
(*    coll   its collections: nothing or one for each name;                *)
(*    lock   the instance that holds the lock file, if any;                *)
(*    inst   every instance: its mode, whether it is closed and its        *)
(*           registry of collections.                                      *)
(***************************************************************************)
EXTENDS Integers, Sequences, SequencesExt, FiniteSets

CONSTANTS
    Instances,          \* database handles, one for each successful open
    Names,              \* collection names
    BadNames,           \* the names that are empty, too long or not portable
    Ids,                \* document ids
    MaxDimension,       \* MAX_DIMENSION
    MaxResults,         \* MAX_TOP_K
    FilterValid(_),     \* Filter::validate
    FilterMatches(_, _) \* matches: a filter on a document's metadata

ASSUME EngineAssumption ==
    /\ BadNames \subseteq Names
    /\ MaxDimension \in Nat \ {0} /\ MaxResults \in Nat \ {0}

\* The codes of the errors a call of this interface can meet.
Code == [InvalidField |-> 1002, DatabaseAlreadyOpen |-> 2001, DatabaseNotFound |-> 2002,
         DatabaseClosed |-> 2003, ReadOnly |-> 2004, CollectionNotFound |-> 3001,
         CollectionExists |-> 4001, InvalidVectorDimension |-> 4003, InvalidDocumentId |-> 4005,
         InvalidCollectionName |-> 4006, TopKOutOfRange |-> 4009, FilterTooComplex |-> 4010,
         InvalidDimension |-> 4013, StorageIo |-> 5001]

Outcome(error, e, answer) == [error |-> error, e |-> e, answer |-> answer]
Done(e) == Outcome("none", e, {})
Answer(e, answer) == Outcome("none", e, answer)
Fail(error, e) == Outcome(error, e, {})

\* The first error of a list of checks, each a condition and the error it raises.
FirstError(checks) ==
    LET failed == {i \in DOMAIN checks : checks[i][1]}
    IN  IF failed = {} THEN "none" ELSE checks[Min(failed)][2]

CheckOpen(e, d) == <<e.inst[d].closed, "DatabaseClosed">>
CheckWritable(e, d) == <<e.inst[d].mode = "ro", "ReadOnly">>
\* A storage operation the call needs fails.
StorageFails(c) == <<~c.io, "StorageIo">>

(***************************************************************************)
(* The database.                                                           *)
(***************************************************************************)
\* DatabaseConfig::validate.
CheckConfig(c) == <<c.read_only /\ c.create, "InvalidField">>

\* A handle that only reads takes no lock and makes nothing.
OpenWithIndex(e, d, c) ==
    LET error == FirstError(<<CheckConfig(c),
                              <<~c.read_only /\ e.lock # {}, "DatabaseAlreadyOpen">>,
                              <<~e.made /\ ~c.create, "DatabaseNotFound">>,
                              StorageFails(c)>>)
    IN  IF error # "none" THEN Fail(error, e)
        ELSE Done([e EXCEPT !.made = TRUE,
                            !.lock = IF c.read_only THEN @ ELSE {d},
                            !.inst[d] = [mode |-> IF c.read_only THEN "ro" ELSE "rw",
                                         closed |-> FALSE, reg |-> e.coll]])

\* Every collection is flushed; a handle that only reads has nothing to flush.
FlushDatabase(e, d, c) ==
    LET error == FirstError(<<CheckOpen(e, d), <<e.inst[d].mode = "rw" /\ ~c.io, "StorageIo">>>>)
    IN  IF error # "none" THEN Fail(error, e) ELSE Done(e)

\* Seeded fault: a flush that fails ends close before the lock is given up.
CloseAfterFlush(e, d, c) ==
    LET flushed == FlushDatabase(e, d, c)
    IN  IF flushed.error # "none" THEN flushed
        ELSE Done([e EXCEPT !.inst[d].closed = TRUE, !.lock = @ \ {d}])

\* close: closed and unlocked whether or not the last flush succeeds.
Close(e, d, c) ==
    LET flushed == FlushDatabase(e, d, c)
    IN  Outcome(flushed.error, [e EXCEPT !.inst[d].closed = TRUE, !.lock = @ \ {d}], {})

\* Several instances are closed one after the other: each gives up what is its own.
CloseEach(e, D, c) ==
    [e EXCEPT !.lock = {x \in @ : \A d \in D : x \in Close(e, d, c).e.lock},
              !.inst = [d \in Instances |-> IF d \in D THEN Close(e, d, c).e.inst[d] ELSE @[d]]]

CollectionExists(e, d, name) == e.inst[d].reg[name] # {}

\* CollectionSpec::new, with_u64_ids.
SpecOf(c) == [dim |-> c.dim, metric |-> c.metric, ids |-> c.ids]

\* CollectionSpec::validate with check_collection_name and check_dimension.
CheckName(c) == <<c.name \in BadNames, "InvalidCollectionName">>
CheckDimension(c) == <<c.dim = 0 \/ c.dim > MaxDimension, "InvalidDimension">>

PutCollection(e, d, name, coll) ==
    [e EXCEPT !.coll[name] = coll, !.inst[d].reg[name] = coll]

CreateCollection(e, d, c) ==
    LET error == FirstError(<<CheckOpen(e, d), CheckWritable(e, d), CheckName(c), CheckDimension(c),
                              <<CollectionExists(e, d, c.name), "CollectionExists">>,
                              StorageFails(c)>>)
    IN  IF error # "none" THEN Fail(error, e)
        ELSE Done(PutCollection(e, d, c.name, {[shape |-> SpecOf(c), docs |-> [i \in Ids |-> {}]]}))

OpenCollection(e, d, c) ==
    LET error == FirstError(<<CheckOpen(e, d),
                              <<~CollectionExists(e, d, c.name), "CollectionNotFound">>>>)
    IN  IF error # "none" THEN Fail(error, e) ELSE Done(e)

\* get_or_create_collection: an existing collection must have the shape asked for.
GetOrCreateCollection(e, d, c) ==
    LET error == FirstError(<<CheckOpen(e, d),
                              <<\E x \in e.inst[d].reg[c.name] : x.shape # SpecOf(c),
                                "CollectionExists">>>>)
    IN  IF error # "none" THEN Fail(error, e)
        ELSE IF CollectionExists(e, d, c.name) THEN OpenCollection(e, d, c)
        ELSE CreateCollection(e, d, c)

DropCollection(e, d, c) ==
    LET error == FirstError(<<CheckOpen(e, d), CheckWritable(e, d),
                              <<~CollectionExists(e, d, c.name), "CollectionNotFound">>,
                              StorageFails(c)>>)
    IN  IF error # "none" THEN Fail(error, e) ELSE Done(PutCollection(e, d, c.name, {}))

ListCollections(e, d) ==
    IF e.inst[d].closed THEN Fail("DatabaseClosed", e)
    ELSE Answer(e, {n \in Names : e.inst[d].reg[n] # {}})

\* compact changes no document, and verify changes nothing.
CompactDatabase(e, d, c) ==
    LET error == FirstError(<<CheckOpen(e, d), CheckWritable(e, d), StorageFails(c)>>)
    IN  IF error # "none" THEN Fail(error, e) ELSE Done(e)

VerifyDatabase(e, d, c) ==
    LET error == FirstError(<<CheckOpen(e, d), StorageFails(c)>>)
    IN  IF error # "none" THEN Fail(error, e) ELSE Done(e)

(***************************************************************************)
(* A collection, by the handle h: an instance and a name it has.           *)
(***************************************************************************)
Held(e, h) == CHOOSE x \in e.inst[h.db].reg[h.name] : TRUE

CheckVector(e, h, c) ==
    <<c.vector # Held(e, h).shape.dim, "InvalidVectorDimension">>

\* Seeded fault: an upsert keeps the metadata of the document it replaces.
UpsertKeepsMetadata(e, h, c, doc) ==
    LET error == FirstError(<<CheckOpen(e, h.db), CheckWritable(e, h.db), CheckVector(e, h, c),
                              StorageFails(c)>>)
        docs == {[doc EXCEPT !.meta = old.meta] : old \in Held(e, h).docs[c.id]}
    IN  IF error # "none" THEN Fail(error, e)
        ELSE Outcome("none",
                     PutCollection(e, h.db, h.name, {[Held(e, h) EXCEPT
                         !.docs[c.id] = IF docs = {} THEN {doc} ELSE docs]}),
                     IF Held(e, h).docs[c.id] = {} THEN {c.id} ELSE {})

Upsert(e, h, c, doc) ==
    LET error == FirstError(<<CheckOpen(e, h.db), CheckWritable(e, h.db),
                              <<Held(e, h).shape.ids # "str", "InvalidDocumentId">>,
                              CheckVector(e, h, c), StorageFails(c)>>)
    IN  IF error # "none" THEN Fail(error, e)
        ELSE Outcome("none",
                     PutCollection(e, h.db, h.name, {[Held(e, h) EXCEPT !.docs[c.id] = {doc}]}),
                     IF Held(e, h).docs[c.id] = {} THEN {c.id} ELSE {})

Delete(e, h, c) ==
    LET error == FirstError(<<CheckOpen(e, h.db), CheckWritable(e, h.db), StorageFails(c)>>)
    IN  IF error # "none" THEN Fail(error, e)
        ELSE Outcome("none",
                     PutCollection(e, h.db, h.name, {[Held(e, h) EXCEPT !.docs[c.id] = {}]}),
                     IF Held(e, h).docs[c.id] = {} THEN {} ELSE {c.id})

ContainsDocument(e, h, c) ==
    IF e.inst[h.db].closed THEN Fail("DatabaseClosed", e)
    ELSE Answer(e, {i \in {c.id} : Held(e, h).docs[i] # {}})

\* count and stats: the documents that are there.
CountDocuments(e, h) ==
    IF e.inst[h.db].closed THEN Fail("DatabaseClosed", e)
    ELSE Answer(e, {i \in Ids : Held(e, h).docs[i] # {}})

FlushCollection(e, h, c) ==
    LET error == FirstError(<<CheckOpen(e, h.db),
                              <<e.inst[h.db].mode = "rw" /\ ~c.io, "StorageIo">>>>)
    IN  IF error # "none" THEN Fail(error, e) ELSE Done(e)

\* search: every document the filter, if there is one, selects; the bound is not reached.
SearchCollection(e, h, c, filter) ==
    LET error == FirstError(<<CheckOpen(e, h.db), CheckVector(e, h, c),
                              <<c.top_k = 0 \/ c.top_k > MaxResults, "TopKOutOfRange">>,
                              <<\E f \in filter : ~FilterValid(f), "FilterTooComplex">>>>)
        selected(doc) == \A f \in filter : FilterMatches(f, doc.meta)
    IN  IF error # "none" THEN Fail(error, e)
        ELSE Answer(e, {i \in Ids : \E doc \in Held(e, h).docs[i] : selected(doc)})
=============================================================================
