------------------------------ MODULE Surfaces ------------------------------
(***************************************************************************)
(* The three native surfaces over the engine: the C ABI, the JNI library   *)
(* and the Node addon.  Each function is an operator from an engine, the   *)
(* object its handle names (an instance d, or a collection handle h) and a *)
(* call to what the caller gets back:                                      *)
(*    ok       whether it succeeded;                                       *)
(*    code     the status: 0, a negative boundary status or an engine      *)
(*             code; a thrown exception carries none and is 0;             *)
(*    error    whether an error object was left for the caller to free;    *)
(*    e        the engine after it;   answer   what it returned.           *)
(* c.arg says what the caller passed beside the handle: "ok", a value out  *)
(* of range ("unknown"), a null ("null") or bytes that are not UTF-8.      *)
(***************************************************************************)
EXTENDS Engine

CONSTANT NoMetadata     \* Metadata::new

(***************************************************************************)
(* The C ABI.                                                              *)
(***************************************************************************)
VDB_OK == 0
VDB_NULL_POINTER == -1
VDB_INVALID_UTF8 == -3
VDB_INVALID_ARGUMENT == -4

Given(ok, code, error, e, answer) ==
    [ok |-> ok, code |-> code, error |-> error, e |-> e, answer |-> answer]

\* A failure before the engine is involved: a status and no error object.
Boundary(code, e) == Given(FALSE, code, FALSE, e, {})

\* guard, status, set_error: an engine error leaves its code and an error object.
Guard(out) ==
    IF out.error = "none" THEN Given(TRUE, VDB_OK, FALSE, out.e, out.answer)
    ELSE Given(FALSE, Code[out.error], TRUE, out.e, {})

\* What borrowing a pointer, a string or a discriminant refuses: 0 when it refuses nothing.
BorrowPointer(c) == IF c.arg = "null" THEN VDB_NULL_POINTER ELSE 0
BorrowStr(c) == IF c.arg = "utf8" THEN VDB_INVALID_UTF8 ELSE BorrowPointer(c)
Discriminant(c) == IF c.arg = "unknown" THEN VDB_INVALID_ARGUMENT ELSE 0

\* decode_id: the bytes must be an id of the collection's kind.
DecodeId(e, h) == Held(e, h).shape.ids = "str"

VdbOpen(e, d, c) ==
    IF BorrowStr(c) # 0 THEN Boundary(BorrowStr(c), e)
    ELSE IF Discriminant(c) # 0 THEN Boundary(Discriminant(c), e)
    ELSE Guard(OpenWithIndex(e, d, [c EXCEPT !.create = @ /\ ~c.read_only]))

VdbClose(e, d, c) ==
    IF BorrowPointer(c) # 0 THEN Boundary(BorrowPointer(c), e) ELSE Guard(Close(e, d, c))

VdbFlush(e, d, c) ==
    IF BorrowPointer(c) # 0 THEN Boundary(BorrowPointer(c), e) ELSE Guard(FlushDatabase(e, d, c))

VdbCollectionCreate(e, d, c) ==
    IF BorrowStr(c) # 0 THEN Boundary(BorrowStr(c), e)
    ELSE IF Discriminant(c) # 0 THEN Boundary(Discriminant(c), e)
    ELSE Guard(GetOrCreateCollection(e, d, c))

VdbCollectionOpen(e, d, c) ==
    IF BorrowStr(c) # 0 THEN Boundary(BorrowStr(c), e) ELSE Guard(OpenCollection(e, d, c))

VdbCollectionDrop(e, d, c) ==
    IF BorrowStr(c) # 0 THEN Boundary(BorrowStr(c), e) ELSE Guard(DropCollection(e, d, c))

VdbCollectionCount(e, h, c) ==
    IF BorrowPointer(c) # 0 THEN Boundary(BorrowPointer(c), e) ELSE Guard(CountDocuments(e, h))

VdbCollectionFlush(e, h, c) ==
    IF BorrowPointer(c) # 0 THEN Boundary(BorrowPointer(c), e) ELSE Guard(FlushCollection(e, h, c))

VdbUpsert(e, h, c, doc) ==
    IF BorrowPointer(c) # 0 THEN Boundary(BorrowPointer(c), e)
    ELSE IF ~DecodeId(e, h) THEN Guard(Fail("InvalidDocumentId", e))
    ELSE Guard(Upsert(e, h, c, doc))

VdbDelete(e, h, c) ==
    IF BorrowPointer(c) # 0 THEN Boundary(BorrowPointer(c), e)
    ELSE IF ~DecodeId(e, h) THEN Guard(Fail("InvalidDocumentId", e))
    ELSE Guard(Delete(e, h, c))

VdbContains(e, h, c) ==
    IF BorrowPointer(c) # 0 THEN Boundary(BorrowPointer(c), e)
    ELSE IF ~DecodeId(e, h) THEN Guard(Fail("InvalidDocumentId", e))
    ELSE Guard(ContainsDocument(e, h, c))

VdbSearch(e, h, c) ==
    IF BorrowPointer(c) # 0 THEN Boundary(BorrowPointer(c), e)
    ELSE Guard(SearchCollection(e, h, c, {}))

\* A builder that does not hold exactly one expression is refused.
VdbSearchFiltered(e, h, c, stack) ==
    IF BorrowPointer(c) # 0 THEN Boundary(BorrowPointer(c), e)
    ELSE IF Len(stack) # 1 THEN Boundary(VDB_INVALID_ARGUMENT, e)
    ELSE Guard(SearchCollection(e, h, c, {stack[1]}))

VdbCollectionStats(e, h, c) ==
    IF BorrowPointer(c) # 0 THEN Boundary(BorrowPointer(c), e) ELSE Guard(CountDocuments(e, h))

VdbCompact(e, d, c) ==
    IF Discriminant(c) # 0 THEN Boundary(Discriminant(c), e)
    ELSE IF BorrowPointer(c) # 0 THEN Boundary(BorrowPointer(c), e)
    ELSE Guard(CompactDatabase(e, d, c))

VdbVerify(e, d, c) ==
    IF Discriminant(c) # 0 THEN Boundary(Discriminant(c), e)
    ELSE IF BorrowPointer(c) # 0 THEN Boundary(BorrowPointer(c), e)
    ELSE Guard(VerifyDatabase(e, d, c))

(***************************************************************************)
(* JNI: a handle, or 0 and an exception.                                   *)
(***************************************************************************)
Thrown(e) == Given(FALSE, 0, FALSE, e, {})
Returned(out) ==
    IF out.error = "none" THEN Given(TRUE, 0, FALSE, out.e, out.answer) ELSE Thrown(out.e)

\* read_string, read_floats and the handle check: a null is an exception.
Readable(c) == c.arg # "null"

OpenDatabase(e, d, c) ==
    IF ~Readable(c) \/ c.arg = "unknown" THEN Thrown(e)
    ELSE Returned(OpenWithIndex(e, d, [c EXCEPT !.create = @ /\ ~c.read_only]))

\* closeDatabase: a null handle is ignored.
CloseDatabase(e, d, c) ==
    IF ~Readable(c) THEN Given(TRUE, 0, FALSE, e, {}) ELSE Returned(Close(e, d, c))

JniFlushDatabase(e, d, c) ==
    IF ~Readable(c) THEN Thrown(e) ELSE Returned(FlushDatabase(e, d, c))

JniListCollections(e, d, c) ==
    IF ~Readable(c) THEN Thrown(e) ELSE Returned(ListCollections(e, d))

\* openCollection(create = true) and openCollection(create = false).
JniOpenCollection(e, d, c, create) ==
    IF ~Readable(c) THEN Thrown(e)
    ELSE IF ~create THEN Returned(OpenCollection(e, d, c))
    ELSE IF c.arg = "unknown" \/ c.dim <= 0 THEN Thrown(e)
    ELSE Returned(GetOrCreateCollection(e, d, [c EXCEPT !.ids = "str"]))

JniDropCollection(e, d, c) ==
    IF ~Readable(c) THEN Thrown(e) ELSE Returned(DropCollection(e, d, c))

JniUpsert(e, h, c, doc) ==
    IF ~Readable(c) THEN Thrown(e) ELSE Returned(Upsert(e, h, c, doc))

\* upsertWithMetadata: its own function; upsert is called for a document without any.
JniUpsertWithMetadata(e, h, c, doc) ==
    IF ~Readable(c) THEN Thrown(e) ELSE Returned(Upsert(e, h, c, doc))

JniDelete(e, h, c) ==
    IF ~Readable(c) THEN Thrown(e) ELSE Returned(Delete(e, h, c))

JniContains(e, h, c) ==
    IF ~Readable(c) THEN Thrown(e) ELSE Returned(ContainsDocument(e, h, c))

JniCount(e, h, c) ==
    IF ~Readable(c) THEN Thrown(e) ELSE Returned(CountDocuments(e, h))

JniFlushCollection(e, h, c) ==
    IF ~Readable(c) THEN Thrown(e) ELSE Returned(FlushCollection(e, h, c))

JniSearch(e, h, c) ==
    IF ~Readable(c) \/ c.top_k <= 0 THEN Thrown(e)
    ELSE Returned(SearchCollection(e, h, c, {}))

JniSearchFiltered(e, h, c, stack) ==
    IF ~Readable(c) \/ Len(stack) # 1 \/ c.top_k <= 0 THEN Thrown(e)
    ELSE Returned(SearchCollection(e, h, c, {stack[1]}))

JniCollectionStats(e, h, c) ==
    IF ~Readable(c) THEN Thrown(e) ELSE Returned(CountDocuments(e, h))

JniCompact(e, d, c) ==
    IF ~Readable(c) \/ c.arg = "unknown" THEN Thrown(e) ELSE Returned(CompactDatabase(e, d, c))

JniVerify(e, d, c) ==
    IF ~Readable(c) \/ c.arg = "unknown" THEN Thrown(e) ELSE Returned(VerifyDatabase(e, d, c))

(***************************************************************************)
(* Node: the engine's own objects behind JavaScript ones; to_js turns an   *)
(* engine error into a thrown one.                                         *)
(***************************************************************************)
NodeOpen(e, d, c) ==
    IF c.arg = "unknown" THEN Thrown(e)
    ELSE Returned(OpenWithIndex(e, d, [c EXCEPT !.create = @ /\ ~c.read_only]))

NodeClose(e, d, c) == Returned(Close(e, d, c))
NodeFlush(e, d, c) == Returned(FlushDatabase(e, d, c))

\* Seeded fault: a collection that is there is opened whatever its shape.
NodeCollectionAnyShape(e, d, c) ==
    IF c.arg = "unknown" THEN Thrown(e)
    ELSE IF ~e.inst[d].closed /\ CollectionExists(e, d, c.name) THEN Returned(OpenCollection(e, d, c))
    ELSE Returned(CreateCollection(e, d, c))

NodeCollection(e, d, c) ==
    IF c.arg = "unknown" THEN Thrown(e)
    ELSE Returned(GetOrCreateCollection(e, d, [c EXCEPT !.ids = "str"]))

NodeOpenCollection(e, d, c) == Returned(OpenCollection(e, d, c))
NodeDropCollection(e, d, c) == Returned(DropCollection(e, d, c))
NodeListCollections(e, d) == Returned(ListCollections(e, d))

NodeCompact(e, d, c) ==
    IF c.arg = "unknown" THEN Thrown(e) ELSE Returned(CompactDatabase(e, d, c))

NodeVerify(e, d, c) ==
    IF c.arg = "unknown" THEN Thrown(e) ELSE Returned(VerifyDatabase(e, d, c))

NodeUpsert(e, h, c, doc) == Returned(Upsert(e, h, c, doc))
NodeDelete(e, h, c) == Returned(Delete(e, h, c))
NodeContains(e, h, c) == Returned(ContainsDocument(e, h, c))
NodeCountDocuments(e, h) == Returned(CountDocuments(e, h))
NodeSearch(e, h, c, filter) == Returned(SearchCollection(e, h, c, filter))
NodeFlushCollection(e, h, c) == Returned(FlushCollection(e, h, c))
NodeStats(e, h) == Returned(CountDocuments(e, h))

(***************************************************************************)
(* A call by its name.  The document of an upsert and the filter of a      *)
(* search have been built: a filter is {} or {expression}.                 *)
(***************************************************************************)
CAbi(e, on, c, doc, filter) ==
    CASE c.op = "open" -> VdbOpen(e, on.db, c)
      [] c.op = "close" -> VdbClose(e, on.db, c)
      [] c.op = "flush" -> VdbFlush(e, on.db, c)
      [] c.op = "collection" -> VdbCollectionCreate(e, on.db, c)
      [] c.op = "open_collection" -> VdbCollectionOpen(e, on.db, c)
      [] c.op = "drop_collection" -> VdbCollectionDrop(e, on.db, c)
      [] c.op = "compact" -> VdbCompact(e, on.db, c)
      [] c.op = "verify" -> VdbVerify(e, on.db, c)
      [] c.op = "upsert" -> VdbUpsert(e, on, c, doc)
      [] c.op = "delete" -> VdbDelete(e, on, c)
      [] c.op = "contains" -> VdbContains(e, on, c)
      [] c.op = "count" -> VdbCollectionCount(e, on, c)
      [] c.op = "stats" -> VdbCollectionStats(e, on, c)
      [] c.op = "flush_collection" -> VdbCollectionFlush(e, on, c)
      [] c.op = "search" /\ filter = {} -> VdbSearch(e, on, c)
      [] c.op = "search" /\ filter # {} -> VdbSearchFiltered(e, on, c, SetToSeq(filter))

Jni(e, on, c, doc, filter) ==
    CASE c.op = "open" -> OpenDatabase(e, on.db, c)
      [] c.op = "close" -> CloseDatabase(e, on.db, c)
      [] c.op = "flush" -> JniFlushDatabase(e, on.db, c)
      [] c.op = "collection" -> JniOpenCollection(e, on.db, c, TRUE)
      [] c.op = "open_collection" -> JniOpenCollection(e, on.db, c, FALSE)
      [] c.op = "drop_collection" -> JniDropCollection(e, on.db, c)
      [] c.op = "list_collections" -> JniListCollections(e, on.db, c)
      [] c.op = "compact" -> JniCompact(e, on.db, c)
      [] c.op = "verify" -> JniVerify(e, on.db, c)
      [] c.op = "upsert" /\ doc.meta = NoMetadata -> JniUpsert(e, on, c, doc)
      [] c.op = "upsert" /\ doc.meta # NoMetadata -> JniUpsertWithMetadata(e, on, c, doc)
      [] c.op = "delete" -> JniDelete(e, on, c)
      [] c.op = "contains" -> JniContains(e, on, c)
      [] c.op = "count" -> JniCount(e, on, c)
      [] c.op = "stats" -> JniCollectionStats(e, on, c)
      [] c.op = "flush_collection" -> JniFlushCollection(e, on, c)
      [] c.op = "search" /\ filter = {} -> JniSearch(e, on, c)
      [] c.op = "search" /\ filter # {} -> JniSearchFiltered(e, on, c, SetToSeq(filter))

Node(e, on, c, doc, filter) ==
    CASE c.op = "open" -> NodeOpen(e, on.db, c)
      [] c.op = "close" -> NodeClose(e, on.db, c)
      [] c.op = "flush" -> NodeFlush(e, on.db, c)
      [] c.op = "collection" -> NodeCollection(e, on.db, c)
      [] c.op = "open_collection" -> NodeOpenCollection(e, on.db, c)
      [] c.op = "drop_collection" -> NodeDropCollection(e, on.db, c)
      [] c.op = "list_collections" -> NodeListCollections(e, on.db)
      [] c.op = "compact" -> NodeCompact(e, on.db, c)
      [] c.op = "verify" -> NodeVerify(e, on.db, c)
      [] c.op = "upsert" -> NodeUpsert(e, on, c, doc)
      [] c.op = "delete" -> NodeDelete(e, on, c)
      [] c.op = "contains" -> NodeContains(e, on, c)
      [] c.op = "count" -> NodeCountDocuments(e, on)
      [] c.op = "stats" -> NodeStats(e, on)
      [] c.op = "flush_collection" -> NodeFlushCollection(e, on, c)
      [] c.op = "search" -> NodeSearch(e, on, c, filter)

CollectionOps == {"upsert", "delete", "contains", "count", "stats", "flush_collection", "search"}
=============================================================================
