----------------------------- MODULE MCBindings ------------------------------
(* Small instance: one usable name, one document id, numbers below 16.        *)
EXTENDS Bindings, QueryFilter

CONSTANTS good, bad, i1

a == <<<<1>>>>
b == <<<<2>>>>
Num(bits) == JsScalar(F64V(bits))
Str(bytes) == JsScalar(StrV(bytes))
Bool(flag) == JsScalar(BoolV(flag))
Null == JsScalar(NullV)
Is(path, op, v) == JsObject(<<Field(path, JsObject(<<Op(op, v)>>))>>)
None == JsObject(<<>>)

\* What applications write: 9 is the number 10, stored as a float; 12 is infinite.
Written ==
    { JsObject(<<Field(a, Num(2))>>), JsObject(<<Field(a, Num(9)), Field(b, Str(<<1>>))>>),
      JsObject(<<Field(a, Str(<<1, 2>>)), Field(b, Bool(1))>>),
      JsObject(<<Field(b, Num(18))>>) }
WrittenJs == { JsObject(<<Field(a, Null), Field(b, Bool(0))>>), JsObject(<<Field(a, Num(12))>>),
               JsObject(<<Field(a, JsArray(<<>>))>>) }
WrittenUndefined == { JsObject(<<Field(a, JsUndefined), Field(b, Num(2))>>) }

Scalars == {Num(2), Num(9), Str(<<1>>), Bool(1), Null, Num(12)}
Simple ==
    {Is(a, op, v) : op \in {"$eq", "$ne", "$gt", "$lte"}, v \in Scalars}
    \cup {Is(a, "$startsWith", Str(<<1>>)), Is(a, "$startsWith", Num(2)), Is(a, "$contains", Num(2)),
          Is(b, "$exists", Bool(1)), Is(a, "$exists", Bool(0)), Is(a, "$exists", Num(0)),
          Is(a, "$in", JsArray(<<Num(2), Null>>)), Is(a, "$nin", JsArray(<<Num(9), Str(<<1, 2>>)>>)),
          Is(a, "$in", JsArray(<<Num(9)>>)), Is(b, "$nin", JsArray(<<Null>>)),
          Is(a, "$in", JsArray(<<>>)), Is(a, "$near", Num(2)), Is(a, "$gte", Num(9)),
          Is(b, "$lt", Num(2)), None, Null,
          JsObject(<<Field(a, Null)>>), JsObject(<<Field(a, Num(2)), Field(b, Null)>>),
          JsObject(<<Field(a, JsArray(<<Num(2)>>))>>), JsObject(<<Field(b, JsObject(<<>>))>>) }
Nested ==
    LET two == JsObject(<<Field(a, Num(2))>>)
        some == Is(b, "$exists", Bool(1))
        range == JsObject(<<Field(a, JsObject(<<Op("$gt", Num(1)), Op("$lt", Num(9))>>))>>)
        joined(op, v) == JsObject(<<Op(op, v)>>)
    IN  { joined("$and", JsArray(<<two, some>>)), joined("$or", JsArray(<<two, some, range>>)),
          joined("$not", JsObject(<<Field(a, Num(2)), Field(b, Null)>>)), joined("$not", None),
          JsObject(<<Op("$or", JsArray(<<two, Is(a, "$ne", Null)>>)), Field(b, Bool(1))>>),
          joined("$and", JsArray(<<joined("$not", some), joined("$or", JsArray(<<range>>))>>)),
          joined("$not", joined("$not", joined("$not", two))), joined("$and", JsArray(<<>>)),
          range, joined("$or", two), joined("$xor", JsArray(<<two>>)) }
Undefined ==
    { JsUndefined, JsObject(<<Field(a, JsUndefined), Field(b, Num(2))>>),
      JsObject(<<Field(a, JsObject(<<Op("$gt", JsUndefined)>>))>>),
      JsObject(<<Op("$not", JsUndefined), Field(a, JsObject(<<Op("$eq", JsUndefined), Op("$ne", Num(2))>>))>>) }

Trees ==
    LET two == Leaf("eq", a, <<F64V(2)>>)
        text == Leaf("starts_with", a, <<StrV(<<1>>)>>)
        none == Leaf("is_null", b, <<>>)
    IN  { two, text, none, Leaf("gte", a, <<I64V(10)>>), Leaf("exists", b, <<>>),
          Leaf("contains", a, <<BoolV(1)>>), Branch("and", <<two, none>>),
          Branch("or", <<text, Branch("not", <<none>>)>>), Branch("and", <<>>),
          Branch("or", <<>>), Branch("not", <<Branch("or", <<two, Branch("and", <<>>)>>)>>),
          Branch("or", <<Branch("and", <<text, none>>), Branch("or", <<>>), two>>) }

Base == [op |-> "count", name |-> good, dim |-> 1, metric |-> "cosine", ids |-> "str",
         arg |-> "ok", create |-> TRUE, read_only |-> FALSE, id |-> i1, vector |-> 1, top_k |-> 2,
         io |-> TRUE, batch |-> <<>>, query |-> {}, tree |-> {}]
Plain(op) == [Base EXCEPT !.op = op]
Put(written) == [Base EXCEPT !.op = "upsert", !.batch = <<[id |-> i1, written |-> written]>>]
Ask(query) == [Base EXCEPT !.op = "search", !.query = {query}]
AskTree(tree) == [Base EXCEPT !.op = "search", !.tree = {tree}]

ReadOnly == [Plain("open") EXCEPT !.read_only = TRUE]
OtherShape == [Plain("collection") EXCEPT !.dim = 2]
Batch == [Base EXCEPT !.op = "upsert", !.batch = <<[id |-> i1, written |-> None],
                                                    [id |-> i1, written |-> None]>>]
Ops == {"open", "collection", "open_collection", "drop_collection", "list_collections", "flush",
        "compact", "verify", "close", "delete", "contains", "count", "stats",
        "flush_collection", "search", "release"}

\* Calls that are only compared between the surfaces.
RefusedCalls ==
    { [Plain("open") EXCEPT !.arg = "unknown"], [Plain("open") EXCEPT !.create = FALSE],
      [Plain("collection") EXCEPT !.arg = "unknown"], [Plain("collection") EXCEPT !.dim = 0],
      [Plain("collection") EXCEPT !.name = bad], [Plain("collection") EXCEPT !.dim = 3],
      [Plain("collection") EXCEPT !.metric = "dot"],
      [Plain("open_collection") EXCEPT !.name = bad], [Plain("drop_collection") EXCEPT !.name = bad],
      [Plain("compact") EXCEPT !.arg = "unknown"], [Plain("verify") EXCEPT !.arg = "unknown"],
      [Plain("search") EXCEPT !.top_k = 0], [Plain("search") EXCEPT !.top_k = 4],
      [Plain("search") EXCEPT !.vector = 2], [Put(None) EXCEPT !.vector = 2] }

ThreadCalls ==
    {Plain(op) : op \in {"open", "collection", "drop_collection", "close", "delete", "search", "release"}}
    \cup {ReadOnly, Put(None)}
ShapeCalls ==
    {Plain(op) : op \in {"open", "collection", "open_collection", "close", "release"}}
    \cup {OtherShape, Put(None)}
DataCalls == {Plain("open"), Plain("collection"), Plain("close"), Plain("search")}

MCCalls ==
    {Plain(op) : op \in Ops} \cup {ReadOnly, OtherShape, Batch, Put(None)} \cup RefusedCalls
    \cup {Put(x) : x \in Written \cup WrittenJs \cup WrittenUndefined}
    \cup {Ask(q) : q \in Simple \cup Nested \cup Undefined} \cup {AskTree(f) : f \in Trees}

Empty == MapV(<<>>, <<>>)
\* Filter::matches.
MatchesMetadata(filter, meta) == MatchesFields(filter, Fields({meta}, {}))

One(S) == {CHOOSE x \in S : TRUE}
Threaded(sdk, calls) ==
    [sdk |-> sdk, threads |-> Threads, wrappers |-> One(Wrappers), calls |-> calls]
Alone(sdk, calls) ==
    [sdk |-> sdk, threads |-> One(Threads), wrappers |-> Wrappers, calls |-> calls]

Queried(sdk, calls) ==
    [sdk |-> sdk, threads |-> One(Threads), wrappers |-> One(Wrappers), calls |-> calls]

AllCalls == {Plain(op) : op \in Ops} \cup {ReadOnly, OtherShape, Put(None)}
JsData == DataCalls \cup {Put(x) : x \in Written \cup WrittenJs} \cup {Ask(q) : q \in Simple \cup Nested}
UndefinedData == {Put(x) : x \in WrittenUndefined} \cup {Ask(q) : q \in Undefined}
TreeData == DataCalls \cup {Put(x) : x \in Written} \cup {AskTree(f) : f \in Trees}

MCPlans ==
    << Threaded("android", ThreadCalls), Threaded("ios", ThreadCalls), Threaded("python", ThreadCalls),
       Threaded("react_native", ThreadCalls \cup {Batch}),
       Alone("web", AllCalls), Alone("node", AllCalls), Alone("react_native", ShapeCalls),
       Queried("react_native", AllCalls), Queried("android", AllCalls),
       Queried("react_native", JsData \cup UndefinedData), Queried("node", JsData),
       Queried("android", TreeData), Queried("ios", TreeData) >>

\* Every query and tree of the applications above, compiled, says of every document of theirs,
\* compiled, what it says of the document as it was written.
ASSUME CompilersMean
=============================================================================
