---------------------------- MODULE QueryFilter ----------------------------
(***************************************************************************)
(* From what an application writes to the filter the engine runs: the      *)
(* query and metadata objects of JavaScript as the React Native and the    *)
(* Node SDK compile them, the filter trees of the Android and the iOS SDK, *)
(* and the postfix builders of the C ABI and of JNI they are replayed on.  *)
(* A set stands for an optional result: {x}, or {} for a refusal.          *)
(***************************************************************************)
EXTENDS Filter

CONSTANTS
    MaxQueryDepth,      \* MAX_DEPTH of both compilers (32)
    MaxIntegral         \* 9e15: the numbers below it that are integral become integers

ASSUME QueryAssumption == MaxQueryDepth \in Nat \ {0} /\ MaxIntegral \in Nat \ {0}

(***************************************************************************)
(* JavaScript values.  A number is its bits; null is the scalar NullV.  An *)
(* object is its entries in order, each under an operator's name or, with  *)
(* the key "field", under a path.                                          *)
(***************************************************************************)
Js(form, scalar, items, entries) ==
    [form |-> form, scalar |-> scalar, items |-> items, entries |-> entries]

JsScalar(v) == Js("scalar", v, <<>>, <<>>)
JsUndefined == Js("undefined", NullV, <<>>, <<>>)
JsArray(items) == Js("array", NullV, items, <<>>)
JsObject(entries) == Js("object", NullV, <<>>, entries)
Op(key, value) == [key |-> key, path |-> <<>>, value |-> value]
Field(path, value) == [key |-> "field", path |-> path, value |-> value]

\* Every one of a sequence of optional results, or nothing.
AllOf(options) ==
    IF \E i \in DOMAIN options : options[i] = {} THEN {}
    ELSE {[i \in DOMAIN options |-> CHOOSE x \in options[i] : TRUE]}

\* A number as it is stored and compared: an integer where it is integral and small.
Number(bits) ==
    LET n == FloatNum(bits)
    IN  IF IsFinite(bits) /\ n < MaxIntegral /\ -n < MaxIntegral THEN I64V(n) ELSE F64V(bits)

EngineValue(v) == IF v.tag = "f64" THEN Number(v.num) ELSE v

CompareOps == [eq |-> "$eq", ne |-> "$ne", gt |-> "$gt", gte |-> "$gte", lt |-> "$lt",
               lte |-> "$lte", contains |-> "$contains"]

(***************************************************************************)
(* The builder: a stack of finished expressions.  A call that is refused   *)
(* leaves it alone, except that an unknown combinator has already taken    *)
(* its operands off.                                                       *)
(***************************************************************************)
Pushed(stack, filter) == [ok |-> TRUE, stack |-> Append(stack, filter)]
Refused(stack) == [ok |-> FALSE, stack |-> stack]

PushCompare(stack, path, op, value) ==
    IF op \in DOMAIN CompareOps \/ (op = "starts_with" /\ value.tag = "str")
    THEN Pushed(stack, Leaf(op, path, <<value>>))
    ELSE Refused(stack)

VdbFilterCompareStr(stack, path, op, bytes) == PushCompare(stack, path, op, StrV(bytes))
VdbFilterCompareI64(stack, path, op, n) == PushCompare(stack, path, op, I64V(n))
VdbFilterCompareF64(stack, path, op, bits) == PushCompare(stack, path, op, F64V(bits))
VdbFilterCompareBool(stack, path, op, flag) == PushCompare(stack, path, op, BoolV(flag))

VdbFilterUnary(stack, path, predicate) ==
    IF predicate \in {"exists", "is_null"} THEN Pushed(stack, Leaf(predicate, path, <<>>))
    ELSE Refused(stack)

VdbFilterCombine(stack, combinator, count) ==
    LET rest == SubSeq(stack, 1, Len(stack) - count)
        operands == SubSeq(stack, Len(stack) - count + 1, Len(stack))
    IN  IF count = 0 \/ count > Len(stack) \/ (combinator = "not" /\ count # 1) THEN Refused(stack)
        ELSE IF combinator \notin {"and", "or", "not"} THEN Refused(rest)
        ELSE Pushed(rest, Branch(combinator, operands))

VdbFilterDepth(stack) == Len(stack)

\* finish: the one expression, or nothing.
Finish(stack) == IF Len(stack) = 1 THEN {stack[1]} ELSE {}

(***************************************************************************)
(* The JNI builder takes the value's kind beside it; it knows null too.    *)
(***************************************************************************)
FilterCompare(stack, path, op, value) ==
    IF value.tag \in {"str", "i64", "f64", "bool", "null"}
    THEN PushCompare(stack, path, op, value)
    ELSE Refused(stack)

FilterUnary(stack, path, predicate) ==
    IF predicate \in {"exists", "is_null"} THEN Pushed(stack, Leaf(predicate, path, <<>>))
    ELSE Refused(stack)

FilterCombine(stack, combinator, count) ==
    IF count < 1 \/ count > Len(stack) \/ (combinator = "not" /\ count # 1) THEN Refused(stack)
    ELSE LET rest == SubSeq(stack, 1, Len(stack) - count)
         IN  IF combinator \notin {"and", "or", "not"} THEN Refused(rest)
             ELSE Pushed(rest, Branch(combinator, SubSeq(stack, Len(rest) + 1, Len(stack))))

FilterDepthOf(stack) == Len(stack)

(***************************************************************************)
(* Postfix steps, and their replay on a builder.                           *)
(***************************************************************************)
CompareStep(path, op, value) ==
    [kind |-> value.tag, path |-> path, op |-> op, value |-> value, count |-> 0]
UnaryStep(path, op) == [kind |-> "unary", path |-> path, op |-> op, value |-> NullV, count |-> 0]
CombineStep(op, count) ==
    [kind |-> "combine", path |-> <<>>, op |-> op, value |-> NullV, count |-> count]

\* One step of build_filter on the C builder; the C ABI has no comparison with null.
ReplayC(stack, s) ==
    CASE s.kind = "str" -> VdbFilterCompareStr(stack, s.path, s.op, s.value.bytes)
      [] s.kind = "i64" -> VdbFilterCompareI64(stack, s.path, s.op, s.value.num)
      [] s.kind = "f64" -> VdbFilterCompareF64(stack, s.path, s.op, s.value.num)
      [] s.kind = "bool" -> VdbFilterCompareBool(stack, s.path, s.op, s.value.num)
      [] s.kind = "unary" -> VdbFilterUnary(stack, s.path, s.op)
      [] s.kind = "combine" -> VdbFilterCombine(stack, s.op, s.count)
      [] OTHER -> Refused(stack)

ReplayJni(stack, s) ==
    CASE s.kind = "unary" -> FilterUnary(stack, s.path, s.op)
      [] s.kind = "combine" -> FilterCombine(stack, s.op, s.count)
      [] OTHER -> FilterCompare(stack, s.path, s.op, s.value)

\* build_filter, Filter.toNative, Filter.encode: the first refusal ends it, and so does a
\* stack that does not end with one expression.
BuildFilter(steps, native) ==
    LET replay(b, s) == IF ~b.ok THEN b
                        ELSE IF native = "jni" THEN ReplayJni(b.stack, s) ELSE ReplayC(b.stack, s)
        built == FoldLeft(replay, [ok |-> TRUE, stack |-> <<>>], steps)
        depth == IF native = "jni" THEN FilterDepthOf(built.stack) ELSE VdbFilterDepth(built.stack)
    IN  IF built.ok /\ depth = 1 THEN Finish(built.stack) ELSE {}

(***************************************************************************)
(* React Native: a query object becomes postfix steps.                     *)
(***************************************************************************)
\* The steps of a run of clauses and how many expressions they leave.
Clauses(steps, n) == [steps |-> steps, n |-> n]

\* conjoin.
Conjoin(c) == IF c.n > 1 THEN Append(c.steps, CombineStep("and", c.n)) ELSE c.steps

\* pushCompare: null is a null test or its negation; an infinite number is refused.
PushCompareSteps(path, op, v) ==
    CASE v.form # "scalar" -> {}
      [] v.scalar.tag = "null" /\ op = "eq" -> {<<UnaryStep(path, "is_null")>>}
      [] v.scalar.tag = "null" /\ op = "ne" ->
            {<<UnaryStep(path, "is_null"), CombineStep("not", 1)>>}
      [] v.scalar.tag = "null" -> {}
      [] v.scalar.tag = "f64" /\ ~IsFinite(v.scalar.num) -> {}
      [] OTHER -> {<<CompareStep(path, op, EngineValue(v.scalar))>>}

\* $in is an or of equalities, $nin its negation; an empty list is refused.
WalkMembership(path, key, v) ==
    LET n == Len(v.items)
        any == IF n > 1 THEN <<CombineStep("or", n)>> ELSE <<>>
        negate == IF key = "$nin" THEN <<CombineStep("not", 1)>> ELSE <<>>
    IN  IF v.form # "array" \/ n = 0 THEN {}
        ELSE {FlattenSeq(parts) \o any \o negate :
                parts \in AllOf([i \in 1..n |-> PushCompareSteps(path, "eq", v.items[i])])}

Truthy(v) == v.form \in {"array", "object"}
             \/ (v.form = "scalar" /\ ~(v.scalar.tag = "null" \/ v.scalar = BoolV(0)
                                        \/ v.scalar = StrV(<<>>)
                                        \/ (v.scalar.tag = "f64" /\ FloatNum(v.scalar.num) = 0)))

WalkOperator(path, e) ==
    LET compared == {op \in DOMAIN CompareOps : CompareOps[op] = e.key}
    IN  CASE e.value.form = "undefined" -> {Clauses(<<>>, 0)}
          [] compared # {} ->
                {Clauses(s, 1) : s \in PushCompareSteps(path, CHOOSE op \in compared : TRUE, e.value)}
          [] e.key = "$startsWith" ->
                IF e.value.form = "scalar" /\ e.value.scalar.tag = "str"
                THEN {Clauses(<<CompareStep(path, "starts_with", e.value.scalar)>>, 1)} ELSE {}
          [] e.key \in {"$in", "$nin"} ->
                {Clauses(s, 1) : s \in WalkMembership(path, e.key, e.value)}
          [] e.key = "$exists" ->
                {Clauses(<<UnaryStep(path, IF Truthy(e.value) THEN "exists" ELSE "is_null")>>, 1)}
          [] OTHER -> {}

\* The clauses of several parts, one after the other.
Together(parts) ==
    Clauses(FlattenSeq([i \in DOMAIN parts |-> parts[i].steps]),
            FoldLeft(LAMBDA n, p : n + p.n, 0, parts))

\* walkOperators: an operator object that constrains nothing is refused.
WalkOperators(path, v, depth) ==
    IF depth > MaxQueryDepth THEN {}
    ELSE {Clauses(Conjoin(c), 1) :
            c \in {x \in {Together(parts) :
                            parts \in AllOf([i \in DOMAIN v.entries |->
                                                WalkOperator(path, v.entries[i])])} : x.n > 0}}

WalkField(path, v, depth) ==
    CASE v.form = "array" -> {}
      [] v.form = "object" -> WalkOperators(path, v, depth)
      [] OTHER -> {Clauses(s, 1) : s \in PushCompareSteps(path, "eq", v)}

RECURSIVE WalkObject(_, _)
\* A clause of an object: undefined is no clause, and an empty list or object is refused
\* inside $and, $or and $not.
WalkEntry(e, depth) ==
    LET within(v) == IF v.form # "object" THEN {}
                     ELSE {Conjoin(c) : c \in {x \in WalkObject(v, depth + 1) : x.n > 0}}
        n == Len(e.value.items)
        listed == IF e.value.form # "array" \/ n = 0 THEN {}
                  ELSE AllOf([i \in 1..n |-> within(e.value.items[i])])
        combined == IF n > 1 THEN <<CombineStep(IF e.key = "$and" THEN "and" ELSE "or", n)>>
                    ELSE <<>>
    IN  CASE e.value.form = "undefined" -> {Clauses(<<>>, 0)}
          [] e.key \in {"$and", "$or"} -> {Clauses(FlattenSeq(p) \o combined, 1) : p \in listed}
          [] e.key = "$not" ->
                {Clauses(Append(s, CombineStep("not", 1)), 1) : s \in within(e.value)}
          [] e.key = "field" -> WalkField(e.path, e.value, depth)
          [] OTHER -> {}

WalkObject(v, depth) ==
    IF depth > MaxQueryDepth THEN {}
    ELSE {Together(parts) :
            parts \in AllOf([i \in DOMAIN v.entries |-> WalkEntry(v.entries[i], depth)])}

\* compileFilter: undefined, null and an object of no clauses are no filter.
CompileFilter(v) ==
    CASE v.form = "undefined" \/ v = JsScalar(NullV) -> {<<>>}
      [] v.form = "object" -> {Conjoin(c) : c \in WalkObject(v, 1)}
      [] OTHER -> {}

(***************************************************************************)
(* Node: the same query objects, parsed to a filter directly.              *)
(***************************************************************************)
\* scalar: undefined is null.
NodeScalar(v) ==
    CASE v.form = "scalar" -> {EngineValue(v.scalar)}
      [] v.form = "undefined" -> {NullV}
      [] OTHER -> {}

\* scalar_list.
NodeScalarList(v) ==
    IF v.form # "array" THEN {} ELSE AllOf([i \in DOMAIN v.items |-> NodeScalar(v.items[i])])

\* Several clauses mean conjunction; one means itself; none matches everything.
AllClauses(fs) == IF Len(fs) = 1 THEN fs[1] ELSE Branch("and", fs)

ParseOperator(path, e) ==
    LET compared == {op \in DOMAIN CompareOps : CompareOps[op] = e.key}
    IN  CASE compared # {} ->
                {Leaf(CHOOSE op \in compared : TRUE, path, <<x>>) : x \in NodeScalar(e.value)}
          [] e.key = "$startsWith" ->
                {Leaf("starts_with", path, <<x>>) :
                    x \in {y \in NodeScalar(e.value) : y.tag = "str"}}
          [] e.key = "$in" -> {Leaf("in", path, xs) : xs \in NodeScalarList(e.value)}
          [] e.key = "$nin" -> {Leaf("nin", path, xs) : xs \in NodeScalarList(e.value)}
          [] e.key = "$exists" ->
                {Leaf(IF Truthy(e.value) THEN "exists" ELSE "is_null", path, <<>>)}
          [] OTHER -> {}

ParseOperators(path, v) ==
    {AllClauses(fs) :
        fs \in AllOf([i \in DOMAIN v.entries |-> ParseOperator(path, v.entries[i])])}

ParseField(path, v) ==
    CASE v.form = "array" -> {}
      [] v.form = "object" -> ParseOperators(path, v)
      [] OTHER -> {Leaf("eq", path, <<x>>) : x \in NodeScalar(v)}

\* A value taken for an object; an array is one too, with its indices for names.
Properties(v) ==
    CASE v.form = "object" -> {v.entries}
      [] v.form = "array" ->
            {[i \in DOMAIN v.items |-> Field(<<<<ByteBase - i>>>>, v.items[i])]}
      [] OTHER -> {}

RECURSIVE ParseObject(_, _)
ParseNested(v, depth) == UNION {ParseObject(entries, depth) : entries \in Properties(v)}

ParseList(v, depth) ==
    IF v.form # "array" THEN {}
    ELSE AllOf([i \in DOMAIN v.items |-> ParseNested(v.items[i], depth + 1)])

ParseObject(entries, depth) ==
    LET clause(e) ==
            CASE e.key = "$and" -> {Branch("and", fs) : fs \in ParseList(e.value, depth)}
              [] e.key = "$or" -> {Branch("or", fs) : fs \in ParseList(e.value, depth)}
              [] e.key = "$not" ->
                    {Branch("not", <<f>>) : f \in ParseNested(e.value, depth + 1)}
              [] e.key = "field" -> ParseField(e.path, e.value)
              [] OTHER -> {}
    IN  IF depth > MaxQueryDepth THEN {}
        ELSE {AllClauses(fs) : fs \in AllOf([i \in DOMAIN entries |-> clause(entries[i])])}

(***************************************************************************)
(* Android and iOS: a tree of the application's, flattened in postfix      *)
(* order.  The identities are written as a tautology and a contradiction,  *)
(* because a builder refuses to combine nothing.                           *)
(***************************************************************************)
RECURSIVE Flatten(_)
Flatten(f) ==
    CASE f.op \in {"and", "or", "not"} /\ f.kids = <<>> ->
            <<UnaryStep(EmptyPath, "is_null"),
              UnaryStep(EmptyPath, IF f.op = "and" THEN "is_null" ELSE "exists"),
              CombineStep(IF f.op = "and" THEN "or" ELSE "and", 2)>>
      [] f.op \in {"and", "or", "not"} ->
            Append(FlattenSeq([i \in DOMAIN f.kids |-> Flatten(f.kids[i])]),
                   CombineStep(f.op, Len(f.kids)))
      [] f.op \in {"exists", "is_null"} -> <<UnaryStep(f.path, f.op)>>
      [] OTHER -> <<CompareStep(f.path, f.op, f.vals[1])>>

(***************************************************************************)
(* Metadata: a flat object of scalars becomes a map, its keys ascending.   *)
(***************************************************************************)
VdbMetadataSetString(m, key, bytes) == key :> StrV(bytes) @@ m
VdbMetadataSetI64(m, key, n) == key :> I64V(n) @@ m
VdbMetadataSetF64(m, key, bits) == key :> F64V(bits) @@ m
VdbMetadataSetBool(m, key, flag) == key :> BoolV(flag) @@ m
VdbMetadataSetNull(m, key) == key :> NullV @@ m

\* One field of build_metadata on the C builder.
SetField(m, f) ==
    CASE f.value.tag = "str" -> VdbMetadataSetString(m, f.key, f.value.bytes)
      [] f.value.tag = "i64" -> VdbMetadataSetI64(m, f.key, f.value.num)
      [] f.value.tag = "f64" -> VdbMetadataSetF64(m, f.key, f.value.num)
      [] f.value.tag = "bool" -> VdbMetadataSetBool(m, f.key, f.value.num)
      [] f.value.tag = "null" -> VdbMetadataSetNull(m, f.key)

\* metadataSet of JNI.
MetadataSet(m, f) == f.key :> f.value @@ m

AsMap(m) ==
    LET keys == SetToSortSeq(DOMAIN m, KeyLess)
    IN  MapV(keys, [i \in DOMAIN keys |-> m[keys[i]]])

BuildMetadata(fields, native) ==
    AsMap(FoldLeft(LAMBDA m, f : IF native = "jni" THEN MetadataSet(m, f) ELSE SetField(m, f),
                   <<>>, fields))

\* compileMetadata: undefined is dropped, null is kept; only finite scalars are taken.
CompileMetadata(v) ==
    LET given == SelectSeq(v.entries, LAMBDA e : e.value.form # "undefined")
        taken(e) == IF e.value.form # "scalar"
                        \/ (e.value.scalar.tag = "f64" /\ ~IsFinite(e.value.scalar.num)) THEN {}
                    ELSE {[key |-> e.path[1], value |-> EngineValue(e.value.scalar)]}
    IN  AllOf([i \in DOMAIN given |-> taken(given[i])])

\* into_metadata: undefined is null; a value that is not finite fails validation.
IntoMetadata(v) ==
    LET taken(e) == {[key |-> e.path[1], value |-> x] :
                        x \in {y \in NodeScalar(e.value) : y.tag = "f64" => IsFinite(y.num)}}
    IN  {AsMap(FoldLeft(MetadataSet, <<>>, fields)) :
            fields \in AllOf([i \in DOMAIN v.entries |-> taken(v.entries[i])])}

(***************************************************************************)
(* What the application wrote, as the surface under an SDK takes it.       *)
(***************************************************************************)
\* The fields of a typed SDK's metadata.
Typed(written) ==
    [i \in DOMAIN written.entries |-> [key |-> written.entries[i].path[1],
                                       value |-> written.entries[i].value.scalar]]

\* The metadata of one document: {m}, or {} when it is refused.
MetadataOf(sdk, written) ==
    CASE sdk = "react_native" -> {BuildMetadata(f, "c") : f \in CompileMetadata(written)}
      [] sdk = "node" -> IntoMetadata(written)
      [] sdk = "android" -> {BuildMetadata(Typed(written), "jni")}
      [] OTHER -> {BuildMetadata(Typed(written), "c")}

\* The filter of a search: {{}} for none, {{f}}, or {} when it is refused.
FilterOf(sdk, c) ==
    LET query == CHOOSE q \in c.query : TRUE
        tree == CHOOSE f \in c.tree : TRUE
        replayed(steps, native) == {{f} : f \in BuildFilter(steps, native)}
    IN  CASE c.query = {} /\ c.tree = {} -> {{}}
          [] sdk = "react_native" ->
                UNION {IF steps = <<>> THEN {{}} ELSE replayed(steps, "c") :
                          steps \in CompileFilter(query)}
          [] sdk = "node" -> IF query.form \in {"undefined", "scalar"} THEN {{}}
                             ELSE {{f} : f \in ParseNested(query, 1)}
          [] sdk = "android" -> replayed(Flatten(tree), "jni")
          [] OTHER -> replayed(Flatten(tree), "c")

(***************************************************************************)
(* What a query means: read off the object, on the document as written.    *)
(***************************************************************************)
\* The value a document has at a path: what it was given, undefined being absent.
ValueAt(doc, path) ==
    {doc.entries[i].value.scalar :
        i \in {j \in DOMAIN doc.entries : doc.entries[j].path = path
                                          /\ doc.entries[j].value.form # "undefined"}}

\* Two written scalars: numbers by worth, absent and null alike.
SameWritten(found, v) ==
    LET x == IF found = {} THEN NullV ELSE CHOOSE y \in found : TRUE
    IN  x.tag = v.tag /\ IF x.tag = "f64" THEN FloatNum(x.num) = FloatNum(v.num) ELSE x = v

MeansOperator(found, e) ==
    LET v == e.value.scalar
        less(a, b) == CASE a.tag # b.tag -> FALSE
                        [] a.tag = "f64" -> FloatNum(a.num) < FloatNum(b.num)
                        [] a.tag = "str" -> KeyLess(a.bytes, b.bytes)
                        [] a.tag = "bool" -> a.num < b.num
                        [] OTHER -> FALSE
        tied(x) == x.tag # "null" /\ SameWritten({x}, v)
        listed == \E i \in DOMAIN e.value.items : SameWritten(found, e.value.items[i].scalar)
    IN  CASE e.value.form = "undefined" -> TRUE
          [] e.key = "$eq" -> SameWritten(found, v)
          [] e.key = "$ne" -> ~SameWritten(found, v)
          [] e.key = "$gt" -> \E x \in found : less(v, x)
          [] e.key = "$gte" -> \E x \in found : less(v, x) \/ tied(x)
          [] e.key = "$lt" -> \E x \in found : less(x, v)
          [] e.key = "$lte" -> \E x \in found : less(x, v) \/ tied(x)
          [] e.key = "$in" -> listed
          [] e.key = "$nin" -> ~listed
          [] e.key = "$exists" -> IF Truthy(e.value) THEN found # {}
                                  ELSE \A x \in found : x.tag = "null"
          [] e.key = "$startsWith" -> \E x \in found : x.tag = "str" /\ IsPrefix(v.bytes, x.bytes)
          [] e.key = "$contains" -> FALSE

RECURSIVE Means(_, _)
Means(query, doc) ==
    LET all(v) == \A i \in DOMAIN v.items : Means(v.items[i], doc)
        some(v) == \E i \in DOMAIN v.items : Means(v.items[i], doc)
        clause(e) ==
            CASE e.value.form = "undefined" -> TRUE
              [] e.key = "$and" -> all(e.value)
              [] e.key = "$or" -> some(e.value)
              [] e.key = "$not" -> ~Means(e.value, doc)
              [] e.value.form = "object" ->
                    \A i \in DOMAIN e.value.entries :
                        MeansOperator(ValueAt(doc, e.path), e.value.entries[i])
              [] OTHER -> SameWritten(ValueAt(doc, e.path), e.value.scalar)
    IN  \A i \in DOMAIN query.entries : clause(query.entries[i])
=============================================================================
