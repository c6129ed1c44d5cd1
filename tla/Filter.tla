------------------------------- MODULE Filter --------------------------------
(***************************************************************************)
(* Metadata filters of isha-vector-db-core: the expression tree, the check *)
(* that bounds it, and its evaluation over metadata that is decoded (a     *)
(* buffered row) or still encoded (a segment row).  Evaluation is total.   *)
(***************************************************************************)
EXTENDS ValueCodec

CONSTANTS
    MaxFilterNodes,     \* MAX_FILTER_NODES (256)
    MaxFilterDepth      \* MAX_FILTER_DEPTH (32)

ASSUME FilterAssumption == MaxFilterNodes \in Nat /\ MaxFilterDepth \in Nat

(***************************************************************************)
(* The tree: one record shape for every operator.  A leaf reads path and   *)
(* compares with vals (one value, several for in and nin, none for exists  *)
(* and is_null); and, or and not have kids.                                *)
(***************************************************************************)
Leaf(op, path, vals) == [op |-> op, path |-> path, vals |-> vals, kids |-> <<>>]
Branch(op, kids) == [op |-> op, path |-> <<>>, vals |-> <<>>, kids |-> kids]

\* Filter::and and Filter::or flatten onto a left operand of the same operator.
Combine(op, f, g) == Branch(op, IF f.op = op THEN Append(f.kids, g) ELSE <<f, g>>)

RECURSIVE NodeCount(_), FilterDepth(_)
NodeCount(f) ==
    FoldLeft(LAMBDA total, n : total + n, 1, [i \in DOMAIN f.kids |-> NodeCount(f.kids[i])])

FilterDepth(f) ==
    1 + FoldLeft(LAMBDA deepest, d : IF d > deepest THEN d ELSE deepest, 0,
                 [i \in DOMAIN f.kids |-> FilterDepth(f.kids[i])])

ValidFilter(f) == NodeCount(f) <= MaxFilterNodes /\ FilterDepth(f) <= MaxFilterDepth

(***************************************************************************)
(* Numbers.  A float is worth a multiple of the smallest one; an integer   *)
(* becomes the nearest float, ties to the even mantissa, as `as f64` does. *)
(***************************************************************************)
FloatNum(bits) ==
    LET exponent == Magnitude(bits) \div 2^MantissaBits
        mantissa == Magnitude(bits) % 2^MantissaBits
        size == IF exponent = 0 THEN mantissa ELSE (2^MantissaBits + mantissa) * 2^(exponent - 1)
    IN  IF bits = Magnitude(bits) THEN size ELSE -size

AsFloat(n) ==
    LET size == IF n < 0 THEN -n ELSE n
        shift == CHOOSE s \in 0..size : /\ size < 2^(MantissaBits + 1 + s)
                                        /\ s = 0 \/ size >= 2^(MantissaBits + s)
        kept == size \div 2^shift
        cut == 2 * (size % 2^shift)
        nearest == IF cut > 2^shift \/ (cut = 2^shift /\ kept % 2 = 1) THEN kept + 1 ELSE kept
    IN  IF shift = 0 THEN n
        ELSE IF n < 0 THEN -(nearest * 2^shift) ELSE nearest * 2^shift

Numeric(v) == v.tag \in {"i64", "f64"}

\* The numbers a mixed or equal pair of numeric values is compared by.
Operand(v, other) ==
    IF v.tag = "f64" THEN FloatNum(v.num)
    ELSE IF other.tag = "f64" THEN AsFloat(v.num) ELSE v.num

(***************************************************************************)
(* Evaluation.                                                             *)
(***************************************************************************)
\* same: equality of two values; other pairs of types are unequal.
RECURSIVE Same(_, _)
Same(a, b) ==
    \/ Numeric(a) /\ Numeric(b) /\ Operand(a, b) = Operand(b, a)
    \/ /\ a.tag = b.tag /\ ~Numeric(a)
       /\ a.num = b.num /\ a.bytes = b.bytes /\ a.keys = b.keys
       /\ Len(a.items) = Len(b.items)
       /\ \A i \in DOMAIN a.items : Same(a.items[i], b.items[i])

\* equals: an absent field equals null.
Equals(actual, v) == IF actual = {} THEN v.tag = "null" ELSE \A x \in actual : Same(x, v)

\* compare: {-1}, {0} or {1}; {} where the two have no order.
Compare(a, b) ==
    LET sign(less, equal) == IF less THEN -1 ELSE IF equal THEN 0 ELSE 1
    IN  CASE Numeric(a) /\ Numeric(b) ->
                {sign(Operand(a, b) < Operand(b, a), Operand(a, b) = Operand(b, a))}
          [] a.tag = b.tag /\ a.tag \in {"str", "bytes"} ->
                {sign(KeyLess(a.bytes, b.bytes), a.bytes = b.bytes)}
          [] a.tag = b.tag /\ a.tag = "bool" -> {sign(a.num < b.num, a.num = b.num)}
          [] OTHER -> {}

\* ordered: false for an absent field and for a pair with no order.
Ordered(actual, v, accepted) == \E x \in actual : \E o \in Compare(x, v) : o \in accepted

\* A row's metadata where it is: nothing, a decoded map or the bytes of one.
Fields(map, bytes) == [map |-> map, bytes |-> bytes]

\* Fields::resolve: what does not resolve, malformed bytes included, is absent.
Resolve(fields, path) ==
    (UNION {GetPath(m, path) : m \in fields.map})
        \cup (UNION {FindPath(b, path) : b \in fields.bytes})

\* A predicate on what its path resolved to.
MatchesLeaf(f, actual) ==
    LET wanted == f.vals[1]
        listed == \E i \in DOMAIN f.vals : Equals(actual, f.vals[i])
    IN  CASE f.op = "eq" -> Equals(actual, wanted)
          [] f.op = "ne" -> ~Equals(actual, wanted)
          [] f.op = "gt" -> Ordered(actual, wanted, {1})
          [] f.op = "gte" -> Ordered(actual, wanted, {0, 1})
          [] f.op = "lt" -> Ordered(actual, wanted, {-1})
          [] f.op = "lte" -> Ordered(actual, wanted, {-1, 0})
          [] f.op = "in" -> listed
          [] f.op = "nin" -> ~listed
          [] f.op = "exists" -> actual # {}
          [] f.op = "is_null" -> \A x \in actual : x.tag = "null"
          [] f.op = "starts_with" ->
                \E x \in actual : x.tag = "str" /\ IsPrefix(wanted.bytes, x.bytes)
          [] f.op = "contains" ->
                \E x \in actual : x.tag = "array"
                                  /\ \E i \in DOMAIN x.items : Same(x.items[i], wanted)

RECURSIVE MatchesFields(_, _)
MatchesFields(f, fields) ==
    LET kid(i) == MatchesFields(f.kids[i], fields)
    IN  CASE f.op = "and" -> \A i \in DOMAIN f.kids : kid(i)
          [] f.op = "or" -> \E i \in DOMAIN f.kids : kid(i)
          [] f.op = "not" -> ~kid(1)
          [] OTHER -> \A actual \in {Resolve(fields, f.path)} : MatchesLeaf(f, actual)
=============================================================================
