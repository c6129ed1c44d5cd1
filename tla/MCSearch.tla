------------------------------ MODULE MCSearch -------------------------------
(* Small instance: five-bit bytes, one-byte floats and integer ids.          *)
EXTENDS Search, Documents, TLC

a == <<1>>
b == <<2>>
c == <<3>>

\* 9 and 8 are one number once 9 is a float of three significant bits.
odd == MapV(<<a>>, <<I64V(9)>>)
nested == MapV(<<a, b, c>>, <<F64V(12), MapV(<<a>>, <<StrV(a)>>), ArrayV(<<BoolV(1), I64V(1)>>)>>)
deep == MapV(<<a>>, <<ArrayV(<<ArrayV(<<NullV>>)>>)>>)

Doc(id, vector, meta, content) == [id |-> id, vector |-> vector, meta |-> meta, content |-> content]

MCInputs ==
    { Doc(StrId(a), <<2>>, {odd}, {}),
      Doc(StrId(a), <<18>>, {nested}, {1}),
      Doc(StrId(b), <<2>>, {nested}, {}),
      Doc(StrId(b), <<0>>, {}, {9}),
      Doc(StrId(<<>>), <<2>>, {}, {}),
      Doc(StrId(<<0>>), <<2>>, {}, {}),
      Doc(U64Id(1), <<2>>, {}, {}),
      Doc(StrId(a), <<13>>, {}, {}),
      Doc(StrId(a), <<1, 1>>, {}, {}),
      Doc(StrId(a), <<1>>, {deep}, {}) }

MCDeletes == {StrId(a), U64Id(2), U64Id(17)}

Query(vector, metric, k, filter, min) ==
    [vector |-> vector, metric |-> metric, top_k |-> k, filter |-> filter, min_score |-> min]

isEight == Leaf("eq", <<a>>, <<F64V(8)>>)
big == Leaf("gte", <<a>>, <<I64V(9)>>)
textual == Combine("and", Leaf("starts_with", <<b, a>>, <<StrV(a)>>), Leaf("contains", <<c>>, <<F64V(1)>>))
missing == Branch("not", <<Leaf("exists", <<a>>, <<>>)>>)

MCRequests ==
    { Query(<<1>>, "dot", 1, {}, {}),
      Query(<<2>>, "l2", 2, {}, {-9}),
      Query(<<17>>, "cosine", 2, {Combine("or", big, missing)}, {}),
      Query(<<1>>, "cosine", 1, {Combine("or", isEight, textual)}, {0}),
      Query(<<1>>, "dot", 3, {Leaf("nin", <<a>>, <<NullV, I64V(12)>>)}, {}),
      Query(<<1>>, "dot", 9, {}, {}),
      Query(<<13>>, "dot", 1, {}, {}),
      Query(<<1>>, "dot", 1, {Branch("not", <<Branch("not", <<Branch("not", <<big>>)>>)>>)}, {}) }

MCCeilings == {{}, {3}}

Symmetry == Permutations(Searchers)
=============================================================================
