--------------------------- MODULE MCStoredBytes ----------------------------
(* Small instance: five-bit bytes, maps indexed from three entries on.      *)
EXTENDS StoredBytes

a == <<1>>
b == <<2>>
ab == <<1, 2>>
wide == <<26, 17>>      \* one two-byte character

MCRows ==
    << [id |-> a, vector |-> <<3>>, inv_norm |-> 7, meta |-> {MapV(<<a>>, <<BoolV(1)>>)},
        content |-> {}],
       [id |-> wide, vector |-> <<9>>, inv_norm |-> 0, meta |-> {}, content |-> {<<5>>}] >>

MCCatalog == [name |-> a, dimension |-> 1, metric |-> 2, id_kind |-> 1, max_len |-> 4,
              created_at_ms |-> 6]

MCValues ==
    { MapV(<<>>, <<>>),
      MapV(<< <<>>, a >>, <<NullV, I64V(-9)>>),
      MapV(<<a, b>>, <<ArrayV(<<BoolV(0), F64V(4)>>), BytesV(<<>>)>>),
      MapV(<<a, ab, b>>, <<MapV(<<b>>, <<StrV(wide)>>), NullV, I64V(8)>>),
      MapV(<<a, ab, b, wide>>, <<NullV, BoolV(1), F64V(27), NullV>>),
      MapV(<<a, b, wide>>, <<BytesV([i \in 1..29 |-> 0]), I64V(1), MapV(<<a>>, <<NullV>>)>>),
      MapV(<<a>>, <<ArrayV(<<MapV(<<a>>, <<NullV>>)>>)>>) }

MCSubjects ==
    {[value |-> v, catalog |-> MCCatalog, rows |-> MCRows, exposed |-> {"value"}] :
        v \in MCValues}
    \cup {[value |-> MapV(<<>>, <<>>), catalog |-> MCCatalog, rows |-> MCRows,
           exposed |-> SegmentFiles \cup {"catalog"}]}

MCPaths == {<<a>>, <<b>>, <<ab>>, <<wide>>, <<a, b>>, <<a, a>>, <<b, a>>, EmptyPath, <<<<>>, a>>}
=============================================================================
