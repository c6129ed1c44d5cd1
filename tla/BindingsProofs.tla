--------------------------- MODULE BindingsProofs ----------------------------
(***************************************************************************)
(* Proofs about Bindings for any applications, SDKs, threads, wrappers and *)
(* calls, and any compilers of metadata and filters: native memory is      *)
(* misused only by a close that overlaps, nothing is left behind, and the  *)
(* three surfaces are one interface; and if compiling keeps the meaning of *)
(* each query on each document, so does everything a search goes through.  *)
(***************************************************************************)
EXTENDS Bindings, FiniteSetTheorems, WellFoundedInduction, TLAPS

-------------------------------------------------------------------------------
(* Engines and what is in them. *)

IsDoc(doc, p) ==
    /\ doc = [meta |-> doc.meta, written |-> doc.written]
    /\ doc.written \in WrittenBy(p) /\ doc.meta \in CompiledMetadata(p.sdk, doc.written)

IsColl(x, p) ==
    /\ x = [shape |-> x.shape, docs |-> x.docs]
    /\ x.docs = [i \in Ids |-> x.docs[i]]
    /\ \A i \in Ids : \A doc \in x.docs[i] : IsDoc(doc, p)
    /\ x.shape.ids = "str" /\ x.shape.dim # 0

IsReg(reg, p) == reg = [n \in Names |-> reg[n]] /\ \A n \in Names : \A x \in reg[n] : IsColl(x, p)

IsEngine(eng, p) ==
    /\ eng = [made |-> eng.made, coll |-> eng.coll, lock |-> eng.lock, inst |-> eng.inst]
    /\ IsReg(eng.coll, p)
    /\ eng.inst = [d \in Instances |-> [mode |-> eng.inst[d].mode, closed |-> eng.inst[d].closed,
                                        reg |-> eng.inst[d].reg]]
    /\ \A d \in Instances : eng.inst[d].closed \in BOOLEAN /\ IsReg(eng.inst[d].reg, p)

\* Only open instances hold the lock file.
LockHeld(eng) == \A d \in eng.lock : d \in Instances /\ ~ eng.inst[d].closed

-------------------------------------------------------------------------------
(* Calls under way. *)

IsCall(c, p) ==
    /\ c.op \in DatabaseOps(p.sdk) \cup WrapperOps(p.sdk) \cup {"open_collection"}
    /\ \E x \in p.calls : c = x \/ c = [x EXCEPT !.op = "open_collection"]
    /\ c.op = "search" => CompiledFilter(p.sdk, c) # {}

\* What is left of a batch.
IsBatch(batch, c, p) ==
    /\ batch \in Seq(Range(batch)) /\ (c.op = "upsert" => batch # <<>>)
    /\ \A x \in Range(batch) : /\ x.id \in Ids /\ x.written \in WrittenBy(p)
                               /\ CompiledMetadata(p.sdk, x.written) # {}

IsThread(x, p) ==
    /\ x = [pc |-> x.pc, call |-> x.call, db |-> x.db, w |-> x.w, batch |-> x.batch,
            answer |-> x.answer]
    /\ x.pc \in {"idle", "ready", "inside", "answered"}
    /\ x.pc = "idle" => x = Idle
    /\ x.pc # "idle" => \E c \in x.call, d \in Instances :
                                  /\ x.call = {c} /\ IsCall(c, p) /\ IsBatch(x.batch, c, p)
                                  /\ x.db = {d}
                                  /\ IF OnWrapper(c) \/ Makes(c) THEN \E w \in p.wrappers : x.w = {w}
                                     ELSE x.w = {}
    /\ x.pc = "inside" => \A c \in x.call : c.op # "release"
    /\ x.pc = "answered" => \A c \in x.call : c.op = "search"

\* A call under way on a wrapper.
UsesDb(t, d) == InFlight(t) /\ ~ OnWrapper(CallOf(t)) /\ th[t].db = {d}
UsesCol(t, w) == InFlight(t) /\ OnWrapper(CallOf(t)) /\ th[t].w = {w}

Flags == {"unused", "open", "closed"}
Boxes == {"none", "live", "freed"}

TypeInv ==
    /\ app \in DOMAIN Plans
    /\ IsEngine(e, plan) /\ LockHeld(e)
    /\ dbs = [d \in Instances |-> [flag |-> dbs[d].flag, box |-> dbs[d].box]]
    /\ \A d \in Instances : dbs[d].flag \in Flags /\ dbs[d].box \in Boxes
    /\ cols = [w \in Wrappers |-> [flag |-> cols[w].flag, box |-> cols[w].box, db |-> cols[w].db,
                                   name |-> cols[w].name, asked |-> cols[w].asked]]
    /\ \A w \in Wrappers : cols[w].flag \in Flags /\ cols[w].box \in Boxes
    /\ th = [t \in Threads |-> th[t]] /\ \A t \in Threads : IsThread(th[t], plan)
    /\ careless \in BOOLEAN

\* The box of a database and its instance.  A handle that was given up is freed by the
\* close that took it, and an instance is open until the close that freed its box returns.
DbBox(d) ==
    /\ dbs[d].flag = "unused" <=> dbs[d].box = "none"
    /\ dbs[d].flag = "open" => dbs[d].box = "live"
    /\ dbs[d].flag = "closed" /\ dbs[d].box = "live" =>
          \E t \in Threads : th[t].pc = "ready" /\ UsesDb(t, d) /\ Closes(CallOf(t))
    /\ dbs[d].box = "live" => ~ e.inst[d].closed
    /\ dbs[d].box # "live" /\ ~ e.inst[d].closed =>
          \E t \in Threads : th[t].pc = "inside" /\ UsesDb(t, d) /\ Closes(CallOf(t))
    /\ \A t \in Threads : th[t].pc = "inside" /\ UsesDb(t, d) /\ Closes(CallOf(t)) =>
          dbs[d].box = "freed"
    /\ dbs[d].flag = "unused" =>
          (\A t \in Threads : th[t].db # {d}) /\ \A w \in Wrappers : cols[w].db # {d}

ColBox(w) ==
    /\ cols[w].flag = "unused" <=> cols[w].box = "none"
    /\ cols[w].flag = "open" => cols[w].box = "live"
    /\ cols[w].flag = "closed" /\ cols[w].box = "live" =>
          \E t \in Threads : th[t].pc = "ready" /\ UsesCol(t, w) /\ Closes(CallOf(t))
    /\ cols[w].flag = "closed" => plan.sdk # "web"

\* A wrapper that is open or used.
Uses(t, w) == th[t].pc # "idle" /\ OnWrapper(CallOf(t)) /\ th[t].w = {w}
Wanted(w) == cols[w].flag = "open" \/ \E t \in Threads : Uses(t, w)

\* What it names is registered.
Named(w) ==
    /\ cols[w].flag = "unused" => cols[w].name = {}
    /\ cols[w].flag # "unused" =>
          \E d \in Instances, n \in Names : cols[w].db = {d} /\ cols[w].name = {n}
    /\ Wanted(w) => \E d \in Instances, n \in Names :
          cols[w].db = {d} /\ cols[w].name = {n} /\ e.inst[d].reg[n] # {}
    /\ \A t \in Threads : Uses(t, w) => th[t].db = cols[w].db

\* While a collection is dropped nothing uses it and no wrapper is being made.
DropAlone ==
    \A t \in Threads : th[t].pc # "idle" /\ CallOf(t).op = "drop_collection" =>
        /\ \A w \in Wrappers : cols[w].flag = "open" => cols[w].name # {CallOf(t).name}
        /\ \A u \in Threads \ {t} : th[u].pc # "idle" =>
              /\ ~ Makes(CallOf(u)) /\ CallOf(u).op # "drop_collection"
              /\ \A w \in Wrappers : OnWrapper(CallOf(u)) /\ th[u].w = {w} =>
                    cols[w].name # {CallOf(t).name}

\* A wrapper is being made by one call.
MakesAlone ==
    \A t \in Threads : \A w \in Wrappers :
        th[t].pc # "idle" /\ Makes(CallOf(t)) /\ th[t].w = {w} =>
            cols[w].flag = "unused" /\ \A u \in Threads \ {t} : th[u].w # {w}

\* Unless the application was careless a call has its wrapper as it found it, and a close
\* has it for itself.
UsedOpen ==
    /\ \A t \in Threads, d \in Instances : UsesDb(t, d) =>
          IF Closes(CallOf(t)) THEN th[t].pc = "ready" => dbs[d].box = "live"
          ELSE dbs[d].flag = "open"
    /\ \A t \in Threads, w \in Wrappers : UsesCol(t, w) =>
          IF Closes(CallOf(t)) THEN th[t].pc = "ready" => cols[w].box = "live"
          ELSE cols[w].flag = "open"

ClosesAlone ==
    \A t \in Threads, u \in Threads :
        /\ \A d \in Instances : t # u /\ UsesDb(t, d) /\ UsesDb(u, d) => ~ Closes(CallOf(t))
        /\ \A w \in Wrappers : t # u /\ UsesCol(t, w) /\ UsesCol(u, w) => ~ Closes(CallOf(t))

Inv ==
    /\ TypeInv
    /\ MisuseNeedsOverlap
    /\ misuse = {} =>
          /\ \A d \in Instances : DbBox(d)
          /\ \A w \in Wrappers : ColBox(w) /\ Named(w)
          /\ DropAlone /\ MakesAlone
          /\ ~ careless => UsedOpen /\ ClosesAlone

\* Every call under way is one of a thread of the application.
Planned == \A t \in Threads : th[t].pc # "idle" => t \in plan.threads

\* A search with a query or a tree answered, of its collection as it still is, what a filter
\* that was compiled for it selects.
Asks(t) == th[t].pc = "answered" /\ (CallOf(t).query # {} \/ CallOf(t).tree # {})
AnswerIs(t) ==
    \E f \in CompiledFilter(plan.sdk, CallOf(t)), w \in Wrappers, d \in Instances, n \in Names :
        /\ th[t].w = {w} /\ cols[w].db = {d} /\ cols[w].name = {n}
        /\ th[t].answer = {i \in Ids : \E doc \in Held(e, [db |-> d, name |-> n]).docs[i] :
                              \A g \in f : FilterMatches(g, doc.meta)}
Answered == \A t \in Threads : Asks(t) => AnswerIs(t) /\ misuse = {}

LEMMA LeastNatural ==
    ASSUME NEW S \in SUBSET Nat, S # {}
    PROVE  \E n \in S : \A m \in S : n <= m
<1> DEFINE R == {p \in Nat \X Nat : p[1] < p[2]}
<1>1. IsWellFoundedOn(R, Nat)
  BY NatLessThanWellFounded DEF OpToRel
<1> HIDE DEF R
<1>2. PICK n \in S : \A m \in S : ~ (<<m, n>> \in R)
  BY <1>1, WFMin, Zenon
<1>3. \A m \in S : ~ (m < n)
  BY <1>2 DEF R
<1> QED
  BY <1>3

\* No error if no check fails, or that of one that does.
LEMMA FirstErrorIs ==
    ASSUME NEW checks, NEW n \in Nat, DOMAIN checks = 1..n
    PROVE  \/ FirstError(checks) = "none" /\ \A i \in 1..n : ~ checks[i][1]
           \/ \E i \in 1..n : checks[i][1] /\ FirstError(checks) = checks[i][2]
<1> DEFINE failed == {i \in DOMAIN checks : checks[i][1]}
<1>1. CASE failed = {}
  BY <1>1 DEF FirstError
<1>2. CASE failed # {}
  <2>1. failed \in SUBSET Nat
    OBVIOUS
  <2>2. \E i \in failed : \A j \in failed : i <= j
    BY <1>2, <2>1, LeastNatural
  <2> DEFINE first == CHOOSE i \in failed : \A j \in failed : i <= j
  <2>3. first \in failed
    BY <2>2
  <2>4. FirstError(checks) = checks[first][2]
    BY <1>2 DEF FirstError, Min
  <2> HIDE DEF first
  <2> QED
    BY <2>3, <2>4
<1> QED
  BY <1>1, <1>2

Errors == DOMAIN Code \cup {"none"}

LEMMA CodeIs ==
    /\ DOMAIN Code = {"InvalidField", "DatabaseAlreadyOpen", "DatabaseNotFound", "DatabaseClosed",
                      "ReadOnly", "CollectionNotFound", "CollectionExists",
                      "InvalidVectorDimension", "InvalidDocumentId", "InvalidCollectionName",
                      "TopKOutOfRange", "FilterTooComplex", "InvalidDimension", "StorageIo"}
    /\ \A x \in DOMAIN Code : Code[x] \in Int /\ Code[x] > 0
  BY DEF Code

\* A check is a condition and the error it raises.
Check(check) == check[2] \in DOMAIN Code

LEMMA FirstErrorOf ==
    ASSUME NEW checks, NEW n \in Nat, DOMAIN checks = 1..n, \A i \in 1..n : Check(checks[i])
    PROVE  /\ FirstError(checks) \in Errors
           /\ FirstError(checks) = "none" <=> \A i \in 1..n : ~ checks[i][1]
<1>1. "none" \notin DOMAIN Code
  BY CodeIs
<1> QED
  BY <1>1, FirstErrorIs DEF Errors, Check

LEMMA TwoChecks ==
    ASSUME NEW a, NEW b,
           Check(a), Check(b)
    PROVE  /\ FirstError(<<a, b>>) \in Errors
           /\ FirstError(<<a, b>>) = "none" <=> ~ a[1] /\ ~ b[1]
<1> DEFINE l == <<a, b>>
<1>1. DOMAIN l = 1..2 /\ l[1] = a /\ l[2] = b
  OBVIOUS
<1> HIDE DEF l
<1>2. FirstError(l) \in Errors /\ (FirstError(l) = "none" <=> \A i \in 1..2 : ~ l[i][1])
  <2>1. \A i \in 1..2 : Check(l[i])
    BY <1>1
  <2> QED
    BY <1>1, <2>1, FirstErrorOf
<1>3. (\A i \in 1..2 : ~ l[i][1]) <=> ~ a[1] /\ ~ b[1]
  BY <1>1
<1> QED
  BY <1>2, <1>3 DEF l

LEMMA ThreeChecks ==
    ASSUME NEW a, NEW b, NEW c,
           Check(a), Check(b), Check(c)
    PROVE  /\ FirstError(<<a, b, c>>) \in Errors
           /\ FirstError(<<a, b, c>>) = "none" <=> ~ a[1] /\ ~ b[1] /\ ~ c[1]
<1> DEFINE l == <<a, b, c>>
<1>1. DOMAIN l = 1..3 /\ l[1] = a /\ l[2] = b /\ l[3] = c
  OBVIOUS
<1> HIDE DEF l
<1>2. FirstError(l) \in Errors /\ (FirstError(l) = "none" <=> \A i \in 1..3 : ~ l[i][1])
  <2>1. \A i \in 1..3 : Check(l[i])
    BY <1>1
  <2> QED
    BY <1>1, <2>1, FirstErrorOf
<1>3. (\A i \in 1..3 : ~ l[i][1]) <=> ~ a[1] /\ ~ b[1] /\ ~ c[1]
  BY <1>1
<1> QED
  BY <1>2, <1>3 DEF l

LEMMA FourChecks ==
    ASSUME NEW a, NEW b, NEW c, NEW d,
           Check(a), Check(b), Check(c), Check(d)
    PROVE  /\ FirstError(<<a, b, c, d>>) \in Errors
           /\ FirstError(<<a, b, c, d>>) = "none" <=> ~ a[1] /\ ~ b[1] /\ ~ c[1] /\ ~ d[1]
<1> DEFINE l == <<a, b, c, d>>
<1>1. DOMAIN l = 1..4 /\ l[1] = a /\ l[2] = b /\ l[3] = c /\ l[4] = d
  OBVIOUS
<1> HIDE DEF l
<1>2. FirstError(l) \in Errors /\ (FirstError(l) = "none" <=> \A i \in 1..4 : ~ l[i][1])
  <2>1. \A i \in 1..4 : Check(l[i])
    BY <1>1
  <2> QED
    BY <1>1, <2>1, FirstErrorOf
<1>3. (\A i \in 1..4 : ~ l[i][1]) <=> ~ a[1] /\ ~ b[1] /\ ~ c[1] /\ ~ d[1]
  BY <1>1
<1> QED
  BY <1>2, <1>3 DEF l

LEMMA FiveChecks ==
    ASSUME NEW a, NEW b, NEW c, NEW d, NEW f,
           Check(a), Check(b), Check(c), Check(d), Check(f)
    PROVE  /\ FirstError(<<a, b, c, d, f>>) \in Errors
           /\ FirstError(<<a, b, c, d, f>>) = "none" <=> ~ a[1] /\ ~ b[1] /\ ~ c[1] /\ ~ d[1] /\ ~ f[1]
<1> DEFINE l == <<a, b, c, d, f>>
<1>1. DOMAIN l = 1..5 /\ l[1] = a /\ l[2] = b /\ l[3] = c /\ l[4] = d /\ l[5] = f
  OBVIOUS
<1> HIDE DEF l
<1>2. FirstError(l) \in Errors /\ (FirstError(l) = "none" <=> \A i \in 1..5 : ~ l[i][1])
  <2>1. \A i \in 1..5 : Check(l[i])
    BY <1>1
  <2> QED
    BY <1>1, <2>1, FirstErrorOf
<1>3. (\A i \in 1..5 : ~ l[i][1]) <=> ~ a[1] /\ ~ b[1] /\ ~ c[1] /\ ~ d[1] /\ ~ f[1]
  BY <1>1
<1> QED
  BY <1>2, <1>3 DEF l

LEMMA SixChecks ==
    ASSUME NEW a, NEW b, NEW c, NEW d, NEW f, NEW g,
           Check(a), Check(b), Check(c), Check(d), Check(f), Check(g)
    PROVE  /\ FirstError(<<a, b, c, d, f, g>>) \in Errors
           /\ FirstError(<<a, b, c, d, f, g>>) = "none" <=> ~ a[1] /\ ~ b[1] /\ ~ c[1] /\ ~ d[1] /\ ~ f[1] /\ ~ g[1]
<1> DEFINE l == <<a, b, c, d, f, g>>
<1>1. DOMAIN l = 1..6 /\ l[1] = a /\ l[2] = b /\ l[3] = c /\ l[4] = d /\ l[5] = f /\ l[6] = g
  OBVIOUS
<1> HIDE DEF l
<1>2. FirstError(l) \in Errors /\ (FirstError(l) = "none" <=> \A i \in 1..6 : ~ l[i][1])
  <2>1. \A i \in 1..6 : Check(l[i])
    BY <1>1
  <2> QED
    BY <1>1, <2>1, FirstErrorOf
<1>3. (\A i \in 1..6 : ~ l[i][1]) <=> ~ a[1] /\ ~ b[1] /\ ~ c[1] /\ ~ d[1] /\ ~ f[1] /\ ~ g[1]
  BY <1>1
<1> QED
  BY <1>2, <1>3 DEF l

-------------------------------------------------------------------------------
(* What the operations of the engine do. *)

\* An operation that reports an error changes nothing, a close apart.
Refused(out, eng) == out.error \in DOMAIN Code /\ out = Fail(out.error, eng)

LEMMA CheckTypes ==
    ASSUME NEW eng, NEW d, NEW c, NEW h
    PROVE  /\ Check(CheckOpen(eng, d)) /\ (CheckOpen(eng, d)[1] <=> eng.inst[d].closed)
           /\ Check(CheckWritable(eng, d))
           /\ Check(StorageFails(c))
           /\ Check(CheckConfig(c))
           /\ Check(CheckName(c))
           /\ Check(CheckDimension(c)) /\ (CheckDimension(c)[1] <=> c.dim = 0 \/ c.dim > MaxDimension)
           /\ Check(CheckVector(eng, h, c))
  BY CodeIs DEF Check, CheckOpen, CheckWritable, StorageFails, CheckConfig, CheckName,
     CheckDimension, CheckVector

LEMMA PutIs ==
    ASSUME NEW p, NEW eng, IsEngine(eng, p), NEW d \in Instances, NEW n \in Names, NEW coll,
           \A x \in coll : IsColl(x, p)
    PROVE  LET r == PutCollection(eng, d, n, coll)
           IN  /\ IsEngine(r, p) /\ r.lock = eng.lock
               /\ \A x \in Instances :
                     /\ r.inst[x].closed = eng.inst[x].closed
                     /\ \A m \in Names :
                           r.inst[x].reg[m] = IF x = d /\ m = n THEN coll ELSE eng.inst[x].reg[m]
<1> DEFINE r == PutCollection(eng, d, n, coll)
           reg == [eng.inst[d].reg EXCEPT ![n] = coll]
<1>1. eng = [made |-> eng.made, coll |-> eng.coll, lock |-> eng.lock, inst |-> eng.inst]
  BY DEF IsEngine
<1>2. /\ r = [made |-> r.made, coll |-> r.coll, lock |-> r.lock, inst |-> r.inst]
      /\ r.coll = [eng.coll EXCEPT ![n] = coll] /\ r.lock = eng.lock
      /\ r.inst = [eng.inst EXCEPT ![d] = [eng.inst[d] EXCEPT !.reg = reg]]
  <2> DEFINE inst == [eng.inst EXCEPT ![d] = [eng.inst[d] EXCEPT !.reg = reg]]
             colls == [eng.coll EXCEPT ![n] = coll]
  <2>1. r = [eng EXCEPT !.coll = colls, !.inst = inst]
    BY Zenon DEF PutCollection
  <2> HIDE DEF inst, colls, r
  <2>2. r = [made |-> eng.made, coll |-> colls, lock |-> eng.lock, inst |-> inst]
    BY <1>1, <2>1
  <2> QED
    BY <2>2 DEF inst, colls
<1> HIDE DEF r
<1>3. IsReg(eng.coll, p) /\ IsReg(eng.inst[d].reg, p)
  BY DEF IsEngine
<1>4. IsReg(r.coll, p)
  BY <1>2, <1>3 DEF IsReg
<1>5. IsReg(reg, p) /\ \A m \in Names : reg[m] = IF m = n THEN coll ELSE eng.inst[d].reg[m]
  BY <1>3 DEF IsReg
<1> HIDE DEF reg
<1>6. \A x \in Instances :
         eng.inst[x] = [mode |-> eng.inst[x].mode, closed |-> eng.inst[x].closed, reg |-> eng.inst[x].reg]
  BY DEF IsEngine
<1>7. DOMAIN eng.inst = Instances
  BY DEF IsEngine
<1>8. \A x \in Instances : r.inst[x] = IF x = d THEN [eng.inst[d] EXCEPT !.reg = reg] ELSE eng.inst[x]
  BY <1>2, <1>7
<1>9. \A x \in Instances :
         /\ r.inst[x] = [mode |-> r.inst[x].mode, closed |-> r.inst[x].closed, reg |-> r.inst[x].reg]
         /\ r.inst[x].closed = eng.inst[x].closed
         /\ r.inst[x].reg = IF x = d THEN reg ELSE eng.inst[x].reg
  BY <1>6, <1>8
<1>10. r.inst = [x \in Instances |-> [mode |-> r.inst[x].mode, closed |-> r.inst[x].closed,
                                      reg |-> r.inst[x].reg]]
  <2>1. r.inst = [x \in Instances |-> r.inst[x]]
    BY <1>2, <1>7
  <2> QED
    BY <2>1, <1>9
<1>11. IsEngine(r, p)
  BY <1>2, <1>4, <1>5, <1>9, <1>10 DEF IsEngine
<1> QED
  BY <1>2, <1>5, <1>9, <1>11 DEF r

LEMMA OpenIs ==
    ASSUME NEW eng, NEW d, NEW c
    PROVE  LET out == OpenWithIndex(eng, d, c)
               mode == IF c.read_only THEN "ro" ELSE "rw"
           IN  \/ Refused(out, eng)
               \/ out = Done([eng EXCEPT !.made = TRUE,
                                         !.lock = IF c.read_only THEN @ ELSE {d},
                                         !.inst[d] = [mode |-> mode, closed |-> FALSE, reg |-> eng.coll]])
<1> DEFINE a == <<~ c.read_only /\ eng.lock # {}, "DatabaseAlreadyOpen">>
           b == <<~ eng.made /\ ~ c.create, "DatabaseNotFound">>
           error == FirstError(<<CheckConfig(c), a, b, StorageFails(c)>>)
<1>1. Check(a) /\ Check(b)
  BY CodeIs DEF Check
<1> HIDE DEF a, b
<1>2. error \in Errors
  BY <1>1, CheckTypes, FourChecks
<1> HIDE DEF error
<1>3. CASE error = "none"
  BY <1>3 DEF OpenWithIndex, error, a, b
<1>4. CASE error # "none"
  <2>1. OpenWithIndex(eng, d, c) = Fail(error, eng)
    BY <1>4 DEF OpenWithIndex, error, a, b
  <2> QED
    BY <1>2, <1>4, <2>1 DEF Refused, Fail, Outcome, Errors
<1> QED
  BY <1>3, <1>4

LEMMA FlushIs ==
    ASSUME NEW eng, NEW d, NEW c
    PROVE  LET out == FlushDatabase(eng, d, c)
           IN  Refused(out, eng) \/ out = Done(eng)
<1> DEFINE a == <<eng.inst[d].mode = "rw" /\ ~ c.io, "StorageIo">>
           error == FirstError(<<CheckOpen(eng, d), a>>)
<1>1. Check(a)
  BY CodeIs DEF Check
<1> HIDE DEF a
<1>2. error \in Errors
  BY <1>1, CheckTypes, TwoChecks
<1> HIDE DEF error
<1> QED
  BY <1>2 DEF FlushDatabase, error, a, Refused, Fail, Done, Outcome, Errors

\* Whoever holds a collection by a handle is given one that is there.
LEMMA HeldIs ==
    ASSUME NEW p, NEW eng, IsEngine(eng, p), NEW h, h.db \in Instances, h.name \in Names,
           eng.inst[h.db].reg[h.name] # {}
    PROVE  Held(eng, h) \in eng.inst[h.db].reg[h.name] /\ IsColl(Held(eng, h), p)
  BY DEF Held, IsEngine, IsReg

LEMMA CreateIs ==
    ASSUME NEW eng, NEW d, NEW c
    PROVE  LET out == CreateCollection(eng, d, c)
           IN  \/ Refused(out, eng)
               \/ /\ ~ eng.inst[d].closed /\ c.dim # 0
                  /\ out = Done(PutCollection(eng, d, c.name,
                                              {[shape |-> SpecOf(c), docs |-> [i \in Ids |-> {}]]}))
<1> DEFINE a == <<CollectionExists(eng, d, c.name), "CollectionExists">>
           error == FirstError(<<CheckOpen(eng, d), CheckWritable(eng, d), CheckName(c),
                                 CheckDimension(c), a, StorageFails(c)>>)
           made == {[shape |-> SpecOf(c), docs |-> [i \in Ids |-> {}]]}
<1>1. Check(a)
  BY CodeIs DEF Check
<1> HIDE DEF a
<1>2. /\ error \in Errors
      /\ error = "none" => ~ CheckOpen(eng, d)[1] /\ ~ CheckDimension(c)[1]
  BY <1>1, CheckTypes, SixChecks
<1>3. error = "none" => ~ eng.inst[d].closed /\ c.dim # 0
  BY <1>2, CheckTypes
<1> HIDE DEF error, made
<1>4. CreateCollection(eng, d, c) = IF error # "none" THEN Fail(error, eng)
                                    ELSE Done(PutCollection(eng, d, c.name, made))
  BY DEF CreateCollection, error, a, made
<1>5. error # "none" => Refused(CreateCollection(eng, d, c), eng)
  BY <1>2, <1>4 DEF Refused, Fail, Outcome, Errors
<1>6. error = "none" => CreateCollection(eng, d, c) = Done(PutCollection(eng, d, c.name, made))
  BY <1>4
<1> QED
  BY <1>3, <1>5, <1>6 DEF made

LEMMA OpenCollectionIs ==
    ASSUME NEW eng, NEW d, NEW c
    PROVE  LET out == OpenCollection(eng, d, c)
           IN  \/ Refused(out, eng)
               \/ ~ eng.inst[d].closed /\ CollectionExists(eng, d, c.name) /\ out = Done(eng)
<1> DEFINE a == <<~ CollectionExists(eng, d, c.name), "CollectionNotFound">>
           error == FirstError(<<CheckOpen(eng, d), a>>)
<1>1. Check(a) /\ (a[1] <=> ~ CollectionExists(eng, d, c.name))
  BY CodeIs DEF Check
<1> HIDE DEF a
<1>2. /\ error \in Errors
      /\ error = "none" => ~ eng.inst[d].closed /\ CollectionExists(eng, d, c.name)
  BY <1>1, CheckTypes, TwoChecks
<1> HIDE DEF error
<1> QED
  BY <1>2 DEF OpenCollection, error, a, Refused, Fail, Done, Outcome, Errors

\* An existing collection has the shape asked for, or the call is refused.
LEMMA GetOrCreateIs ==
    ASSUME NEW eng, NEW d, NEW c
    PROVE  LET out == GetOrCreateCollection(eng, d, c)
           IN  \/ Refused(out, eng)
               \/ /\ CollectionExists(eng, d, c.name) /\ out = Done(eng)
                  /\ \A x \in eng.inst[d].reg[c.name] : x.shape = SpecOf(c)
               \/ /\ c.dim # 0
                  /\ out = Done(PutCollection(eng, d, c.name,
                                              {[shape |-> SpecOf(c), docs |-> [i \in Ids |-> {}]]}))
<1> DEFINE a == <<\E x \in eng.inst[d].reg[c.name] : x.shape # SpecOf(c), "CollectionExists">>
           error == FirstError(<<CheckOpen(eng, d), a>>)
<1>1. Check(a) /\ (a[1] <=> \E x \in eng.inst[d].reg[c.name] : x.shape # SpecOf(c))
  BY CodeIs DEF Check
<1> HIDE DEF a
<1>2. /\ error \in Errors
      /\ error = "none" => \A x \in eng.inst[d].reg[c.name] : x.shape = SpecOf(c)
  BY <1>1, CheckTypes, TwoChecks
<1> HIDE DEF error
<1>3. GetOrCreateCollection(eng, d, c) =
        IF error # "none" THEN Fail(error, eng)
        ELSE IF CollectionExists(eng, d, c.name) THEN OpenCollection(eng, d, c)
        ELSE CreateCollection(eng, d, c)
  BY DEF GetOrCreateCollection, error, a
<1>4. CASE error # "none"
  BY <1>2, <1>3, <1>4 DEF Refused, Fail, Outcome, Errors
<1>5. CASE error = "none" /\ CollectionExists(eng, d, c.name)
  BY <1>2, <1>3, <1>5, OpenCollectionIs
<1>6. CASE error = "none" /\ ~ CollectionExists(eng, d, c.name)
  BY <1>3, <1>6, CreateIs
<1> QED
  BY <1>4, <1>5, <1>6

LEMMA DropIs ==
    ASSUME NEW eng, NEW d, NEW c
    PROVE  LET out == DropCollection(eng, d, c)
           IN  Refused(out, eng) \/ out = Done(PutCollection(eng, d, c.name, {}))
<1> DEFINE a == <<~ CollectionExists(eng, d, c.name), "CollectionNotFound">>
           error == FirstError(<<CheckOpen(eng, d), CheckWritable(eng, d), a, StorageFails(c)>>)
<1>1. Check(a)
  BY CodeIs DEF Check
<1> HIDE DEF a
<1>2. error \in Errors
  BY <1>1, CheckTypes, FourChecks
<1> HIDE DEF error
<1> QED
  BY <1>2 DEF DropCollection, error, a, Refused, Fail, Done, Outcome, Errors

LEMMA ListIs ==
    ASSUME NEW eng, NEW d
    PROVE  LET out == ListCollections(eng, d)
           IN  Refused(out, eng) \/ (out.error = "none" /\ out.e = eng)
  BY CodeIs DEF ListCollections, Refused, Fail, Answer, Outcome

LEMMA CompactIs ==
    ASSUME NEW eng, NEW d, NEW c
    PROVE  LET out == CompactDatabase(eng, d, c)
           IN  Refused(out, eng) \/ out = Done(eng)
<1> DEFINE error == FirstError(<<CheckOpen(eng, d), CheckWritable(eng, d), StorageFails(c)>>)
<1>1. error \in Errors
  BY CheckTypes, ThreeChecks
<1> HIDE DEF error
<1> QED
  BY <1>1 DEF CompactDatabase, error, Refused, Fail, Done, Outcome, Errors

LEMMA VerifyIs ==
    ASSUME NEW eng, NEW d, NEW c
    PROVE  LET out == VerifyDatabase(eng, d, c)
           IN  Refused(out, eng) \/ out = Done(eng)
<1> DEFINE error == FirstError(<<CheckOpen(eng, d), StorageFails(c)>>)
<1>1. error \in Errors
  BY CheckTypes, TwoChecks
<1> HIDE DEF error
<1> QED
  BY <1>1 DEF VerifyDatabase, error, Refused, Fail, Done, Outcome, Errors

\* The engine in which the documents of the id of the call are those of D.
Wrote(eng, h, c, D) ==
    PutCollection(eng, h.db, h.name, {[Held(eng, h) EXCEPT !.docs[c.id] = D]})

LEMMA UpsertIs ==
    ASSUME NEW eng, NEW h, NEW c, NEW doc
    PROVE  LET out == Upsert(eng, h, c, doc)
           IN  \/ Refused(out, eng)
               \/ out.error = "none" /\ out.e = Wrote(eng, h, c, {doc})
<1> DEFINE a == <<Held(eng, h).shape.ids # "str", "InvalidDocumentId">>
           error == FirstError(<<CheckOpen(eng, h.db), CheckWritable(eng, h.db), a,
                                 CheckVector(eng, h, c), StorageFails(c)>>)
<1>1. Check(a)
  BY CodeIs DEF Check
<1> HIDE DEF a
<1>2. error \in Errors
  BY <1>1, CheckTypes, FiveChecks
<1> DEFINE put == Wrote(eng, h, c, {doc})
           answer == IF Held(eng, h).docs[c.id] = {} THEN {c.id} ELSE {}
<1> HIDE DEF error, put, answer
<1>3. Upsert(eng, h, c, doc) = IF error # "none" THEN Fail(error, eng) ELSE Outcome("none", put, answer)
  BY DEF Upsert, error, a, put, answer, Wrote
<1>4. error # "none" => Refused(Upsert(eng, h, c, doc), eng)
  BY <1>2, <1>3 DEF Refused, Fail, Outcome, Errors
<1>5. error = "none" => Upsert(eng, h, c, doc).error = "none" /\ Upsert(eng, h, c, doc).e = put
  BY <1>3 DEF Outcome
<1> QED
  BY <1>4, <1>5 DEF put

LEMMA DeleteIs ==
    ASSUME NEW eng, NEW h, NEW c
    PROVE  LET out == Delete(eng, h, c)
           IN  \/ Refused(out, eng)
               \/ out.error = "none" /\ out.e = Wrote(eng, h, c, {})
<1> DEFINE error == FirstError(<<CheckOpen(eng, h.db), CheckWritable(eng, h.db), StorageFails(c)>>)
           put == Wrote(eng, h, c, {})
           answer == IF Held(eng, h).docs[c.id] = {} THEN {} ELSE {c.id}
<1>1. error \in Errors
  BY CheckTypes, ThreeChecks
<1> HIDE DEF error, put, answer
<1>2. Delete(eng, h, c) = IF error # "none" THEN Fail(error, eng) ELSE Outcome("none", put, answer)
  BY DEF Delete, error, put, answer, Wrote
<1>3. error # "none" => Refused(Delete(eng, h, c), eng)
  BY <1>1, <1>2 DEF Refused, Fail, Outcome, Errors
<1>4. error = "none" => Delete(eng, h, c).error = "none" /\ Delete(eng, h, c).e = put
  BY <1>2 DEF Outcome
<1> QED
  BY <1>3, <1>4 DEF put

LEMMA ReadsAre ==
    ASSUME NEW eng, NEW h, NEW c
    PROVE  /\ LET out == ContainsDocument(eng, h, c) IN Refused(out, eng) \/ (out.error = "none" /\ out.e = eng)
           /\ LET out == CountDocuments(eng, h) IN Refused(out, eng) \/ (out.error = "none" /\ out.e = eng)
           /\ LET out == FlushCollection(eng, h, c) IN Refused(out, eng) \/ out = Done(eng)
<1>1. LET out == ContainsDocument(eng, h, c) IN Refused(out, eng) \/ (out.error = "none" /\ out.e = eng)
  BY CodeIs DEF ContainsDocument, Refused, Fail, Answer, Outcome
<1>2. LET out == CountDocuments(eng, h) IN Refused(out, eng) \/ (out.error = "none" /\ out.e = eng)
  BY CodeIs DEF CountDocuments, Refused, Fail, Answer, Outcome
<1>3. LET out == FlushCollection(eng, h, c) IN Refused(out, eng) \/ out = Done(eng)
  <2> DEFINE a == <<eng.inst[h.db].mode = "rw" /\ ~ c.io, "StorageIo">>
             error == FirstError(<<CheckOpen(eng, h.db), a>>)
  <2>1. Check(a)
    BY CodeIs DEF Check
  <2> HIDE DEF a
  <2>2. error \in Errors
    BY <2>1, CheckTypes, TwoChecks
  <2> HIDE DEF error
  <2> QED
    BY <2>2 DEF FlushCollection, error, a, Refused, Fail, Done, Outcome, Errors
<1> QED
  BY <1>1, <1>2, <1>3

\* The ids whose document every filter of the set selects.
Selected(eng, h, filter) ==
    {i \in Ids : \E doc \in Held(eng, h).docs[i] : \A f \in filter : FilterMatches(f, doc.meta)}

LEMMA SearchIs ==
    ASSUME NEW eng, NEW h, NEW c, NEW filter
    PROVE  LET out == SearchCollection(eng, h, c, filter)
           IN  \/ Refused(out, eng)
               \/ out = Answer(eng, Selected(eng, h, filter)) /\ c.top_k # 0
<1> DEFINE a == <<c.top_k = 0 \/ c.top_k > MaxResults, "TopKOutOfRange">>
           b == <<\E f \in filter : ~FilterValid(f), "FilterTooComplex">>
           error == FirstError(<<CheckOpen(eng, h.db), CheckVector(eng, h, c), a, b>>)
           selected(doc) == \A f \in filter : FilterMatches(f, doc.meta)
           hits == {i \in Ids : \E doc \in Held(eng, h).docs[i] : selected(doc)}
<1>1. Check(a) /\ Check(b) /\ (a[1] <=> c.top_k = 0 \/ c.top_k > MaxResults)
  BY CodeIs DEF Check
<1> HIDE DEF a, b
<1>2. error \in Errors /\ (error = "none" => c.top_k # 0)
  BY <1>1, CheckTypes, FourChecks
<1>3. hits = Selected(eng, h, filter)
  BY DEF Selected
<1>4. SearchCollection(eng, h, c, filter) = IF error # "none" THEN Fail(error, eng)
                                            ELSE Answer(eng, hits)
  BY DEF SearchCollection, a, b
<1> HIDE DEF error, hits
<1>5. error # "none" => Refused(SearchCollection(eng, h, c, filter), eng)
  BY <1>2, <1>4 DEF Refused, Fail, Outcome, Errors
<1> QED
  BY <1>2, <1>3, <1>4, <1>5

LEMMA CloseIs ==
    ASSUME NEW eng, NEW d, NEW c
    PROVE  /\ Close(eng, d, c).error \in Errors /\ Close(eng, d, c).answer = {}
           /\ Close(eng, d, c).e = [eng EXCEPT !.inst[d].closed = TRUE, !.lock = @ \ {d}]
<1>1. FlushDatabase(eng, d, c).error \in Errors
  <2>1. Refused(FlushDatabase(eng, d, c), eng) \/ FlushDatabase(eng, d, c) = Done(eng)
    BY FlushIs
  <2> QED
    BY <2>1 DEF Refused, Done, Outcome, Errors
<1> QED
  BY <1>1 DEF Close, Outcome

\* The instances of D are closed and give up the lock; nothing else changes.
Shut(eng, r, D, p) ==
    /\ IsEngine(r, p) /\ r.lock \subseteq eng.lock \ D
    /\ \A x \in Instances :
          /\ r.inst[x].closed = (x \in D \/ eng.inst[x].closed)
          /\ r.inst[x].reg = eng.inst[x].reg

LEMMA CloseShuts ==
    ASSUME NEW p, NEW eng, IsEngine(eng, p), NEW d \in Instances, NEW c
    PROVE  Shut(eng, Close(eng, d, c).e, {d}, p) /\ Close(eng, d, c).e.lock = eng.lock \ {d}
<1> DEFINE r == Close(eng, d, c).e
           one == [eng.inst[d] EXCEPT !.closed = TRUE]
<1>1. eng = [made |-> eng.made, coll |-> eng.coll, lock |-> eng.lock, inst |-> eng.inst]
  BY DEF IsEngine
<1>2. /\ r = [made |-> r.made, coll |-> r.coll, lock |-> r.lock, inst |-> r.inst]
      /\ r.coll = eng.coll /\ r.lock = eng.lock \ {d}
      /\ r.inst = [eng.inst EXCEPT ![d] = one]
  <2> DEFINE inst == [eng.inst EXCEPT ![d] = one]
             lock == eng.lock \ {d}
  <2>1. r = [eng EXCEPT !.inst = inst, !.lock = lock]
    BY CloseIs, Zenon
  <2> HIDE DEF inst, lock, r
  <2>2. r = [made |-> eng.made, coll |-> eng.coll, lock |-> lock, inst |-> inst]
    BY <1>1, <2>1
  <2> QED
    BY <2>2 DEF inst, lock
<1> HIDE DEF r
<1>3. \A x \in Instances :
         eng.inst[x] = [mode |-> eng.inst[x].mode, closed |-> eng.inst[x].closed, reg |-> eng.inst[x].reg]
  BY DEF IsEngine
<1>4. DOMAIN eng.inst = Instances
  BY DEF IsEngine
<1>5. \A x \in Instances :
         /\ r.inst[x] = [mode |-> r.inst[x].mode, closed |-> r.inst[x].closed, reg |-> r.inst[x].reg]
         /\ r.inst[x].closed = IF x = d THEN TRUE ELSE eng.inst[x].closed
         /\ r.inst[x].reg = eng.inst[x].reg
  <2>1. \A x \in Instances : r.inst[x] = IF x = d THEN one ELSE eng.inst[x]
    BY <1>2, <1>4
  <2> DEFINE i == eng.inst[d]
  <2>2. i = [mode |-> i.mode, closed |-> i.closed, reg |-> i.reg]
    BY <1>3
  <2>3. one = [i EXCEPT !.closed = TRUE]
    OBVIOUS
  <2> HIDE DEF i, one
  <2>4. one = [mode |-> i.mode, closed |-> TRUE, reg |-> i.reg]
    BY <2>2, <2>3
  <2>5. r.inst[d] = one
    BY <2>1
  <2>6. \A x \in Instances : x # d => r.inst[x] = eng.inst[x]
    BY <2>1
  <2> HIDE DEF one
  <2> DEFINE s == r.inst[d]
  <2>7. s = [mode |-> s.mode, closed |-> s.closed, reg |-> s.reg] /\ s.closed = TRUE /\ s.reg = i.reg
    BY <2>4, <2>5
  <2> QED
    BY <1>3, <2>6, <2>7 DEF i
<1>6. r.inst = [x \in Instances |-> [mode |-> r.inst[x].mode, closed |-> r.inst[x].closed,
                                     reg |-> r.inst[x].reg]]
  <2>1. r.inst = [x \in Instances |-> r.inst[x]]
    BY <1>2, <1>4
  <2> QED
    BY <2>1, <1>5
<1>7. \A x \in Instances : eng.inst[x].closed \in BOOLEAN /\ IsReg(eng.inst[x].reg, p)
  BY DEF IsEngine
<1>8. IsEngine(r, p)
  BY <1>2, <1>5, <1>6, <1>7 DEF IsEngine
<1> QED
  BY <1>2, <1>5, <1>7, <1>8 DEF Shut, r

\* Collections are added and changed, those of the names in gone perhaps dropped; nothing is
\* closed and the lock is kept.
Kept(eng, r, gone, p) ==
    /\ IsEngine(r, p) /\ r.lock = eng.lock
    /\ \A x \in Instances :
          /\ r.inst[x].closed = eng.inst[x].closed
          /\ \A n \in Names \ gone : eng.inst[x].reg[n] # {} => r.inst[x].reg[n] # {}

\* The operation of the engine that a call comes down to.
EngineCall(eng, on, c, doc, filter) ==
    CASE c.op = "open" -> OpenWithIndex(eng, on.db, [c EXCEPT !.create = @ /\ ~c.read_only])
      [] c.op = "close" -> Close(eng, on.db, c)
      [] c.op = "flush" -> FlushDatabase(eng, on.db, c)
      [] c.op = "collection" -> GetOrCreateCollection(eng, on.db, c)
      [] c.op = "open_collection" -> OpenCollection(eng, on.db, c)
      [] c.op = "drop_collection" -> DropCollection(eng, on.db, c)
      [] c.op = "list_collections" -> ListCollections(eng, on.db)
      [] c.op = "compact" -> CompactDatabase(eng, on.db, c)
      [] c.op = "verify" -> VerifyDatabase(eng, on.db, c)
      [] c.op = "upsert" -> Upsert(eng, on, c, doc)
      [] c.op = "delete" -> Delete(eng, on, c)
      [] c.op = "contains" -> ContainsDocument(eng, on, c)
      [] c.op = "count" -> CountDocuments(eng, on)
      [] c.op = "stats" -> CountDocuments(eng, on)
      [] c.op = "flush_collection" -> FlushCollection(eng, on, c)
      [] c.op = "search" -> SearchCollection(eng, on, c, filter)

NativeOps == CallNames \ {"release"}

\* A call and the collection and document it is about, for an application of the plan p.
Fits(eng, on, c, doc, p) ==
    /\ c = CallRecord(c) /\ c.op \in NativeOps /\ c.name \in Names /\ c.id \in Ids
    /\ {c.dim, c.top_k} \subseteq Nat /\ c.arg \in {"ok", "unknown"} /\ c.ids = "str"
    /\ on.db \in Instances /\ on.name \in Names
    /\ c.op \in CollectionOps => eng.inst[on.db].reg[on.name] # {}

LEMMA EngineCallKeeps ==
    ASSUME NEW p, NEW eng, IsEngine(eng, p), NEW on, NEW c, NEW doc, NEW filter,
           Fits(eng, on, c, doc, p), c.op = "upsert" => IsDoc(doc, p), c.op \notin {"open", "close"}
    PROVE  LET out == EngineCall(eng, on, c, doc, filter)
           IN  /\ Refused(out, eng) \/ out.error = "none"
               /\ Kept(eng, out.e, IF c.op = "drop_collection" THEN {c.name} ELSE {}, p)
<1> DEFINE out == EngineCall(eng, on, c, doc, filter)
           gone == IF c.op = "drop_collection" THEN {c.name} ELSE {}
<1> HIDE DEF out
<1>1. Kept(eng, eng, gone, p)
  BY DEF Kept
<1>2. Refused(out, eng) => out.e = eng
  BY DEF Refused, Fail, Outcome
<1>3. out = Done(eng) => out.error = "none" /\ out.e = eng
  BY DEF Done, Outcome
<1>4. on.db \in Instances /\ on.name \in Names /\ c.name \in Names /\ c.id \in Ids
  BY DEF Fits
<1>5. CASE c.op = "flush"
  <2>1. out = FlushDatabase(eng, on.db, c)
    BY <1>5 DEF out, EngineCall
  <2> QED
    BY <1>1, <1>2, <1>3, <2>1, FlushIs DEF out
<1>6. CASE c.op = "collection"
  <2>1. out = GetOrCreateCollection(eng, on.db, c)
    BY <1>6 DEF out, EngineCall
  <2> DEFINE x == [shape |-> SpecOf(c), docs |-> [i \in Ids |-> {}]]
  <2>2. LET o == GetOrCreateCollection(eng, on.db, c)
        IN  \/ Refused(o, eng)
            \/ o = Done(eng)
            \/ c.dim # 0 /\ o = Done(PutCollection(eng, on.db, c.name, {x}))
    BY GetOrCreateIs, Zenon
  <2>3. c.dim # 0 => IsColl(x, p)
    BY DEF IsColl, SpecOf, Fits
  <2> HIDE DEF x
  <2>4. c.dim # 0 => Kept(eng, PutCollection(eng, on.db, c.name, {x}), gone, p)
    BY <1>4, <2>3, PutIs DEF Kept
  <2> QED
    BY <1>1, <1>2, <1>3, <2>1, <2>2, <2>4 DEF Done, Outcome, out
<1>7. CASE c.op = "open_collection"
  <2>1. out = OpenCollection(eng, on.db, c)
    BY <1>7 DEF out, EngineCall
  <2> QED
    BY <1>1, <1>2, <1>3, <2>1, OpenCollectionIs DEF out
<1>8. CASE c.op = "drop_collection"
  <2>1. out = DropCollection(eng, on.db, c)
    BY <1>8 DEF out, EngineCall
  <2>2. Refused(out, eng) \/ out = Done(PutCollection(eng, on.db, c.name, {}))
    BY <2>1, DropIs
  <2>3. Kept(eng, PutCollection(eng, on.db, c.name, {}), gone, p)
    BY <1>4, <1>8, PutIs DEF Kept
  <2> QED
    BY <1>1, <1>2, <2>2, <2>3 DEF Done, Outcome, out
<1>9. CASE c.op = "list_collections"
  <2>1. out = ListCollections(eng, on.db)
    BY <1>9 DEF out, EngineCall
  <2> QED
    BY <1>1, <1>2, <2>1, ListIs DEF out
<1>10. CASE c.op = "compact"
  <2>1. out = CompactDatabase(eng, on.db, c)
    BY <1>10 DEF out, EngineCall
  <2> QED
    BY <1>1, <1>2, <1>3, <2>1, CompactIs DEF out
<1>11. CASE c.op = "verify"
  <2>1. out = VerifyDatabase(eng, on.db, c)
    BY <1>11 DEF out, EngineCall
  <2> QED
    BY <1>1, <1>2, <1>3, <2>1, VerifyIs DEF out
<1>12. c.op \in CollectionOps => /\ Held(eng, on) \in eng.inst[on.db].reg[on.name]
                                 /\ IsColl(Held(eng, on), p)
  BY HeldIs DEF Fits
<1>13. \A D : c.op \in CollectionOps /\ (\A x \in D : IsDoc(x, p)) =>
          Kept(eng, Wrote(eng, on, c, D), gone, p)
  <2> SUFFICES ASSUME NEW D, c.op \in CollectionOps, \A x \in D : IsDoc(x, p)
               PROVE  Kept(eng, Wrote(eng, on, c, D), gone, p)
    OBVIOUS
  <2> DEFINE x == Held(eng, on)
             y == [x EXCEPT !.docs[c.id] = D]
  <2> HIDE DEF x
  <2>1. IsColl(x, p)
    BY <1>12 DEF x
  <2>2. y = [shape |-> x.shape, docs |-> [x.docs EXCEPT ![c.id] = D]]
    BY <2>1 DEF IsColl
  <2> HIDE DEF y
  <2>3. IsColl(y, p)
    BY <1>4, <2>1, <2>2 DEF IsColl
  <2>4. Kept(eng, PutCollection(eng, on.db, on.name, {y}), gone, p)
    BY <1>4, <2>3, PutIs DEF Kept
  <2> QED
    BY <2>4 DEF y, x, Wrote
<1>14. CASE c.op = "upsert"
  <2>1. out = Upsert(eng, on, c, doc)
    BY <1>14 DEF out, EngineCall
  <2>2. Kept(eng, Wrote(eng, on, c, {doc}), gone, p)
    BY <1>13, <1>14 DEF CollectionOps
  <2>3. Refused(out, eng) \/ (out.error = "none" /\ out.e = Wrote(eng, on, c, {doc}))
    BY <2>1, UpsertIs
  <2> QED
    BY <1>1, <1>2, <2>2, <2>3 DEF out
<1>15. CASE c.op = "delete"
  <2>1. out = Delete(eng, on, c)
    BY <1>15 DEF out, EngineCall
  <2>2. Kept(eng, Wrote(eng, on, c, {}), gone, p)
    BY <1>13, <1>15 DEF CollectionOps
  <2>3. Refused(out, eng) \/ (out.error = "none" /\ out.e = Wrote(eng, on, c, {}))
    BY <2>1, DeleteIs
  <2> QED
    BY <1>1, <1>2, <2>2, <2>3 DEF out
<1>16. CASE c.op = "contains"
  <2>1. out = ContainsDocument(eng, on, c)
    BY <1>16 DEF out, EngineCall
  <2> QED
    BY <1>1, <1>2, <2>1, ReadsAre DEF out
<1>17. CASE c.op \in {"count", "stats"}
  <2>1. out = CountDocuments(eng, on)
    BY <1>17 DEF out, EngineCall
  <2> QED
    BY <1>1, <1>2, <2>1, ReadsAre DEF out
<1>18. CASE c.op = "flush_collection"
  <2>1. out = FlushCollection(eng, on, c)
    BY <1>18 DEF out, EngineCall
  <2> QED
    BY <1>1, <1>2, <1>3, <2>1, ReadsAre DEF out
<1>19. CASE c.op = "search"
  <2>1. out = SearchCollection(eng, on, c, filter)
    BY <1>19 DEF out, EngineCall
  <2>2. Refused(out, eng) \/ out = Answer(eng, Selected(eng, on, filter))
    BY <2>1, SearchIs, Zenon
  <2>3. out = Answer(eng, Selected(eng, on, filter)) => out.error = "none" /\ out.e = eng
    BY DEF Answer, Outcome
  <2> QED
    BY <1>1, <1>2, <2>2, <2>3 DEF out
<1> QED
  BY <1>5, <1>6, <1>7, <1>8, <1>9, <1>10, <1>11, <1>14, <1>15, <1>16, <1>17, <1>18, <1>19
     DEF Fits, NativeOps, CallNames, CollectionOps

-------------------------------------------------------------------------------
(* What the functions of the surfaces do. *)

\* A function succeeds when the operation does and passes on what it answered.
From(r, out) ==
    /\ r.e = out.e
    /\ r.ok \in BOOLEAN /\ (r.ok <=> out.error = "none")
    /\ r.answer = IF out.error = "none" THEN out.answer ELSE {}

\* A C function leaves an error object exactly when its status is a code of the engine.
Coded(r) == r.error = (r.code > 0)

LEMMA GuardIs ==
    ASSUME NEW out, out.error \in Errors
    PROVE  From(Guard(out), out) /\ Coded(Guard(out))
<1>1. CASE out.error = "none"
  <2> DEFINE r == Guard(out)
  <2>1. r = Given(TRUE, 0, FALSE, out.e, out.answer)
    BY <1>1 DEF Guard, VDB_OK
  <2>2. r.ok = TRUE /\ r.e = out.e /\ r.answer = out.answer
    BY <2>1 DEF Given
  <2>3. r.code = 0 /\ r.error = FALSE
    BY <2>1 DEF Given
  <2>4. Coded(r)
    <3>1. (r.code > 0) = FALSE
      BY <2>3
    <3> QED
      BY <2>3, <3>1, Zenon DEF Coded
  <2> QED
    BY <1>1, <2>2, <2>4 DEF From
<1>2. CASE out.error # "none"
  <2>1. Code[out.error] \in Int /\ Code[out.error] > 0
    BY <1>2, CodeIs DEF Errors
  <2> QED
    BY <1>2, <2>1 DEF From, Coded, Guard, Given
<1> QED
  BY <1>1, <1>2

LEMMA ReturnedIs ==
    ASSUME NEW out
    PROVE  From(Returned(out), out)
  BY DEF From, Returned, Thrown, Given

\* A refusal before the engine is asked is as good as one by the engine.
LEMMA RefusalIs ==
    ASSUME NEW out, NEW eng, Refused(out, eng)
    PROVE  /\ From(Thrown(eng), out)
           /\ \A code \in {VDB_INVALID_ARGUMENT, 0} : From(Boundary(code, eng), out) /\ Coded(Boundary(code, eng))
<1>1. out.e = eng /\ out.error # "none"
  BY CodeIs DEF Refused, Fail, Outcome
<1> QED
  <2>1. From(Thrown(eng), out)
    BY <1>1 DEF From, Thrown, Given
  <2>2. ASSUME NEW code \in {VDB_INVALID_ARGUMENT, 0}
        PROVE  From(Boundary(code, eng), out) /\ Coded(Boundary(code, eng))
    <3>1. From(Boundary(code, eng), out)
      BY <1>1 DEF From, Boundary, Given
    <3>2. Boundary(code, eng).code = code /\ Boundary(code, eng).error = FALSE
      BY DEF Boundary, Given
    <3>3. ~ (code > 0)
      BY DEF VDB_INVALID_ARGUMENT
    <3>4. (Boundary(code, eng).code > 0) = FALSE
      BY <3>2, <3>3
    <3>5. Coded(Boundary(code, eng))
      BY <3>2, <3>4, Zenon DEF Coded
    <3> QED
      BY <3>1, <3>5
  <2> QED
    BY <2>1, <2>2

\* A value out of range is refused by every surface.
Unknown(c) == c.arg = "unknown" /\ c.op \in {"open", "collection", "compact", "verify"}

SurfaceCall(eng, on, c, doc, filter) ==
    IF Unknown(c) THEN Fail("InvalidField", eng) ELSE EngineCall(eng, on, c, doc, filter)

LEMMA ToSeqOfOne ==
    ASSUME NEW g
    PROVE  Len(SetToSeq({g})) = 1 /\ SetToSeq({g})[1] = g
<1>1. Cardinality({g}) = 1
  BY FS_Singleton
<1>2. <<g>> \in [1..1 -> {g}] /\ IsInjective(<<g>>)
  BY DEF IsInjective
<1>3. SetToSeq({g}) \in [1..1 -> {g}]
  BY <1>1, <1>2 DEF SetToSeq
<1> QED
  BY <1>3

\* The arguments of a wrapper's call are readable, and the collection it is about has
\* string ids.
LEMMA ArgumentsAre ==
    ASSUME NEW p, NEW eng, IsEngine(eng, p), NEW on, NEW c, NEW doc, Fits(eng, on, c, doc, p)
    PROVE  /\ BorrowPointer(c) = 0 /\ BorrowStr(c) = 0 /\ Readable(c)
           /\ Discriminant(c) = IF c.arg = "unknown" THEN VDB_INVALID_ARGUMENT ELSE 0
           /\ [c EXCEPT !.ids = "str"] = c
           /\ c.op \in CollectionOps => DecodeId(eng, on)
<1>1. /\ BorrowPointer(c) = 0 /\ BorrowStr(c) = 0 /\ Readable(c)
      /\ Discriminant(c) = IF c.arg = "unknown" THEN VDB_INVALID_ARGUMENT ELSE 0
  BY DEF Fits, BorrowPointer, BorrowStr, Readable, Discriminant
<1>2. [c EXCEPT !.ids = "str"] = c
  BY DEF Fits, CallRecord
<1>3. c.op \in CollectionOps => DecodeId(eng, on)
  BY HeldIs DEF Fits, DecodeId, IsColl
<1> QED
  BY <1>1, <1>2, <1>3

\* A C function given values in range is its operation under guard.
LEMMA CAbiIs ==
    ASSUME NEW p, NEW eng, IsEngine(eng, p), NEW on, NEW c, NEW doc, NEW filter,
           Fits(eng, on, c, doc, p), filter = {} \/ \E g \in filter : filter = {g},
           ~ Unknown(c), c.op # "list_collections"
    PROVE  CAbi(eng, on, c, doc, filter) = Guard(EngineCall(eng, on, c, doc, filter))
<1>1. CASE c.op = "open"
  BY <1>1, ArgumentsAre DEF CAbi, VdbOpen, EngineCall, CollectionOps, Unknown
<1>2. CASE c.op = "close"
  BY <1>2, ArgumentsAre DEF CAbi, VdbClose, EngineCall, CollectionOps, Unknown
<1>3. CASE c.op = "flush"
  BY <1>3, ArgumentsAre DEF CAbi, VdbFlush, EngineCall, CollectionOps, Unknown
<1>4. CASE c.op = "collection"
  BY <1>4, ArgumentsAre DEF CAbi, VdbCollectionCreate, EngineCall, CollectionOps, Unknown
<1>5. CASE c.op = "open_collection"
  BY <1>5, ArgumentsAre DEF CAbi, VdbCollectionOpen, EngineCall, CollectionOps, Unknown
<1>6. CASE c.op = "drop_collection"
  BY <1>6, ArgumentsAre DEF CAbi, VdbCollectionDrop, EngineCall, CollectionOps, Unknown
<1>7. CASE c.op = "compact"
  BY <1>7, ArgumentsAre DEF CAbi, VdbCompact, EngineCall, CollectionOps, Unknown
<1>8. CASE c.op = "verify"
  BY <1>8, ArgumentsAre DEF CAbi, VdbVerify, EngineCall, CollectionOps, Unknown
<1>9. CASE c.op = "upsert"
  BY <1>9, ArgumentsAre DEF CAbi, VdbUpsert, EngineCall, CollectionOps, Unknown
<1>10. CASE c.op = "delete"
  BY <1>10, ArgumentsAre DEF CAbi, VdbDelete, EngineCall, CollectionOps, Unknown
<1>11. CASE c.op = "contains"
  BY <1>11, ArgumentsAre DEF CAbi, VdbContains, EngineCall, CollectionOps, Unknown
<1>12. CASE c.op = "count"
  BY <1>12, ArgumentsAre DEF CAbi, VdbCollectionCount, EngineCall, CollectionOps, Unknown
<1>13. CASE c.op = "stats"
  BY <1>13, ArgumentsAre DEF CAbi, VdbCollectionStats, EngineCall, CollectionOps, Unknown
<1>14. CASE c.op = "flush_collection"
  BY <1>14, ArgumentsAre DEF CAbi, VdbCollectionFlush, EngineCall, CollectionOps, Unknown
<1>15. CASE c.op = "search"
  <2>1. CASE filter = {}
    BY <1>15, <2>1, ArgumentsAre DEF CAbi, VdbSearch, VdbSearchFiltered, EngineCall
  <2>2. ASSUME NEW g \in filter, filter = {g}
        PROVE  CAbi(eng, on, c, doc, filter) = Guard(EngineCall(eng, on, c, doc, filter))
    <3>1. Len(SetToSeq(filter)) = 1 /\ SetToSeq(filter)[1] = g
      BY <2>2, ToSeqOfOne
    <3> QED
      BY <1>15, <2>2, <3>1, ArgumentsAre DEF CAbi, VdbSearch, VdbSearchFiltered, EngineCall
  <2> QED
    BY <2>1, <2>2
<1> QED
  BY <1>1, <1>2, <1>3, <1>4, <1>5, <1>6, <1>7, <1>8,
     <1>9, <1>10, <1>11, <1>12, <1>13, <1>14, <1>15 DEF Fits, NativeOps, CallNames, CollectionOps

\* So is a function of the Node addon.
LEMMA NodeIs ==
    ASSUME NEW p, NEW eng, IsEngine(eng, p), NEW on, NEW c, NEW doc, NEW filter,
           Fits(eng, on, c, doc, p), filter = {} \/ \E g \in filter : filter = {g},
           ~ Unknown(c)
    PROVE  Node(eng, on, c, doc, filter) = Returned(EngineCall(eng, on, c, doc, filter))
<1>1. CASE c.op = "open"
  BY <1>1, ArgumentsAre DEF Node, NodeOpen, EngineCall, CollectionOps, Unknown
<1>2. CASE c.op = "close"
  BY <1>2, ArgumentsAre DEF Node, NodeClose, EngineCall, CollectionOps, Unknown
<1>3. CASE c.op = "flush"
  BY <1>3, ArgumentsAre DEF Node, NodeFlush, EngineCall, CollectionOps, Unknown
<1>4. CASE c.op = "collection"
  BY <1>4, ArgumentsAre DEF Node, NodeCollection, EngineCall, CollectionOps, Unknown
<1>5. CASE c.op = "open_collection"
  BY <1>5, ArgumentsAre DEF Node, NodeOpenCollection, EngineCall, CollectionOps, Unknown
<1>6. CASE c.op = "drop_collection"
  BY <1>6, ArgumentsAre DEF Node, NodeDropCollection, EngineCall, CollectionOps, Unknown
<1>7. CASE c.op = "list_collections"
  BY <1>7, ArgumentsAre DEF Node, NodeListCollections, EngineCall, CollectionOps, Unknown
<1>8. CASE c.op = "compact"
  BY <1>8, ArgumentsAre DEF Node, NodeCompact, EngineCall, CollectionOps, Unknown
<1>9. CASE c.op = "verify"
  BY <1>9, ArgumentsAre DEF Node, NodeVerify, EngineCall, CollectionOps, Unknown
<1>10. CASE c.op = "upsert"
  BY <1>10, ArgumentsAre DEF Node, NodeUpsert, EngineCall, CollectionOps, Unknown
<1>11. CASE c.op = "delete"
  BY <1>11, ArgumentsAre DEF Node, NodeDelete, EngineCall, CollectionOps, Unknown
<1>12. CASE c.op = "contains"
  BY <1>12, ArgumentsAre DEF Node, NodeContains, EngineCall, CollectionOps, Unknown
<1>13. CASE c.op = "count"
  BY <1>13, ArgumentsAre DEF Node, NodeCountDocuments, EngineCall, CollectionOps, Unknown
<1>14. CASE c.op = "stats"
  BY <1>14, ArgumentsAre DEF Node, NodeStats, EngineCall, CollectionOps, Unknown
<1>15. CASE c.op = "flush_collection"
  BY <1>15, ArgumentsAre DEF Node, NodeFlushCollection, EngineCall, CollectionOps, Unknown
<1>16. CASE c.op = "search"
  BY <1>16, ArgumentsAre DEF Node, NodeSearch, EngineCall, CollectionOps, Unknown
<1> QED
  BY <1>1, <1>2, <1>3, <1>4, <1>5, <1>6, <1>7, <1>8,
     <1>9, <1>10, <1>11, <1>12, <1>13, <1>14, <1>15, <1>16 DEF Fits, NativeOps, CallNames, CollectionOps

\* A function of the JNI library may refuse what the engine would have refused.
LEMMA JniIs ==
    ASSUME NEW p, NEW eng, IsEngine(eng, p), NEW on, NEW c, NEW doc, NEW filter,
           Fits(eng, on, c, doc, p), filter = {} \/ \E g \in filter : filter = {g},
           ~ Unknown(c)
    PROVE  \/ Jni(eng, on, c, doc, filter) = Returned(EngineCall(eng, on, c, doc, filter))
           \/ Jni(eng, on, c, doc, filter) = Thrown(eng) /\ Refused(EngineCall(eng, on, c, doc, filter), eng)
<1>1. CASE c.op = "open"
  BY <1>1, ArgumentsAre DEF Jni, OpenDatabase, EngineCall, CollectionOps, Unknown
<1>2. CASE c.op = "close"
  BY <1>2, ArgumentsAre DEF Jni, CloseDatabase, EngineCall, CollectionOps, Unknown
<1>3. CASE c.op = "flush"
  BY <1>3, ArgumentsAre DEF Jni, JniFlushDatabase, EngineCall, CollectionOps, Unknown
<1>4. CASE c.op = "collection"
  <2>1. EngineCall(eng, on, c, doc, filter) = GetOrCreateCollection(eng, on.db, c)
    BY <1>4 DEF EngineCall
  <2>2. CASE c.dim # 0
    BY <1>4, <2>2, ArgumentsAre DEF Jni, JniOpenCollection, EngineCall, Unknown, Fits
  <2>3. CASE c.dim = 0
    <3>1. Jni(eng, on, c, doc, filter) = Thrown(eng)
      BY <1>4, <2>3, ArgumentsAre DEF Jni, JniOpenCollection
    <3>2. \A x \in eng.inst[on.db].reg[c.name] : x.shape.dim # 0
      BY DEF Fits, IsEngine, IsReg, IsColl
    <3>3. SpecOf(c).dim = 0
      BY <2>3 DEF SpecOf
    <3>4. Refused(EngineCall(eng, on, c, doc, filter), eng)
      <4> DEFINE o == GetOrCreateCollection(eng, on.db, c)
      <4>1. ~ CollectionExists(eng, on.db, c.name) \/ ~ \A x \in eng.inst[on.db].reg[c.name] : x.shape = SpecOf(c)
        BY <3>2, <3>3 DEF CollectionExists
      <4>2. Refused(o, eng)
        BY <2>3, <4>1, GetOrCreateIs, Zenon
      <4> QED
        BY <2>1, <4>2
    <3> QED
      BY <3>1, <3>4
  <2> QED
    BY <2>2, <2>3
<1>5. CASE c.op = "open_collection"
  BY <1>5, ArgumentsAre DEF Jni, JniOpenCollection, EngineCall, CollectionOps, Unknown
<1>6. CASE c.op = "drop_collection"
  BY <1>6, ArgumentsAre DEF Jni, JniDropCollection, EngineCall, CollectionOps, Unknown
<1>7. CASE c.op = "list_collections"
  BY <1>7, ArgumentsAre DEF Jni, JniListCollections, EngineCall, CollectionOps, Unknown
<1>8. CASE c.op = "compact"
  BY <1>8, ArgumentsAre DEF Jni, JniCompact, EngineCall, CollectionOps, Unknown
<1>9. CASE c.op = "verify"
  BY <1>9, ArgumentsAre DEF Jni, JniVerify, EngineCall, CollectionOps, Unknown
<1>10. CASE c.op = "upsert"
  BY <1>10, ArgumentsAre DEF Jni, JniUpsert, JniUpsertWithMetadata, EngineCall, CollectionOps, Unknown
<1>11. CASE c.op = "delete"
  BY <1>11, ArgumentsAre DEF Jni, JniDelete, EngineCall, CollectionOps, Unknown
<1>12. CASE c.op = "contains"
  BY <1>12, ArgumentsAre DEF Jni, JniContains, EngineCall, CollectionOps, Unknown
<1>13. CASE c.op = "count"
  BY <1>13, ArgumentsAre DEF Jni, JniCount, EngineCall, CollectionOps, Unknown
<1>14. CASE c.op = "stats"
  BY <1>14, ArgumentsAre DEF Jni, JniCollectionStats, EngineCall, CollectionOps, Unknown
<1>15. CASE c.op = "flush_collection"
  BY <1>15, ArgumentsAre DEF Jni, JniFlushCollection, EngineCall, CollectionOps, Unknown
<1>16. CASE c.op = "search"
  <2>1. EngineCall(eng, on, c, doc, filter) = SearchCollection(eng, on, c, filter)
    BY <1>16 DEF EngineCall
  <2>2. CASE c.top_k = 0
    <3>1. Jni(eng, on, c, doc, filter) = Thrown(eng)
      BY <1>16, <2>2, ArgumentsAre DEF Jni, JniSearch, JniSearchFiltered
    <3>2. Refused(EngineCall(eng, on, c, doc, filter), eng)
      BY <2>1, <2>2, SearchIs
    <3> QED
      BY <3>1, <3>2
  <2>3. CASE c.top_k # 0 /\ filter = {}
    BY <1>16, <2>1, <2>3, ArgumentsAre DEF Jni, JniSearch, Fits
  <2>4. ASSUME NEW g \in filter, filter = {g}, c.top_k # 0
        PROVE  Jni(eng, on, c, doc, filter) = Returned(EngineCall(eng, on, c, doc, filter))
    <3>1. Len(SetToSeq(filter)) = 1 /\ SetToSeq(filter)[1] = g
      BY <2>4, ToSeqOfOne
    <3>2. ~ (c.top_k <= 0) /\ filter # {}
      BY <2>4 DEF Fits
    <3>3. Jni(eng, on, c, doc, filter) = JniSearchFiltered(eng, on, c, SetToSeq(filter))
      BY <1>16, <3>2 DEF Jni
    <3> QED
      BY <2>1, <2>4, <3>1, <3>2, <3>3, ArgumentsAre DEF JniSearchFiltered
  <2> QED
    BY <2>2, <2>3, <2>4
<1> QED
  BY <1>1, <1>2, <1>3, <1>4, <1>5, <1>6, <1>7, <1>8,
     <1>9, <1>10, <1>11, <1>12, <1>13, <1>14, <1>15, <1>16 DEF Fits, NativeOps, CallNames, CollectionOps

\* They report an error and change nothing, or report none.
LEMMA UpsertReports ==
    ASSUME NEW eng, NEW h, NEW c, NEW doc
    PROVE  LET out == Upsert(eng, h, c, doc) IN Refused(out, eng) \/ out.error = "none"
<1> DEFINE out == Upsert(eng, h, c, doc)
<1>1. Refused(out, eng) \/ (out.error = "none" /\ out.e = Wrote(eng, h, c, {doc}))
  BY UpsertIs
<1> HIDE DEF out
<1>2. Refused(out, eng) \/ out.error = "none"
  BY <1>1
<1> QED
  BY <1>2 DEF out

LEMMA GetOrCreateReports ==
    ASSUME NEW eng, NEW d, NEW c
    PROVE  LET out == GetOrCreateCollection(eng, d, c) IN Refused(out, eng) \/ out.error = "none"
<1> DEFINE out == GetOrCreateCollection(eng, d, c)
<1>1. Refused(out, eng) \/ \E x : out = Done(x)
  BY GetOrCreateIs, Zenon
<1> HIDE DEF out
<1>2. Refused(out, eng) \/ out.error = "none"
  BY <1>1 DEF Done, Outcome
<1> QED
  BY <1>2 DEF out

LEMMA OpenReports ==
    ASSUME NEW eng, NEW d, NEW c
    PROVE  LET out == OpenWithIndex(eng, d, c) IN Refused(out, eng) \/ out.error = "none"
<1> DEFINE out == OpenWithIndex(eng, d, c)
           mode == IF c.read_only THEN "ro" ELSE "rw"
           opened == [eng EXCEPT !.made = TRUE, !.lock = IF c.read_only THEN @ ELSE {d},
                                 !.inst[d] = [mode |-> mode, closed |-> FALSE, reg |-> eng.coll]]
<1>1. Refused(out, eng) \/ out = Done(opened)
  BY OpenIs, Zenon
<1> HIDE DEF out, opened
<1>2. Refused(out, eng) \/ out.error = "none"
  BY <1>1 DEF Done, Outcome
<1> QED
  BY <1>2 DEF out

LEMMA EngineCallErrors ==
    ASSUME NEW eng, NEW on, NEW c, NEW doc, NEW filter, c.op \in NativeOps
    PROVE  EngineCall(eng, on, c, doc, filter).error \in Errors
<1> DEFINE out == EngineCall(eng, on, c, doc, filter)
<1> HIDE DEF out
<1>1. CASE c.op = "open"
  <2>1. out = OpenWithIndex(eng, on.db, [c EXCEPT !.create = @ /\ ~c.read_only])
    BY <1>1 DEF out, EngineCall
  <2>2. LET o == OpenWithIndex(eng, on.db, [c EXCEPT !.create = @ /\ ~c.read_only]) IN Refused(o, eng) \/ o.error = "none"
    BY OpenReports
  <2> QED
    BY <2>1, <2>2 DEF out, Refused, Errors
<1>2. CASE c.op = "close"
  <2>1. out = Close(eng, on.db, c)
    BY <1>2 DEF out, EngineCall
  <2>2. Close(eng, on.db, c).error \in Errors
    BY CloseIs, Zenon
  <2> QED
    BY <2>1, <2>2 DEF out
<1>3. CASE c.op = "flush"
  <2>1. out = FlushDatabase(eng, on.db, c)
    BY <1>3 DEF out, EngineCall
  <2>2. LET o == FlushDatabase(eng, on.db, c) IN Refused(o, eng) \/ o.error = "none"
    BY FlushIs DEF Done, Answer, Outcome
  <2> QED
    BY <2>1, <2>2 DEF out, Refused, Errors
<1>4. CASE c.op = "collection"
  <2>1. out = GetOrCreateCollection(eng, on.db, c)
    BY <1>4 DEF out, EngineCall
  <2>2. LET o == GetOrCreateCollection(eng, on.db, c) IN Refused(o, eng) \/ o.error = "none"
    BY GetOrCreateReports
  <2> QED
    BY <2>1, <2>2 DEF out, Refused, Errors
<1>5. CASE c.op = "open_collection"
  <2>1. out = OpenCollection(eng, on.db, c)
    BY <1>5 DEF out, EngineCall
  <2>2. LET o == OpenCollection(eng, on.db, c) IN Refused(o, eng) \/ o.error = "none"
    BY OpenCollectionIs DEF Done, Answer, Outcome
  <2> QED
    BY <2>1, <2>2 DEF out, Refused, Errors
<1>6. CASE c.op = "drop_collection"
  <2>1. out = DropCollection(eng, on.db, c)
    BY <1>6 DEF out, EngineCall
  <2>2. LET o == DropCollection(eng, on.db, c) IN Refused(o, eng) \/ o.error = "none"
    BY DropIs DEF Done, Answer, Outcome
  <2> QED
    BY <2>1, <2>2 DEF out, Refused, Errors
<1>7. CASE c.op = "list_collections"
  <2>1. out = ListCollections(eng, on.db)
    BY <1>7 DEF out, EngineCall
  <2>2. LET o == ListCollections(eng, on.db) IN Refused(o, eng) \/ o.error = "none"
    BY ListIs DEF Done, Answer, Outcome
  <2> QED
    BY <2>1, <2>2 DEF out, Refused, Errors
<1>8. CASE c.op = "compact"
  <2>1. out = CompactDatabase(eng, on.db, c)
    BY <1>8 DEF out, EngineCall
  <2>2. LET o == CompactDatabase(eng, on.db, c) IN Refused(o, eng) \/ o.error = "none"
    BY CompactIs DEF Done, Answer, Outcome
  <2> QED
    BY <2>1, <2>2 DEF out, Refused, Errors
<1>9. CASE c.op = "verify"
  <2>1. out = VerifyDatabase(eng, on.db, c)
    BY <1>9 DEF out, EngineCall
  <2>2. LET o == VerifyDatabase(eng, on.db, c) IN Refused(o, eng) \/ o.error = "none"
    BY VerifyIs DEF Done, Answer, Outcome
  <2> QED
    BY <2>1, <2>2 DEF out, Refused, Errors
<1>10. CASE c.op = "upsert"
  <2>1. out = Upsert(eng, on, c, doc)
    BY <1>10 DEF out, EngineCall
  <2>2. LET o == Upsert(eng, on, c, doc) IN Refused(o, eng) \/ o.error = "none"
    BY UpsertReports
  <2> QED
    BY <2>1, <2>2 DEF out, Refused, Errors
<1>11. CASE c.op = "delete"
  <2>1. out = Delete(eng, on, c)
    BY <1>11 DEF out, EngineCall
  <2>2. LET o == Delete(eng, on, c) IN Refused(o, eng) \/ o.error = "none"
    BY DeleteIs DEF Done, Answer, Outcome
  <2> QED
    BY <2>1, <2>2 DEF out, Refused, Errors
<1>12. CASE c.op = "contains"
  <2>1. out = ContainsDocument(eng, on, c)
    BY <1>12 DEF out, EngineCall
  <2>2. LET o == ContainsDocument(eng, on, c) IN Refused(o, eng) \/ o.error = "none"
    BY ReadsAre DEF Done, Answer, Outcome
  <2> QED
    BY <2>1, <2>2 DEF out, Refused, Errors
<1>13. CASE c.op = "count"
  <2>1. out = CountDocuments(eng, on)
    BY <1>13 DEF out, EngineCall
  <2>2. LET o == CountDocuments(eng, on) IN Refused(o, eng) \/ o.error = "none"
    BY ReadsAre DEF Done, Answer, Outcome
  <2> QED
    BY <2>1, <2>2 DEF out, Refused, Errors
<1>14. CASE c.op = "stats"
  <2>1. out = CountDocuments(eng, on)
    BY <1>14 DEF out, EngineCall
  <2>2. LET o == CountDocuments(eng, on) IN Refused(o, eng) \/ o.error = "none"
    BY ReadsAre DEF Done, Answer, Outcome
  <2> QED
    BY <2>1, <2>2 DEF out, Refused, Errors
<1>15. CASE c.op = "flush_collection"
  <2>1. out = FlushCollection(eng, on, c)
    BY <1>15 DEF out, EngineCall
  <2>2. LET o == FlushCollection(eng, on, c) IN Refused(o, eng) \/ o.error = "none"
    BY ReadsAre DEF Done, Answer, Outcome
  <2> QED
    BY <2>1, <2>2 DEF out, Refused, Errors
<1>16. CASE c.op = "search"
  <2>1. out = SearchCollection(eng, on, c, filter)
    BY <1>16 DEF out, EngineCall
  <2>2. LET o == SearchCollection(eng, on, c, filter) IN Refused(o, eng) \/ o.error = "none"
    BY SearchIs DEF Done, Answer, Outcome
  <2> QED
    BY <2>1, <2>2 DEF out, Refused, Errors
<1> QED
  BY <1>1, <1>2, <1>3, <1>4, <1>5, <1>6, <1>7, <1>8,
     <1>9, <1>10, <1>11, <1>12, <1>13, <1>14, <1>15, <1>16 DEF NativeOps, CallNames, CollectionOps, out

\* The three surfaces are one interface over the operations of the engine.
LEMMA SurfacesAre ==
    ASSUME NEW p, NEW eng, IsEngine(eng, p), NEW on, NEW c, NEW doc, NEW filter,
           Fits(eng, on, c, doc, p), filter = {} \/ \E g \in filter : filter = {g}
    PROVE  LET want == SurfaceCall(eng, on, c, doc, filter)
           IN  /\ From(Jni(eng, on, c, doc, filter), want)
               /\ From(Node(eng, on, c, doc, filter), want)
               /\ c.op # "list_collections" => /\ From(CAbi(eng, on, c, doc, filter), want)
                                               /\ Coded(CAbi(eng, on, c, doc, filter))
<1> DEFINE want == SurfaceCall(eng, on, c, doc, filter)
           call == EngineCall(eng, on, c, doc, filter)
           byC == CAbi(eng, on, c, doc, filter)
           byJni == Jni(eng, on, c, doc, filter)
           byNode == Node(eng, on, c, doc, filter)
<1>1. CASE Unknown(c)
  <2>1. /\ c.op = "open" => byC = VdbOpen(eng, on.db, c)
        /\ c.op = "collection" => byC = VdbCollectionCreate(eng, on.db, c)
        /\ c.op = "compact" => byC = VdbCompact(eng, on.db, c)
        /\ c.op = "verify" => byC = VdbVerify(eng, on.db, c)
    BY DEF CAbi
  <2>2. byC = Boundary(VDB_INVALID_ARGUMENT, eng)
    BY <1>1, <2>1, ArgumentsAre DEF Unknown, VdbOpen, VdbCollectionCreate, VdbCompact,
       VdbVerify, VDB_INVALID_ARGUMENT
  <2>3. /\ c.op = "open" => byJni = OpenDatabase(eng, on.db, c)
        /\ c.op = "collection" => byJni = JniOpenCollection(eng, on.db, c, TRUE)
        /\ c.op = "compact" => byJni = JniCompact(eng, on.db, c)
        /\ c.op = "verify" => byJni = JniVerify(eng, on.db, c)
    BY DEF Jni
  <2>4. byJni = Thrown(eng)
    BY <1>1, <2>3, ArgumentsAre DEF Unknown, OpenDatabase, JniOpenCollection, JniCompact, JniVerify
  <2>5. byNode = Thrown(eng)
    BY <1>1 DEF Unknown, Node, NodeOpen, NodeCollection, NodeCompact, NodeVerify
  <2>6. Refused(want, eng)
    BY <1>1, CodeIs DEF SurfaceCall, Refused, Fail, Outcome
  <2> HIDE DEF want, byC, byJni, byNode
  <2>7. From(byC, want) /\ Coded(byC) /\ From(byJni, want) /\ From(byNode, want)
    BY <2>2, <2>4, <2>5, <2>6, RefusalIs
  <2> QED
    BY <2>7 DEF want, byC, byJni, byNode
<1>2. CASE ~ Unknown(c)
  <2>1. want = call
    BY <1>2 DEF SurfaceCall
  <2>2. call.error \in Errors
    BY EngineCallErrors DEF Fits
  <2>3. c.op # "list_collections" => byC = Guard(call)
    BY <1>2, CAbiIs
  <2>4. byNode = Returned(call)
    BY <1>2, NodeIs
  <2>5. byJni = Returned(call) \/ (byJni = Thrown(eng) /\ Refused(call, eng))
    BY <1>2, JniIs
  <2> HIDE DEF want, byC, byJni, byNode, call
  <2>6. c.op # "list_collections" => From(byC, want) /\ Coded(byC)
    BY <2>1, <2>2, <2>3, GuardIs
  <2>7. From(byNode, want)
    BY <2>1, <2>4, ReturnedIs
  <2>8. From(byJni, want)
    BY <2>1, <2>5, ReturnedIs, RefusalIs
  <2> QED
    BY <2>6, <2>7, <2>8 DEF want, byC, byJni, byNode
<1> QED
  BY <1>1, <1>2

\* What an application of any SDK gets from its surface.
LEMMA NativeIs ==
    ASSUME NEW p, NEW eng, IsEngine(eng, p), NEW on, NEW c, NEW doc, NEW filter, NEW sdk,
           Fits(eng, on, c, doc, p), filter = {} \/ \E g \in filter : filter = {g},
           c.op \in DatabaseOps(sdk) \cup WrapperOps(sdk) \cup {"open", "open_collection"}
    PROVE  From(Native(sdk, eng, on, c, doc, filter), SurfaceCall(eng, on, c, doc, filter))
<1>1. CASE sdk = "android"
  BY <1>1, SurfacesAre DEF Native
<1>2. CASE sdk = "node"
  BY <1>2, SurfacesAre DEF Native
<1>3. CASE sdk \notin {"android", "node"}
  <2>1. c.op # "list_collections"
    BY <1>3 DEF DatabaseOps, WrapperOps
  <2> QED
    BY <1>3, <2>1, SurfacesAre DEF Native
<1> QED
  BY <1>1, <1>2, <1>3

\* The call of a method adds and changes collections, may drop the one it names, and closes
\* nothing; the collection of a wrapper is there once it is made, and a search answers what
\* its filter selects.
LEMMA NativeKeeps ==
    ASSUME NEW p, NEW eng, IsEngine(eng, p), NEW on, NEW c, NEW doc, NEW filter, NEW sdk,
           Fits(eng, on, c, doc, p), filter = {} \/ \E g \in filter : filter = {g},
           c.op \in DatabaseOps(sdk) \cup WrapperOps(sdk) \cup {"open_collection"},
           c.op # "close", c.op = "upsert" => IsDoc(doc, p)
    PROVE  LET r == Native(sdk, eng, on, c, doc, filter)
           IN  /\ Kept(eng, r.e, IF c.op = "drop_collection" THEN {c.name} ELSE {}, p)
               /\ Makes(c) /\ r.ok => r.e.inst[on.db].reg[c.name] # {}
               /\ c.op = "search" /\ r.ok => r.answer = Selected(eng, on, filter) /\ r.e = eng
<1> DEFINE r == Native(sdk, eng, on, c, doc, filter)
           want == SurfaceCall(eng, on, c, doc, filter)
           call == EngineCall(eng, on, c, doc, filter)
           gone == IF c.op = "drop_collection" THEN {c.name} ELSE {}
<1>1. From(r, want)
  BY NativeIs
<1>2. c.op # "open"
  BY DEF DatabaseOps, WrapperOps
<1>3. Kept(eng, call.e, gone, p)
  BY <1>2, EngineCallKeeps
<1>4. Kept(eng, eng, gone, p)
  BY DEF Kept
<1>5. CASE Unknown(c)
  <2>1. want = Fail("InvalidField", eng)
    BY <1>5 DEF SurfaceCall
  <2> HIDE DEF r, want
  <2>2. r.e = eng /\ ~ r.ok
    BY <1>1, <2>1 DEF From, Fail, Outcome
  <2> QED
    BY <1>4, <2>2 DEF r
<1>6. CASE ~ Unknown(c)
  <2>1. want = call
    BY <1>6 DEF SurfaceCall
  <2> HIDE DEF r, want
  <2>2. r.e = call.e /\ (r.ok <=> call.error = "none") /\ (r.ok => r.answer = call.answer)
    BY <1>1, <2>1 DEF From
  <2>3. ASSUME c.op = "search", r.ok
        PROVE  r.answer = Selected(eng, on, filter) /\ r.e = eng
    <3>1. call = SearchCollection(eng, on, c, filter)
      BY <2>3 DEF EngineCall
    <3> HIDE DEF call
    <3>2. call = Answer(eng, Selected(eng, on, filter))
      <4>1. LET o == SearchCollection(eng, on, c, filter)
            IN  Refused(o, eng) \/ (o = Answer(eng, Selected(eng, on, filter)) /\ c.top_k # 0)
        BY SearchIs
      <4>2. ~ Refused(call, eng)
        BY <2>2, <2>3, CodeIs DEF Refused
      <4> QED
        BY <3>1, <4>1, <4>2
    <3> QED
      BY <2>2, <2>3, <3>2 DEF Answer, Outcome
  <2>4. ASSUME c.op = "open_collection", r.ok
        PROVE  r.e.inst[on.db].reg[c.name] # {}
    <3>1. call = OpenCollection(eng, on.db, c)
      BY <2>4 DEF EngineCall
    <3> HIDE DEF call
    <3>2. ~ Refused(call, eng)
      BY <2>2, <2>4, CodeIs DEF Refused
    <3>3. CollectionExists(eng, on.db, c.name) /\ call = Done(eng)
      BY <3>1, <3>2, OpenCollectionIs
    <3> QED
      BY <2>2, <3>3 DEF CollectionExists, Done, Outcome
  <2>5. ASSUME c.op = "collection", r.ok
        PROVE  r.e.inst[on.db].reg[c.name] # {}
    <3>1. call = GetOrCreateCollection(eng, on.db, c)
      BY <2>5 DEF EngineCall
    <3> HIDE DEF call
    <3>2. ~ Refused(call, eng)
      BY <2>2, <2>5, CodeIs DEF Refused
    <3> DEFINE x == [shape |-> SpecOf(c), docs |-> [i \in Ids |-> {}]]
    <3>3. \/ CollectionExists(eng, on.db, c.name) /\ call = Done(eng)
          \/ c.dim # 0 /\ call = Done(PutCollection(eng, on.db, c.name, {x}))
      <4>1. LET o == GetOrCreateCollection(eng, on.db, c)
            IN  \/ Refused(o, eng)
                \/ CollectionExists(eng, on.db, c.name) /\ o = Done(eng)
                \/ c.dim # 0 /\ o = Done(PutCollection(eng, on.db, c.name, {x}))
        BY GetOrCreateIs, Zenon
      <4> HIDE DEF x
      <4> QED
        BY <3>1, <3>2, <4>1
    <3>4. CASE CollectionExists(eng, on.db, c.name) /\ call = Done(eng)
      BY <2>2, <3>4 DEF CollectionExists, Done, Outcome
    <3>5. CASE c.dim # 0 /\ call = Done(PutCollection(eng, on.db, c.name, {x}))
      <4>1. IsColl(x, p)
        BY <3>5 DEF IsColl, SpecOf, Fits
      <4> HIDE DEF x
      <4>2. PutCollection(eng, on.db, c.name, {x}).inst[on.db].reg[c.name] = {x}
        BY <4>1, PutIs DEF Fits
      <4> QED
        BY <2>2, <3>5, <4>2 DEF Done, Outcome
    <3> QED
      BY <3>3, <3>4, <3>5
  <2> HIDE DEF call
  <2>6. Kept(eng, r.e, gone, p)
    BY <1>3, <2>2
  <2> QED
    BY <2>3, <2>4, <2>5, <2>6 DEF r, Makes
<1> QED
  BY <1>5, <1>6

LEMMA NativeCloses ==
    ASSUME NEW p, NEW eng, IsEngine(eng, p), NEW on, NEW c, NEW doc, NEW filter, NEW sdk,
           Fits(eng, on, c, doc, p), filter = {} \/ \E g \in filter : filter = {g}, c.op = "close"
    PROVE  LET r == Native(sdk, eng, on, c, doc, filter)
           IN  Shut(eng, r.e, {on.db}, p)
<1> DEFINE r == Native(sdk, eng, on, c, doc, filter)
<1>1. SurfaceCall(eng, on, c, doc, filter) = Close(eng, on.db, c)
  BY DEF SurfaceCall, Unknown, EngineCall
<1>2. c.op \in DatabaseOps(sdk)
  BY DEF DatabaseOps
<1>3. From(r, SurfaceCall(eng, on, c, doc, filter))
  BY <1>2, NativeIs
<1> HIDE DEF r
<1>4. r.e = Close(eng, on.db, c).e
  BY <1>1, <1>3 DEF From
<1>5. Shut(eng, Close(eng, on.db, c).e, {on.db}, p)
  BY CloseShuts DEF Fits
<1> QED
  BY <1>4, <1>5 DEF r

\* Opening an instance opens it and nothing else, and only it holds the lock then.
Opened(eng, r, d, p) ==
    /\ IsEngine(r, p) /\ r.lock \subseteq eng.lock \cup {d}
    /\ ~ r.inst[d].closed
    /\ \A x \in Instances \ {d} : r.inst[x] = eng.inst[x]

LEMMA NativeOpens ==
    ASSUME NEW p, NEW eng, IsEngine(eng, p), NEW d \in Instances, NEW c, NEW sdk,
           c = CallRecord(c), c.op = "open", c.name \in Names, c.id \in Ids, c.ids = "str",
           {c.dim, c.top_k} \subseteq Nat, c.arg \in {"ok", "unknown"}
    PROVE  LET r == NativeOpen(sdk, eng, d, c)
           IN  \/ ~ r.ok /\ r.e = eng
               \/ r.ok /\ Opened(eng, r.e, d, p)
<1> DEFINE r == NativeOpen(sdk, eng, d, c)
           on == [db |-> d, name |-> c.name]
           want == SurfaceCall(eng, on, c, c, {})
<1>1. Fits(eng, on, c, c, p)
  BY DEF Fits, NativeOps, CallNames, CollectionOps
<1>2. From(Native(sdk, eng, on, c, c, {}), want)
  <2>1. c.op \in {"open", "open_collection"}
    OBVIOUS
  <2> HIDE DEF on, want
  <2> QED
    BY <1>1, <2>1, NativeIs DEF want
<1>3. Native(sdk, eng, on, c, c, {}) = r
  BY DEF Native, NativeOpen, CAbi, Jni, Node

<1> HIDE DEF r
<1>4. From(r, want)
  BY <1>2, <1>3
<1>5. CASE Unknown(c)
  <2>1. want = Fail("InvalidField", eng)
    BY <1>5 DEF SurfaceCall
  <2> HIDE DEF want
  <2> QED
    BY <1>4, <2>1 DEF From, Fail, Outcome, r
<1>6. CASE ~ Unknown(c)
  <2> DEFINE given == [c EXCEPT !.create = @ /\ ~c.read_only]
             mode == IF c.read_only THEN "ro" ELSE "rw"
             lock == IF c.read_only THEN eng.lock ELSE {d}
             one == [mode |-> mode, closed |-> FALSE, reg |-> eng.coll]
             inst == [eng.inst EXCEPT ![d] = one]
             opened == [eng EXCEPT !.made = TRUE, !.lock = lock, !.inst = inst]
  <2>1. want = OpenWithIndex(eng, d, given)
    BY <1>6 DEF SurfaceCall, EngineCall
  <2>2. given.read_only = c.read_only
    BY DEF CallRecord
  <2>3. Refused(want, eng) \/ want = Done(opened)
    <3>1. LET out == OpenWithIndex(eng, d, given)
              m == IF given.read_only THEN "ro" ELSE "rw"
          IN  \/ Refused(out, eng)
              \/ out = Done([eng EXCEPT !.made = TRUE,
                                        !.lock = IF given.read_only THEN @ ELSE {d},
                                        !.inst[d] = [mode |-> m, closed |-> FALSE, reg |-> eng.coll]])
      BY OpenIs, Zenon
    <3> HIDE DEF given, want
    <3> QED
      BY <2>1, <2>2, <3>1, Zenon
  <2> HIDE DEF want, given, inst, lock
  <2>4. eng = [made |-> eng.made, coll |-> eng.coll, lock |-> eng.lock, inst |-> eng.inst]
    BY DEF IsEngine
  <2>5. opened = [made |-> TRUE, coll |-> eng.coll, lock |-> lock, inst |-> inst]
    <3> DEFINE first == [eng EXCEPT !.made = TRUE]
    <3>1. first = [eng EXCEPT !.made = TRUE]
      OBVIOUS
    <3> HIDE DEF first
    <3>2. first = [made |-> TRUE, coll |-> eng.coll, lock |-> eng.lock, inst |-> eng.inst]
      BY <2>4, <3>1
    <3>3. opened = [[first EXCEPT !.lock = lock] EXCEPT !.inst = inst]
      BY DEF first
    <3> HIDE DEF opened
    <3> QED
      BY <3>2, <3>3
  <2> HIDE DEF opened
  <2>6. /\ opened = [made |-> opened.made, coll |-> opened.coll, lock |-> opened.lock, inst |-> opened.inst]
        /\ opened.coll = eng.coll /\ opened.lock = lock /\ opened.inst = inst
    BY <2>5
  <2>7. DOMAIN eng.inst = Instances
    BY DEF IsEngine
  <2> HIDE DEF one
  <2>8. \A x \in Instances : inst[x] = IF x = d THEN one ELSE eng.inst[x]
    BY <2>7 DEF inst
  <2>9. one = [mode |-> one.mode, closed |-> one.closed, reg |-> one.reg] /\ one.closed = FALSE
        /\ one.reg = eng.coll
    BY DEF one
  <2>10. \A x \in Instances :
            /\ inst[x] = [mode |-> inst[x].mode, closed |-> inst[x].closed, reg |-> inst[x].reg]
            /\ inst[x].closed \in BOOLEAN /\ IsReg(inst[x].reg, p)
    <3>1. \A x \in Instances :
            /\ eng.inst[x] = [mode |-> eng.inst[x].mode, closed |-> eng.inst[x].closed, reg |-> eng.inst[x].reg]
            /\ eng.inst[x].closed \in BOOLEAN /\ IsReg(eng.inst[x].reg, p)
      BY DEF IsEngine
    <3>2. IsReg(eng.coll, p)
      BY DEF IsEngine
    <3>3. ASSUME NEW x \in Instances, x # d
          PROVE  inst[x] = eng.inst[x]
      BY <2>8, <3>3
    <3>4. inst[d] = one
      BY <2>8
    <3> QED
      BY <2>9, <3>1, <3>2, <3>3, <3>4
  <2>11. inst = [x \in Instances |-> [mode |-> inst[x].mode, closed |-> inst[x].closed,
                                      reg |-> inst[x].reg]]
    <3>1. inst = [x \in Instances |-> inst[x]]
      BY <2>7 DEF inst
    <3> QED
      BY <2>10, <3>1
  <2>12. IsEngine(opened, p)
    <3>1. IsReg(eng.coll, p)
      BY DEF IsEngine
    <3> QED
      BY <2>6, <2>10, <2>11, <3>1 DEF IsEngine
  <2>13. Opened(eng, opened, d, p)
    BY <2>6, <2>8, <2>9, <2>12 DEF Opened, lock
  <2>14. "none" \notin DOMAIN Code
    BY CodeIs
  <2> QED
    BY <1>4, <2>3, <2>13, <2>14 DEF From, Refused, Fail, Done, Outcome, r
<1> QED
  BY <1>5, <1>6

LEMMA EachShuts ==
    ASSUME NEW p, NEW eng, IsEngine(eng, p), NEW D \in SUBSET Instances, NEW c
    PROVE  Shut(eng, CloseEach(eng, D, c), D, p)
<1> DEFINE r == CloseEach(eng, D, c)
           lock == {x \in eng.lock : \A d \in D : x \in Close(eng, d, c).e.lock}
           inst == [d \in Instances |-> IF d \in D THEN Close(eng, d, c).e.inst[d] ELSE eng.inst[d]]
<1>1. eng = [made |-> eng.made, coll |-> eng.coll, lock |-> eng.lock, inst |-> eng.inst]
  BY DEF IsEngine
<1>2. r = [eng EXCEPT !.lock = lock, !.inst = inst]
  BY Zenon DEF CloseEach
<1> HIDE DEF r, lock, inst
<1>3. r = [made |-> eng.made, coll |-> eng.coll, lock |-> lock, inst |-> inst]
  BY <1>1, <1>2
<1>4. /\ r = [made |-> r.made, coll |-> r.coll, lock |-> r.lock, inst |-> r.inst]
      /\ r.coll = eng.coll /\ r.lock = lock /\ r.inst = inst
  BY <1>3
<1>5. \A d \in D : Shut(eng, Close(eng, d, c).e, {d}, p)
  BY CloseShuts
<1>6. lock \subseteq eng.lock \ D
  BY <1>5 DEF lock, Shut
<1>7. ASSUME NEW x \in Instances
      PROVE  /\ inst[x] = [mode |-> inst[x].mode, closed |-> inst[x].closed, reg |-> inst[x].reg]
             /\ inst[x].closed = (x \in D \/ eng.inst[x].closed)
             /\ inst[x].reg = eng.inst[x].reg
             /\ inst[x].closed \in BOOLEAN /\ IsReg(inst[x].reg, p)
  <2>1. /\ eng.inst[x] = [mode |-> eng.inst[x].mode, closed |-> eng.inst[x].closed, reg |-> eng.inst[x].reg]
        /\ eng.inst[x].closed \in BOOLEAN /\ IsReg(eng.inst[x].reg, p)
    BY DEF IsEngine
  <2>2. CASE x \in D
    <3> DEFINE f == Close(eng, x, c).e
    <3>1. inst[x] = f.inst[x]
      BY <2>2 DEF inst
    <3>2. Shut(eng, f, {x}, p)
      BY <1>5, <2>2
    <3> HIDE DEF f
    <3>3. /\ f.inst[x] = [mode |-> f.inst[x].mode, closed |-> f.inst[x].closed, reg |-> f.inst[x].reg]
          /\ f.inst[x].closed \in BOOLEAN /\ IsReg(f.inst[x].reg, p)
      BY <3>2 DEF Shut, IsEngine
    <3>4. f.inst[x].closed = TRUE /\ f.inst[x].reg = eng.inst[x].reg
      BY <3>2 DEF Shut
    <3> QED
      BY <2>1, <2>2, <3>1, <3>3, <3>4
  <2>3. CASE x \notin D
    <3>1. inst[x] = eng.inst[x]
      BY <2>3 DEF inst
    <3> QED
      BY <2>1, <2>3, <3>1
  <2> QED
    BY <2>2, <2>3
<1>8. inst = [x \in Instances |-> [mode |-> inst[x].mode, closed |-> inst[x].closed, reg |-> inst[x].reg]]
  <2>1. inst = [x \in Instances |-> inst[x]]
    BY DEF inst
  <2> QED
    BY <1>7, <2>1
<1>9. IsReg(eng.coll, p)
  BY DEF IsEngine
<1>10. IsEngine(r, p)
  BY <1>4, <1>7, <1>8, <1>9 DEF IsEngine
<1> QED
  BY <1>4, <1>6, <1>7, <1>10 DEF Shut, r

-------------------------------------------------------------------------------
(* Calls under way and the plan. *)

LEMMA OneOf ==
    \A x : (CHOOSE y \in {x} : TRUE) = x
  OBVIOUS

LEMMA PlanIs ==
    ASSUME app \in DOMAIN Plans
    PROVE  /\ plan \in Range(Plans)
           /\ plan.threads \subseteq Threads /\ plan.calls \subseteq Calls /\ plan.wrappers \subseteq Wrappers
           /\ \A c \in plan.calls : \A f \in CompiledFilter(plan.sdk, c) : f = {} \/ \E g \in f : f = {g}
<1>1. plan \in Range(Plans)
  BY DEF plan, Range
<1> QED
  BY <1>1, BindingsAssumption

LEMMA CallIs ==
    ASSUME TypeInv, NEW t \in Threads, th[t].pc # "idle"
    PROVE  /\ th[t].call = {CallOf(t)} /\ IsCall(CallOf(t), plan) /\ IsBatch(th[t].batch, CallOf(t), plan)
           /\ \E d \in Instances : th[t].db = {d}
           /\ IF OnWrapper(CallOf(t)) \/ Makes(CallOf(t)) THEN \E w \in plan.wrappers : th[t].w = {w}
              ELSE th[t].w = {}
           /\ th[t].pc = "answered" => CallOf(t).op = "search"
<1>1. IsThread(th[t], plan)
  BY DEF TypeInv
<1>2. PICK c \in th[t].call, d \in Instances :
          /\ th[t].call = {c} /\ IsCall(c, plan) /\ IsBatch(th[t].batch, c, plan) /\ th[t].db = {d}
          /\ IF OnWrapper(c) \/ Makes(c) THEN \E w \in plan.wrappers : th[t].w = {w} ELSE th[t].w = {}
  BY <1>1 DEF IsThread
<1>3. CallOf(t) = c
  BY <1>2, OneOf DEF CallOf
<1>4. th[t].pc = "answered" => c.op = "search"
  BY <1>1 DEF IsThread
<1> QED
  BY <1>2, <1>3, <1>4

\* What is known of a call: it is one of the plan's, or the retry of one.
LEMMA CallTyped ==
    ASSUME app \in DOMAIN Plans, NEW c, IsCall(c, plan)
    PROVE  /\ c = CallRecord(c) /\ c.op \in NativeOps \cup {"release"} /\ c.op # "open"
           /\ c.name \in Names /\ c.id \in Ids /\ {c.dim, c.top_k} \subseteq Nat
           /\ c.arg \in {"ok", "unknown"} /\ c.ids = "str"
           /\ c.op # "open_collection" => c \in plan.calls
<1>1. plan.calls \subseteq Calls
  BY PlanIs
<1>2. PICK x \in plan.calls : c = x \/ c = [x EXCEPT !.op = "open_collection"]
  BY DEF IsCall
<1>3. /\ x = CallRecord(x) /\ x.op \in CallNames /\ x.name \in Names /\ x.id \in Ids
      /\ {x.dim, x.top_k} \subseteq Nat /\ x.arg \in {"ok", "unknown"} /\ x.ids = "str"
  BY <1>1, BindingsAssumption
<1>4. c.op # "open"
  BY DEF IsCall, DatabaseOps, WrapperOps
<1>5. CASE c = x
  BY <1>3, <1>4, <1>5 DEF NativeOps
<1>6. CASE c = [x EXCEPT !.op = "open_collection"]
  <2>1. c = CallRecord(c) /\ c.op = "open_collection"
    BY <1>3, <1>6 DEF CallRecord
  <2>2. /\ c.name = x.name /\ c.id = x.id /\ c.dim = x.dim /\ c.top_k = x.top_k /\ c.arg = x.arg
        /\ c.ids = x.ids
    BY <1>3, <1>6 DEF CallRecord
  <2> QED
    BY <1>3, <2>1, <2>2 DEF NativeOps, CallNames
<1> QED
  BY <1>2, <1>5, <1>6

LEMMA SameThread ==
    ASSUME NEW u, th'[u] = th[u]
    PROVE  /\ CallOf(u)' = CallOf(u) /\ InFlight(u)' = InFlight(u)
           /\ \A d : UsesDb(u, d)' <=> UsesDb(u, d)
           /\ \A w : UsesCol(u, w)' <=> UsesCol(u, w)
           /\ \A w : Uses(u, w)' <=> Uses(u, w)
  BY DEF CallOf, InFlight, UsesDb, UsesCol, Uses

\* A thread at rest uses nothing.
LEMMA AtRest ==
    /\ \A t : th[t] = Idle => /\ th[t].pc = "idle" /\ th[t].db = {} /\ th[t].w = {} /\ ~ InFlight(t)
                              /\ \A d : ~ UsesDb(t, d)
                              /\ \A w : ~ UsesCol(t, w)
    /\ \A p : IsThread(Idle, p)
  BY DEF Idle, InFlight, UsesDb, UsesCol, IsThread

LEMMA RestPrime ==
    ASSUME NEW t, th'[t] = Idle
    PROVE  /\ th'[t].pc = "idle" /\ th'[t].db = {} /\ th'[t].w = {}
           /\ \A d : ~ UsesDb(t, d)'
           /\ \A w : ~ UsesCol(t, w)'
  BY DEF Idle, InFlight, UsesDb, UsesCol

\* If nothing of a database, its instance and the calls on it changes, nor does what is
\* claimed of its box.
LEMMA DbBoxSame ==
    ASSUME NEW d, DbBox(d), th' = th, dbs'[d] = dbs[d], cols' = cols,
           e'.inst[d].closed = e.inst[d].closed
    PROVE  DbBox(d)'
<1>1. \A t : CallOf(t)' = CallOf(t) /\ (UsesDb(t, d)' <=> UsesDb(t, d))
  BY SameThread
<1> QED
  BY <1>1 DEF DbBox

\* Calls and collection wrappers as they were are as well apart as they were.
LEMMA ApartSame ==
    ASSUME th' = th, cols' = cols
    PROVE  /\ DropAlone => DropAlone'
           /\ MakesAlone => MakesAlone'
           /\ ClosesAlone => ClosesAlone'
<1>1. \A u : /\ CallOf(u)' = CallOf(u)
             /\ \A x : UsesDb(u, x)' <=> UsesDb(u, x)
             /\ \A x : UsesCol(u, x)' <=> UsesCol(u, x)
  BY SameThread
<1>2. DropAlone => DropAlone'
  <2> SUFFICES ASSUME DropAlone, NEW t \in Threads, th'[t].pc # "idle", CallOf(t)'.op = "drop_collection"
               PROVE  /\ \A w \in Wrappers : cols'[w].flag = "open" => cols'[w].name # {CallOf(t)'.name}
                      /\ \A u \in Threads \ {t} : th'[u].pc # "idle" =>
                            /\ ~ Makes(CallOf(u)') /\ CallOf(u)'.op # "drop_collection"
                            /\ \A w \in Wrappers : OnWrapper(CallOf(u)') /\ th'[u].w = {w} =>
                                  cols'[w].name # {CallOf(t)'.name}
    BY DEF DropAlone
  <2> QED
    BY <1>1 DEF DropAlone
<1>3. MakesAlone => MakesAlone'
  BY DEF MakesAlone, CallOf
<1>4. ClosesAlone => ClosesAlone'
  BY <1>1 DEF ClosesAlone
<1> QED
  BY <1>2, <1>3, <1>4

-------------------------------------------------------------------------------
(* Steps after which no more is under way than before. *)

SameKind(c, x) ==
    /\ OnWrapper(c) <=> OnWrapper(x)
    /\ Makes(c) <=> Makes(x)
    /\ Closes(c) <=> Closes(x)
    /\ c.op = "drop_collection" <=> x.op = "drop_collection"
    /\ c.name = x.name

\* A thread goes on with its call, or comes to rest.
NoMoreCalls ==
    \A u \in Threads :
        /\ th'[u].pc = "idle" => th'[u].db = {} /\ th'[u].w = {}
        /\ th'[u].pc # "idle" => /\ th[u].pc # "idle" /\ SameKind(CallOf(u)', CallOf(u))
                                 /\ th'[u].db = th[u].db /\ th'[u].w = th[u].w
        /\ InFlight(u)' => InFlight(u)

\* No collection wrapper is made.
NoMoreWrappers ==
    \A w \in Wrappers :
        /\ cols'[w].db = cols[w].db /\ cols'[w].name = cols[w].name
        /\ cols'[w].flag = "open" => cols[w].flag = "open"
        /\ cols'[w].flag = "unused" <=> cols[w].flag = "unused"

LEMMA UsesNoMore ==
    ASSUME NoMoreCalls, NEW u \in Threads
    PROVE  /\ \A d : UsesDb(u, d)' => UsesDb(u, d) /\ SameKind(CallOf(u)', CallOf(u))
           /\ \A w : UsesCol(u, w)' => UsesCol(u, w) /\ SameKind(CallOf(u)', CallOf(u))
  BY DEF NoMoreCalls, UsesDb, UsesCol, InFlight, SameKind

LEMMA ApartStill ==
    ASSUME NoMoreCalls, NoMoreWrappers
    PROVE  /\ DropAlone => DropAlone'
           /\ MakesAlone => MakesAlone'
           /\ ClosesAlone => ClosesAlone'
<1>1. DropAlone => DropAlone'
  <2> SUFFICES ASSUME DropAlone, NEW t \in Threads, th'[t].pc # "idle", CallOf(t)'.op = "drop_collection"
               PROVE  /\ \A w \in Wrappers : cols'[w].flag = "open" => cols'[w].name # {CallOf(t)'.name}
                      /\ \A u \in Threads \ {t} : th'[u].pc # "idle" =>
                            /\ ~ Makes(CallOf(u)') /\ CallOf(u)'.op # "drop_collection"
                            /\ \A w \in Wrappers : OnWrapper(CallOf(u)') /\ th'[u].w = {w} =>
                                  cols'[w].name # {CallOf(t)'.name}
    BY DEF DropAlone
  <2>1. /\ th[t].pc # "idle" /\ CallOf(t).op = "drop_collection" /\ CallOf(t)'.name = CallOf(t).name
    BY DEF NoMoreCalls, SameKind
  <2>2. \A w \in Wrappers : cols'[w].flag = "open" => cols'[w].name # {CallOf(t)'.name}
    BY <2>1 DEF DropAlone, NoMoreWrappers
  <2>3. ASSUME NEW u \in Threads \ {t}, th'[u].pc # "idle"
        PROVE  /\ ~ Makes(CallOf(u)') /\ CallOf(u)'.op # "drop_collection"
               /\ \A w \in Wrappers : OnWrapper(CallOf(u)') /\ th'[u].w = {w} =>
                     cols'[w].name # {CallOf(t)'.name}
    <3>1. th[u].pc # "idle" /\ SameKind(CallOf(u)', CallOf(u)) /\ th'[u].w = th[u].w
      BY <2>3 DEF NoMoreCalls
    <3>2. /\ ~ Makes(CallOf(u)) /\ CallOf(u).op # "drop_collection"
          /\ \A w \in Wrappers : OnWrapper(CallOf(u)) /\ th[u].w = {w} => cols[w].name # {CallOf(t).name}
      BY <2>1, <3>1 DEF DropAlone
    <3> QED
      BY <2>1, <3>1, <3>2 DEF SameKind, NoMoreWrappers
  <2> QED
    BY <2>2, <2>3
<1>2. MakesAlone => MakesAlone'
  <2> SUFFICES ASSUME MakesAlone, NEW t \in Threads, NEW w \in Wrappers,
                      th'[t].pc # "idle", Makes(CallOf(t)'), th'[t].w = {w}
               PROVE  cols'[w].flag = "unused" /\ \A u \in Threads \ {t} : th'[u].w # {w}
    BY DEF MakesAlone
  <2>1. th[t].pc # "idle" /\ Makes(CallOf(t)) /\ th[t].w = {w}
    BY DEF NoMoreCalls, SameKind
  <2>2. cols[w].flag = "unused" /\ \A u \in Threads \ {t} : th[u].w # {w}
    BY <2>1 DEF MakesAlone
  <2> QED
    BY <2>2 DEF NoMoreCalls, NoMoreWrappers
<1>3. ClosesAlone => ClosesAlone'
  BY UsesNoMore DEF ClosesAlone, SameKind
<1> QED
  BY <1>1, <1>2, <1>3

LEMMA CallsSame ==
    ASSUME TypeInv, th' = th
    PROVE  NoMoreCalls /\ \A u : CallOf(u)' = CallOf(u)
<1>1. \A u : CallOf(u)' = CallOf(u) /\ InFlight(u)' = InFlight(u)
  BY SameThread
<1>2. \A u \in Threads : th[u].pc = "idle" => th[u] = Idle
  BY DEF TypeInv, IsThread
<1> QED
  BY <1>1, <1>2, AtRest DEF NoMoreCalls, SameKind

\* What is still registered and still used is registered.
LEMMA NamesStill ==
    ASSUME TypeInv, NoMoreCalls, NoMoreWrappers, NEW w \in Wrappers, Named(w),
           Wanted(w) => \A d \in Instances, n \in Names :
                           cols[w].db = {d} /\ cols[w].name = {n} /\ e.inst[d].reg[n] # {} =>
                              e'.inst[d].reg[n] # {}
    PROVE  Named(w)'
<1>1. \A t \in Threads : Uses(t, w)' => Uses(t, w) /\ th'[t].db = th[t].db
  BY DEF NoMoreCalls, SameKind, Uses
<1>2. ASSUME cols'[w].flag # "unused"
      PROVE  \E d \in Instances, n \in Names : cols'[w].db = {d} /\ cols'[w].name = {n}
  BY <1>2 DEF NoMoreWrappers, Named
<1>3. Wanted(w)' => Wanted(w)
  BY <1>1 DEF Wanted, NoMoreWrappers
<1>4. ASSUME Wanted(w)'
      PROVE  \E d \in Instances, n \in Names :
                cols'[w].db = {d} /\ cols'[w].name = {n} /\ e'.inst[d].reg[n] # {}
  <2>1. PICK d \in Instances, n \in Names :
           cols[w].db = {d} /\ cols[w].name = {n} /\ e.inst[d].reg[n] # {}
    BY <1>3, <1>4 DEF Named
  <2> QED
    BY <1>3, <1>4, <2>1 DEF NoMoreWrappers
<1>5. cols'[w].flag = "unused" => cols'[w].name = {}
  BY DEF NoMoreWrappers, Named
<1>6. \A t \in Threads : Uses(t, w)' => th'[t].db = cols'[w].db
  BY <1>1 DEF NoMoreWrappers, Named
<1> QED
  BY <1>2, <1>4, <1>5, <1>6 DEF Named

LEMMA Stutter ==
    ASSUME Inv, UNCHANGED vars
    PROVE  Inv'
<1>1. /\ app' = app /\ e' = e /\ dbs' = dbs /\ cols' = cols /\ th' = th /\ misuse' = misuse
      /\ careless' = careless /\ plan' = plan
  BY DEF vars, plan
<1>2. \A u : /\ CallOf(u)' = CallOf(u)
             /\ \A x : UsesDb(u, x)' <=> UsesDb(u, x)
             /\ \A x : UsesCol(u, x)' <=> UsesCol(u, x)
  BY <1>1, SameThread
<1>3. TypeInv'
  BY <1>1 DEF Inv, TypeInv
<1>4. ASSUME misuse = {}
      PROVE  /\ \A d \in Instances : DbBox(d)'
             /\ \A w \in Wrappers : ColBox(w)' /\ Named(w)'
  <2>1. \A d \in Instances : DbBox(d)'
    BY <1>1, <1>4, DbBoxSame DEF Inv
  <2>2. \A w \in Wrappers : ColBox(w)'
    BY <1>1, <1>2, <1>4 DEF Inv, ColBox
  <2>3. \A w \in Wrappers : Named(w)'
    <3>1. NoMoreCalls /\ NoMoreWrappers
      BY <1>1, CallsSame DEF Inv, NoMoreWrappers
    <3> QED
      BY <1>1, <1>4, <3>1, NamesStill DEF Inv
  <2> QED
    BY <2>1, <2>2, <2>3
<1>5. UsedOpen => UsedOpen'
  BY <1>1, <1>2 DEF UsedOpen
<1> QED
  BY <1>1, <1>3, <1>4, <1>5, ApartSame DEF Inv, MisuseNeedsOverlap

-------------------------------------------------------------------------------
(* Opening. *)

LEMMA OpenKeeps ==
    ASSUME Inv, NEW t \in Threads, NEW d \in Instances, Open(t, d)
    PROVE  Inv'
<1> USE DEF TypeInv
<1>1. /\ misuse = {} /\ misuse' = {} /\ th' = th /\ cols' = cols /\ app' = app /\ careless' = careless
      /\ plan' = plan /\ dbs[d].flag = "unused"
  BY DEF Open, MayCall, plan
<1>2. PICK c \in plan.calls, io \in BOOLEAN :
        /\ c.op = "open"
        /\ \E r \in {NativeOpen(plan.sdk, e, d, [c EXCEPT !.io = io])} :
              /\ e' = r.e
              /\ dbs' = IF r.ok THEN [dbs EXCEPT ![d] = [flag |-> "open", box |-> "live"]] ELSE dbs
  BY DEF Open
<1> DEFINE given == [c EXCEPT !.io = io]
           r == NativeOpen(plan.sdk, e, d, given)
<1>3. /\ given = CallRecord(given) /\ given.op = "open" /\ given.name \in Names /\ given.id \in Ids
      /\ given.ids = "str" /\ {given.dim, given.top_k} \subseteq Nat /\ given.arg \in {"ok", "unknown"}
  <2>1. /\ c = CallRecord(c) /\ c.name \in Names /\ c.id \in Ids /\ c.ids = "str"
        /\ {c.dim, c.top_k} \subseteq Nat /\ c.arg \in {"ok", "unknown"}
    BY PlanIs, BindingsAssumption DEF Inv
  <2> QED
    BY <1>2, <2>1 DEF CallRecord
<1>4. e' = r.e /\ dbs' = IF r.ok THEN [dbs EXCEPT ![d] = [flag |-> "open", box |-> "live"]] ELSE dbs
  BY <1>2
<1> HIDE DEF given
<1>5. (~ r.ok /\ r.e = e) \/ (r.ok /\ Opened(e, r.e, d, plan))
  BY <1>3, NativeOpens DEF Inv
<1> HIDE DEF r
<1>6. CASE ~ r.ok /\ r.e = e
  <2>1. UNCHANGED vars
    BY <1>1, <1>4, <1>6 DEF vars
  <2> QED
    BY <2>1, Stutter
<1>7. CASE r.ok /\ Opened(e, r.e, d, plan)
  <2>1. Opened(e, e', d, plan) /\ dbs' = [dbs EXCEPT ![d] = [flag |-> "open", box |-> "live"]]
    BY <1>4, <1>7
  <2>2. /\ DOMAIN dbs = Instances
        /\ \A x \in Instances : dbs'[x] = IF x = d THEN [flag |-> "open", box |-> "live"] ELSE dbs[x]
    BY <2>1 DEF Inv
  <2>3. dbs'[d].flag = "open" /\ dbs'[d].box = "live"
    BY <2>2
  <2>4. \A x \in Instances : x # d => dbs'[x] = dbs[x] /\ e'.inst[x] = e.inst[x]
    BY <2>1, <2>2 DEF Opened
  <2>5. TypeInv'
    <3>1. dbs' = [x \in Instances |-> [flag |-> dbs'[x].flag, box |-> dbs'[x].box]]
      BY <2>1, <2>2 DEF Inv
    <3>2. \A x \in Instances : dbs'[x].flag \in Flags /\ dbs'[x].box \in Boxes
      BY <2>3, <2>4 DEF Inv, Flags, Boxes
    <3>3. IsEngine(e', plan) /\ LockHeld(e')
      BY <2>1, <2>4 DEF Inv, Opened, LockHeld
    <3> QED
      BY <1>1, <3>1, <3>2, <3>3 DEF Inv
  <2>6. \A u : /\ CallOf(u)' = CallOf(u)
               /\ \A x : UsesDb(u, x)' <=> UsesDb(u, x)
               /\ \A x : UsesCol(u, x)' <=> UsesCol(u, x)
    BY <1>1, SameThread
  <2>7. \A x \in Instances : DbBox(x)'
    <3>1. DbBox(d)'
      <4>1. DbBox(d)
        BY <1>1 DEF Inv
      <4>2. \A u \in Threads : ~ UsesDb(u, d)
        BY <1>1, <4>1 DEF DbBox, UsesDb
      <4>3. ~ e'.inst[d].closed
        BY <2>1 DEF Opened
      <4> QED
        BY <2>3, <2>6, <4>2, <4>3 DEF DbBox
    <3>2. ASSUME NEW x \in Instances, x # d
          PROVE  DbBox(x)'
      BY <1>1, <2>4, <3>2, DbBoxSame DEF Inv
    <3> QED
      BY <3>1, <3>2
  <2>8. \A w \in Wrappers : cols[w].db # {d}
    BY <1>1 DEF Inv, DbBox
  <2>9. \A w \in Wrappers : ColBox(w)' /\ Named(w)'
    <3>1. ASSUME NEW w \in Wrappers
          PROVE  ColBox(w)'
      BY <1>1, <2>6 DEF Inv, ColBox
    <3>2. ASSUME NEW w \in Wrappers
          PROVE  Named(w)'
      <4>1. NoMoreCalls /\ NoMoreWrappers
        BY <1>1, CallsSame DEF Inv, NoMoreWrappers
      <4>2. \A x \in Instances : cols[w].db = {x} => e'.inst[x] = e.inst[x]
        BY <2>4, <2>8
      <4> QED
        BY <1>1, <4>1, <4>2, NamesStill DEF Inv
    <3> QED
      BY <3>1, <3>2
  <2>10. DropAlone' /\ MakesAlone'
    BY <1>1, ApartSame DEF Inv
  <2>11. ~ careless' => UsedOpen' /\ ClosesAlone'
    <3>1. \A u \in Threads : ~ UsesDb(u, d)
      BY <1>1 DEF Inv, DbBox, UsesDb
    <3>2. ~ careless => UsedOpen'
      BY <1>1, <2>4, <2>6, <3>1 DEF Inv, UsedOpen
    <3>3. ~ careless => ClosesAlone'
      BY <1>1, <2>6 DEF Inv, ClosesAlone
    <3> QED
      BY <1>1, <3>2, <3>3
  <2> QED
    BY <1>1, <2>5, <2>7, <2>9, <2>10, <2>11 DEF Inv, MisuseNeedsOverlap
<1> QED
  BY <1>5, <1>6, <1>7

LEMMA Others ==
    ASSUME TypeInv, NEW t \in Threads, NEW x, th' = [th EXCEPT ![t] = x]
    PROVE  /\ th'[t] = x /\ th' = [u \in Threads |-> th'[u]]
           /\ \A u \in Threads \ {t} : /\ th'[u] = th[u] /\ CallOf(u)' = CallOf(u)
                                       /\ InFlight(u)' = InFlight(u)
                                       /\ \A d : UsesDb(u, d)' <=> UsesDb(u, d)
                                       /\ \A w : UsesCol(u, w)' <=> UsesCol(u, w)
                                       /\ \A w : Uses(u, w)' <=> Uses(u, w)
<1>1. DOMAIN th = Threads
  BY DEF TypeInv
<1>2. th'[t] = x /\ \A u \in Threads \ {t} : th'[u] = th[u]
  BY <1>1
<1> QED
  BY <1>1, <1>2, SameThread

\* A thread comes to rest.
LEMMA RestsKeeps ==
    ASSUME TypeInv, NEW t \in Threads, th[t].pc # "idle", th' = [th EXCEPT ![t] = Idle]
    PROVE  NoMoreCalls /\ th' = [u \in Threads |-> th'[u]] /\ \A u \in Threads : IsThread(th'[u], plan)
<1>1. th'[t] = Idle /\ \A u \in Threads \ {t} : th'[u] = th[u] /\ CallOf(u)' = CallOf(u)
                                               /\ InFlight(u)' = InFlight(u)
  BY Others
<1>2. th' = [u \in Threads |-> th'[u]]
  BY Others
<1>3. th'[t].pc = "idle" /\ th'[t].db = {} /\ th'[t].w = {} /\ ~ InFlight(t)'
  BY <1>1 DEF Idle, InFlight
<1>4. \A u \in Threads : th[u].pc = "idle" => th[u].db = {} /\ th[u].w = {}
  BY DEF TypeInv, IsThread, Idle
<1>5. NoMoreCalls
  BY <1>1, <1>3, <1>4 DEF NoMoreCalls, SameKind
<1>6. \A u \in Threads : IsThread(th'[u], plan)
  BY <1>1, AtRest DEF TypeInv
<1> QED
  BY <1>2, <1>5, <1>6

LEMMA CopyKeeps ==
    ASSUME Inv, NEW t \in Threads, CopyResults(t)
    PROVE  Inv'
<1>1. /\ misuse = {} /\ th[t].pc = "answered" /\ th' = [th EXCEPT ![t] = Idle]
      /\ app' = app /\ e' = e /\ dbs' = dbs /\ cols' = cols /\ misuse' = misuse /\ careless' = careless
      /\ plan' = plan
  BY DEF CopyResults, plan
<1>2. TypeInv
  BY DEF Inv
<1>3. NoMoreCalls /\ th' = [u \in Threads |-> th'[u]] /\ \A u \in Threads : IsThread(th'[u], plan)
  BY <1>1, <1>2, RestsKeeps
<1>4. NoMoreWrappers
  BY <1>1 DEF NoMoreWrappers
<1>5. \A u \in Threads \ {t} : th'[u] = th[u] /\ CallOf(u)' = CallOf(u)
                               /\ (\A d : UsesDb(u, d)' <=> UsesDb(u, d))
                               /\ (\A w : UsesCol(u, w)' <=> UsesCol(u, w))
  BY <1>1, <1>2, Others
<1>6. th'[t] = Idle
  BY <1>1, <1>2, Others
<1>7. th'[t].pc = "idle" /\ th'[t].db = {} /\ (\A d : ~ UsesDb(t, d)') /\ (\A w : ~ UsesCol(t, w)')
  BY <1>6, RestPrime
<1>8. TypeInv'
  BY <1>1, <1>2, <1>3 DEF TypeInv
<1>9. ASSUME NEW d \in Instances
      PROVE  DbBox(d)'
  <2>1. DbBox(d)
    BY <1>1 DEF Inv
  <2> QED
    BY <1>1, <1>5, <1>7, <2>1 DEF DbBox
<1>10. ASSUME NEW w \in Wrappers
       PROVE  ColBox(w)' /\ Named(w)'
  <2>1. ColBox(w) /\ Named(w)
    BY <1>1 DEF Inv
  <2>2. ColBox(w)'
    BY <1>1, <1>5, <1>7, <2>1 DEF ColBox
  <2> QED
    BY <1>1, <1>2, <1>3, <1>4, <2>1, <2>2, NamesStill
<1>11. UsedOpen => UsedOpen'
  BY <1>1, <1>5, <1>7 DEF UsedOpen
<1> QED
  BY <1>1, <1>3, <1>4, <1>8, <1>9, <1>10, <1>11, ApartStill DEF Inv, MisuseNeedsOverlap

-------------------------------------------------------------------------------
(* What is collected and torn down. *)

IsCol(x) == x = [flag |-> x.flag, box |-> x.box, db |-> x.db, name |-> x.name, asked |-> x.asked]

\* A wrapper with another flag and another box.
Changed(x, flag, box) == [[x EXCEPT !.flag = flag] EXCEPT !.box = box]

LEMMA ChangedCol ==
    ASSUME NEW x, IsCol(x), NEW flag, NEW box
    PROVE  /\ IsCol(Changed(x, flag, box))
           /\ Changed(x, flag, box).flag = flag /\ Changed(x, flag, box).box = box
           /\ Changed(x, flag, box).db = x.db /\ Changed(x, flag, box).name = x.name
           /\ Changed(x, flag, box).asked = x.asked
<1> DEFINE y == [x EXCEPT !.flag = flag]
           r == Changed(x, flag, box)
<1>1. y = [flag |-> flag, box |-> x.box, db |-> x.db, name |-> x.name, asked |-> x.asked]
  BY DEF IsCol
<1>2. r = [y EXCEPT !.box = box]
  BY DEF Changed
<1> HIDE DEF y, r
<1>3. r = [flag |-> flag, box |-> box, db |-> x.db, name |-> x.name, asked |-> x.asked]
  BY <1>1, <1>2
<1>4. IsCol(r) /\ r.flag = flag /\ r.box = box /\ r.db = x.db /\ r.name = x.name /\ r.asked = x.asked
  BY <1>3 DEF IsCol
<1> QED
  BY <1>4 DEF r

LEMMA CollectCollectionKeeps ==
    ASSUME Inv, NEW w \in Wrappers, CollectCollection(w)
    PROVE  Inv'
<1>1. /\ misuse = {} /\ cols[w].flag = "open" /\ plan.sdk = "ios"
      /\ \A t \in Threads : th[t].pc # "idle" => th[t].w # {w}
      /\ cols' = [cols EXCEPT ![w].flag = "closed", ![w].box = "freed"]
      /\ app' = app /\ e' = e /\ dbs' = dbs /\ th' = th /\ misuse' = misuse /\ careless' = careless
      /\ plan' = plan
  BY DEF CollectCollection, plan
<1>2. TypeInv
  BY DEF Inv
<1>3. \A x \in Wrappers :
         cols[x] = [flag |-> cols[x].flag, box |-> cols[x].box, db |-> cols[x].db,
                    name |-> cols[x].name, asked |-> cols[x].asked]
  BY <1>2 DEF TypeInv
<1>4. DOMAIN cols = Wrappers
  BY <1>2 DEF TypeInv
<1> DEFINE freed == Changed(cols[w], "closed", "freed")
<1>5. cols' = [cols EXCEPT ![w] = freed]
  BY <1>1, <1>4 DEF Changed
<1>6. /\ IsCol(freed)
      /\ freed.flag = "closed" /\ freed.box = "freed" /\ freed.db = cols[w].db /\ freed.name = cols[w].name
  <2>1. IsCol(cols[w])
    BY <1>3 DEF IsCol
  <2> QED
    BY <2>1, ChangedCol
<1> HIDE DEF freed
<1>7. cols'[w] = freed /\ \A x \in Wrappers : x # w => cols'[x] = cols[x]
  BY <1>4, <1>5
<1>8. cols' = [x \in Wrappers |-> cols'[x]]
  BY <1>4, <1>5
<1>9. TypeInv'
  <2>1. \A x \in Wrappers : /\ cols'[x] = [flag |-> cols'[x].flag, box |-> cols'[x].box, db |-> cols'[x].db,
                                           name |-> cols'[x].name, asked |-> cols'[x].asked]
                            /\ cols'[x].flag \in Flags /\ cols'[x].box \in Boxes
    BY <1>2, <1>3, <1>6, <1>7 DEF TypeInv, Flags, Boxes, IsCol
  <2>2. cols' = [x \in Wrappers |-> [flag |-> cols'[x].flag, box |-> cols'[x].box, db |-> cols'[x].db,
                                     name |-> cols'[x].name, asked |-> cols'[x].asked]]
    BY <1>8, <2>1
  <2> QED
    BY <1>1, <1>2, <2>1, <2>2 DEF TypeInv
<1>10. NoMoreCalls /\ \A u : CallOf(u)' = CallOf(u)
  BY <1>1, <1>2, CallsSame
<1>11. NoMoreWrappers
  BY <1>1, <1>6, <1>7 DEF NoMoreWrappers
<1>12. \A u : /\ \A d : UsesDb(u, d)' <=> UsesDb(u, d)
              /\ \A x : UsesCol(u, x)' <=> UsesCol(u, x)
  BY <1>1, SameThread
<1>13. ASSUME NEW d \in Instances
       PROVE  DbBox(d)'
  <2>1. DbBox(d)
    BY <1>1 DEF Inv
  <2> QED
    BY <1>1, <1>10, <1>11, <1>12, <2>1 DEF DbBox, NoMoreWrappers
<1>14. ASSUME NEW x \in Wrappers
       PROVE  ColBox(x)' /\ Named(x)'
  <2>1. ColBox(x) /\ Named(x)
    BY <1>1 DEF Inv
  <2>2. ColBox(x)'
    <3>1. CASE x = w
      BY <1>1, <1>6, <1>7, <3>1 DEF ColBox
    <3>2. CASE x # w
      BY <1>1, <1>7, <1>10, <1>12, <2>1, <3>2 DEF ColBox
    <3> QED
      BY <3>1, <3>2
  <2> QED
    BY <1>1, <1>2, <1>10, <1>11, <2>1, <2>2, NamesStill
<1>15. \A u \in Threads : ~ UsesCol(u, w)
  BY <1>1 DEF UsesCol, InFlight
<1>16. UsedOpen => UsedOpen'
  BY <1>1, <1>7, <1>10, <1>12, <1>15 DEF UsedOpen
<1> QED
  BY <1>1, <1>9, <1>10, <1>11, <1>13, <1>14, <1>16, ApartStill DEF Inv, MisuseNeedsOverlap

\* Closing instances keeps the engine one, and the lock with instances that are open.
LEMMA ShutKeeps ==
    ASSUME NEW p, NEW eng, LockHeld(eng), NEW D \in SUBSET Instances, NEW r, Shut(eng, r, D, p)
    PROVE  IsEngine(r, p) /\ LockHeld(r)
  BY DEF Shut, LockHeld

LEMMA CollectDatabaseKeeps ==
    ASSUME Inv, NEW d \in Instances, CollectDatabase(d)
    PROVE  Inv'
<1>1. /\ misuse = {} /\ dbs[d].flag = "open"
      /\ \A t \in Threads : th[t].pc # "idle" => th[t].db # {d} \/ OnWrapper(CallOf(t))
      /\ dbs' = [dbs EXCEPT ![d] = [flag |-> "closed", box |-> "freed"]]
      /\ app' = app /\ cols' = cols /\ th' = th /\ misuse' = misuse /\ careless' = careless
      /\ plan' = plan
  BY DEF CollectDatabase, plan
<1>2. TypeInv
  BY DEF Inv
<1>3. PICK io \in BOOLEAN : e' = Close(e, d, [io |-> io]).e
  BY DEF CollectDatabase
<1>4. Shut(e, e', {d}, plan)
  BY <1>2, <1>3, CloseShuts DEF TypeInv
<1>5. IsEngine(e', plan) /\ LockHeld(e')
  BY <1>2, <1>4, ShutKeeps DEF TypeInv
<1>6. dbs'[d].flag = "closed" /\ dbs'[d].box = "freed" /\ \A x \in Instances : x # d => dbs'[x] = dbs[x]
  <2>1. DOMAIN dbs = Instances
    BY <1>2 DEF TypeInv
  <2> QED
    BY <1>1, <2>1
<1>7. TypeInv'
  <2>1. dbs' = [x \in Instances |-> [flag |-> dbs'[x].flag, box |-> dbs'[x].box]]
    BY <1>1, <1>2 DEF TypeInv
  <2>2. \A x \in Instances : dbs'[x].flag \in Flags /\ dbs'[x].box \in Boxes
    BY <1>2, <1>6 DEF TypeInv, Flags, Boxes
  <2> QED
    BY <1>1, <1>2, <1>5, <2>1, <2>2 DEF TypeInv
<1>8. NoMoreCalls /\ \A u : CallOf(u)' = CallOf(u)
  BY <1>1, <1>2, CallsSame
<1>9. NoMoreWrappers
  BY <1>1 DEF NoMoreWrappers
<1>10. \A u : /\ \A x : UsesDb(u, x)' <=> UsesDb(u, x)
              /\ \A w : UsesCol(u, w)' <=> UsesCol(u, w)
  BY <1>1, SameThread
<1>11. \A x \in Instances : /\ e'.inst[x].closed = (x = d \/ e.inst[x].closed)
                            /\ e'.inst[x].reg = e.inst[x].reg
  BY <1>4 DEF Shut
<1>12. ASSUME NEW x \in Instances
       PROVE  DbBox(x)'
  <2>1. DbBox(x)
    BY <1>1 DEF Inv
  <2>2. CASE x = d
    <3>1. e'.inst[d].closed
      BY <1>11
    <3> QED
      BY <1>6, <2>2, <3>1 DEF DbBox
  <2>3. CASE x # d
    <3>1. e.inst[x].closed \in BOOLEAN
      BY <1>2 DEF TypeInv, IsEngine
    <3>2. e'.inst[x].closed = e.inst[x].closed
      BY <1>11, <2>3, <3>1
    <3> QED
      BY <1>1, <1>6, <2>1, <2>3, <3>2, DbBoxSame
  <2> QED
    BY <2>2, <2>3
<1>13. ASSUME NEW w \in Wrappers
       PROVE  ColBox(w)' /\ Named(w)'
  <2>1. ColBox(w) /\ Named(w)
    BY <1>1 DEF Inv
  <2>2. ColBox(w)'
    BY <1>1, <1>8, <1>10, <2>1 DEF ColBox
  <2> QED
    BY <1>2, <1>8, <1>9, <1>11, <2>1, <2>2, NamesStill
<1>14. \A u \in Threads : ~ UsesDb(u, d)
  BY <1>1 DEF UsesDb, InFlight
<1>15. UsedOpen => UsedOpen'
  BY <1>1, <1>6, <1>8, <1>10, <1>14 DEF UsedOpen
<1> QED
  BY <1>1, <1>7, <1>8, <1>9, <1>12, <1>13, <1>15, ApartStill DEF Inv, MisuseNeedsOverlap

LEMMA TeardownKeeps ==
    ASSUME Inv, Teardown
    PROVE  Inv'
<1> DEFINE left == {d \in Instances : dbs[d].flag = "open"}
<1>1. /\ misuse = {} /\ \A t \in Threads : th[t].pc = "idle"
      /\ app' = app /\ th' = th /\ misuse' = misuse /\ careless' = careless
      /\ plan' = plan
  BY DEF Teardown, plan
<1>2. TypeInv
  BY DEF Inv
<1>3. PICK io \in BOOLEAN : e' = CloseEach(e, left, [io |-> io])
  BY DEF Teardown
<1>4. dbs' = [d \in Instances |-> IF d \in left THEN [flag |-> "closed", box |-> "freed"] ELSE dbs[d]]
  BY DEF Teardown
<1>5. cols' = [w \in Wrappers |-> IF cols[w].flag = "open" THEN Changed(cols[w], "closed", "freed")
                                  ELSE cols[w]]
  BY DEF Teardown, Changed
<1>6. Shut(e, e', left, plan)
  BY <1>2, <1>3, EachShuts DEF TypeInv
<1>7. IsEngine(e', plan) /\ LockHeld(e')
  BY <1>2, <1>6, ShutKeeps DEF TypeInv
<1>8. \A d \in Instances : /\ e'.inst[d].closed = (d \in left \/ e.inst[d].closed)
                           /\ e'.inst[d].reg = e.inst[d].reg
  BY <1>6 DEF Shut
<1>9. \A d \in Instances : dbs'[d] = IF d \in left THEN [flag |-> "closed", box |-> "freed"] ELSE dbs[d]
  BY <1>4
<1>10. \A w \in Wrappers : IsCol(cols[w])
  BY <1>2 DEF TypeInv, IsCol
<1>11. ASSUME NEW w \in Wrappers
       PROVE  /\ IsCol(cols'[w]) /\ cols'[w].db = cols[w].db /\ cols'[w].name = cols[w].name
              /\ cols[w].flag = "open" => cols'[w].flag = "closed" /\ cols'[w].box = "freed"
              /\ cols[w].flag # "open" => cols'[w] = cols[w]
  <2>1. CASE cols[w].flag = "open"
    <3>1. cols'[w] = Changed(cols[w], "closed", "freed")
      BY <1>5, <2>1
    <3> QED
      BY <1>10, <2>1, <3>1, ChangedCol
  <2>2. CASE cols[w].flag # "open"
    BY <1>5, <1>10, <2>2
  <2> QED
    BY <2>1, <2>2
<1>12. TypeInv'
  <2>1. \A d \in Instances : /\ dbs'[d] = [flag |-> dbs'[d].flag, box |-> dbs'[d].box]
                             /\ dbs'[d].flag \in Flags /\ dbs'[d].box \in Boxes
    <3>1. \A d \in Instances : /\ dbs[d] = [flag |-> dbs[d].flag, box |-> dbs[d].box]
                               /\ dbs[d].flag \in Flags /\ dbs[d].box \in Boxes
      BY <1>2 DEF TypeInv
    <3>2. ASSUME NEW d \in Instances, d \in left
          PROVE  dbs'[d].flag = "closed" /\ dbs'[d].box = "freed" /\ dbs'[d] = [flag |-> "closed", box |-> "freed"]
      BY <1>9, <3>2
    <3>3. ASSUME NEW d \in Instances, d \notin left
          PROVE  dbs'[d] = dbs[d]
      BY <1>9, <3>3
    <3> HIDE DEF left
    <3> QED
      BY <3>1, <3>2, <3>3 DEF Flags, Boxes
  <2>2. dbs' = [d \in Instances |-> [flag |-> dbs'[d].flag, box |-> dbs'[d].box]]
    BY <1>4, <2>1
  <2>3. cols' = [w \in Wrappers |-> [flag |-> cols'[w].flag, box |-> cols'[w].box, db |-> cols'[w].db,
                                     name |-> cols'[w].name, asked |-> cols'[w].asked]]
    <3>1. cols' = [w \in Wrappers |-> cols'[w]]
      BY <1>5
    <3> QED
      BY <1>11, <3>1 DEF IsCol
  <2>4. \A w \in Wrappers : cols'[w].flag \in Flags /\ cols'[w].box \in Boxes
    BY <1>2, <1>11 DEF TypeInv, Flags, Boxes
  <2> QED
    BY <1>1, <1>2, <1>7, <2>1, <2>2, <2>3, <2>4 DEF TypeInv
<1>13. NoMoreCalls /\ \A u : CallOf(u)' = CallOf(u)
  BY <1>1, <1>2, CallsSame
<1>14. NoMoreWrappers
  BY <1>11 DEF NoMoreWrappers
<1>15. \A u : /\ \A x : UsesDb(u, x)' <=> UsesDb(u, x)
              /\ \A w : UsesCol(u, w)' <=> UsesCol(u, w)
  BY <1>1, SameThread
<1>16. \A u \in Threads : /\ \A x : ~ UsesDb(u, x)'
                          /\ \A w : ~ UsesCol(u, w)'
  BY <1>1, <1>15 DEF UsesDb, UsesCol, InFlight
<1>17. ASSUME NEW d \in Instances
       PROVE  DbBox(d)'
  <2>1. DbBox(d)
    BY <1>1 DEF Inv
  <2>2. CASE d \in left
    <3>1. e'.inst[d].closed
      BY <1>8, <2>2
    <3>2. dbs'[d].flag = "closed" /\ dbs'[d].box = "freed"
      BY <1>9, <2>2
    <3> QED
      BY <3>1, <3>2 DEF DbBox
  <2>3. CASE d \notin left
    <3>1. e.inst[d].closed \in BOOLEAN
      BY <1>2 DEF TypeInv, IsEngine
    <3>2. e'.inst[d].closed = e.inst[d].closed /\ dbs'[d] = dbs[d]
      BY <1>8, <1>9, <2>3, <3>1
    <3> QED
      BY <1>1, <1>11, <1>13, <1>15, <2>1, <3>2 DEF DbBox
  <2> QED
    BY <2>2, <2>3
<1>18. ASSUME NEW w \in Wrappers
       PROVE  ColBox(w)' /\ Named(w)'
  <2>1. ColBox(w) /\ Named(w)
    BY <1>1 DEF Inv
  <2>2. ColBox(w)'
    <3>1. CASE cols[w].flag = "open"
      <4>1. plan.sdk = "react_native"
        BY DEF Teardown
      <4> QED
        BY <1>1, <1>11, <3>1, <4>1 DEF ColBox
    <3>2. CASE cols[w].flag # "open"
      BY <1>1, <1>11, <1>13, <1>15, <2>1, <3>2 DEF ColBox
    <3> QED
      BY <3>1, <3>2
  <2> QED
    BY <1>2, <1>8, <1>13, <1>14, <2>1, <2>2, NamesStill
<1>19. UsedOpen'
  BY <1>16 DEF UsedOpen
<1> QED
  BY <1>1, <1>12, <1>13, <1>14, <1>17, <1>18, <1>19, ApartStill DEF Inv, MisuseNeedsOverlap

-------------------------------------------------------------------------------
(* A call begins. *)

IsDb(x) == x = [flag |-> x.flag, box |-> x.box]

\* A handle that is given up in the step that looks it up.
LEMMA SetFlagIs ==
    ASSUME TypeInv, NEW c, NEW d \in Instances, NEW w \in Wrappers, SetFlag(c, d, w, "closed")
    PROVE  /\ \A x \in Wrappers : /\ IsCol(cols'[x]) /\ cols'[x].db = cols[x].db
                                  /\ cols'[x].name = cols[x].name /\ cols'[x].box = cols[x].box
                                  /\ cols'[x].flag = IF OnWrapper(c) /\ x = w THEN "closed" ELSE cols[x].flag
           /\ \A x \in Instances : /\ IsDb(dbs'[x]) /\ dbs'[x].box = dbs[x].box
                                   /\ dbs'[x].flag = IF ~ OnWrapper(c) /\ x = d THEN "closed" ELSE dbs[x].flag
           /\ cols' = [x \in Wrappers |-> cols'[x]] /\ dbs' = [x \in Instances |-> dbs'[x]]
<1>1. DOMAIN cols = Wrappers /\ DOMAIN dbs = Instances
  BY DEF TypeInv
<1>2. (\A x \in Wrappers : IsCol(cols[x])) /\ (\A x \in Instances : IsDb(dbs[x]))
  BY DEF TypeInv, IsCol, IsDb
<1>3. cols = [x \in Wrappers |-> cols[x]] /\ dbs = [x \in Instances |-> dbs[x]]
  BY DEF TypeInv
<1>4. CASE OnWrapper(c)
  <2> DEFINE one == [cols[w] EXCEPT !.flag = "closed"]
  <2>1. cols' = [cols EXCEPT ![w] = one] /\ dbs' = dbs
    BY <1>4 DEF SetFlag
  <2>2. IsCol(one) /\ one.db = cols[w].db /\ one.name = cols[w].name /\ one.box = cols[w].box /\ one.flag = "closed"
    <3> DEFINE x == cols[w]
    <3>1. x = [flag |-> x.flag, box |-> x.box, db |-> x.db, name |-> x.name, asked |-> x.asked]
      BY <1>2 DEF IsCol
    <3>2. one = [x EXCEPT !.flag = "closed"]
      OBVIOUS
    <3> HIDE DEF x, one
    <3>3. one = [flag |-> "closed", box |-> x.box, db |-> x.db, name |-> x.name, asked |-> x.asked]
      BY <3>1, <3>2
    <3>4. IsCol(one) /\ one.db = x.db /\ one.name = x.name /\ one.box = x.box /\ one.flag = "closed"
      BY <3>3 DEF IsCol
    <3> QED
      BY <3>4 DEF x
  <2> HIDE DEF one
  <2>3. cols'[w] = one /\ \A x \in Wrappers : x # w => cols'[x] = cols[x]
    BY <1>1, <2>1
  <2>4. cols' = [x \in Wrappers |-> cols'[x]]
    BY <1>3, <2>1
  <2>5. dbs' = [x \in Instances |-> dbs'[x]]
    BY <1>3, <2>1
  <2> QED
    BY <1>2, <1>4, <2>1, <2>2, <2>3, <2>4, <2>5
<1>5. CASE ~ OnWrapper(c)
  <2> DEFINE one == [dbs[d] EXCEPT !.flag = "closed"]
  <2>1. dbs' = [dbs EXCEPT ![d] = one] /\ cols' = cols
    BY <1>5 DEF SetFlag
  <2>2. IsDb(one) /\ one.box = dbs[d].box /\ one.flag = "closed"
    <3> DEFINE x == dbs[d]
    <3>1. x = [flag |-> x.flag, box |-> x.box]
      BY <1>2 DEF IsDb
    <3>2. one = [x EXCEPT !.flag = "closed"]
      OBVIOUS
    <3> HIDE DEF x, one
    <3>3. one = [flag |-> "closed", box |-> x.box]
      BY <3>1, <3>2
    <3>4. IsDb(one) /\ one.box = x.box /\ one.flag = "closed"
      BY <3>3 DEF IsDb
    <3> QED
      BY <3>4 DEF x
  <2> HIDE DEF one
  <2>3. dbs'[d] = one /\ \A x \in Instances : x # d => dbs'[x] = dbs[x]
    BY <1>1, <2>1
  <2>4. cols' = [x \in Wrappers |-> cols'[x]]
    BY <1>3, <2>1
  <2>5. dbs' = [x \in Instances |-> dbs'[x]]
    BY <1>3, <2>1
  <2> QED
    BY <1>2, <1>5, <2>1, <2>2, <2>3, <2>4, <2>5
<1> QED
  BY <1>4, <1>5

\* A thread that begins a call is one, and what it uses.
LEMMA BegunIs ==
    ASSUME TypeInv, NEW t \in Threads, NEW c \in plan.calls, NEW d \in Instances, NEW w \in plan.wrappers,
           c.op \in DatabaseOps(plan.sdk) \cup WrapperOps(plan.sdk), Compiles(plan.sdk, c),
           th' = [th EXCEPT ![t] = [pc |-> "ready", call |-> {c}, db |-> {d},
                                    w |-> IF OnWrapper(c) \/ Makes(c) THEN {w} ELSE {},
                                    batch |-> c.batch, answer |-> {}]]
    PROVE  /\ IsThread(th'[t], plan) /\ th'[t].pc = "ready" /\ CallOf(t)' = c /\ th'[t].db = {d}
           /\ th'[t].w = IF OnWrapper(c) \/ Makes(c) THEN {w} ELSE {}
           /\ InFlight(t)'
           /\ \A x \in Instances : UsesDb(t, x)' <=> ~ OnWrapper(c) /\ x = d
           /\ \A x \in Wrappers : UsesCol(t, x)' <=> OnWrapper(c) /\ x = w
<1> DEFINE W == IF OnWrapper(c) \/ Makes(c) THEN {w} ELSE {}
           new == [pc |-> "ready", call |-> {c}, db |-> {d}, w |-> W, batch |-> c.batch, answer |-> {}]
<1>1. th'[t] = new
  BY DEF TypeInv
<1> HIDE DEF W
<1>2. /\ th'[t].pc = "ready" /\ th'[t].call = {c} /\ th'[t].db = {d} /\ th'[t].w = W /\ th'[t].batch = c.batch
      /\ th'[t] = [pc |-> th'[t].pc, call |-> th'[t].call, db |-> th'[t].db, w |-> th'[t].w,
                   batch |-> th'[t].batch, answer |-> th'[t].answer]
  BY <1>1
<1>3. CallOf(t)' = c
  BY <1>2, OneOf DEF CallOf
<1>4. IsBatch(c.batch, c, plan)
  <2>1. plan.calls \subseteq Calls
    BY PlanIs DEF TypeInv
  <2>2. /\ c.batch \in Seq(Range(c.batch)) /\ (c.op = "upsert" => c.batch # <<>>)
        /\ \A x \in Range(c.batch) : x.id \in Ids
    BY <2>1, BindingsAssumption
  <2>3. \A x \in Range(c.batch) : x.written \in WrittenBy(plan)
    BY DEF WrittenBy
  <2>4. \A x \in Range(c.batch) : CompiledMetadata(plan.sdk, x.written) # {}
    BY DEF Compiles, Range
  <2> QED
    BY <2>2, <2>3, <2>4 DEF IsBatch
<1>5. IsCall(c, plan)
  BY DEF IsCall, Compiles
<1>6. IF OnWrapper(c) \/ Makes(c) THEN \E x \in plan.wrappers : W = {x} ELSE W = {}
  BY DEF W
<1>7. IsThread(th'[t], plan)
  BY <1>2, <1>4, <1>5, <1>6 DEF IsThread
<1>8. InFlight(t)'
  BY <1>2 DEF InFlight
<1>9. \A x \in Instances : UsesDb(t, x)' <=> ~ OnWrapper(c) /\ x = d
  BY <1>2, <1>3, <1>8 DEF UsesDb
<1>10. \A x \in Wrappers : UsesCol(t, x)' <=> OnWrapper(c) /\ x = w
  BY <1>2, <1>3, <1>8 DEF UsesCol, W
<1> QED
  BY <1>2, <1>3, <1>7, <1>8, <1>9, <1>10 DEF W

\* A wrapper that a method is called on is open; only a web wrapper may have been closed.
LEMMA AliveIs ==
    ASSUME Inv, misuse = {}, NEW c, NEW d \in Instances, NEW w \in Wrappers, Alive(c, d, w),
           OnWrapper(c) => cols[w].db = {d}
    PROVE  /\ OnWrapper(c) => cols[w].flag = "open"
           /\ ~ OnWrapper(c) => dbs[d].flag = "open" \/ (plan.sdk = "web" /\ dbs[d].flag = "closed")
           /\ dbs[d].flag # "unused"
<1>1. ColBox(w) /\ DbBox(d)
  BY DEF Inv
<1>2. CASE OnWrapper(c)
  BY <1>1, <1>2 DEF Alive, WrapperOf, ColBox, DbBox
<1>3. CASE ~ OnWrapper(c)
  BY <1>3 DEF Alive, WrapperOf
<1> QED
  BY <1>2, <1>3

GivesUp(c) == Closes(c) /\ TakesAtOnce(plan.sdk)

\* The wrappers once the call has begun.
LEMMA BegunFlags ==
    ASSUME TypeInv, NEW c, NEW d \in Instances, NEW w \in Wrappers,
           IF GivesUp(c) THEN SetFlag(c, d, w, "closed") ELSE UNCHANGED <<dbs, cols>>
    PROVE  /\ \A x \in Wrappers :
                 /\ IsCol(cols'[x]) /\ cols'[x].db = cols[x].db
                 /\ cols'[x].name = cols[x].name /\ cols'[x].box = cols[x].box
                 /\ cols'[x].flag = IF GivesUp(c) /\ OnWrapper(c) /\ x = w THEN "closed" ELSE cols[x].flag
           /\ \A x \in Instances :
                 /\ IsDb(dbs'[x]) /\ dbs'[x].box = dbs[x].box
                 /\ dbs'[x].flag = IF GivesUp(c) /\ ~ OnWrapper(c) /\ x = d THEN "closed" ELSE dbs[x].flag
           /\ cols' = [x \in Wrappers |-> cols'[x]] /\ dbs' = [x \in Instances |-> dbs'[x]]
<1>1. CASE GivesUp(c)
  <2>1. SetFlag(c, d, w, "closed")
    BY <1>1
  <2>2. /\ \A x \in Wrappers : /\ IsCol(cols'[x]) /\ cols'[x].db = cols[x].db
                               /\ cols'[x].name = cols[x].name /\ cols'[x].box = cols[x].box
                               /\ cols'[x].flag = IF OnWrapper(c) /\ x = w THEN "closed" ELSE cols[x].flag
        /\ \A x \in Instances : /\ IsDb(dbs'[x]) /\ dbs'[x].box = dbs[x].box
                                /\ dbs'[x].flag = IF ~ OnWrapper(c) /\ x = d THEN "closed" ELSE dbs[x].flag
        /\ cols' = [x \in Wrappers |-> cols'[x]] /\ dbs' = [x \in Instances |-> dbs'[x]]
    BY <2>1, SetFlagIs
  <2> QED
    BY <1>1, <2>2
<1>2. CASE ~ GivesUp(c)
  <2>1. cols' = cols /\ dbs' = dbs
    BY <1>2
  <2>2. (\A x \in Wrappers : IsCol(cols[x])) /\ (\A x \in Instances : IsDb(dbs[x]))
    BY DEF TypeInv, IsCol, IsDb
  <2>3. cols = [x \in Wrappers |-> cols[x]]
    BY DEF TypeInv
  <2>4. dbs = [x \in Instances |-> dbs[x]]
    BY DEF TypeInv
  <2>5. cols' = [x \in Wrappers |-> cols'[x]] /\ dbs' = [x \in Instances |-> dbs'[x]]
    BY <2>1, <2>3, <2>4
  <2> QED
    BY <1>2, <2>1, <2>2, <2>5
<1> QED
  BY <1>1, <1>2

LEMMA BeginKeeps ==
    ASSUME Inv, NEW t \in Threads, NEW d \in Instances, NEW w \in Wrappers, Begin(t, d, w)
    PROVE  Inv'
<1>1. /\ misuse = {} /\ th[t].pc = "idle" /\ w \in plan.wrappers
      /\ app' = app /\ e' = e /\ misuse' = misuse /\ plan' = plan
  BY DEF Begin, MayCall, plan
<1>2. TypeInv
  BY DEF Inv
<1>3. PICK c \in plan.calls :
        /\ c.op \in DatabaseOps(plan.sdk) \cup WrapperOps(plan.sdk)
        /\ Alive(c, d, w)
        /\ OnWrapper(c) => cols[w].db = {d}
        /\ Makes(c) => /\ cols[w].flag = "unused" /\ \A u \in Threads : th[u].w # {w}
                       /\ \A u \in Threads : \A x \in th[u].call : x.op # "drop_collection"
        /\ c.op = "drop_collection" =>
              /\ \A x \in Wrappers : cols[x].flag = "open" => cols[x].name # {c.name}
              /\ \A u \in Threads : th[u].pc = "idle"
        /\ Compiles(plan.sdk, c)
        /\ careless' = (careless \/ Careless(t, c, d, w))
        /\ IF GivesUp(c) THEN SetFlag(c, d, w, "closed") ELSE UNCHANGED <<dbs, cols>>
        /\ th' = [th EXCEPT ![t] = [pc |-> "ready", call |-> {c}, db |-> {d},
                                    w |-> IF OnWrapper(c) \/ Makes(c) THEN {w} ELSE {},
                                    batch |-> c.batch, answer |-> {}]]
  BY DEF Begin, GivesUp
<1>4. /\ OnWrapper(c) => cols[w].flag = "open"
      /\ ~ OnWrapper(c) => dbs[d].flag = "open" \/ (plan.sdk = "web" /\ dbs[d].flag = "closed")
      /\ dbs[d].flag # "unused"
  BY <1>1, <1>3, AliveIs
<1>5. /\ IsThread(th'[t], plan) /\ th'[t].pc = "ready" /\ CallOf(t)' = c /\ th'[t].db = {d}
      /\ th'[t].w = IF OnWrapper(c) \/ Makes(c) THEN {w} ELSE {}
      /\ InFlight(t)'
      /\ \A x \in Instances : UsesDb(t, x)' <=> ~ OnWrapper(c) /\ x = d
      /\ \A x \in Wrappers : UsesCol(t, x)' <=> OnWrapper(c) /\ x = w
  BY <1>1, <1>2, <1>3, BegunIs
<1>6. /\ th' = [u \in Threads |-> th'[u]]
      /\ \A u \in Threads \ {t} : /\ th'[u] = th[u] /\ CallOf(u)' = CallOf(u)
                                  /\ InFlight(u)' = InFlight(u)
                                  /\ \A x : UsesDb(u, x)' <=> UsesDb(u, x)
                                  /\ \A x : UsesCol(u, x)' <=> UsesCol(u, x)
                                  /\ \A x : Uses(u, x)' <=> Uses(u, x)
  BY <1>2, <1>3, Others
<1>7. /\ \A x \in Wrappers :
            /\ IsCol(cols'[x]) /\ cols'[x].db = cols[x].db
            /\ cols'[x].name = cols[x].name /\ cols'[x].box = cols[x].box
            /\ cols'[x].flag = IF GivesUp(c) /\ OnWrapper(c) /\ x = w THEN "closed" ELSE cols[x].flag
      /\ \A x \in Instances :
            /\ IsDb(dbs'[x]) /\ dbs'[x].box = dbs[x].box
            /\ dbs'[x].flag = IF GivesUp(c) /\ ~ OnWrapper(c) /\ x = d THEN "closed" ELSE dbs[x].flag
      /\ cols' = [x \in Wrappers |-> cols'[x]] /\ dbs' = [x \in Instances |-> dbs'[x]]
  BY <1>2, <1>3, BegunFlags
<1>8. GivesUp(c) => Closes(c) /\ plan.sdk # "web"
  BY DEF GivesUp, TakesAtOnce
<1>9. Closes(c) => ~ Makes(c) /\ c.op # "drop_collection"
  BY DEF Closes, Makes
<1>10. /\ \A x : ~ UsesDb(t, x)
       /\ \A x : ~ UsesCol(t, x)
  BY <1>1 DEF UsesDb, UsesCol, InFlight
<1>11. TypeInv'
  <2>1. cols' = [x \in Wrappers |-> [flag |-> cols'[x].flag, box |-> cols'[x].box, db |-> cols'[x].db,
                                     name |-> cols'[x].name, asked |-> cols'[x].asked]]
    BY <1>7 DEF IsCol
  <2>2. dbs' = [x \in Instances |-> [flag |-> dbs'[x].flag, box |-> dbs'[x].box]]
    BY <1>7 DEF IsDb
  <2>3. /\ \A x \in Wrappers : cols'[x].flag \in Flags /\ cols'[x].box \in Boxes
        /\ \A x \in Instances : dbs'[x].flag \in Flags /\ dbs'[x].box \in Boxes
    BY <1>2, <1>7 DEF TypeInv, Flags
  <2>4. \A u \in Threads : IsThread(th'[u], plan)
    BY <1>2, <1>5, <1>6 DEF TypeInv
  <2>5. careless' \in BOOLEAN
    BY <1>2, <1>3 DEF TypeInv
  <2> QED
    BY <1>1, <1>2, <1>6, <2>1, <2>2, <2>3, <2>4, <2>5 DEF TypeInv
<1>12. ASSUME NEW x \in Instances
       PROVE  DbBox(x)'
  <2>1. DbBox(x)
    BY <1>1 DEF Inv
  <2>2. /\ dbs'[x].flag = "unused" <=> dbs'[x].box = "none"
        /\ dbs'[x].flag = "open" => dbs'[x].box = "live"
    BY <1>4, <1>7, <2>1 DEF DbBox
  <2>3. ASSUME dbs'[x].flag = "closed", dbs'[x].box = "live"
        PROVE  \E u \in Threads : th'[u].pc = "ready" /\ UsesDb(u, x)' /\ Closes(CallOf(u)')
    <3>1. CASE GivesUp(c) /\ ~ OnWrapper(c) /\ x = d
      BY <1>5, <1>8, <3>1
    <3>2. CASE ~ (GivesUp(c) /\ ~ OnWrapper(c) /\ x = d)
      <4>1. dbs[x].flag = "closed" /\ dbs[x].box = "live"
        BY <1>7, <2>3, <3>2
      <4> QED
        BY <1>6, <1>10, <2>1, <4>1 DEF DbBox
    <3> QED
      BY <3>1, <3>2
  <2>4. dbs'[x].box = "live" => ~ e'.inst[x].closed
    BY <1>1, <1>7, <2>1 DEF DbBox
  <2>5. dbs'[x].box # "live" /\ ~ e'.inst[x].closed =>
           \E u \in Threads : th'[u].pc = "inside" /\ UsesDb(u, x)' /\ Closes(CallOf(u)')
    BY <1>1, <1>6, <1>7, <1>10, <2>1 DEF DbBox
  <2>6. \A u \in Threads : th'[u].pc = "inside" /\ UsesDb(u, x)' /\ Closes(CallOf(u)') => dbs'[x].box = "freed"
    BY <1>5, <1>6, <1>7, <2>1 DEF DbBox
  <2>7. ASSUME dbs'[x].flag = "unused"
        PROVE  (\A u \in Threads : th'[u].db # {x}) /\ \A y \in Wrappers : cols'[y].db # {x}
    <3>1. dbs[x].flag = "unused" /\ x # d
      BY <1>4, <1>7, <2>7
    <3>2. (\A u \in Threads : th[u].db # {x}) /\ \A y \in Wrappers : cols[y].db # {x}
      BY <2>1, <3>1 DEF DbBox
    <3>3. {d} # {x}
      BY <3>1
    <3> QED
      BY <1>5, <1>6, <1>7, <3>2, <3>3
  <2> QED
    BY <2>2, <2>3, <2>4, <2>5, <2>6, <2>7 DEF DbBox
<1>13. ASSUME NEW x \in Wrappers
       PROVE  ColBox(x)' /\ Named(x)'
  <2>1. ColBox(x) /\ Named(x)
    BY <1>1 DEF Inv
  <2>2. ASSUME cols'[x].flag = "closed", cols'[x].box = "live"
        PROVE  \E u \in Threads : th'[u].pc = "ready" /\ UsesCol(u, x)' /\ Closes(CallOf(u)')
    <3>1. CASE GivesUp(c) /\ OnWrapper(c) /\ x = w
      BY <1>5, <1>8, <3>1
    <3>2. CASE ~ (GivesUp(c) /\ OnWrapper(c) /\ x = w)
      <4>1. cols[x].flag = "closed" /\ cols[x].box = "live"
        BY <1>7, <2>2, <3>2
      <4> QED
        BY <1>6, <1>10, <2>1, <4>1 DEF ColBox
    <3> QED
      BY <3>1, <3>2
  <2>3. /\ cols'[x].flag = "unused" <=> cols'[x].box = "none"
        /\ cols'[x].flag = "open" => cols'[x].box = "live"
        /\ cols'[x].flag = "closed" => plan'.sdk # "web"
    BY <1>1, <1>4, <1>7, <1>8, <2>1 DEF ColBox
  <2>4. ColBox(x)'
    BY <2>2, <2>3 DEF ColBox
  <2>5. cols'[x].flag # "unused" =>
           \E y \in Instances, n \in Names : cols'[x].db = {y} /\ cols'[x].name = {n}
    BY <1>4, <1>7, <2>1 DEF Named
  <2>6. Wanted(x)' => Wanted(x)
    <3>1. cols'[x].flag = "open" => cols[x].flag = "open"
      BY <1>7
    <3>2. \A u \in Threads \ {t} : Uses(u, x)' => Uses(u, x)
      BY <1>6
    <3>3. Uses(t, x)' => cols[x].flag = "open"
      BY <1>4, <1>5 DEF Uses
    <3> QED
      BY <3>1, <3>2, <3>3 DEF Wanted
  <2>7. Named(x)'
    <3>1. cols'[x].flag = "unused" => cols'[x].name = {}
      BY <1>7, <2>1 DEF Named
    <3>2. Wanted(x)' => \E y \in Instances, n \in Names :
             cols'[x].db = {y} /\ cols'[x].name = {n} /\ e'.inst[y].reg[n] # {}
      BY <1>1, <1>7, <2>1, <2>6 DEF Named
    <3>3. \A u \in Threads \ {t} : Uses(u, x)' => th'[u].db = cols'[x].db
      BY <1>6, <1>7, <2>1 DEF Named
    <3>4. ASSUME Uses(t, x)'
          PROVE  th'[t].db = cols'[x].db
      <4>1. OnWrapper(c) /\ x = w
        BY <1>5, <3>4 DEF Uses
      <4> QED
        BY <1>3, <1>5, <1>7, <4>1
    <3> QED
      BY <2>5, <3>1, <3>2, <3>3, <3>4 DEF Named
  <2> QED
    BY <2>4, <2>7
<1>14. DropAlone'
  <2> SUFFICES ASSUME NEW s \in Threads, th'[s].pc # "idle", CallOf(s)'.op = "drop_collection"
               PROVE  /\ \A x \in Wrappers : cols'[x].flag = "open" => cols'[x].name # {CallOf(s)'.name}
                      /\ \A u \in Threads \ {s} : th'[u].pc # "idle" =>
                            /\ ~ Makes(CallOf(u)') /\ CallOf(u)'.op # "drop_collection"
                            /\ \A x \in Wrappers : OnWrapper(CallOf(u)') /\ th'[u].w = {x} =>
                                  cols'[x].name # {CallOf(s)'.name}
    BY DEF DropAlone
  <2>1. CASE s = t
    BY <1>3, <1>5, <1>6, <1>7, <2>1
  <2>2. CASE s # t
    <3>1. th[s].pc # "idle" /\ CallOf(s)' = CallOf(s) /\ CallOf(s).op = "drop_collection"
      BY <1>6, <2>2
    <3>2. DropAlone
      BY <1>1 DEF Inv
    <3>3. /\ \A x \in Wrappers : cols[x].flag = "open" => cols[x].name # {CallOf(s).name}
          /\ \A u \in Threads \ {s} : th[u].pc # "idle" =>
                /\ ~ Makes(CallOf(u)) /\ CallOf(u).op # "drop_collection"
                /\ \A x \in Wrappers : OnWrapper(CallOf(u)) /\ th[u].w = {x} =>
                      cols[x].name # {CallOf(s).name}
      BY <3>1, <3>2 DEF DropAlone
    <3>4. CallOf(s) \in th[s].call
      BY <1>2, <3>1, CallIs
    <3>5. ~ Makes(c) /\ c.op # "drop_collection"
      BY <1>3, <3>1, <3>4
    <3>6. \A x \in Wrappers : OnWrapper(c) /\ th'[t].w = {x} => cols'[x].name # {CallOf(s)'.name}
      BY <1>4, <1>5, <1>7, <3>1, <3>3
    <3>7. \A x \in Wrappers : cols'[x].flag = "open" => cols'[x].name # {CallOf(s)'.name}
      BY <1>7, <3>1, <3>3
    <3>8. \A u \in Threads \ {s, t} : th'[u].pc # "idle" =>
             /\ ~ Makes(CallOf(u)') /\ CallOf(u)'.op # "drop_collection"
             /\ \A x \in Wrappers : OnWrapper(CallOf(u)') /\ th'[u].w = {x} =>
                   cols'[x].name # {CallOf(s)'.name}
      BY <1>6, <1>7, <3>1, <3>3
    <3> QED
      BY <1>5, <3>5, <3>6, <3>7, <3>8
  <2> QED
    BY <2>1, <2>2
<1>15. MakesAlone'
  <2> SUFFICES ASSUME NEW s \in Threads, NEW x \in Wrappers,
                      th'[s].pc # "idle", Makes(CallOf(s)'), th'[s].w = {x}
               PROVE  cols'[x].flag = "unused" /\ \A u \in Threads \ {s} : th'[u].w # {x}
    BY DEF MakesAlone
  <2>1. CASE s = t
    <3>1. x = w /\ Makes(c)
      BY <1>5, <2>1
    <3> QED
      BY <1>3, <1>6, <1>7, <1>8, <1>9, <2>1, <3>1
  <2>2. CASE s # t
    <3>1. th[s].pc # "idle" /\ Makes(CallOf(s)) /\ th[s].w = {x}
      BY <1>6, <2>2
    <3>2. cols[x].flag = "unused" /\ \A u \in Threads \ {s} : th[u].w # {x}
      BY <1>1, <3>1 DEF Inv, MakesAlone
    <3>3. OnWrapper(c) => x # w
      BY <1>4, <3>2
    <3>4. cols'[x].flag = "unused"
      BY <1>7, <3>2, <3>3
    <3>5. th'[t].w # {x}
      BY <1>3, <1>5, <3>1, <3>3
    <3> QED
      BY <1>6, <3>2, <3>4, <3>5
  <2> QED
    BY <2>1, <2>2
<1>16. ASSUME ~ careless'
       PROVE  UsedOpen' /\ ClosesAlone'
  <2>1. ~ careless /\ ~ Careless(t, c, d, w)
    BY <1>3, <1>16
  <2>2. UsedOpen /\ ClosesAlone
    BY <1>1, <2>1 DEF Inv
  <2>3. ASSUME NEW u \in Threads, u # t, Closes(c) \/ Closes(CallOf(u))
        PROVE  /\ ~ OnWrapper(c) => ~ UsesDb(u, d)
               /\ OnWrapper(c) => ~ UsesCol(u, w)
    <3>1. InFlight(u) => ~ SameWrapper(u, c, d, w)
      BY <2>1, <2>3 DEF Careless
    <3>2. (OnWrapper(CallOf(u)) <=> OnWrapper(c)) => OnWrapper(CallOf(u)) = OnWrapper(c)
      BY DEF OnWrapper
    <3> QED
      BY <3>1, <3>2 DEF SameWrapper, UsesDb, UsesCol
  <2>4. ~ OnWrapper(c) => dbs[d].flag = "open"
    BY <1>4, <2>1 DEF Careless, WrapperOf
  <2>5. ASSUME NEW s \in Threads, NEW x \in Instances, UsesDb(s, x)'
        PROVE  IF Closes(CallOf(s)') THEN th'[s].pc = "ready" => dbs'[x].box = "live"
               ELSE dbs'[x].flag = "open"
    <3>1. CASE s = t
      <4>1. ~ OnWrapper(c) /\ x = d /\ CallOf(s)' = c
        BY <1>5, <2>5, <3>1
      <4>2. DbBox(d)
        BY <1>1 DEF Inv
      <4> QED
        BY <1>7, <1>8, <2>4, <4>1, <4>2 DEF DbBox
    <3>2. CASE s # t
      <4>1. UsesDb(s, x) /\ CallOf(s)' = CallOf(s) /\ th'[s] = th[s]
        BY <1>6, <2>5, <3>2
      <4>2. GivesUp(c) /\ ~ OnWrapper(c) => x # d
        BY <1>8, <2>3, <3>2, <4>1
      <4> QED
        BY <1>7, <2>2, <4>1, <4>2 DEF UsedOpen
    <3> QED
      BY <3>1, <3>2
  <2>6. ASSUME NEW s \in Threads, NEW x \in Wrappers, UsesCol(s, x)'
        PROVE  IF Closes(CallOf(s)') THEN th'[s].pc = "ready" => cols'[x].box = "live"
               ELSE cols'[x].flag = "open"
    <3>1. CASE s = t
      <4>1. OnWrapper(c) /\ x = w /\ CallOf(s)' = c
        BY <1>5, <2>6, <3>1
      <4>2. ColBox(w)
        BY <1>1 DEF Inv
      <4> QED
        BY <1>4, <1>7, <1>8, <4>1, <4>2 DEF ColBox
    <3>2. CASE s # t
      <4>1. UsesCol(s, x) /\ CallOf(s)' = CallOf(s) /\ th'[s] = th[s]
        BY <1>6, <2>6, <3>2
      <4>2. GivesUp(c) /\ OnWrapper(c) => x # w
        BY <1>8, <2>3, <3>2, <4>1
      <4> QED
        BY <1>7, <2>2, <4>1, <4>2 DEF UsedOpen
    <3> QED
      BY <3>1, <3>2
  <2>7. ClosesAlone'
    <3>1. ASSUME NEW s \in Threads, NEW u \in Threads, NEW x \in Instances,
                 s # u, UsesDb(s, x)', UsesDb(u, x)', Closes(CallOf(s)')
          PROVE  FALSE
      <4>1. CASE s # t /\ u # t
        BY <1>6, <2>2, <3>1, <4>1 DEF ClosesAlone
      <4>2. CASE s = t
        BY <1>5, <1>6, <2>3, <3>1, <4>2
      <4>3. CASE u = t
        BY <1>5, <1>6, <2>3, <3>1, <4>3
      <4> QED
        BY <4>1, <4>2, <4>3
    <3>2. ASSUME NEW s \in Threads, NEW u \in Threads, NEW x \in Wrappers,
                 s # u, UsesCol(s, x)', UsesCol(u, x)', Closes(CallOf(s)')
          PROVE  FALSE
      <4>1. CASE s # t /\ u # t
        BY <1>6, <2>2, <3>2, <4>1 DEF ClosesAlone
      <4>2. CASE s = t
        BY <1>5, <1>6, <2>3, <3>2, <4>2
      <4>3. CASE u = t
        BY <1>5, <1>6, <2>3, <3>2, <4>3
      <4> QED
        BY <4>1, <4>2, <4>3
    <3> QED
      BY <3>1, <3>2 DEF ClosesAlone
  <2> QED
    BY <2>5, <2>6, <2>7 DEF UsedOpen
<1> QED
  BY <1>1, <1>11, <1>12, <1>13, <1>14, <1>15, <1>16 DEF Inv, MisuseNeedsOverlap

-------------------------------------------------------------------------------
(* A native function starts. *)

ChangedDb(x, flag, box) == [[x EXCEPT !.flag = flag] EXCEPT !.box = box]

LEMMA ChangedDbIs ==
    ASSUME NEW x, IsDb(x), NEW flag, NEW box
    PROVE  /\ IsDb(ChangedDb(x, flag, box))
           /\ ChangedDb(x, flag, box).flag = flag /\ ChangedDb(x, flag, box).box = box
<1> DEFINE y == [x EXCEPT !.flag = flag]
           r == ChangedDb(x, flag, box)
<1>1. y = [flag |-> flag, box |-> x.box]
  BY DEF IsDb
<1>2. r = [y EXCEPT !.box = box]
  BY DEF ChangedDb
<1> HIDE DEF y, r
<1>3. r = [flag |-> flag, box |-> box]
  BY <1>1, <1>2
<1>4. IsDb(r) /\ r.flag = flag /\ r.box = box
  BY <1>3 DEF IsDb
<1> QED
  BY <1>4 DEF r

\* The wrappers once the native function has started.
LEMMA EnteredFlags ==
    ASSUME TypeInv, NEW c, NEW d \in Instances, NEW w, OnWrapper(c) => w \in Wrappers,
           IF Closes(c) THEN Free(c, d, w) ELSE UNCHANGED <<dbs, cols>>
    PROVE  /\ \A x \in Wrappers :
                 /\ IsCol(cols'[x]) /\ cols'[x].db = cols[x].db /\ cols'[x].name = cols[x].name
                 /\ IF Closes(c) /\ OnWrapper(c) /\ x = w
                    THEN cols'[x].flag = "closed" /\ cols'[x].box = "freed" ELSE cols'[x] = cols[x]
           /\ \A x \in Instances :
                 /\ IsDb(dbs'[x])
                 /\ IF Closes(c) /\ ~ OnWrapper(c) /\ x = d
                    THEN dbs'[x].flag = "closed" /\ dbs'[x].box = "freed" ELSE dbs'[x] = dbs[x]
           /\ cols' = [x \in Wrappers |-> cols'[x]] /\ dbs' = [x \in Instances |-> dbs'[x]]
<1>1. DOMAIN cols = Wrappers /\ DOMAIN dbs = Instances
  BY DEF TypeInv
<1>2. (\A x \in Wrappers : IsCol(cols[x])) /\ (\A x \in Instances : IsDb(dbs[x]))
  BY DEF TypeInv, IsCol, IsDb
<1>3. cols = [x \in Wrappers |-> cols[x]]
  BY DEF TypeInv
<1>4. dbs = [x \in Instances |-> dbs[x]]
  BY DEF TypeInv
<1>5. CASE Closes(c) /\ OnWrapper(c)
  <2> DEFINE freed == Changed(cols[w], "closed", "freed")
  <2>1. cols' = [cols EXCEPT ![w].flag = "closed", ![w].box = "freed"] /\ dbs' = dbs
    BY <1>5 DEF Free
  <2>2. cols' = [cols EXCEPT ![w] = freed]
    BY <1>1, <1>5, <2>1 DEF Changed
  <2>3. /\ IsCol(freed) /\ freed.flag = "closed" /\ freed.box = "freed"
        /\ freed.db = cols[w].db /\ freed.name = cols[w].name
    BY <1>2, <1>5, ChangedCol
  <2> HIDE DEF freed
  <2>4. cols'[w] = freed /\ \A x \in Wrappers : x # w => cols'[x] = cols[x]
    BY <1>1, <1>5, <2>2
  <2>5. cols' = [x \in Wrappers |-> cols'[x]]
    BY <1>3, <2>2
  <2>6. dbs' = [x \in Instances |-> dbs'[x]]
    BY <1>4, <2>1
  <2> QED
    BY <1>2, <1>5, <2>1, <2>3, <2>4, <2>5, <2>6
<1>6. CASE Closes(c) /\ ~ OnWrapper(c)
  <2> DEFINE freed == ChangedDb(dbs[d], "closed", "freed")
  <2>1. dbs' = [dbs EXCEPT ![d].flag = "closed", ![d].box = "freed"] /\ cols' = cols
    BY <1>6 DEF Free
  <2>2. dbs' = [dbs EXCEPT ![d] = freed]
    BY <1>1, <2>1 DEF ChangedDb
  <2>3. IsDb(freed) /\ freed.flag = "closed" /\ freed.box = "freed"
    BY <1>2, ChangedDbIs
  <2> HIDE DEF freed
  <2>4. dbs'[d] = freed /\ \A x \in Instances : x # d => dbs'[x] = dbs[x]
    BY <1>1, <2>2
  <2>5. cols' = [x \in Wrappers |-> cols'[x]]
    BY <1>3, <2>1
  <2>6. dbs' = [x \in Instances |-> dbs'[x]]
    BY <1>4, <2>2
  <2> QED
    BY <1>2, <1>6, <2>1, <2>3, <2>4, <2>5, <2>6
<1>7. CASE ~ Closes(c)
  <2>1. cols' = cols /\ dbs' = dbs
    BY <1>7
  <2>2. cols' = [x \in Wrappers |-> cols'[x]] /\ dbs' = [x \in Instances |-> dbs'[x]]
    BY <1>3, <1>4, <2>1
  <2> QED
    BY <1>2, <1>7, <2>1, <2>2
<1> QED
  BY <1>5, <1>6, <1>7

\* A thread that goes on with its call.
GoesOn(x, y, pc) ==
    y = [pc |-> pc, call |-> x.call, db |-> x.db, w |-> x.w, batch |-> x.batch, answer |-> x.answer]

LEMMA PcIs ==
    ASSUME TypeInv, NEW t \in Threads, NEW pc, th' = [th EXCEPT ![t].pc = pc]
    PROVE  GoesOn(th[t], th'[t], pc) /\ th' = [th EXCEPT ![t] = th'[t]]
<1> DEFINE x == th[t]
           y == [x EXCEPT !.pc = pc]
<1>1. x = [pc |-> x.pc, call |-> x.call, db |-> x.db, w |-> x.w, batch |-> x.batch, answer |-> x.answer]
  BY DEF TypeInv, IsThread
<1>2. DOMAIN th = Threads
  BY DEF TypeInv
<1>3. th'[t] = y /\ th' = [th EXCEPT ![t] = y]
  BY <1>2
<1> HIDE DEF x
<1>4. y = [pc |-> pc, call |-> x.call, db |-> x.db, w |-> x.w, batch |-> x.batch, answer |-> x.answer]
  BY <1>1
<1> HIDE DEF y
<1>5. th'[t] = [pc |-> pc, call |-> x.call, db |-> x.db, w |-> x.w, batch |-> x.batch, answer |-> x.answer]
  BY <1>3, <1>4
<1> QED
  BY <1>3, <1>5 DEF GoesOn, x

\* What a call under way has in hand.
LEMMA HandIs ==
    ASSUME TypeInv, NEW t \in Threads, th[t].pc # "idle"
    PROVE  /\ (CHOOSE x \in th[t].db : TRUE) \in Instances
           /\ th[t].db = {CHOOSE x \in th[t].db : TRUE}
           /\ OnWrapper(CallOf(t)) \/ Makes(CallOf(t)) =>
                 /\ (CHOOSE x \in th[t].w : TRUE) \in plan.wrappers
                 /\ (CHOOSE x \in th[t].w : TRUE) \in Wrappers
                 /\ th[t].w = {CHOOSE x \in th[t].w : TRUE}
<1>1. PICK d \in Instances : th[t].db = {d}
  BY CallIs
<1>2. ASSUME OnWrapper(CallOf(t)) \/ Makes(CallOf(t))
      PROVE  /\ (CHOOSE x \in th[t].w : TRUE) \in plan.wrappers
             /\ th[t].w = {CHOOSE x \in th[t].w : TRUE}
  <2>1. PICK w \in plan.wrappers : th[t].w = {w}
    BY <1>2, CallIs
  <2> QED
    BY <2>1, OneOf
<1>3. plan.wrappers \subseteq Wrappers
  BY PlanIs DEF TypeInv
<1> QED
  BY <1>1, <1>2, <1>3, OneOf

\* A thread whose native function has started is inside it, or at rest after a release.
LEMMA EnteredThread ==
    ASSUME TypeInv, NEW t \in Threads, th[t].pc = "ready",
           th' = IF CallOf(t).op = "release" THEN [th EXCEPT ![t] = Idle] ELSE [th EXCEPT ![t].pc = "inside"]
    PROVE  /\ NoMoreCalls /\ th' = [u \in Threads |-> th'[u]] /\ \A u \in Threads : IsThread(th'[u], plan)
           /\ \A u \in Threads \ {t} : /\ th'[u] = th[u] /\ CallOf(u)' = CallOf(u)
                                       /\ \A d : UsesDb(u, d)' <=> UsesDb(u, d)
                                       /\ \A w : UsesCol(u, w)' <=> UsesCol(u, w)
           /\ IF CallOf(t).op = "release" THEN th'[t] = Idle
              ELSE th'[t].pc = "inside" /\ CallOf(t)' = CallOf(t)
                   /\ (\A d : UsesDb(t, d)' <=> UsesDb(t, d)) /\ (\A w : UsesCol(t, w)' <=> UsesCol(t, w))
<1>1. CASE CallOf(t).op = "release"
  <2>1. th' = [th EXCEPT ![t] = Idle]
    BY <1>1
  <2> QED
    BY <1>1, <2>1, RestsKeeps, Others
<1>2. CASE CallOf(t).op # "release"
  <2>1. GoesOn(th[t], th'[t], "inside") /\ th' = [th EXCEPT ![t] = th'[t]]
    BY <1>2, PcIs
  <2>2. /\ th' = [u \in Threads |-> th'[u]]
        /\ \A u \in Threads \ {t} : /\ th'[u] = th[u] /\ CallOf(u)' = CallOf(u)
                                    /\ InFlight(u)' = InFlight(u)
                                    /\ \A d : UsesDb(u, d)' <=> UsesDb(u, d)
                                    /\ \A w : UsesCol(u, w)' <=> UsesCol(u, w)
    BY <2>1, Others
  <2> DEFINE x == th[t]
             y == th'[t]
  <2>3. /\ y.pc = "inside" /\ y.call = x.call /\ y.db = x.db /\ y.w = x.w /\ y.batch = x.batch
        /\ y = [pc |-> y.pc, call |-> y.call, db |-> y.db, w |-> y.w, batch |-> y.batch, answer |-> y.answer]
    BY <2>1 DEF GoesOn
  <2>4. CallOf(t)' = CallOf(t)
    BY <2>3 DEF CallOf
  <2>5. /\ \A d : UsesDb(t, d)' <=> UsesDb(t, d)
        /\ \A w : UsesCol(t, w)' <=> UsesCol(t, w)
    BY <2>3, <2>4 DEF UsesDb, UsesCol, InFlight
  <2>6. IsThread(y, plan)
    <3>1. IsThread(x, plan)
      BY DEF TypeInv
    <3>2. \A k \in x.call : k.op # "release"
      BY <1>2, CallIs
    <3> HIDE DEF x, y
    <3> QED
      BY <2>3, <3>1, <3>2 DEF IsThread, x
  <2>7. \A u \in Threads : IsThread(th'[u], plan)
    BY <2>2, <2>6 DEF TypeInv
  <2>8. \A u \in Threads : th[u].pc = "idle" => th[u].db = {} /\ th[u].w = {}
    BY DEF TypeInv, IsThread, Idle
  <2>9. NoMoreCalls
    BY <2>2, <2>3, <2>4, <2>8 DEF NoMoreCalls, SameKind, InFlight
  <2> QED
    BY <1>2, <2>2, <2>3, <2>4, <2>5, <2>7, <2>9
<1> QED
  BY <1>1, <1>2

LEMMA EnterKeeps ==
    ASSUME Inv, NEW t \in Threads, Enter(t)
    PROVE  Inv'
<1> DEFINE c == CallOf(t)
           d == CHOOSE x \in th[t].db : TRUE
           w == IF th[t].w = {} THEN CHOOSE x \in Wrappers : TRUE ELSE CHOOSE x \in th[t].w : TRUE
<1>1. /\ misuse = {} /\ th[t].pc = "ready" /\ misuse' = Meets(t, c, d, w)
      /\ IF Closes(c) THEN Free(c, d, w) ELSE UNCHANGED <<dbs, cols>>
      /\ th' = IF c.op = "release" THEN [th EXCEPT ![t] = Idle] ELSE [th EXCEPT ![t].pc = "inside"]
      /\ app' = app /\ e' = e /\ careless' = careless /\ plan' = plan
  BY DEF Enter, plan
<1>2. TypeInv
  BY DEF Inv
<1>3. d \in Instances /\ th[t].db = {d} /\ (OnWrapper(c) => w \in Wrappers /\ th[t].w = {w})
  BY <1>1, <1>2, HandIs
<1>4. IsCall(c, plan)
  BY <1>1, <1>2, CallIs
<1> HIDE DEF c, d, w
<1>5. /\ \A x \in Instances : UsesDb(t, x) <=> ~ OnWrapper(c) /\ x = d
      /\ \A x \in Wrappers : UsesCol(t, x) <=> OnWrapper(c) /\ x = w
  BY <1>1, <1>3 DEF UsesDb, UsesCol, InFlight, c
<1>6. /\ \A x \in Wrappers :
            /\ IsCol(cols'[x]) /\ cols'[x].db = cols[x].db /\ cols'[x].name = cols[x].name
            /\ IF Closes(c) /\ OnWrapper(c) /\ x = w
               THEN cols'[x].flag = "closed" /\ cols'[x].box = "freed" ELSE cols'[x] = cols[x]
      /\ \A x \in Instances :
            /\ IsDb(dbs'[x])
            /\ IF Closes(c) /\ ~ OnWrapper(c) /\ x = d
               THEN dbs'[x].flag = "closed" /\ dbs'[x].box = "freed" ELSE dbs'[x] = dbs[x]
      /\ cols' = [x \in Wrappers |-> cols'[x]] /\ dbs' = [x \in Instances |-> dbs'[x]]
  BY <1>1, <1>2, <1>3, EnteredFlags
<1>7. /\ NoMoreCalls /\ th' = [u \in Threads |-> th'[u]] /\ \A u \in Threads : IsThread(th'[u], plan)
      /\ \A u \in Threads \ {t} : /\ th'[u] = th[u] /\ CallOf(u)' = CallOf(u)
                                  /\ \A x : UsesDb(u, x)' <=> UsesDb(u, x)
                                  /\ \A x : UsesCol(u, x)' <=> UsesCol(u, x)
      /\ IF c.op = "release" THEN th'[t] = Idle
         ELSE th'[t].pc = "inside" /\ CallOf(t)' = c
              /\ (\A x : UsesDb(t, x)' <=> UsesDb(t, x)) /\ (\A x : UsesCol(t, x)' <=> UsesCol(t, x))
  BY <1>1, <1>2, EnteredThread DEF c
<1>8. th'[t].pc # "ready"
  BY <1>7 DEF Idle
<1>9. Closes(c) /\ ~ OnWrapper(c) => c.op = "close"
  BY DEF Closes, OnWrapper
<1>10. Closes(c) /\ OnWrapper(c) => c.op = "release" /\ plan.sdk # "web"
  BY <1>4 DEF Closes, OnWrapper, CollectionOps, IsCall, DatabaseOps, WrapperOps
<1>11. TypeInv'
  <2>1. cols' = [x \in Wrappers |-> [flag |-> cols'[x].flag, box |-> cols'[x].box, db |-> cols'[x].db,
                                     name |-> cols'[x].name, asked |-> cols'[x].asked]]
    BY <1>6 DEF IsCol
  <2>2. dbs' = [x \in Instances |-> [flag |-> dbs'[x].flag, box |-> dbs'[x].box]]
    BY <1>6 DEF IsDb
  <2>3. /\ \A x \in Wrappers : cols'[x].flag \in Flags /\ cols'[x].box \in Boxes
        /\ \A x \in Instances : dbs'[x].flag \in Flags /\ dbs'[x].box \in Boxes
    BY <1>2, <1>6 DEF TypeInv, Flags, Boxes
  <2> QED
    BY <1>1, <1>2, <1>7, <2>1, <2>2, <2>3 DEF TypeInv
<1>12. ASSUME ~ careless
       PROVE  misuse' = {} /\ UsedOpen'
  <2>1. UsedOpen /\ ClosesAlone
    BY <1>1, <1>12 DEF Inv
  <2>2. ASSUME NEW u \in Threads, u # t, Closes(c)
        PROVE  /\ ~ OnWrapper(c) => ~ UsesDb(u, d)
               /\ OnWrapper(c) => ~ UsesCol(u, w)
    BY <1>3, <1>5, <2>1, <2>2 DEF ClosesAlone, c
  <2>3. WrapperOf(c, d, w).box # "freed"
    <3>1. CASE OnWrapper(c)
      <4>1. UsesCol(t, w) /\ w \in Wrappers
        BY <1>3, <1>5, <3>1
      <4>2. ColBox(w)
        BY <1>1, <4>1 DEF Inv
      <4>3. cols[w].box = "live"
        BY <1>1, <2>1, <4>1, <4>2 DEF UsedOpen, ColBox
      <4> QED
        BY <3>1, <4>3 DEF WrapperOf
    <3>2. CASE ~ OnWrapper(c)
      <4>1. UsesDb(t, d) /\ d \in Instances
        BY <1>3, <1>5, <3>2
      <4>2. DbBox(d)
        BY <1>1, <4>1 DEF Inv
      <4>3. dbs[d].box = "live"
        BY <1>1, <2>1, <4>1, <4>2 DEF UsedOpen, DbBox
      <4> QED
        BY <3>2, <4>3 DEF WrapperOf
    <3> QED
      BY <3>1, <3>2
  <2>4. ASSUME Closes(c), NEW u \in Threads \ {t}, th[u].pc = "inside"
        PROVE  ~ SameWrapper(u, c, d, w)
    <3>1. (OnWrapper(CallOf(u)) = OnWrapper(c)) => (OnWrapper(CallOf(u)) <=> OnWrapper(c))
      OBVIOUS
    <3> QED
      BY <2>2, <2>4, <3>1 DEF SameWrapper, UsesDb, UsesCol, InFlight
  <2>5. misuse' = {}
    BY <1>1, <2>3, <2>4 DEF Meets
  <2>6. ASSUME NEW s \in Threads, NEW x \in Instances, UsesDb(s, x)'
        PROVE  IF Closes(CallOf(s)') THEN th'[s].pc = "ready" => dbs'[x].box = "live"
               ELSE dbs'[x].flag = "open"
    <3>1. CASE s = t
      <4>1. c.op # "release" /\ UsesDb(t, x) /\ CallOf(s)' = c
        BY <1>7, <2>6, <3>1, RestPrime
      <4>2. ~ Closes(c) => dbs'[x].flag = "open"
        BY <1>6, <2>1, <4>1 DEF UsedOpen, c
      <4> QED
        BY <1>8, <3>1, <4>1, <4>2
    <3>2. CASE s # t
      <4>1. UsesDb(s, x) /\ CallOf(s)' = CallOf(s) /\ th'[s] = th[s]
        BY <1>7, <2>6, <3>2
      <4>2. ~ (Closes(c) /\ ~ OnWrapper(c) /\ x = d)
        BY <2>2, <3>2, <4>1
      <4>3. dbs'[x] = dbs[x]
        BY <1>6, <4>2
      <4> QED
        BY <2>1, <4>1, <4>3 DEF UsedOpen
    <3> QED
      BY <3>1, <3>2
  <2>7. ASSUME NEW s \in Threads, NEW x \in Wrappers, UsesCol(s, x)'
        PROVE  IF Closes(CallOf(s)') THEN th'[s].pc = "ready" => cols'[x].box = "live"
               ELSE cols'[x].flag = "open"
    <3>1. CASE s = t
      <4>1. c.op # "release" /\ UsesCol(t, x) /\ CallOf(s)' = c
        BY <1>7, <2>7, <3>1, RestPrime
      <4>2. ~ Closes(c) => cols'[x].flag = "open"
        BY <1>6, <2>1, <4>1 DEF UsedOpen, c
      <4> QED
        BY <1>8, <3>1, <4>1, <4>2
    <3>2. CASE s # t
      <4>1. UsesCol(s, x) /\ CallOf(s)' = CallOf(s) /\ th'[s] = th[s]
        BY <1>7, <2>7, <3>2
      <4>2. ~ (Closes(c) /\ OnWrapper(c) /\ x = w)
        BY <2>2, <3>2, <4>1
      <4>3. cols'[x] = cols[x]
        BY <1>6, <4>2
      <4> QED
        BY <2>1, <4>1, <4>3 DEF UsedOpen
    <3> QED
      BY <3>1, <3>2
  <2> QED
    BY <2>5, <2>6, <2>7 DEF UsedOpen
<1>13. Closes(c) /\ OnWrapper(c) => cols[w].flag # "unused"
  <2>1. ASSUME OnWrapper(c)
        PROVE  cols[w].name # {}
    <3>1. Named(w)
      BY <1>1, <1>3, <2>1 DEF Inv
    <3>2. Wanted(w)
      BY <1>1, <1>3, <2>1 DEF Wanted, Uses, c
    <3> QED
      BY <3>1, <3>2 DEF Named
  <2> QED
    BY <1>1, <1>3, <2>1 DEF Inv, Named
<1>14. NoMoreWrappers
  BY <1>6, <1>13 DEF NoMoreWrappers
<1>15. ASSUME NEW x \in Instances
       PROVE  DbBox(x)'
  <2>1. DbBox(x)
    BY <1>1 DEF Inv
  <2>2. CASE Closes(c) /\ ~ OnWrapper(c) /\ x = d
    <3>1. dbs'[x].flag = "closed" /\ dbs'[x].box = "freed"
      BY <1>6, <2>2
    <3>2. th'[t].pc = "inside" /\ UsesDb(t, x)' /\ Closes(CallOf(t)')
      BY <1>5, <1>7, <1>9, <2>2
    <3> QED
      BY <3>1, <3>2 DEF DbBox
  <2>3. CASE ~ (Closes(c) /\ ~ OnWrapper(c) /\ x = d)
    <3>1. dbs'[x] = dbs[x]
      BY <1>6, <2>3
    <3>2. ~ (UsesDb(t, x) /\ Closes(CallOf(t)))
      BY <1>5, <2>3 DEF c
    <3>3. ~ (UsesDb(t, x)' /\ Closes(CallOf(t)'))
      <4>1. c.op = "release" => ~ UsesDb(t, x)'
        BY <1>7, RestPrime
      <4> QED
        BY <1>7, <3>2, <4>1 DEF c
    <3>4. /\ dbs'[x].flag = "closed" /\ dbs'[x].box = "live" =>
                \E u \in Threads : th'[u].pc = "ready" /\ UsesDb(u, x)' /\ Closes(CallOf(u)')
          /\ dbs'[x].box # "live" /\ ~ e'.inst[x].closed =>
                \E u \in Threads : th'[u].pc = "inside" /\ UsesDb(u, x)' /\ Closes(CallOf(u)')
      BY <1>1, <1>7, <2>1, <3>1, <3>2 DEF DbBox
    <3>5. \A u \in Threads : th'[u].pc = "inside" /\ UsesDb(u, x)' /\ Closes(CallOf(u)') => dbs'[x].box = "freed"
      BY <1>7, <2>1, <3>1, <3>3 DEF DbBox
    <3>6. ASSUME dbs'[x].flag = "unused"
          PROVE  (\A u \in Threads : th'[u].db # {x}) /\ \A y \in Wrappers : cols'[y].db # {x}
      <4>1. (\A u \in Threads : th[u].db # {x}) /\ \A y \in Wrappers : cols[y].db # {x}
        BY <2>1, <3>1, <3>6 DEF DbBox
      <4> QED
        BY <1>6, <1>7, <4>1 DEF NoMoreCalls
    <3>7. /\ dbs'[x].flag = "unused" <=> dbs'[x].box = "none"
          /\ dbs'[x].flag = "open" => dbs'[x].box = "live"
          /\ dbs'[x].box = "live" => ~ e'.inst[x].closed
      BY <1>1, <2>1, <3>1 DEF DbBox
    <3> QED
      BY <3>4, <3>5, <3>6, <3>7 DEF DbBox
  <2> QED
    BY <2>2, <2>3
<1>16. ASSUME NEW x \in Wrappers
       PROVE  ColBox(x)' /\ Named(x)'
  <2>1. ColBox(x) /\ Named(x)
    BY <1>1 DEF Inv
  <2>2. ColBox(x)'
    <3>1. CASE Closes(c) /\ OnWrapper(c) /\ x = w
      BY <1>1, <1>6, <1>10, <3>1 DEF ColBox
    <3>2. CASE ~ (Closes(c) /\ OnWrapper(c) /\ x = w)
      <4>1. cols'[x] = cols[x]
        BY <1>6, <3>2
      <4>2. ~ (UsesCol(t, x) /\ Closes(CallOf(t)))
        BY <1>5, <3>2 DEF c
      <4> QED
        BY <1>1, <1>7, <2>1, <4>1, <4>2 DEF ColBox
    <3> QED
      BY <3>1, <3>2
  <2> QED
    BY <1>1, <1>2, <1>7, <1>14, <2>1, <2>2, NamesStill
<1> QED
  BY <1>1, <1>7, <1>11, <1>12, <1>14, <1>15, <1>16, ApartStill DEF Inv, MisuseNeedsOverlap

-------------------------------------------------------------------------------
(* A native function takes effect. *)

\* What becomes of a thread when the native function returns r.
Left(t, c, r) ==
    LET retried == c.op = "collection" /\ ~r.ok /\ FallsBack(plan.sdk, r)
        more == r.ok /\ c.op = "upsert" /\ Len(th[t].batch) > 1
    IN  th' = [th EXCEPT ![t] =
                CASE retried -> [@ EXCEPT !.pc = "ready", !.answer = {SpecOf(c)},
                                          !.call = {[c EXCEPT !.op = "open_collection"]}]
                  [] more -> [@ EXCEPT !.pc = "ready", !.batch = Tail(@)]
                  [] c.op = "search" /\ r.ok -> [@ EXCEPT !.pc = "answered", !.answer = r.answer]
                  [] OTHER -> Idle]

\* A record of a thread by its fields.
Thread(pc, call, db, w, batch, answer) ==
    [pc |-> pc, call |-> call, db |-> db, w |-> w, batch |-> batch, answer |-> answer]

Retried(x, answer, call) == [x EXCEPT !.pc = "ready", !.answer = answer, !.call = call]
GoneOn(x) == [x EXCEPT !.pc = "ready", !.batch = Tail(@)]
WithAnswer(x, answer) == [x EXCEPT !.pc = "answered", !.answer = answer]

LEMMA ThreadIs ==
    ASSUME NEW x, x = Thread(x.pc, x.call, x.db, x.w, x.batch, x.answer), NEW answer, NEW call
    PROVE  /\ Retried(x, answer, call) = Thread("ready", call, x.db, x.w, x.batch, answer)
           /\ GoneOn(x) = Thread("ready", x.call, x.db, x.w, Tail(x.batch), x.answer)
           /\ WithAnswer(x, answer) = Thread("answered", x.call, x.db, x.w, x.batch, answer)
<1>1. Retried(x, answer, call) = Thread("ready", call, x.db, x.w, x.batch, answer)
  <2> DEFINE y == [x EXCEPT !.pc = "ready"]
             z == [y EXCEPT !.answer = answer]
  <2>1. Retried(x, answer, call) = [z EXCEPT !.call = call]
    BY DEF Retried
  <2>2. y = Thread("ready", x.call, x.db, x.w, x.batch, x.answer)
    BY DEF Thread
  <2> HIDE DEF y
  <2>3. z = Thread("ready", x.call, x.db, x.w, x.batch, answer)
    BY <2>2 DEF Thread
  <2> HIDE DEF z
  <2>4. [z EXCEPT !.call = call] = Thread("ready", call, x.db, x.w, x.batch, answer)
    BY <2>3 DEF Thread
  <2> QED
    BY <2>1, <2>4
<1>2. GoneOn(x) = Thread("ready", x.call, x.db, x.w, Tail(x.batch), x.answer)
  <2> DEFINE y == [x EXCEPT !.pc = "ready"]
  <2>1. y = Thread("ready", x.call, x.db, x.w, x.batch, x.answer)
    BY DEF Thread
  <2>2. GoneOn(x) = [y EXCEPT !.batch = Tail(@)]
    BY DEF GoneOn
  <2> HIDE DEF y
  <2>3. [y EXCEPT !.batch = Tail(y.batch)] = Thread("ready", x.call, x.db, x.w, Tail(y.batch), x.answer)
    <3> DEFINE rest == Tail(y.batch)
    <3> HIDE DEF rest
    <3>1. [y EXCEPT !.batch = rest] = Thread("ready", x.call, x.db, x.w, rest, x.answer)
      BY <2>1 DEF Thread
    <3> QED
      BY <3>1 DEF rest
  <2>4. y.batch = x.batch
    BY <2>1 DEF Thread
  <2> QED
    BY <2>2, <2>3, <2>4
<1>3. WithAnswer(x, answer) = Thread("answered", x.call, x.db, x.w, x.batch, answer)
  <2> DEFINE y == [x EXCEPT !.pc = "answered"]
  <2>1. y = Thread("answered", x.call, x.db, x.w, x.batch, x.answer)
    BY DEF Thread
  <2>2. WithAnswer(x, answer) = [y EXCEPT !.answer = answer]
    BY DEF WithAnswer
  <2> HIDE DEF y
  <2>3. [y EXCEPT !.answer = answer] = Thread("answered", x.call, x.db, x.w, x.batch, answer)
    BY <2>1 DEF Thread
  <2> QED
    BY <2>2, <2>3
<1> QED
  BY <1>1, <1>2, <1>3

LEMMA TailIs ==
    ASSUME NEW s, s \in Seq(Range(s)), Len(s) > 1
    PROVE  /\ Tail(s) \in Seq(Range(Tail(s))) /\ Tail(s) # <<>>
           /\ Range(Tail(s)) \subseteq Range(s)
<1> DEFINE r == Tail(s)
           n == Len(s) - 1
           S == Range(s)
<1>1. Len(s) \in Nat /\ DOMAIN s = 1..Len(s) /\ \A i \in 1..Len(s) : s[i] \in S
  BY DEF Range
<1> HIDE DEF S
<1>2. r \in Seq(S) /\ Len(r) = n /\ \A i \in 1..n : r[i] = s[i + 1]
  <2>1. s \in Seq(S)
    BY DEF S
  <2> QED
    BY <1>1, <2>1
<1> HIDE DEF r
<1>3. n \in Nat /\ n > 0
  BY <1>1
<1> HIDE DEF n
<1>4. r \in [1..n -> S]
  BY <1>2, <1>3
<1>5. r \in [1..n -> Range(r)] /\ Range(r) \subseteq S
  BY <1>4 DEF Range
<1>6. r \in Seq(Range(r)) /\ r # <<>>
  BY <1>3, <1>5
<1> QED
  BY <1>5, <1>6 DEF r, S

\* A call of a plan is a record.
LEMMA RetryIs ==
    ASSUME app \in DOMAIN Plans, NEW c, IsCall(c, plan), c.op = "collection"
    PROVE  LET s == [c EXCEPT !.op = "open_collection"]
           IN  IsCall(s, plan) /\ SameKind(s, c) /\ s.op = "open_collection"
<1> DEFINE s == [c EXCEPT !.op = "open_collection"]
<1>1. c = CallRecord(c) /\ c \in plan.calls
  BY CallTyped
<1>2. s.op = "open_collection" /\ s.name = c.name
  BY <1>1 DEF CallRecord
<1> HIDE DEF s
<1>3. SameKind(s, c)
  BY <1>2 DEF SameKind, OnWrapper, Makes, Closes, CollectionOps
<1>4. IsCall(s, plan)
  BY <1>1, <1>2 DEF IsCall, s
<1> QED
  BY <1>2, <1>3, <1>4 DEF s

LEMMA LeftThread ==
    ASSUME TypeInv, NEW t \in Threads, th[t].pc = "inside", NEW r, Left(t, CallOf(t), r)
    PROVE  /\ NoMoreCalls /\ th' = [u \in Threads |-> th'[u]] /\ \A u \in Threads : IsThread(th'[u], plan)
           /\ \A u \in Threads \ {t} : /\ th'[u] = th[u] /\ CallOf(u)' = CallOf(u)
                                       /\ \A d : UsesDb(u, d)' <=> UsesDb(u, d)
                                       /\ \A w : UsesCol(u, w)' <=> UsesCol(u, w)
                                       /\ \A w : Uses(u, w)' <=> Uses(u, w)
           /\ th'[t] = Idle \/ (~ Closes(CallOf(t)) /\ ~ (Makes(CallOf(t)) /\ r.ok)
                                /\ CallOf(t).op # "drop_collection")
           /\ th'[t].pc = "answered" =>
                 /\ CallOf(t).op = "search" /\ r.ok /\ CallOf(t)' = CallOf(t)
                 /\ th'[t].answer = r.answer /\ th'[t].w = th[t].w
<1> DEFINE c == CallOf(t)
           x == th[t]
           y == th'[t]
           retried == c.op = "collection" /\ ~r.ok /\ FallsBack(plan.sdk, r)
           more == r.ok /\ c.op = "upsert" /\ Len(x.batch) > 1
           s == [c EXCEPT !.op = "open_collection"]
           new == CASE retried -> Retried(x, {SpecOf(c)}, {s})
                    [] more -> GoneOn(x)
                    [] c.op = "search" /\ r.ok -> WithAnswer(x, r.answer)
                    [] OTHER -> Idle
<1>1. th' = [th EXCEPT ![t] = new]
  BY DEF Left, TypeInv, Retried, GoneOn, WithAnswer
<1>2. x = Thread(x.pc, x.call, x.db, x.w, x.batch, x.answer) /\ x.pc = "inside" /\ IsThread(x, plan)
  BY DEF TypeInv, IsThread, Thread
<1>3. x.call = {c} /\ IsCall(c, plan) /\ IsBatch(x.batch, c, plan)
  BY CallIs
<1>4. PICK d \in Instances : x.db = {d}
  BY CallIs
<1>5. IF OnWrapper(c) \/ Makes(c) THEN \E w \in plan.wrappers : x.w = {w} ELSE x.w = {}
  BY CallIs
<1>6. y = new
  BY <1>1 DEF TypeInv
<1> HIDE DEF new
<1>7. /\ th' = [u \in Threads |-> th'[u]]
      /\ \A u \in Threads \ {t} : /\ th'[u] = th[u] /\ CallOf(u)' = CallOf(u)
                                  /\ InFlight(u)' = InFlight(u)
                                  /\ \A z : UsesDb(u, z)' <=> UsesDb(u, z)
                                  /\ \A w : UsesCol(u, w)' <=> UsesCol(u, w)
                                  /\ \A w : Uses(u, w)' <=> Uses(u, w)
  BY <1>1, Others
<1>8. c.op = "collection" => IsCall(s, plan) /\ SameKind(s, c) /\ s.op = "open_collection"
  BY <1>3, RetryIs DEF TypeInv
<1> DEFINE Goal == /\ IsThread(y, plan)
                   /\ y.pc = "idle" => y.db = {} /\ y.w = {}
                   /\ y.pc # "idle" => SameKind(CallOf(t)', c) /\ y.db = x.db /\ y.w = x.w
                   /\ y = Idle \/ (~ Closes(c) /\ ~ (Makes(c) /\ r.ok) /\ c.op # "drop_collection")
                   /\ y.pc = "answered" => c.op = "search" /\ r.ok /\ CallOf(t)' = c /\ y.answer = r.answer
<1>9. ASSUME retried
      PROVE  Goal
  <2>1. y = Thread("ready", {s}, x.db, x.w, x.batch, {SpecOf(c)})
    <3>1. new = Retried(x, {SpecOf(c)}, {s})
      BY <1>9 DEF new
    <3> HIDE DEF x, y, s
    <3> QED
      BY <1>2, <1>6, <3>1, ThreadIs
  <2> HIDE DEF x, y, s
  <2>2. /\ y.pc = "ready" /\ y.call = {s} /\ y.db = x.db /\ y.w = x.w /\ y.batch = x.batch
        /\ y = Thread(y.pc, y.call, y.db, y.w, y.batch, y.answer)
    BY <2>1 DEF Thread
  <2>3. CallOf(t)' = s
    BY <2>2, OneOf DEF CallOf, y
  <2>4. IsBatch(x.batch, s, plan)
    BY <1>3, <1>8, <1>9 DEF IsBatch
  <2>5. IsThread(y, plan)
    BY <1>4, <1>5, <1>8, <1>9, <2>2, <2>4 DEF IsThread, Thread, SameKind
  <2>6. ~ Closes(c) /\ ~ (Makes(c) /\ r.ok) /\ c.op # "drop_collection"
    BY <1>9 DEF Closes
  <2> QED
    BY <1>8, <1>9, <2>2, <2>3, <2>5, <2>6
<1>10. ASSUME more
       PROVE  Goal
  <2>1. y = Thread("ready", x.call, x.db, x.w, Tail(x.batch), x.answer)
    <3>1. new = GoneOn(x)
      BY <1>10 DEF new
    <3> HIDE DEF x, y
    <3> QED
      BY <1>2, <1>6, <3>1, ThreadIs
  <2> HIDE DEF x, y
  <2>2. /\ y.pc = "ready" /\ y.call = {c} /\ y.db = x.db /\ y.w = x.w /\ y.batch = Tail(x.batch)
        /\ y = Thread(y.pc, y.call, y.db, y.w, y.batch, y.answer)
    BY <1>3, <2>1 DEF Thread
  <2>3. CallOf(t)' = c
    BY <2>2, OneOf DEF CallOf, y
  <2>4. IsBatch(Tail(x.batch), c, plan)
    BY <1>3, <1>10, TailIs DEF IsBatch
  <2>5. IsThread(y, plan)
    BY <1>3, <1>4, <1>5, <1>10, <2>2, <2>4 DEF IsThread, Thread
  <2>6. ~ Closes(c) /\ ~ (Makes(c) /\ r.ok) /\ c.op # "drop_collection"
    BY <1>10 DEF Closes, Makes
  <2> QED
    BY <1>10, <2>2, <2>3, <2>5, <2>6 DEF SameKind
<1>11. ASSUME ~ retried /\ ~ more /\ c.op = "search" /\ r.ok
       PROVE  Goal
  <2>1. y = Thread("answered", x.call, x.db, x.w, x.batch, r.answer)
    <3>1. new = WithAnswer(x, r.answer)
      BY <1>11 DEF new
    <3> HIDE DEF x, y
    <3> QED
      BY <1>2, <1>6, <3>1, ThreadIs
  <2> HIDE DEF x, y
  <2>2. /\ y.pc = "answered" /\ y.call = {c} /\ y.db = x.db /\ y.w = x.w /\ y.batch = x.batch
        /\ y.answer = r.answer
        /\ y = Thread(y.pc, y.call, y.db, y.w, y.batch, y.answer)
    BY <1>3, <2>1 DEF Thread
  <2>3. CallOf(t)' = c
    BY <2>2, OneOf DEF CallOf, y
  <2>4. IsThread(y, plan)
    BY <1>3, <1>4, <1>5, <1>11, <2>2 DEF IsThread, Thread
  <2>5. ~ Closes(c) /\ ~ (Makes(c) /\ r.ok) /\ c.op # "drop_collection"
    BY <1>11 DEF Closes, Makes
  <2> QED
    BY <1>11, <2>2, <2>3, <2>4, <2>5 DEF SameKind
<1>12. ASSUME ~ retried /\ ~ more /\ ~ (c.op = "search" /\ r.ok)
       PROVE  Goal
  <2>1. y = Idle
    BY <1>6, <1>12 DEF new
  <2> HIDE DEF x, y
  <2> QED
    BY <2>1, AtRest DEF Idle
<1>13. Goal
  BY <1>9, <1>10, <1>11, <1>12
<1>14. \A u \in Threads : th[u].pc = "idle" => th[u].db = {} /\ th[u].w = {}
  BY DEF TypeInv, IsThread, Idle
<1>15. NoMoreCalls
  <2>1. InFlight(t)
    BY DEF InFlight
  <2>2. \A u \in Threads \ {t} : SameKind(CallOf(u)', CallOf(u))
    BY <1>7 DEF SameKind
  <2> QED
    BY <1>7, <1>13, <1>14, <2>1, <2>2 DEF NoMoreCalls
<1>16. \A u \in Threads : IsThread(th'[u], plan)
  BY <1>7, <1>13 DEF TypeInv
<1>17. y.pc = "answered" => y.w = x.w
  BY <1>13
<1> QED
  BY <1>7, <1>13, <1>15, <1>16, <1>17

\* The filter counts in a search only.
LEMMA NoFilter ==
    ASSUME NEW sdk, NEW eng, NEW on, NEW c, NEW doc, NEW filter,
           c.op \in (DatabaseOps(sdk) \cup WrapperOps(sdk) \cup {"open_collection"}) \ {"search", "release"}
    PROVE  Native(sdk, eng, on, c, doc, filter) = Native(sdk, eng, on, c, doc, {})
<1>1. c.op \in NativeOps \ {"search", "open"}
  BY DEF DatabaseOps, WrapperOps, NativeOps, CallNames, CollectionOps
<1>2. Jni(eng, on, c, doc, filter) = Jni(eng, on, c, doc, {})
  BY <1>1 DEF Jni, NativeOps, CallNames, CollectionOps
<1>3. Node(eng, on, c, doc, filter) = Node(eng, on, c, doc, {})
  BY <1>1 DEF Node, NativeOps, CallNames, CollectionOps
<1>4. c.op # "list_collections" => CAbi(eng, on, c, doc, filter) = CAbi(eng, on, c, doc, {})
  BY <1>1 DEF CAbi, NativeOps, CallNames, CollectionOps
<1>5. sdk \notin {"android", "node"} => c.op # "list_collections"
  BY DEF DatabaseOps, WrapperOps
<1> QED
  BY <1>2, <1>3, <1>4, <1>5 DEF Native

\* The collection wrapper a call made.
Built(c, d, w, r) ==
    cols' = IF Makes(c) /\ r.ok
            THEN [cols EXCEPT ![w] =
                     [flag |-> "open", box |-> "live", db |-> {d}, name |-> {c.name},
                      asked |-> cols'[w].asked]]
            ELSE cols

\* A search answered what one of its filters selects.
Found(c, d, w, r) ==
    \E f \in CompiledFilter(plan.sdk, c), n \in Names :
        /\ cols[w].db = {d} /\ cols[w].name = {n}
        /\ r.e = e /\ r.answer = Selected(e, [db |-> d, name |-> n], f)

\* What the native function returned did and answered.
Did(t, r) ==
    LET c == CallOf(t)
        d == CHOOSE x \in th[t].db : TRUE
        w == CHOOSE x \in th[t].w : TRUE
    IN  /\ e' = r.e /\ Left(t, c, r) /\ Built(c, d, w, r)
        /\ IF c.op = "close" THEN Shut(e, r.e, {d}, plan)
           ELSE Kept(e, r.e, IF c.op = "drop_collection" THEN {c.name} ELSE {}, plan)
        /\ Makes(c) /\ r.ok => r.e.inst[d].reg[c.name] # {}
        /\ c.op = "search" /\ r.ok => Found(c, d, w, r)

LEMMA LeaveIs ==
    ASSUME Inv, NEW t \in Threads, Leave(t)
    PROVE  \E r : Did(t, r)
<1> DEFINE c == CallOf(t)
           d == CHOOSE x \in th[t].db : TRUE
           w == CHOOSE x \in th[t].w : TRUE
           on == IF OnWrapper(c) THEN [db |-> d, name |-> CHOOSE n \in cols[w].name : TRUE]
                 ELSE [db |-> d, name |-> c.name]
           item == IF th[t].batch = <<>> THEN [id |-> c.id, written |-> NoFields] ELSE Head(th[t].batch)
           doc == [meta |-> CHOOSE m \in CompiledMetadata(plan.sdk, item.written) : TRUE,
                   written |-> item.written]
           filter == CHOOSE f \in CompiledFilter(plan.sdk, c) : TRUE
<1>1. misuse = {} /\ th[t].pc = "inside"
  BY DEF Leave
<1>2. PICK io \in BOOLEAN :
        LET given == [c EXCEPT !.io = io, !.id = item.id]
        IN  \E r \in {Native(plan.sdk, e, on, given, doc, filter)} :
              /\ e' = r.e /\ Left(t, c, r)
              /\ cols' = IF Makes(c) /\ r.ok
                         THEN [cols EXCEPT ![w] =
                                  [flag |-> "open", box |-> "live", db |-> {d}, name |-> {c.name},
                                   asked |-> th[t].answer \cup
                                             (IF c.op = "collection" THEN {SpecOf(c)} ELSE {})]]
                         ELSE cols
  BY DEF Leave, Left
<1> DEFINE given == [c EXCEPT !.io = io, !.id = item.id]
           r == Native(plan.sdk, e, on, given, doc, filter)
<1>3. /\ e' = r.e /\ Left(t, c, r)
      /\ cols' = IF Makes(c) /\ r.ok
                 THEN [cols EXCEPT ![w] =
                          [flag |-> "open", box |-> "live", db |-> {d}, name |-> {c.name},
                           asked |-> th[t].answer \cup
                                     (IF c.op = "collection" THEN {SpecOf(c)} ELSE {})]]
                 ELSE cols
  BY <1>2
<1>4. TypeInv /\ app \in DOMAIN Plans /\ IsEngine(e, plan)
  BY DEF Inv, TypeInv
<1>5. /\ IsCall(c, plan) /\ IsBatch(th[t].batch, c, plan)
      /\ d \in Instances /\ th[t].db = {d}
      /\ OnWrapper(c) \/ Makes(c) => w \in Wrappers /\ th[t].w = {w}
  BY <1>1, <1>4, CallIs, HandIs
<1>6. c.op # "release"
  <2>1. IsThread(th[t], plan) /\ th[t].call = {c}
    BY <1>1, <1>4, CallIs DEF TypeInv
  <2> QED
    BY <1>1, <2>1 DEF IsThread
<1>7. /\ c = CallRecord(c) /\ c.op \in NativeOps \ {"open"} /\ c.name \in Names /\ c.id \in Ids
      /\ {c.dim, c.top_k} \subseteq Nat /\ c.arg \in {"ok", "unknown"} /\ c.ids = "str"
      /\ c.op # "open_collection" => c \in plan.calls
  BY <1>4, <1>5, <1>6, CallTyped
<1>8. OnWrapper(c) => \E n \in Names : cols[w].db = {d} /\ cols[w].name = {n} /\ e.inst[d].reg[n] # {}
  <2> SUFFICES ASSUME OnWrapper(c)
               PROVE  \E n \in Names : cols[w].db = {d} /\ cols[w].name = {n} /\ e.inst[d].reg[n] # {}
    OBVIOUS
  <2>1. Named(w) /\ Uses(t, w)
    BY <1>1, <1>5 DEF Inv, Uses
  <2>2. cols[w].db = {d}
    BY <1>5, <2>1 DEF Named
  <2>3. PICK y \in Instances, n \in Names : cols[w].db = {y} /\ cols[w].name = {n} /\ e.inst[y].reg[n] # {}
    BY <2>1 DEF Named, Wanted
  <2>4. y = d
    BY <2>2, <2>3
  <2> QED
    BY <2>3, <2>4
<1>9. /\ on.db = d /\ on.name \in Names
      /\ OnWrapper(c) => /\ cols[w].db = {d} /\ cols[w].name = {on.name} /\ e.inst[d].reg[on.name] # {}
                         /\ on = [db |-> d, name |-> on.name]
  <2>1. CASE OnWrapper(c)
    <3>1. PICK n \in Names : cols[w].db = {d} /\ cols[w].name = {n} /\ e.inst[d].reg[n] # {}
      BY <1>8, <2>1
    <3>2. (CHOOSE x \in cols[w].name : TRUE) = n
      BY <3>1, OneOf
    <3>3. on = [db |-> d, name |-> n]
      BY <2>1, <3>2
    <3> HIDE DEF on
    <3> QED
      BY <3>1, <3>3
  <2>2. CASE ~ OnWrapper(c)
    <3>1. on = [db |-> d, name |-> c.name]
      BY <2>2
    <3> HIDE DEF on
    <3> QED
      BY <1>7, <2>2, <3>1
  <2> QED
    BY <2>1, <2>2
<1>10. /\ item.id \in Ids
       /\ c.op = "upsert" => /\ item.written \in WrittenBy(plan)
                             /\ CompiledMetadata(plan.sdk, item.written) # {}
  <2>1. CASE th[t].batch = <<>>
    BY <1>5, <1>7, <2>1 DEF IsBatch
  <2>2. CASE th[t].batch # <<>>
    <3> DEFINE b == th[t].batch
    <3>1. b \in Seq(Range(b)) /\ \A x \in Range(b) : /\ x.id \in Ids /\ x.written \in WrittenBy(plan)
                                                     /\ CompiledMetadata(plan.sdk, x.written) # {}
      BY <1>5 DEF IsBatch
    <3> HIDE DEF b
    <3>2. b # <<>> => Head(b) \in Range(b)
      BY <3>1
    <3>3. item = Head(b)
      BY <2>2 DEF b
    <3> HIDE DEF item
    <3> QED
      BY <2>2, <3>1, <3>2, <3>3 DEF b
  <2> QED
    BY <2>1, <2>2
<1>11. c.op = "upsert" => IsDoc(doc, plan)
  <2> DEFINE meta == CHOOSE m \in CompiledMetadata(plan.sdk, item.written) : TRUE
  <2>1. c.op = "upsert" => meta \in CompiledMetadata(plan.sdk, item.written)
    BY <1>10
  <2>2. doc.meta = meta /\ doc.written = item.written /\ doc = [meta |-> doc.meta, written |-> doc.written]
    OBVIOUS
  <2> HIDE DEF meta, doc, item
  <2> QED
    BY <1>10, <2>1, <2>2 DEF IsDoc
<1> HIDE DEF item, doc
<1>12. /\ given = CallRecord(given) /\ given.op = c.op /\ given.name = c.name /\ given.id = item.id
       /\ given.dim = c.dim /\ given.top_k = c.top_k /\ given.arg = c.arg /\ given.ids = c.ids
  <2> DEFINE first == [c EXCEPT !.io = io]
  <2>1. given = [first EXCEPT !.id = item.id]
    OBVIOUS
  <2> HIDE DEF c, given
  <2>2. /\ first = CallRecord(first) /\ first.op = c.op /\ first.name = c.name
        /\ first.dim = c.dim /\ first.top_k = c.top_k /\ first.arg = c.arg /\ first.ids = c.ids
    BY <1>7 DEF CallRecord
  <2> HIDE DEF first
  <2> QED
    BY <2>1, <2>2 DEF CallRecord
<1> HIDE DEF given, c, d, w, on, filter
<1>13. Fits(e, on, given, doc, plan)
  BY <1>5, <1>7, <1>9, <1>10, <1>12 DEF Fits, OnWrapper
<1>14. given.op \in (DatabaseOps(plan.sdk) \cup WrapperOps(plan.sdk) \cup {"open_collection"}) \ {"release"}
  BY <1>5, <1>6, <1>12 DEF IsCall
<1> DEFINE f == IF c.op = "search" THEN filter ELSE {}
<1>15. r = Native(plan.sdk, e, on, given, doc, f)
  BY <1>12, <1>14, NoFilter
<1>16. /\ c.op = "search" => filter \in CompiledFilter(plan.sdk, c)
       /\ f = {} \/ \E g \in f : f = {g}
  <2>1. ASSUME c.op = "search"
        PROVE  filter \in CompiledFilter(plan.sdk, c)
    BY <1>5, <2>1 DEF IsCall, filter
  <2>2. c.op = "search" => c \in plan.calls
    BY <1>7
  <2> QED
    BY <1>4, <2>1, <2>2, PlanIs
<1> HIDE DEF f, r
<1>17. Makes(given) <=> Makes(c)
  BY <1>12 DEF Makes
<1>18. ASSUME c.op # "close"
       PROVE  /\ Kept(e, r.e, IF given.op = "drop_collection" THEN {given.name} ELSE {}, plan)
              /\ Makes(given) /\ r.ok => r.e.inst[on.db].reg[given.name] # {}
              /\ given.op = "search" /\ r.ok => r.answer = Selected(e, on, f) /\ r.e = e
  <2>1. given.op \in DatabaseOps(plan.sdk) \cup WrapperOps(plan.sdk) \cup {"open_collection"}
    BY <1>14
  <2>2. given.op # "close" /\ (given.op = "upsert" => IsDoc(doc, plan))
    BY <1>11, <1>12, <1>18
  <2>3. IsEngine(e, plan)
    BY <1>4
  <2> DEFINE n == Native(plan.sdk, e, on, given, doc, f)
  <2>4. /\ Kept(e, n.e, IF given.op = "drop_collection" THEN {given.name} ELSE {}, plan)
        /\ Makes(given) /\ n.ok => n.e.inst[on.db].reg[given.name] # {}
        /\ given.op = "search" /\ n.ok => n.answer = Selected(e, on, f) /\ n.e = e
    BY <1>13, <1>16, <2>1, <2>2, <2>3, NativeKeeps, Zenon
  <2>5. n = r
    BY <1>15
  <2> HIDE DEF n
  <2> QED
    BY <2>4, <2>5
<1>19. IF c.op = "close" THEN Shut(e, r.e, {d}, plan)
       ELSE Kept(e, r.e, IF c.op = "drop_collection" THEN {c.name} ELSE {}, plan)
  <2>1. CASE c.op = "close"
    BY <1>4, <1>9, <1>12, <1>13, <1>15, <1>16, <2>1, NativeCloses
  <2>2. CASE c.op # "close"
    BY <1>12, <1>18, <2>2
  <2> QED
    BY <2>1, <2>2
<1>20. c.op # "close" => /\ Makes(c) /\ r.ok => r.e.inst[d].reg[c.name] # {}
                         /\ c.op = "search" /\ r.ok => r.answer = Selected(e, on, f) /\ r.e = e
  BY <1>9, <1>12, <1>17, <1>18
<1>21. c.op = "search" /\ r.ok => Found(c, d, w, r)
  <2> SUFFICES ASSUME c.op = "search", r.ok
               PROVE  Found(c, d, w, r)
    OBVIOUS
  <2>1. OnWrapper(c)
    BY DEF OnWrapper, CollectionOps
  <2>2. cols[w].db = {d} /\ cols[w].name = {on.name} /\ on = [db |-> d, name |-> on.name] /\ on.name \in Names
    BY <1>9, <2>1
  <2>3. r.e = e /\ r.answer = Selected(e, on, f)
    BY <1>20
  <2>4. f \in CompiledFilter(plan.sdk, c)
    BY <1>16 DEF f
  <2> QED
    BY <2>2, <2>3, <2>4 DEF Found
<1>22. Built(c, d, w, r)
  <2>1. CASE Makes(c) /\ r.ok
    <3> DEFINE asked == th[t].answer \cup (IF c.op = "collection" THEN {SpecOf(c)} ELSE {})
               new == [flag |-> "open", box |-> "live", db |-> {d}, name |-> {c.name}, asked |-> asked]
    <3>1. cols' = [cols EXCEPT ![w] = new]
      BY <1>3, <2>1
    <3>2. w \in Wrappers /\ DOMAIN cols = Wrappers
      BY <1>4, <1>5, <2>1 DEF TypeInv
    <3> HIDE DEF asked
    <3>3. cols'[w].asked = asked
      BY <3>1, <3>2
    <3> QED
      BY <2>1, <3>1, <3>3 DEF Built
  <2>2. CASE ~ (Makes(c) /\ r.ok)
    BY <1>3, <2>2 DEF Built
  <2> QED
    BY <2>1, <2>2
<1>23. c.op = "close" => ~ Makes(c)
  BY DEF Makes
<1>24. c.op = "close" => c.op # "search"
  OBVIOUS
<1> QED
  BY <1>3, <1>19, <1>20, <1>21, <1>22, <1>23 DEF Did, c, d, w

\* What a native function does to instances that its call does not close.
EngineKept(c, d, r) ==
    /\ IsEngine(r, plan) /\ LockHeld(r)
    /\ \A x \in Instances : c.op # "close" \/ x # d => r.inst[x].closed = e.inst[x].closed
    /\ c.op = "close" => r.inst[d].closed
    /\ \A x \in Instances, n \in Names :
          e.inst[x].reg[n] # {} /\ ~ (c.op = "drop_collection" /\ c.name = n) => r.inst[x].reg[n] # {}

LEMMA LeftEngine ==
    ASSUME TypeInv, NEW c, NEW d \in Instances, NEW r,
           IF c.op = "close" THEN Shut(e, r, {d}, plan)
           ELSE Kept(e, r, IF c.op = "drop_collection" THEN {c.name} ELSE {}, plan)
    PROVE  EngineKept(c, d, r)
<1> USE DEF EngineKept
<1>1. \A x \in Instances : e.inst[x].closed \in BOOLEAN
  BY DEF TypeInv, IsEngine
<1>2. CASE c.op = "close"
  <2>1. Shut(e, r, {d}, plan)
    BY <1>2
  <2>2. IsEngine(r, plan) /\ LockHeld(r)
    BY <2>1, ShutKeeps DEF TypeInv
  <2>3. \A x \in Instances : r.inst[x].closed = (x = d \/ e.inst[x].closed) /\ r.inst[x].reg = e.inst[x].reg
    BY <2>1 DEF Shut
  <2> QED
    BY <1>1, <1>2, <2>2, <2>3
<1>3. CASE c.op # "close"
  <2> DEFINE gone == IF c.op = "drop_collection" THEN {c.name} ELSE {}
  <2>1. Kept(e, r, gone, plan)
    BY <1>3
  <2>2. IsEngine(r, plan) /\ LockHeld(r)
    BY <2>1 DEF Kept, LockHeld, TypeInv
  <2>3. \A n \in Names : ~ (c.op = "drop_collection" /\ c.name = n) => n \in Names \ gone
    OBVIOUS
  <2> HIDE DEF gone
  <2>4. \A x \in Instances : /\ r.inst[x].closed = e.inst[x].closed
                             /\ \A n \in Names \ gone : e.inst[x].reg[n] # {} => r.inst[x].reg[n] # {}
    BY <2>1 DEF Kept
  <2> QED
    BY <1>3, <2>2, <2>3, <2>4
<1> QED
  BY <1>2, <1>3

LEMMA LeaveKeeps ==
    ASSUME Inv, NEW t \in Threads, Leave(t)
    PROVE  Inv'
<1> DEFINE c == CallOf(t)
           d == CHOOSE x \in th[t].db : TRUE
           w == CHOOSE x \in th[t].w : TRUE
<1>1. /\ misuse = {} /\ th[t].pc = "inside"
      /\ app' = app /\ dbs' = dbs /\ misuse' = misuse /\ careless' = careless /\ plan' = plan
  BY DEF Leave, plan
<1>2. TypeInv
  BY DEF Inv
<1>3. PICK r : Did(t, r)
  BY LeaveIs
<1>4. /\ d \in Instances /\ th[t].db = {d}
      /\ OnWrapper(c) \/ Makes(c) => w \in Wrappers /\ th[t].w = {w}
      /\ IsCall(c, plan)
  BY <1>1, <1>2, HandIs, CallIs
<1>5. /\ e' = r.e /\ Left(t, c, r) /\ Built(c, d, w, r)
      /\ IF c.op = "close" THEN Shut(e, r.e, {d}, plan)
         ELSE Kept(e, r.e, IF c.op = "drop_collection" THEN {c.name} ELSE {}, plan)
      /\ Makes(c) /\ r.ok => r.e.inst[d].reg[c.name] # {}
  BY <1>3 DEF Did
<1>6. c.op # "release" /\ c.name \in Names
  <2>1. IsThread(th[t], plan) /\ th[t].call = {c}
    BY <1>1, <1>2, CallIs DEF TypeInv
  <2>2. c.name \in Names
    BY <1>2, <1>4, CallTyped DEF TypeInv
  <2> QED
    BY <1>1, <2>1, <2>2 DEF IsThread
<1>7. /\ NoMoreCalls /\ th' = [u \in Threads |-> th'[u]] /\ \A u \in Threads : IsThread(th'[u], plan)
      /\ \A u \in Threads \ {t} : /\ th'[u] = th[u] /\ CallOf(u)' = CallOf(u)
                                  /\ \A x : UsesDb(u, x)' <=> UsesDb(u, x)
                                  /\ \A x : UsesCol(u, x)' <=> UsesCol(u, x)
                                  /\ \A x : Uses(u, x)' <=> Uses(u, x)
      /\ th'[t] = Idle \/ (~ Closes(c) /\ ~ (Makes(c) /\ r.ok) /\ c.op # "drop_collection")
  BY <1>1, <1>2, <1>5, LeftThread
<1>8. /\ IsEngine(e', plan) /\ LockHeld(e')
      /\ \A x \in Instances : c.op # "close" \/ x # d => e'.inst[x].closed = e.inst[x].closed
      /\ c.op = "close" => e'.inst[d].closed
      /\ \A x \in Instances, n \in Names :
            e.inst[x].reg[n] # {} /\ ~ (c.op = "drop_collection" /\ c.name = n) => e'.inst[x].reg[n] # {}
  <2> DEFINE eng == r.e
  <2>1. e' = eng /\ d \in Instances
    BY <1>4, <1>5
  <2>2. ASSUME c.op = "close"
        PROVE  Shut(e, eng, {d}, plan)
    BY <1>5, <2>2
  <2>3. ASSUME c.op # "close"
        PROVE  Kept(e, eng, IF c.op = "drop_collection" THEN {c.name} ELSE {}, plan)
    BY <1>5, <2>3
  <2> HIDE DEF eng, c, d
  <2>4. EngineKept(c, d, eng)
    BY <1>2, <2>1, <2>2, <2>3, LeftEngine
  <2> QED
    BY <2>1, <2>4 DEF EngineKept
<1>9. /\ \A x : UsesDb(t, x) => ~ OnWrapper(c) /\ {x} = {d}
      /\ \A x : UsesCol(t, x) => OnWrapper(c) /\ {x} = {w}
      /\ ~ OnWrapper(c) => UsesDb(t, d)
  BY <1>1, <1>4 DEF UsesDb, UsesCol, InFlight
<1>10. /\ \A x : UsesDb(t, x)' => UsesDb(t, x) /\ ~ Closes(CallOf(t)')
       /\ \A x : UsesCol(t, x)' => UsesCol(t, x) /\ ~ Closes(CallOf(t)')
  <2>1. CASE th'[t] = Idle
    BY <2>1, RestPrime
  <2>2. CASE ~ Closes(c)
    BY <1>7, <2>2, UsesNoMore DEF SameKind
  <2> QED
    BY <1>7, <2>1, <2>2
<1>11. Closes(c) <=> c.op = "close"
  BY <1>6 DEF Closes
<1> HIDE DEF c, d, w
<1>12. ASSUME NEW x \in Instances
       PROVE  DbBox(x)'
  <2>1. DbBox(x)
    BY <1>1 DEF Inv
  <2>2. dbs'[x] = dbs[x]
    BY <1>1
  <2>3. \A u \in Threads : th[u].pc = "ready" => u # t
    BY <1>1
  <2>4. dbs[x].flag = "closed" /\ dbs[x].box = "live" =>
           \E u \in Threads : th'[u].pc = "ready" /\ UsesDb(u, x)' /\ Closes(CallOf(u)')
    BY <1>7, <2>1, <2>3 DEF DbBox
  <2>5. \A u \in Threads : th'[u].pc = "inside" /\ UsesDb(u, x)' /\ Closes(CallOf(u)') => dbs[x].box = "freed"
    BY <1>7, <1>10, <2>1 DEF DbBox
  <2>6. dbs[x].flag = "unused" => (\A u \in Threads : th[u].db # {x}) /\ \A y \in Wrappers : cols[y].db # {x}
    BY <2>1 DEF DbBox
  <2>7. ASSUME dbs[x].flag = "unused"
        PROVE  (\A u \in Threads : th'[u].db # {x}) /\ \A y \in Wrappers : cols'[y].db # {x}
    <3>1. {d} # {x}
      BY <1>4, <2>6, <2>7
    <3>2. \A y \in Wrappers : cols'[y].db \in {cols[y].db, {d}}
      <4>1. CASE Makes(c) /\ r.ok
        <5> DEFINE new == [flag |-> "open", box |-> "live", db |-> {d}, name |-> {c.name}, asked |-> cols'[w].asked]
        <5>1. cols' = [cols EXCEPT ![w] = new]
          BY <1>5, <4>1 DEF Built
        <5>2. new.db = {d}
          OBVIOUS
        <5>3. DOMAIN cols = Wrappers
          BY <1>2 DEF TypeInv
        <5> HIDE DEF new
        <5> QED
          BY <5>1, <5>2, <5>3
      <4>2. CASE ~ (Makes(c) /\ r.ok)
        BY <1>5, <4>2 DEF Built
      <4> QED
        BY <4>1, <4>2
    <3>3. \A u \in Threads : th'[u].db # {x}
      BY <1>7, <2>6, <2>7 DEF NoMoreCalls
    <3> QED
      BY <2>6, <2>7, <3>1, <3>2, <3>3
  <2>8. CASE c.op = "close" /\ x = d
    <3>1. UsesDb(t, d) /\ Closes(CallOf(t))
      BY <1>9, <1>11, <2>8 DEF OnWrapper, CollectionOps, c
    <3>2. dbs[x].box = "freed"
      BY <1>1, <2>1, <2>8, <3>1 DEF DbBox
    <3>3. e'.inst[x].closed
      BY <1>8, <2>8
    <3>4. dbs[x].flag # "unused" /\ dbs[x].flag # "open"
      BY <2>1, <3>2 DEF DbBox
    <3> QED
      BY <2>2, <3>2, <3>3, <3>4 DEF DbBox
  <2>9. CASE c.op # "close" \/ x # d
    <3>1. e'.inst[x].closed = e.inst[x].closed
      BY <1>8, <2>9
    <3>2. ~ (UsesDb(t, x) /\ Closes(CallOf(t)))
      BY <1>9, <1>11, <2>9 DEF c
    <3>3. dbs[x].box # "live" /\ ~ e'.inst[x].closed =>
             \E u \in Threads : th'[u].pc = "inside" /\ UsesDb(u, x)' /\ Closes(CallOf(u)')
      BY <1>7, <2>1, <3>1, <3>2 DEF DbBox
    <3>4. /\ dbs[x].flag = "unused" <=> dbs[x].box = "none"
          /\ dbs[x].flag = "open" => dbs[x].box = "live"
          /\ dbs[x].box = "live" => ~ e'.inst[x].closed
      BY <2>1, <3>1 DEF DbBox
    <3> QED
      BY <2>2, <2>4, <2>5, <2>7, <3>3, <3>4 DEF DbBox
  <2> QED
    BY <2>8, <2>9
<1>13. CASE Makes(c) /\ r.ok
  <2> DEFINE new == [flag |-> "open", box |-> "live", db |-> {d}, name |-> {c.name}, asked |-> cols'[w].asked]
  <2>1. cols' = [cols EXCEPT ![w] = new]
    BY <1>5, <1>13 DEF Built
  <2>2. new.flag = "open" /\ new.box = "live" /\ new.db = {d} /\ new.name = {c.name} /\ IsCol(new)
    BY DEF IsCol
  <2> HIDE DEF new
  <2>3. w \in Wrappers /\ th[t].w = {w} /\ ~ OnWrapper(c) /\ c.op # "drop_collection"
    BY <1>4, <1>13 DEF Makes, OnWrapper, CollectionOps
  <2>4. DOMAIN cols = Wrappers /\ \A x \in Wrappers : IsCol(cols[x])
    BY <1>2 DEF TypeInv, IsCol
  <2>5. cols'[w] = new /\ \A x \in Wrappers : x # w => cols'[x] = cols[x]
    BY <2>1, <2>3, <2>4
  <2>6. th'[t] = Idle
    BY <1>7, <1>13
  <2>7. th'[t].pc = "idle" /\ th'[t].w = {} /\ (\A x : ~ UsesDb(t, x)') /\ (\A x : ~ UsesCol(t, x)')
    BY <2>6, RestPrime
  <2>8. cols[w].flag = "unused" /\ \A u \in Threads \ {t} : th[u].w # {w}
    BY <1>1, <1>13, <2>3 DEF Inv, MakesAlone, c
  <2>9. TypeInv'
    <3>1. cols = [x \in Wrappers |-> cols[x]]
      BY <1>2 DEF TypeInv
    <3>2. cols' = [x \in Wrappers |-> cols'[x]]
      BY <2>1, <3>1
    <3>3. cols' = [x \in Wrappers |-> [flag |-> cols'[x].flag, box |-> cols'[x].box, db |-> cols'[x].db,
                                       name |-> cols'[x].name, asked |-> cols'[x].asked]]
      BY <2>2, <2>4, <2>5, <3>2 DEF IsCol
    <3>4. \A x \in Wrappers : cols'[x].flag \in Flags /\ cols'[x].box \in Boxes
      BY <1>2, <2>2, <2>5 DEF TypeInv, Flags, Boxes
    <3> QED
      BY <1>1, <1>2, <1>7, <1>8, <3>3, <3>4 DEF TypeInv
  <2>10. ASSUME NEW x \in Wrappers
         PROVE  ColBox(x)' /\ Named(x)'
    <3>1. ColBox(x) /\ Named(x)
      BY <1>1 DEF Inv
    <3>2. \A u \in Threads : Uses(u, x)' => u # t /\ Uses(u, x) /\ th'[u].db = th[u].db
      BY <1>7, <2>7 DEF Uses
    <3>3. CASE x = w
      <4>1. ColBox(x)'
        BY <2>2, <2>5, <3>3 DEF ColBox
      <4>2. \A u \in Threads : ~ Uses(u, x)'
        BY <2>8, <3>2, <3>3 DEF Uses
      <4>3. cols'[x].db = {d} /\ cols'[x].name = {c.name} /\ e'.inst[d].reg[c.name] # {} /\ cols'[x].flag = "open"
        BY <1>5, <1>13, <2>2, <2>5, <3>3
      <4>4. Named(x)'
        BY <1>4, <1>6, <4>2, <4>3 DEF Named
      <4> QED
        BY <4>1, <4>4
    <3>4. CASE x # w
      <4>1. cols'[x] = cols[x]
        BY <2>5, <3>4
      <4>2. ~ UsesCol(t, x)
        BY <1>9, <2>3
      <4>3. ColBox(x)'
        BY <1>1, <1>7, <3>1, <4>1, <4>2 DEF ColBox
      <4>4. Wanted(x)' => Wanted(x)
        BY <3>2, <4>1 DEF Wanted
      <4>5. Wanted(x)' => \E y \in Instances, n \in Names :
               cols'[x].db = {y} /\ cols'[x].name = {n} /\ e'.inst[y].reg[n] # {}
        <5>1. SUFFICES ASSUME Wanted(x)'
                       PROVE  \E y \in Instances, n \in Names :
                                 cols'[x].db = {y} /\ cols'[x].name = {n} /\ e'.inst[y].reg[n] # {}
          OBVIOUS
        <5>2. PICK y \in Instances, n \in Names : cols[x].db = {y} /\ cols[x].name = {n} /\ e.inst[y].reg[n] # {}
          BY <3>1, <4>4, <5>1 DEF Named
        <5>3. e'.inst[y].reg[n] # {}
          BY <1>8, <2>3, <5>2
        <5> QED
          BY <4>1, <5>2, <5>3
      <4>6. \A u \in Threads : Uses(u, x)' => th'[u].db = cols'[x].db
        BY <3>1, <3>2, <4>1 DEF Named
      <4>7. Named(x)'
        BY <3>1, <4>1, <4>5, <4>6 DEF Named
      <4> QED
        BY <4>3, <4>7
    <3> QED
      BY <3>3, <3>4
  <2>11. DropAlone'
    <3>1. \A s \in Threads : th'[s].pc # "idle" => CallOf(s)'.op # "drop_collection"
      <4> SUFFICES ASSUME NEW s \in Threads, th'[s].pc # "idle", CallOf(s)'.op = "drop_collection"
                   PROVE  FALSE
        OBVIOUS
      <4>1. s # t /\ th[s].pc # "idle" /\ CallOf(s).op = "drop_collection"
        BY <1>7, <2>7
      <4>2. DropAlone
        BY <1>1 DEF Inv
      <4> QED
        BY <1>1, <1>13, <4>1, <4>2 DEF DropAlone, c
    <3> QED
      BY <3>1 DEF DropAlone
  <2>12. MakesAlone'
    <3> SUFFICES ASSUME NEW s \in Threads, NEW x \in Wrappers,
                        th'[s].pc # "idle", Makes(CallOf(s)'), th'[s].w = {x}
                 PROVE  cols'[x].flag = "unused" /\ \A u \in Threads \ {s} : th'[u].w # {x}
      BY DEF MakesAlone
    <3>1. s # t /\ th[s].pc # "idle" /\ Makes(CallOf(s)) /\ th[s].w = {x}
      BY <1>7, <2>7
    <3>2. cols[x].flag = "unused" /\ \A u \in Threads \ {s} : th[u].w # {x}
      BY <1>1, <3>1 DEF Inv, MakesAlone
    <3>3. x # w
      BY <2>8, <3>1
    <3> QED
      BY <1>7, <2>5, <2>7, <3>2, <3>3
  <2>13. ClosesAlone => ClosesAlone'
    BY <1>7, UsesNoMore DEF ClosesAlone, SameKind
  <2>14. UsedOpen => UsedOpen'
    <3> SUFFICES ASSUME UsedOpen
                 PROVE  UsedOpen'
      OBVIOUS
    <3>1. ASSUME NEW s \in Threads, NEW x \in Instances, UsesDb(s, x)'
          PROVE  IF Closes(CallOf(s)') THEN th'[s].pc = "ready" => dbs'[x].box = "live"
                 ELSE dbs'[x].flag = "open"
      BY <1>1, <1>7, <2>7, <3>1 DEF UsedOpen
    <3>2. ASSUME NEW s \in Threads, NEW x \in Wrappers, UsesCol(s, x)'
          PROVE  IF Closes(CallOf(s)') THEN th'[s].pc = "ready" => cols'[x].box = "live"
                 ELSE cols'[x].flag = "open"
      <4>1. s # t /\ UsesCol(s, x) /\ CallOf(s)' = CallOf(s) /\ th'[s] = th[s]
        BY <1>7, <2>7, <3>2
      <4>2. x # w
        BY <2>8, <4>1 DEF UsesCol
      <4>3. cols'[x] = cols[x]
        BY <2>5, <4>2
      <4> QED
        BY <4>1, <4>3 DEF UsedOpen
    <3> QED
      BY <3>1, <3>2 DEF UsedOpen
  <2> QED
    BY <1>1, <1>12, <2>9, <2>10, <2>11, <2>12, <2>13, <2>14 DEF Inv, MisuseNeedsOverlap
<1>14. CASE ~ (Makes(c) /\ r.ok)
  <2>1. cols' = cols
    BY <1>5, <1>14 DEF Built
  <2>2. NoMoreWrappers
    BY <2>1 DEF NoMoreWrappers
  <2>3. TypeInv'
    BY <1>1, <1>2, <1>7, <1>8, <2>1 DEF TypeInv
  <2>4. ASSUME NEW x \in Wrappers
        PROVE  ColBox(x)' /\ Named(x)'
    <3>1. ColBox(x) /\ Named(x)
      BY <1>1 DEF Inv
    <3>2. \A u \in Threads : th[u].pc = "ready" => u # t
      BY <1>1
    <3>3. ColBox(x)'
      BY <1>1, <1>7, <2>1, <3>1, <3>2 DEF ColBox
    <3>4. ASSUME Wanted(x), NEW y \in Instances, NEW n \in Names, cols[x].name = {n}, e.inst[y].reg[n] # {}
          PROVE  e'.inst[y].reg[n] # {}
      <4>1. ASSUME c.op = "drop_collection"
            PROVE  cols[x].name # {c.name}
        <5>1. DropAlone
          BY <1>1 DEF Inv
        <5>2. ~ OnWrapper(CallOf(t)) /\ th[t].pc # "idle" /\ CallOf(t).op = "drop_collection"
          BY <1>1, <4>1 DEF OnWrapper, CollectionOps, c
        <5>3. CASE cols[x].flag = "open"
          BY <5>1, <5>2, <5>3 DEF DropAlone, c
        <5>4. ASSUME NEW u \in Threads, Uses(u, x)
              PROVE  cols[x].name # {c.name}
          <6>1. u \in Threads \ {t}
            BY <5>2, <5>4 DEF Uses
          <6> QED
            BY <5>1, <5>2, <5>4, <6>1 DEF DropAlone, Uses, c
        <5> QED
          BY <3>4, <5>3, <5>4 DEF Wanted
      <4>2. ~ (c.op = "drop_collection" /\ c.name = n)
        BY <3>4, <4>1
      <4> QED
        BY <1>8, <3>4, <4>2
    <3>5. Named(x)'
      BY <1>2, <1>7, <2>2, <3>1, <3>4, NamesStill
    <3> QED
      BY <3>3, <3>5
  <2>5. UsedOpen => UsedOpen'
    <3>1. \A s \in Threads : /\ \A x \in Instances : UsesDb(s, x)' => UsesDb(s, x) /\ SameKind(CallOf(s)', CallOf(s))
                             /\ \A x \in Wrappers : UsesCol(s, x)' => UsesCol(s, x) /\ SameKind(CallOf(s)', CallOf(s))
      BY <1>7, UsesNoMore
    <3>2. \A s \in Threads \ {t} : th'[s] = th[s]
      BY <1>7
    <3> QED
      BY <1>1, <1>10, <2>1, <3>1, <3>2 DEF UsedOpen, SameKind
  <2> QED
    BY <1>1, <1>7, <1>12, <2>2, <2>3, <2>4, <2>5, ApartStill DEF Inv, MisuseNeedsOverlap
<1> QED
  BY <1>13, <1>14

-------------------------------------------------------------------------------
(* The invariant holds from the start and after every step. *)

LEMMA InitInv ==
    ASSUME Init
    PROVE  Inv
<1> DEFINE none == [n \in Names |-> {}]
           inst0 == [mode |-> "rw", closed |-> TRUE, reg |-> none]
           db0 == [flag |-> "unused", box |-> "none"]
           col0 == [flag |-> "unused", box |-> "none", db |-> {}, name |-> {}, asked |-> {}]
<1>1. /\ app \in DOMAIN Plans /\ misuse = {} /\ careless = FALSE
      /\ e = [made |-> FALSE, coll |-> none, lock |-> {}, inst |-> [d \in Instances |-> inst0]]
      /\ dbs = [d \in Instances |-> db0]
      /\ cols = [w \in Wrappers |-> col0]
      /\ th = [t \in Threads |-> Idle]
  BY DEF Init
<1>2. \A t \in Threads : th[t] = Idle
  BY <1>1
<1>3. \A t \in Threads : th[t].pc = "idle" /\ th[t].db = {} /\ ~ InFlight(t) /\ IsThread(th[t], plan)
  BY <1>2, AtRest
<1>4. IsEngine(e, plan) /\ LockHeld(e) /\ \A d \in Instances : e.inst[d].closed
  <2>1. IsReg(none, plan)
    BY DEF IsReg
  <2> HIDE DEF none
  <2>2. inst0.mode = "rw" /\ inst0.closed = TRUE /\ inst0.reg = none
        /\ inst0 = [mode |-> inst0.mode, closed |-> inst0.closed, reg |-> inst0.reg]
    OBVIOUS
  <2> HIDE DEF inst0
  <2>3. /\ e.coll = none /\ e.lock = {} /\ e.inst = [d \in Instances |-> inst0]
        /\ e = [made |-> e.made, coll |-> e.coll, lock |-> e.lock, inst |-> e.inst]
    BY <1>1
  <2>4. \A d \in Instances : e.inst[d] = inst0
    BY <2>3
  <2>5. e.inst = [d \in Instances |-> [mode |-> e.inst[d].mode, closed |-> e.inst[d].closed,
                                       reg |-> e.inst[d].reg]]
    BY <2>2, <2>3, <2>4
  <2> QED
    BY <2>1, <2>2, <2>3, <2>4, <2>5 DEF IsEngine, LockHeld
<1>5. \A d \in Instances : dbs[d].flag = "unused" /\ dbs[d].box = "none"
  BY <1>1
<1>6. \A w \in Wrappers : cols[w].flag = "unused" /\ cols[w].box = "none" /\ cols[w].db = {} /\ cols[w].name = {}
  BY <1>1
<1>7. TypeInv
  <2>1. dbs = [d \in Instances |-> [flag |-> dbs[d].flag, box |-> dbs[d].box]]
    BY <1>1
  <2>2. cols = [w \in Wrappers |-> [flag |-> cols[w].flag, box |-> cols[w].box, db |-> cols[w].db,
                                    name |-> cols[w].name, asked |-> cols[w].asked]]
    BY <1>1
  <2>3. th = [t \in Threads |-> th[t]]
    BY <1>1
  <2> QED
    BY <1>1, <1>3, <1>4, <1>5, <1>6, <2>1, <2>2, <2>3 DEF TypeInv, Flags, Boxes
<1>8. \A t \in Threads : (\A d : ~ UsesDb(t, d)) /\ (\A w : ~ UsesCol(t, w)) /\ (\A w : ~ Uses(t, w))
  BY <1>3 DEF UsesDb, UsesCol, Uses
<1>9. \A d \in Instances : DbBox(d)
  BY <1>3, <1>4, <1>5, <1>6 DEF DbBox
<1>10. \A w \in Wrappers : ColBox(w) /\ Named(w)
  BY <1>6, <1>8 DEF ColBox, Named, Wanted
<1>11. DropAlone /\ MakesAlone /\ UsedOpen /\ ClosesAlone
  BY <1>3, <1>8 DEF DropAlone, MakesAlone, UsedOpen, ClosesAlone
<1> QED
  BY <1>1, <1>7, <1>9, <1>10, <1>11 DEF Inv, MisuseNeedsOverlap

LEMMA NextKeeps ==
    ASSUME Inv, [Next]_vars
    PROVE  Inv'
  BY OpenKeeps, BeginKeeps, EnterKeeps, LeaveKeeps, CopyKeeps, CollectCollectionKeeps,
     CollectDatabaseKeeps, TeardownKeeps, Stutter DEF Next

\* Every state of every application satisfies Inv: the handles, boxes, tables and
\* closed flags of the wrappers agree with what the native side holds, whatever
\* the threads, the collector and the teardown do and in whatever order.
THEOREM Invariance == Spec => []Inv
  BY InitInv, NextKeeps, PTL DEF Spec

-------------------------------------------------------------------------------
(* What it means. *)

\* Whatever the application does, every value has the shape the code gives it: an engine of
\* collections of compiled documents, a lock held only by an open instance, wrappers with a
\* flag and a box, and calls that the SDK has with arguments that were compiled.
THEOREM TypeCorrect == Spec => []TypeInv
  BY Invariance, PTL DEF Inv

\* The flags of the wrappers, the handle table of React Native and the option of Node
\* (Bindings!MisuseNeedsOverlap) keep native memory sound for every number of threads and
\* wrappers and every order of calls, unless the application closes what it is using.
THEOREM SoundMemory == Spec => []MisuseNeedsOverlap
  BY Invariance, PTL DEF Inv

LEMMA RestIsClean ==
    ASSUME Inv
    PROVE  NothingLeftBehind
<1> SUFFICES ASSUME misuse = {}, \A t \in Threads : th[t].pc = "idle"
             PROVE  /\ \A d \in Instances : (dbs[d].box = "live") = (dbs[d].flag = "open")
                    /\ \A w \in Wrappers : (cols[w].box = "live") = (cols[w].flag = "open")
                    /\ \A d \in e.lock : dbs[d].flag = "open"
                    /\ \A d \in Instances : e.inst[d].closed = (dbs[d].flag # "open")
  BY DEF NothingLeftBehind
<1>1. TypeInv
  BY DEF Inv
<1>2. ASSUME NEW d \in Instances
      PROVE  /\ dbs[d].box = "live" <=> dbs[d].flag = "open"
             /\ e.inst[d].closed <=> dbs[d].flag # "open"
             /\ e.inst[d].closed \in BOOLEAN
  <2>1. DbBox(d)
    BY DEF Inv
  <2>2. dbs[d].flag \in Flags /\ e.inst[d].closed \in BOOLEAN
    BY <1>1 DEF TypeInv, IsEngine
  <2> QED
    BY <2>1, <2>2 DEF DbBox, Flags
<1>3. ASSUME NEW w \in Wrappers
      PROVE  cols[w].box = "live" <=> cols[w].flag = "open"
  <2>1. ColBox(w)
    BY DEF Inv
  <2>2. cols[w].flag \in Flags
    BY <1>1 DEF TypeInv
  <2> QED
    BY <2>1, <2>2 DEF ColBox, Flags
<1>4. \A d \in e.lock : d \in Instances /\ ~ e.inst[d].closed
  BY <1>1 DEF TypeInv, LockHeld
<1> QED
  BY <1>2, <1>3, <1>4

\* At rest nothing is left of what was closed, dropped, collected or torn down
\* (Bindings!NothingLeftBehind): no box without a wrapper, no lock without an open instance,
\* whatever storage operations failed.
THEOREM CleanAtRest == Spec => []NothingLeftBehind
  BY Invariance, RestIsClean, PTL

LEMMA FromOne ==
    ASSUME NEW r, NEW s, NEW out, From(r, out), From(s, out)
    PROVE  r.ok = s.ok /\ r.e = s.e /\ r.answer = s.answer
<1>1. r.ok \in BOOLEAN /\ s.ok \in BOOLEAN /\ (r.ok <=> s.ok)
  BY DEF From
<1>2. r.ok = s.ok
  <2>1. CASE r.ok
    <3>1. r.ok = TRUE /\ s.ok = TRUE
      BY <1>1, <2>1, Zenon
    <3> QED
      BY <3>1
  <2>2. CASE ~ r.ok
    <3>1. r.ok = FALSE /\ s.ok = FALSE
      BY <1>1, <2>2, Zenon
    <3> QED
      BY <3>1
  <2> QED
    BY <2>1, <2>2
<1> QED
  BY <1>2 DEF From

LEMMA OneInterface ==
    ASSUME Inv
    PROVE  SurfacesAgree
<1> SUFFICES ASSUME misuse = {}, NEW c \in CommonCalls, NEW io \in BOOLEAN, NEW d \in Instances, NEW w \in Wrappers
             PROVE  LET applies == IF OnWrapper(c) THEN cols[w].flag = "open" /\ cols[w].db = {d}
                                                /\ e.inst[d].reg[CHOOSE n \in cols[w].name : TRUE] # {}
                                   ELSE IF c.op = "open" THEN dbs[d].flag = "unused" ELSE dbs[d].flag = "open"
                        on == [db |-> d, name |-> IF OnWrapper(c) THEN CHOOSE n \in cols[w].name : TRUE ELSE c.name]
                        given == [c EXCEPT !.io = io]
                        doc == [meta |-> NoMetadata, written |-> NoFields]
                    IN  applies => \A byC \in {CAbi(e, on, given, doc, {})} :
                            /\ byC.error = (byC.code > 0)
                            /\ \A r \in {Jni(e, on, given, doc, {}), Node(e, on, given, doc, {})} :
                                  r.ok = byC.ok /\ r.e = byC.e /\ r.answer = byC.answer
  BY DEF SurfacesAgree
<1> DEFINE name == IF OnWrapper(c) THEN CHOOSE n \in cols[w].name : TRUE ELSE c.name
           on == [db |-> d, name |-> name]
           given == [c EXCEPT !.io = io]
           doc == [meta |-> NoMetadata, written |-> NoFields]
           applies == IF OnWrapper(c) THEN cols[w].flag = "open" /\ cols[w].db = {d}
                                           /\ e.inst[d].reg[CHOOSE n \in cols[w].name : TRUE] # {}
                      ELSE IF c.op = "open" THEN dbs[d].flag = "unused" ELSE dbs[d].flag = "open"
<1>1. SUFFICES ASSUME applies
               PROVE  LET byC == CAbi(e, on, given, doc, {})
                      IN  /\ byC.error = (byC.code > 0)
                          /\ \A r \in {Jni(e, on, given, doc, {}), Node(e, on, given, doc, {})} :
                                r.ok = byC.ok /\ r.e = byC.e /\ r.answer = byC.answer
  OBVIOUS
<1>2. PICK x \in Calls : x.op \notin {"release", "list_collections"}
                         /\ c = [x EXCEPT !.batch = <<>>, !.query = {}, !.tree = {}]
  BY DEF CommonCalls
<1>3. /\ x = CallRecord(x) /\ x.op \in CallNames /\ x.name \in Names /\ x.id \in Ids
      /\ {x.dim, x.top_k} \subseteq Nat /\ x.arg \in {"ok", "unknown"} /\ x.ids = "str"
  BY BindingsAssumption
<1>4. /\ c = CallRecord(c) /\ c.op = x.op /\ c.name = x.name /\ c.id = x.id
      /\ c.dim = x.dim /\ c.top_k = x.top_k /\ c.arg = x.arg /\ c.ids = x.ids
  BY <1>2, <1>3 DEF CallRecord
<1>5. /\ given = CallRecord(given) /\ given.op = c.op /\ given.name = c.name /\ given.id = c.id
      /\ given.dim = c.dim /\ given.top_k = c.top_k /\ given.arg = c.arg /\ given.ids = c.ids
  BY <1>4 DEF CallRecord
<1>6. name \in Names /\ (OnWrapper(c) => e.inst[d].reg[name] # {})
  <2>1. CASE OnWrapper(c)
    <3>1. Named(w)
      BY DEF Inv
    <3>2. cols[w].flag # "unused"
      BY <1>1, <2>1
    <3>3. PICK n \in Names : cols[w].name = {n}
      BY <3>1, <3>2 DEF Named
    <3>4. (CHOOSE y \in cols[w].name : TRUE) = n
      BY <3>3, OneOf
    <3> QED
      BY <1>1, <2>1, <3>4
  <2>2. CASE ~ OnWrapper(c)
    BY <1>3, <1>4, <2>2
  <2> QED
    BY <2>1, <2>2
<1>7. on.db = d /\ on.name = name
  OBVIOUS
<1> HIDE DEF name, on, given, doc, applies
<1>8. Fits(e, on, given, doc, plan)
  BY <1>2, <1>3, <1>4, <1>5, <1>6, <1>7 DEF Fits, NativeOps, OnWrapper
<1>9. IsEngine(e, plan) /\ given.op # "list_collections"
  BY <1>2, <1>4, <1>5 DEF Inv, TypeInv
<1> DEFINE want == SurfaceCall(e, on, given, doc, {})
           byC == CAbi(e, on, given, doc, {})
<1>10. /\ From(Jni(e, on, given, doc, {}), want) /\ From(Node(e, on, given, doc, {}), want)
       /\ From(byC, want) /\ Coded(byC)
  BY <1>8, <1>9, SurfacesAre
<1> HIDE DEF want
<1>11. \A r \in {Jni(e, on, given, doc, {}), Node(e, on, given, doc, {})} :
          r.ok = byC.ok /\ r.e = byC.e /\ r.answer = byC.answer
  BY <1>10, FromOne
<1>12. byC.error = (byC.code > 0)
  BY <1>10, Zenon DEF Coded
<1> QED
  BY <1>11, <1>12

\* The C ABI, the JNI library and the Node addon are one interface (Bindings!SurfacesAgree)
\* for every call with any numbers, names and shapes, in every state of rest an application
\* of any SDK can bring about.
THEOREM SameSurfaces == Spec => []SurfacesAgree
  BY Invariance, OneInterface, PTL

-------------------------------------------------------------------------------
(* What a search answered. *)

LEMMA SelectedSame ==
    ASSUME NEW eng, NEW r, NEW d, NEW n, NEW f, r.inst[d].reg = eng.inst[d].reg
    PROVE  Selected(r, [db |-> d, name |-> n], f) = Selected(eng, [db |-> d, name |-> n], f)
  BY DEF Selected, Held

LEMMA AnswerIsSelected ==
    ASSUME NEW t
    PROVE  AnswerIs(t) <=>
           \E f \in CompiledFilter(plan.sdk, CallOf(t)), w \in Wrappers, d \in Instances, n \in Names :
              /\ th[t].w = {w} /\ cols[w].db = {d} /\ cols[w].name = {n}
              /\ th[t].answer = Selected(e, [db |-> d, name |-> n], f)
  BY DEF AnswerIs, Selected

\* What filtered searches are asked by has one thread.
LEMMA AsksAlone ==
    ASSUME TypeInv, Planned, NEW t \in Threads, Asks(t)
    PROVE  /\ CallOf(t) \in plan.calls /\ CallOf(t).op = "search" /\ OnWrapper(CallOf(t))
           /\ \A u \in plan.threads : u = t
           /\ \A u \in Threads \ {t} : th[u].pc = "idle"
<1>1. /\ th[t].pc = "answered" /\ th[t].pc # "idle"
      /\ CallOf(t).query # {} \/ CallOf(t).tree # {}
  BY DEF Asks
<1>2. CallOf(t).op = "search" /\ IsCall(CallOf(t), plan)
  BY <1>1, CallIs
<1>3. app \in DOMAIN Plans
  BY DEF TypeInv
<1>4. CallOf(t) \in plan.calls
  BY <1>2, <1>3, CallTyped
<1>5. plan \in Range(Plans)
  BY <1>3, PlanIs
<1>6. \A u, v \in plan.threads : u = v
  BY <1>1, <1>4, <1>5, BindingsAssumption
<1>7. \A u \in Threads : th[u].pc # "idle" => u \in plan.threads
  BY DEF Planned
<1> QED
  BY <1>1, <1>2, <1>4, <1>6, <1>7 DEF OnWrapper, CollectionOps

\* An answer stays what it is while registries and names do.
LEMMA AnswerStill ==
    ASSUME NEW t \in Threads, AnswerIs(t), th'[t] = th[t], plan' = plan,
           \A w \in Wrappers : cols'[w].db = cols[w].db /\ cols'[w].name = cols[w].name,
           \A d \in Instances : e'.inst[d].reg = e.inst[d].reg
    PROVE  AnswerIs(t)'
<1>1. PICK f \in CompiledFilter(plan.sdk, CallOf(t)), w \in Wrappers, d \in Instances, n \in Names :
         /\ th[t].w = {w} /\ cols[w].db = {d} /\ cols[w].name = {n}
         /\ th[t].answer = Selected(e, [db |-> d, name |-> n], f)
  BY AnswerIsSelected
<1>2. CallOf(t)' = CallOf(t)
  BY SameThread
<1>3. Selected(e', [db |-> d, name |-> n], f) = Selected(e, [db |-> d, name |-> n], f)
  BY SelectedSame
<1>4. th'[t].answer = {i \in Ids : \E doc \in Held(e', [db |-> d, name |-> n]).docs[i] :
                          \A g \in f : FilterMatches(g, doc.meta)}
  BY <1>1, <1>3 DEF Selected
<1> QED
  BY <1>1, <1>2, <1>4 DEF AnswerIs

\* A thread that was asking still is, with the answer it had, when all that steps is another.
LEMMA AsksStill ==
    ASSUME NEW t \in Threads, th'[t] = th[t]
    PROVE  Asks(t)' <=> Asks(t)
<1>1. CallOf(t)' = CallOf(t)
  BY SameThread
<1> QED
  BY <1>1 DEF Asks

\* While one thread steps that is part of the application none of another's asks.
LEMMA NoOtherAsks ==
    ASSUME TypeInv, Planned, NEW u \in plan.threads, NEW t \in Threads, t # u
    PROVE  ~ Asks(t)
  BY AsksAlone

\* A step of one thread that only moves that thread keeps the answers, its own apart.
LEMMA OneSteps ==
    ASSUME TypeInv, Planned, NEW u \in Threads, u \in plan.threads,
           \A t \in Threads \ {u} : th'[t] = th[t], plan' = plan
    PROVE  Planned' /\ \A t \in Threads \ {u} : ~ Asks(t)'
<1>1. \A t \in Threads \ {u} : ~ Asks(t)'
  BY NoOtherAsks, AsksStill
<1>2. Planned'
  BY DEF Planned
<1> QED
  BY <1>1, <1>2

LEMMA InitAnswered ==
    ASSUME Init
    PROVE  Planned /\ Answered
<1>1. \A t \in Threads : th[t].pc = "idle"
  BY DEF Init, Idle
<1> QED
  BY <1>1 DEF Planned, Answered, Asks

LEMMA NextAnswered ==
    ASSUME Inv, Planned, Answered, [Next]_vars
    PROVE  Planned' /\ Answered'
<1>1. TypeInv
  BY DEF Inv
<1>2. \A t \in Threads : Asks(t) => AnswerIs(t) /\ misuse = {}
  BY DEF Answered
<1>3. ASSUME NEW t \in Threads, NEW d \in Instances, Open(t, d)
      PROVE  Planned' /\ Answered'
  <2>1. t \in plan.threads /\ th[t].pc = "idle" /\ th' = th /\ plan' = plan
    BY <1>3 DEF Open, MayCall, plan
  <2>2. Planned' /\ \A u \in Threads \ {t} : ~ Asks(u)'
    BY <1>1, <2>1, OneSteps
  <2>3. ~ Asks(t)'
    BY <2>1 DEF Asks
  <2> QED
    BY <2>2, <2>3 DEF Answered
<1>4. ASSUME NEW t \in Threads, NEW d \in Instances, NEW w \in Wrappers, Begin(t, d, w)
      PROVE  Planned' /\ Answered'
  <2>1. t \in plan.threads /\ plan' = plan
    BY <1>4 DEF Begin, MayCall, plan
  <2>2. PICK c \in plan.calls :
           th' = [th EXCEPT ![t] = [pc |-> "ready", call |-> {c}, db |-> {d},
                                    w |-> IF OnWrapper(c) \/ Makes(c) THEN {w} ELSE {},
                                    batch |-> c.batch, answer |-> {}]]
    BY <1>4 DEF Begin
  <2>3. DOMAIN th = Threads
    BY <1>1 DEF TypeInv
  <2>4. th'[t].pc = "ready" /\ \A u \in Threads \ {t} : th'[u] = th[u]
    BY <2>2, <2>3
  <2>5. Planned' /\ \A u \in Threads \ {t} : ~ Asks(u)'
    BY <1>1, <2>1, <2>4, OneSteps
  <2>6. ~ Asks(t)'
    BY <2>4 DEF Asks
  <2> QED
    BY <2>5, <2>6 DEF Answered
<1>5. ASSUME NEW t \in Threads, Enter(t)
      PROVE  Planned' /\ Answered'
  <2>1. /\ th[t].pc = "ready" /\ plan' = plan
        /\ th' = IF CallOf(t).op = "release" THEN [th EXCEPT ![t] = Idle] ELSE [th EXCEPT ![t].pc = "inside"]
    BY <1>5 DEF Enter, plan
  <2>2. t \in plan.threads
    BY <2>1 DEF Planned
  <2>3. /\ \A u \in Threads \ {t} : th'[u] = th[u]
        /\ th'[t] = Idle \/ th'[t].pc = "inside"
    BY <1>1, <2>1, EnteredThread
  <2>4. ~ Asks(t)'
    BY <2>3, RestPrime DEF Asks
  <2> QED
    BY <1>1, <2>1, <2>2, <2>3, <2>4, OneSteps DEF Answered
<1>6. ASSUME NEW t \in Threads, Leave(t)
      PROVE  Planned' /\ Answered'
  <2>1. th[t].pc = "inside" /\ misuse = {} /\ misuse' = {} /\ plan' = plan
    BY <1>6 DEF Leave, plan
  <2>2. t \in plan.threads
    BY <2>1 DEF Planned
  <2>3. PICK r : Did(t, r)
    BY <1>6, LeaveIs
  <2> DEFINE c == CallOf(t)
             d == CHOOSE x \in th[t].db : TRUE
             w == CHOOSE x \in th[t].w : TRUE
  <2>4. /\ e' = r.e /\ Left(t, c, r) /\ Built(c, d, w, r)
        /\ c.op = "search" /\ r.ok => Found(c, d, w, r)
    BY <2>3 DEF Did
  <2>5. /\ \A u \in Threads \ {t} : th'[u] = th[u]
        /\ th'[t].pc = "answered" => /\ c.op = "search" /\ r.ok /\ CallOf(t)' = c
                                     /\ th'[t].answer = r.answer /\ th'[t].w = th[t].w
    BY <1>1, <2>1, <2>4, LeftThread
  <2>6. Planned' /\ \A u \in Threads \ {t} : ~ Asks(u)'
    BY <1>1, <2>1, <2>2, <2>5, OneSteps
  <2>7. ASSUME Asks(t)'
        PROVE  AnswerIs(t)'
    <3>1. th'[t].pc = "answered"
      BY <2>7 DEF Asks
    <3>2. c.op = "search" /\ r.ok /\ Found(c, d, w, r)
      BY <2>4, <2>5, <3>1
    <3>3. d \in Instances /\ w \in Wrappers /\ th[t].w = {w}
      <4>1. OnWrapper(c)
        BY <3>2 DEF OnWrapper, CollectionOps
      <4> QED
        BY <1>1, <2>1, <4>1, HandIs
    <3>4. cols' = cols
      BY <2>4, <3>2 DEF Built, Makes
    <3> HIDE DEF c, d, w
    <3>5. PICK f \in CompiledFilter(plan.sdk, c), n \in Names :
             /\ cols[w].db = {d} /\ cols[w].name = {n}
             /\ r.e = e /\ r.answer = Selected(e, [db |-> d, name |-> n], f)
      BY <3>2 DEF Found
    <3>6. /\ CallOf(t)' = c /\ th'[t].w = {w} /\ cols'[w].db = {d} /\ cols'[w].name = {n} /\ e' = e
          /\ th'[t].answer = Selected(e, [db |-> d, name |-> n], f)
      BY <2>4, <2>5, <3>1, <3>3, <3>4, <3>5
    <3>7. th'[t].answer = {i \in Ids : \E doc \in Held(e', [db |-> d, name |-> n]).docs[i] :
                              \A g \in f : FilterMatches(g, doc.meta)}
      BY <3>6 DEF Selected
    <3> QED
      BY <2>1, <3>3, <3>5, <3>6, <3>7 DEF AnswerIs
  <2> QED
    BY <2>1, <2>6, <2>7 DEF Answered
<1>7. ASSUME NEW t \in Threads, CopyResults(t)
      PROVE  Planned' /\ Answered'
  <2>1. /\ th[t].pc = "answered" /\ th' = [th EXCEPT ![t] = Idle] /\ plan' = plan
    BY <1>7 DEF CopyResults, plan
  <2>2. t \in plan.threads
    BY <2>1 DEF Planned
  <2>3. th'[t] = Idle /\ \A u \in Threads \ {t} : th'[u] = th[u]
    BY <1>1, <2>1, Others
  <2>4. ~ Asks(t)'
    BY <2>3, RestPrime DEF Asks
  <2> QED
    BY <1>1, <2>1, <2>2, <2>3, <2>4, OneSteps DEF Answered
<1>8. ASSUME th' = th, plan' = plan, misuse' = misuse,
             \A w \in Wrappers : cols'[w].db = cols[w].db /\ cols'[w].name = cols[w].name,
             \A d \in Instances : e'.inst[d].reg = e.inst[d].reg
      PROVE  Planned' /\ Answered'
  <2>1. Planned'
    BY <1>8 DEF Planned
  <2>2. ASSUME NEW t \in Threads, Asks(t)'
        PROVE  AnswerIs(t)' /\ misuse' = {}
    <3>1. Asks(t)
      BY <1>8, <2>2, AsksStill
    <3> QED
      BY <1>2, <1>8, <3>1, AnswerStill
  <2> QED
    BY <2>1, <2>2 DEF Answered
<1>9. ASSUME NEW w \in Wrappers, CollectCollection(w)
      PROVE  Planned' /\ Answered'
  <2>1. /\ cols' = [cols EXCEPT ![w].flag = "closed", ![w].box = "freed"]
        /\ e' = e /\ th' = th /\ misuse' = misuse /\ plan' = plan
    BY <1>9 DEF CollectCollection, plan
  <2>2. /\ DOMAIN cols = Wrappers
        /\ \A x \in Wrappers : IsCol(cols[x])
    BY <1>1 DEF TypeInv, IsCol
  <2> DEFINE freed == Changed(cols[w], "closed", "freed")
  <2>3. cols' = [cols EXCEPT ![w] = freed]
    BY <2>1, <2>2 DEF Changed
  <2>4. freed.db = cols[w].db /\ freed.name = cols[w].name
    BY <2>2, ChangedCol
  <2> HIDE DEF freed
  <2>5. \A x \in Wrappers : cols'[x].db = cols[x].db /\ cols'[x].name = cols[x].name
    BY <2>2, <2>3, <2>4
  <2> QED
    BY <1>8, <2>1, <2>5
<1>10. ASSUME NEW d \in Instances, CollectDatabase(d)
       PROVE  Planned' /\ Answered'
  <2>1. cols' = cols /\ th' = th /\ misuse' = misuse /\ plan' = plan
    BY <1>10 DEF CollectDatabase, plan
  <2>2. PICK io \in BOOLEAN : e' = Close(e, d, [io |-> io]).e
    BY <1>10 DEF CollectDatabase
  <2>3. Shut(e, e', {d}, plan)
    BY <1>1, <2>2, CloseShuts DEF TypeInv
  <2>4. \A x \in Instances : e'.inst[x].reg = e.inst[x].reg
    BY <2>3 DEF Shut
  <2> QED
    BY <1>8, <2>1, <2>4
<1>11. ASSUME Teardown
       PROVE  Planned' /\ Answered'
  <2>1. th' = th /\ plan' = plan /\ \A t \in Threads : th[t].pc = "idle"
    BY <1>11 DEF Teardown, plan
  <2> QED
    BY <2>1 DEF Planned, Answered, Asks
<1>12. ASSUME UNCHANGED vars
       PROVE  Planned' /\ Answered'
  BY <1>8, <1>12 DEF vars, plan
<1> QED
  BY <1>3, <1>4, <1>5, <1>6, <1>7, <1>9, <1>10, <1>11, <1>12 DEF Next

LEMMA AnswersSelected == Spec => [](Inv /\ Planned /\ Answered)
<1>1. Init => Inv /\ Planned /\ Answered
  BY InitInv, InitAnswered
<1>2. Inv /\ Planned /\ Answered /\ [Next]_vars => (Inv /\ Planned /\ Answered)'
  BY NextKeeps, NextAnswered
<1> QED
  BY <1>1, <1>2, PTL DEF Spec

LEMMA AnswerMeans ==
    ASSUME CompilersMean, Inv, Planned, Answered
    PROVE  AnswerMeansQuery
<1> SUFFICES ASSUME NEW t \in Threads, th[t].pc = "answered"
             PROVE  LET c == CallOf(t)
                        on == cols[CHOOSE x \in th[t].w : TRUE]
                        docs == Held(e, [db |-> CHOOSE d \in on.db : TRUE,
                                         name |-> CHOOSE n \in on.name : TRUE]).docs
                    IN  /\ \A q \in c.query :
                              th[t].answer = {i \in Ids : \E doc \in docs[i] : Selects(q, doc.written)}
                        /\ \A f \in c.tree :
                              th[t].answer = {i \in Ids : \E doc \in docs[i] :
                                                            FilterMatches(f, doc.meta)}
  BY DEF AnswerMeansQuery
<1> DEFINE c == CallOf(t)
           on == cols[CHOOSE x \in th[t].w : TRUE]
           h == [db |-> CHOOSE d \in on.db : TRUE, name |-> CHOOSE n \in on.name : TRUE]
           docs == Held(e, h).docs
<1>1. CASE c.query = {} /\ c.tree = {}
  BY <1>1
<1>2. CASE ~ (c.query = {} /\ c.tree = {})
  <2>1. TypeInv /\ app \in DOMAIN Plans
    BY DEF Inv, TypeInv
  <2>2. Asks(t)
    BY <1>2 DEF Asks
  <2>3. misuse = {} /\ AnswerIs(t)
    BY <2>2 DEF Answered
  <2>4. PICK f \in CompiledFilter(plan.sdk, c), w \in Wrappers, d \in Instances, n \in Names :
           /\ th[t].w = {w} /\ cols[w].db = {d} /\ cols[w].name = {n}
           /\ th[t].answer = {i \in Ids : \E doc \in Held(e, [db |-> d, name |-> n]).docs[i] :
                                 \A g \in f : FilterMatches(g, doc.meta)}
    BY <2>3 DEF AnswerIs
  <2>5. on = cols[w] /\ h = [db |-> d, name |-> n]
    <3>1. (CHOOSE x \in th[t].w : TRUE) = w
      BY <2>4, OneOf
    <3>2. on = cols[w]
      BY <3>1
    <3> HIDE DEF on
    <3>3. (CHOOSE x \in on.db : TRUE) = d /\ (CHOOSE x \in on.name : TRUE) = n
      BY <2>4, <3>2, OneOf
    <3> QED
      BY <3>2, <3>3
  <2>6. c \in plan.calls /\ OnWrapper(c)
    BY <2>1, <2>2, AsksAlone
  <2>7. e.inst[d].reg[n] # {}
    <3>1. Uses(t, w) /\ Named(w)
      BY <2>3, <2>4, <2>6 DEF Uses, Inv
    <3>2. PICK y \in Instances, m \in Names : cols[w].db = {y} /\ cols[w].name = {m} /\ e.inst[y].reg[m] # {}
      BY <3>1 DEF Named, Wanted
    <3>3. y = d /\ m = n
      BY <2>4, <3>2
    <3> QED
      BY <3>2, <3>3
  <2>8. \A i \in Ids : \A doc \in docs[i] : IsDoc(doc, plan)
    <3>1. IsColl(Held(e, [db |-> d, name |-> n]), plan)
      BY <2>1, <2>7 DEF TypeInv, IsEngine, IsReg, Held
    <3> QED
      BY <2>5, <3>1 DEF IsColl
  <2> HIDE DEF c, on, h, docs
  <2>9. plan \in Range(Plans)
    BY <2>1, PlanIs
  <2>10. ASSUME NEW i \in Ids, NEW doc \in docs[i]
         PROVE  /\ \A q \in c.query : (\A g \in f : FilterMatches(g, doc.meta)) <=> Selects(q, doc.written)
                /\ \A tree \in c.tree : (\A g \in f : FilterMatches(g, doc.meta)) <=> FilterMatches(tree, doc.meta)
    <3>1. doc.written \in WrittenBy(plan) /\ doc.meta \in CompiledMetadata(plan.sdk, doc.written)
      BY <2>8 DEF IsDoc
    <3> QED
      BY <2>4, <2>6, <2>9, <3>1 DEF CompilersMean
  <2>11. th[t].answer = {i \in Ids : \E doc \in docs[i] : \A g \in f : FilterMatches(g, doc.meta)}
    BY <2>4, <2>5 DEF docs
  <2>12. \A q \in c.query : th[t].answer = {i \in Ids : \E doc \in docs[i] : Selects(q, doc.written)}
    BY <2>10, <2>11
  <2>13. \A tree \in c.tree : th[t].answer = {i \in Ids : \E doc \in docs[i] : FilterMatches(tree, doc.meta)}
    BY <2>10, <2>11
  <2> QED
    BY <2>12, <2>13 DEF c, on, h, docs
<1> QED
  BY <1>1, <1>2

\* If each filter an SDK compiles matches each document it compiles as the query says
\* (CompilersMean, which TLC evaluates), a search answers what the query says
\* (Bindings!AnswerMeansQuery): of the documents the application wrote, by whichever of its
\* SDK's surfaces and through whatever refusals, failures and reopenings.
THEOREM AnswersMeanQueries == CompilersMean => (Spec => []AnswerMeansQuery)
<1> SUFFICES ASSUME CompilersMean
             PROVE  Spec => []AnswerMeansQuery
  OBVIOUS
<1>1. Inv /\ Planned /\ Answered => AnswerMeansQuery
  BY AnswerMeans
<1> QED
  BY <1>1, AnswersSelected, PTL
=============================================================================
