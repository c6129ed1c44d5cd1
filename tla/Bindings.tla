------------------------------ MODULE Bindings ------------------------------
(***************************************************************************)
(* An application on top of one of the SDKs.  Its threads call methods of  *)
(* database and collection wrappers; a wrapper checks that it has not been *)
(* closed, turns what the application wrote into native values, and calls  *)
(* the surface it sits on (Surfaces) with the box it holds.  A call is     *)
(*    idle -> ready      the wrapper was live and its box was read;        *)
(*    ready -> inside    the native function has borrowed, or taken, it;   *)
(*    inside -> idle     its effect is there and it returned;              *)
(*    inside -> answered -> idle   for a search: its results are copied    *)
(*                       out of native memory and freed.                   *)
(* Whether the engine is closed is tested with the effect: what can happen *)
(* between the two inside the engine is the subject of Database.           *)
(***************************************************************************)
EXTENDS Surfaces

CONSTANTS
    Threads,            \* the application's threads
    Wrappers,           \* collection wrappers
    Calls,              \* the calls an application can write
    Plans               \* applications: the SDK, threads, collection wrappers and calls of each

\* How each SDK turns what the application wrote into native values.
CONSTANTS
    CompiledMetadata(_, _), \* the metadata of a document: {m}, or {} when it is refused
    CompiledFilter(_, _),   \* the filter of a search: {{}} for none, {{f}}, or {} when it is refused
    Selects(_, _),          \* what a query says of a document as it was written
    NoFields                \* a document written without metadata

\* What an application writes, over all its calls.
WrittenBy(p) == {x.written : x \in UNION {Range(c.batch) : c \in p.calls}}

\* A filter that was compiled matches a document that was compiled as the query says of the
\* document as it was written: what a search promises rests on it.
CompilersMean ==
    \A p \in Range(Plans) : \A c \in p.calls : \A f \in CompiledFilter(p.sdk, c) :
        \A written \in WrittenBy(p) : \A meta \in CompiledMetadata(p.sdk, written) :
            /\ \A q \in c.query : (\A g \in f : FilterMatches(g, meta)) <=> Selects(q, written)
            /\ \A tree \in c.tree : (\A g \in f : FilterMatches(g, meta)) <=> FilterMatches(tree, meta)

\* A call: its name, the arguments of the native function (io says whether the storage
\* operations it needs succeed), and the documents, query or tree it is written with.
CallRecord(c) ==
    [op |-> c.op, name |-> c.name, dim |-> c.dim, metric |-> c.metric, ids |-> c.ids,
     arg |-> c.arg, create |-> c.create, read_only |-> c.read_only, id |-> c.id,
     vector |-> c.vector, top_k |-> c.top_k, io |-> c.io, batch |-> c.batch, query |-> c.query,
     tree |-> c.tree]

\* The methods of every SDK, and open.
CallNames == CollectionOps \cup {"open", "close", "flush", "collection", "open_collection",
              "drop_collection", "list_collections", "compact", "verify", "release"}

ASSUME BindingsAssumption ==
    \* A null or bytes that are not UTF-8 are not what a wrapper passes, and every SDK asks
    \* for string ids.
    /\ \A c \in Calls : /\ c = CallRecord(c)
                        /\ c.op \in CallNames /\ c.name \in Names /\ c.id \in Ids
                        /\ {c.dim, c.top_k} \subseteq Nat
                        /\ c.arg \in {"ok", "unknown"} /\ c.ids = "str"
                        /\ c.batch \in Seq(Range(c.batch)) /\ \A x \in Range(c.batch) : x.id \in Ids
                        /\ c.op = "upsert" => c.batch # <<>>
    /\ \A p \in Range(Plans) :
          /\ p.threads \subseteq Threads /\ p.calls \subseteq Calls /\ p.wrappers \subseteq Wrappers
          \* A filter is one expression, or none.
          /\ \A c \in p.calls : \A f \in CompiledFilter(p.sdk, c) : f = {} \/ \E g \in f : f = {g}
          \* Filtered searches are asked by applications of one thread: a search sees one moment.
          /\ (\E c \in p.calls : c.query # {} \/ c.tree # {}) => \A t, u \in p.threads : t = u

VARIABLES
    app,        \* the application
    e,          \* the engine
    dbs,        \* each database wrapper: its flag and its box
    cols,       \* each collection wrapper: flag, box, what it names and the shape asked for
    th,         \* each thread: where its call is
    misuse,     \* what went wrong with native memory
    careless    \* the application closed a wrapper it was using, or used one it had closed

vars == <<app, e, dbs, cols, th, misuse, careless>>

plan == Plans[app]

Idle == [pc |-> "idle", call |-> {}, db |-> {}, w |-> {}, batch |-> <<>>, answer |-> {}]

\* The methods an SDK has.
DatabaseOps(sdk) ==
    CASE sdk \in {"python", "web"} -> {"collection", "flush", "close"}
      [] sdk = "node" -> {"collection", "open_collection", "drop_collection", "list_collections",
                          "flush", "compact", "verify", "close"}
      [] sdk = "android" -> {"collection", "open_collection", "drop_collection",
                             "list_collections", "flush", "compact", "verify", "close"}
      [] OTHER -> {"collection", "open_collection", "drop_collection", "flush", "compact",
                   "verify", "close"}

WrapperOps(sdk) ==
    LET rows == {"upsert", "delete", "contains", "count", "flush_collection", "search"}
    IN  CASE sdk = "python" -> rows \cup {"release"}
          [] sdk = "web" -> rows
          [] sdk = "node" -> rows \cup {"stats"}
          [] OTHER -> rows \cup {"stats", "release"}

\* JavaScript runs one call at a time; the native half of React Native may be called from
\* any thread, as may the others.
Serial(sdk) == sdk \in {"node", "web"}

\* All of it is taken before the native call; one refusal refuses the call.
Compiles(sdk, c) ==
    /\ CompiledFilter(sdk, c) # {}
    /\ \A i \in DOMAIN c.batch : CompiledMetadata(sdk, c.batch[i].written) # {}

NativeOpen(sdk, engine, d, c) ==
    CASE sdk = "android" -> OpenDatabase(engine, d, c)
      [] sdk = "node" -> NodeOpen(engine, d, c)
      [] OTHER -> VdbOpen(engine, d, c)

Native(sdk, engine, on, c, doc, filter) ==
    CASE sdk = "android" -> Jni(engine, on, c, doc, filter)
      [] sdk = "node" -> Node(engine, on, c, doc, filter)
      [] OTHER -> CAbi(engine, on, c, doc, filter)

(***************************************************************************)
(* Wrappers.                                                               *)
(***************************************************************************)
OnWrapper(c) == c.op \in CollectionOps \cup {"release"}
Makes(c) == c.op \in {"collection", "open_collection"}
Closes(c) == c.op \in {"close", "release"}

WrapperOf(c, d, w) == IF OnWrapper(c) THEN cols[w] ELSE dbs[d]
InFlight(t) == th[t].pc \in {"ready", "inside"}
CallOf(t) == CHOOSE c \in th[t].call : TRUE
SameWrapper(t, c, d, w) ==
    /\ OnWrapper(CallOf(t)) = OnWrapper(c)
    /\ IF OnWrapper(c) THEN th[t].w = {w} ELSE th[t].db = {d}

\* Seeded fault: a wrapper that does not remember that it was closed.
AliveUnchecked(c, d, w) == WrapperOf(c, d, w).flag # "unused"

\* alive: the web wrappers keep no flag.
Alive(c, d, w) ==
    \/ WrapperOf(c, d, w).flag = "open"
    \/ plan.sdk = "web" /\ WrapperOf(c, d, w).flag = "closed"

\* A close overlaps another call on the wrapper, or a closed wrapper is used knowingly.
Careless(t, c, d, w) ==
    \/ plan.sdk = "web" /\ WrapperOf(c, d, w).flag = "closed"
    \/ \E u \in Threads \ {t} : InFlight(u) /\ SameWrapper(u, c, d, w)
                                /\ (Closes(c) \/ Closes(CallOf(u)))

\* The React Native table and the Node option give a handle up in the step that looks it up.
TakesAtOnce(sdk) == sdk \in {"react_native", "node"}

SetFlag(c, d, w, flag) ==
    /\ cols' = IF OnWrapper(c) THEN [cols EXCEPT ![w].flag = flag] ELSE cols
    /\ dbs' = IF OnWrapper(c) THEN dbs ELSE [dbs EXCEPT ![d].flag = flag]

Free(c, d, w) ==
    /\ cols' = IF OnWrapper(c) THEN [cols EXCEPT ![w].flag = "closed", ![w].box = "freed"] ELSE cols
    /\ dbs' = IF OnWrapper(c) THEN dbs ELSE [dbs EXCEPT ![d].flag = "closed", ![d].box = "freed"]

(***************************************************************************)
(* Actions.                                                                *)
(***************************************************************************)
Init ==
    /\ app \in DOMAIN Plans
    /\ e = [made |-> FALSE, coll |-> [n \in Names |-> {}], lock |-> {},
            inst |-> [d \in Instances |-> [mode |-> "rw", closed |-> TRUE,
                                           reg |-> [n \in Names |-> {}]]]]
    /\ dbs = [d \in Instances |-> [flag |-> "unused", box |-> "none"]]
    /\ cols = [w \in Wrappers |-> [flag |-> "unused", box |-> "none", db |-> {}, name |-> {},
                                   asked |-> {}]]
    /\ th = [t \in Threads |-> Idle]
    /\ misuse = {}
    /\ careless = FALSE

\* The application goes on while native memory is sound.
MayCall(t) ==
    /\ misuse = {} /\ t \in plan.threads /\ th[t].pc = "idle"
    /\ Serial(plan.sdk) => \A u \in Threads : th[u].pc = "idle"

\* open: a wrapper is made only when the native open succeeds.
Open(t, d) ==
    /\ MayCall(t) /\ dbs[d].flag = "unused"
    /\ \E c \in plan.calls, io \in BOOLEAN :
        /\ c.op = "open"
        /\ \E r \in {NativeOpen(plan.sdk, e, d, [c EXCEPT !.io = io])} :
            /\ e' = r.e
            /\ dbs' = IF r.ok THEN [dbs EXCEPT ![d] = [flag |-> "open", box |-> "live"]] ELSE dbs
    /\ UNCHANGED <<app, cols, th, misuse, careless>>

\* A method is called on a wrapper that is alive; a method that makes a wrapper has w for it.
\* A collection is dropped only when the application has no wrapper of it open.
Begin(t, d, w) ==
    /\ MayCall(t) /\ w \in plan.wrappers
    /\ \E c \in plan.calls :
        /\ c.op \in DatabaseOps(plan.sdk) \cup WrapperOps(plan.sdk)
        /\ Alive(c, d, w)
        /\ OnWrapper(c) => cols[w].db = {d}
        /\ ~OnWrapper(c) /\ ~Makes(c) => w = CHOOSE x \in plan.wrappers : TRUE
        /\ Makes(c) => /\ cols[w].flag = "unused" /\ \A u \in Threads : th[u].w # {w}
                       /\ \A u \in Threads : \A x \in th[u].call : x.op # "drop_collection"
        /\ c.op = "drop_collection" =>
              /\ \A x \in Wrappers : cols[x].flag = "open" => cols[x].name # {c.name}
              /\ \A u \in Threads : th[u].pc = "idle"
        /\ Compiles(plan.sdk, c)
        /\ careless' = (careless \/ Careless(t, c, d, w))
        /\ IF Closes(c) /\ TakesAtOnce(plan.sdk) THEN SetFlag(c, d, w, "closed")
           ELSE UNCHANGED <<dbs, cols>>
        /\ th' = [th EXCEPT ![t] = [pc |-> "ready", call |-> {c}, db |-> {d},
                                    w |-> IF OnWrapper(c) \/ Makes(c) THEN {w} ELSE {},
                                    batch |-> c.batch, answer |-> {}]]
    /\ UNCHANGED <<app, e, misuse>>

\* What a native function meets when it is handed the box.
Meets(t, c, d, w) ==
    (IF WrapperOf(c, d, w).box = "freed"
     THEN {IF Closes(c) THEN "double free" ELSE "use after free"} ELSE {})
    \cup (IF Closes(c) /\ \E u \in Threads \ {t} : th[u].pc = "inside" /\ SameWrapper(u, c, d, w)
          THEN {"freed in use"} ELSE {})

\* The native function starts: it borrows the box, or takes it to close or free it.
Enter(t) ==
    LET c == CallOf(t)
        d == CHOOSE x \in th[t].db : TRUE
        w == IF th[t].w = {} THEN CHOOSE x \in Wrappers : TRUE ELSE CHOOSE x \in th[t].w : TRUE
    IN  /\ misuse = {} /\ th[t].pc = "ready"
        /\ misuse' = Meets(t, c, d, w)
        /\ IF Closes(c) THEN Free(c, d, w) ELSE UNCHANGED <<dbs, cols>>
        /\ th' = IF c.op = "release" THEN [th EXCEPT ![t] = Idle] ELSE [th EXCEPT ![t].pc = "inside"]
        /\ UNCHANGED <<app, e, careless>>

\* The C ABI callers that retry an existing collection as an open.
FallsBack(sdk, r) == sdk \in {"react_native", "python", "web"} /\ r.code = Code.CollectionExists

\* The native function takes effect and returns.  A batch goes on with its next document
\* unless this one failed; documents before it stay written.
Leave(t) ==
    LET c == CallOf(t)
        d == CHOOSE x \in th[t].db : TRUE
        on == IF OnWrapper(c) THEN [db |-> d, name |-> CHOOSE n \in cols[CHOOSE x \in th[t].w : TRUE].name : TRUE]
              ELSE [db |-> d, name |-> c.name]
        item == IF th[t].batch = <<>> THEN [id |-> c.id, written |-> NoFields]
                ELSE Head(th[t].batch)
        doc == [meta |-> CHOOSE m \in CompiledMetadata(plan.sdk, item.written) : TRUE,
                written |-> item.written]
        filter == CHOOSE f \in CompiledFilter(plan.sdk, c) : TRUE
    IN  /\ misuse = {} /\ th[t].pc = "inside"
        /\ \E io \in BOOLEAN :
           \E r \in {Native(plan.sdk, e, on, [c EXCEPT !.io = io, !.id = item.id], doc, filter)} :
            LET retried == c.op = "collection" /\ ~r.ok /\ FallsBack(plan.sdk, r)
                more == r.ok /\ c.op = "upsert" /\ Len(th[t].batch) > 1
            IN  /\ e' = r.e
                /\ cols' = IF Makes(c) /\ r.ok
                           THEN [cols EXCEPT ![CHOOSE x \in th[t].w : TRUE] =
                                    [flag |-> "open", box |-> "live", db |-> {d}, name |-> {c.name},
                                     asked |-> th[t].answer \cup
                                               (IF c.op = "collection" THEN {SpecOf(c)} ELSE {})]]
                           ELSE cols
                /\ th' = [th EXCEPT ![t] =
                            CASE retried -> [@ EXCEPT !.pc = "ready", !.answer = {SpecOf(c)},
                                                      !.call = {[c EXCEPT !.op = "open_collection"]}]
                              [] more -> [@ EXCEPT !.pc = "ready", !.batch = Tail(@)]
                              [] c.op = "search" /\ r.ok -> [@ EXCEPT !.pc = "answered",
                                                                      !.answer = r.answer]
                              [] OTHER -> Idle]
        /\ UNCHANGED <<app, dbs, misuse, careless>>

\* The hits are copied and the native results freed.
CopyResults(t) ==
    /\ misuse = {} /\ th[t].pc = "answered"
    /\ th' = [th EXCEPT ![t] = Idle]
    /\ UNCHANGED <<app, e, dbs, cols, misuse, careless>>

\* deinit of the iOS wrappers, once nothing refers to one.
CollectCollection(w) ==
    /\ misuse = {} /\ plan.sdk = "ios" /\ cols[w].flag = "open"
    /\ \A t \in Threads : th[t].pc # "idle" => th[t].w # {w}
    /\ cols' = [cols EXCEPT ![w].flag = "closed", ![w].box = "freed"]
    /\ UNCHANGED <<app, e, dbs, th, misuse, careless>>

CollectDatabase(d) ==
    /\ misuse = {} /\ plan.sdk = "ios" /\ dbs[d].flag = "open"
    /\ \A t \in Threads : th[t].pc # "idle" => th[t].db # {d} \/ OnWrapper(CallOf(t))
    /\ \E io \in BOOLEAN : e' = Close(e, d, [io |-> io]).e
    /\ dbs' = [dbs EXCEPT ![d] = [flag |-> "closed", box |-> "freed"]]
    /\ UNCHANGED <<app, cols, th, misuse, careless>>

\* ~Bridge: what the application forgot is freed and closed, whatever a close returns.
Teardown ==
    /\ misuse = {} /\ plan.sdk = "react_native" /\ \A t \in Threads : th[t].pc = "idle"
    /\ \E d \in Instances : dbs[d].flag = "open"
    /\ LET left == {d \in Instances : dbs[d].flag = "open"}
       IN  /\ \E io \in BOOLEAN :
                e' = CloseEach(e, left, [io |-> io])
           /\ dbs' = [d \in Instances |-> IF d \in left THEN [flag |-> "closed", box |-> "freed"]
                                          ELSE dbs[d]]
           /\ cols' = [w \in Wrappers |-> IF cols[w].flag = "open"
                                          THEN [cols[w] EXCEPT !.flag = "closed", !.box = "freed"]
                                          ELSE cols[w]]
    /\ UNCHANGED <<app, th, misuse, careless>>

Next ==
    \/ \E t \in Threads, d \in Instances : Open(t, d)
    \/ \E t \in Threads, d \in Instances, w \in Wrappers : Begin(t, d, w)
    \/ \E t \in Threads : Enter(t)
    \/ \E t \in Threads : Leave(t)
    \/ \E t \in Threads : CopyResults(t)
    \/ \E w \in Wrappers : CollectCollection(w)
    \/ \E d \in Instances : CollectDatabase(d)
    \/ Teardown

Spec == Init /\ [][Next]_vars

(***************************************************************************)
(* Properties.                                                             *)
(***************************************************************************)
\* No SDK lets an application free a native box twice, use a freed one or free one in use,
\* unless the application itself closes a wrapper while another of its threads is calling it
\* (or, on the web, calls a wrapper it has closed): the wrappers' flags, the React Native
\* handle table and the Node option suffice for every other order of calls, failed closes
\* and retried opens included.
MisuseNeedsOverlap == misuse # {} => careless

\* When no call is under way and memory is sound, a native box is live exactly when its
\* wrapper is, the lock file is held only for a live wrapper, and every instance whose
\* wrapper is closed is closed: a close whose last flush fails, a teardown and a deinit
\* leave no lock that the next open would find held.
NothingLeftBehind ==
    misuse = {} /\ (\A t \in Threads : th[t].pc = "idle") =>
        /\ \A d \in Instances : (dbs[d].box = "live") = (dbs[d].flag = "open")
        /\ \A w \in Wrappers : (cols[w].box = "live") = (cols[w].flag = "open")
        /\ \A d \in e.lock : dbs[d].flag = "open"
        /\ \A d \in Instances : e.inst[d].closed = (dbs[d].flag # "open")

\* A filtered search answers what the query says of the documents as the application wrote
\* them: compiling the query object to postfix steps or to a filter, replaying the steps on
\* a builder, compiling the metadata and the engine's evaluation lose and add nothing.
AnswerMeansQuery ==
    \A t \in Threads : th[t].pc = "answered" =>
        LET c == CallOf(t)
            on == cols[CHOOSE x \in th[t].w : TRUE]
            docs == Held(e, [db |-> CHOOSE d \in on.db : TRUE, name |-> CHOOSE n \in on.name : TRUE]).docs
        IN  /\ \A q \in c.query :
                  th[t].answer = {i \in Ids : \E doc \in docs[i] : Selects(q, doc.written)}
            /\ \A f \in c.tree :
                  th[t].answer = {i \in Ids : \E doc \in docs[i] :
                                                FilterMatches(f, doc.meta)}

\* The calls all surfaces have, their documents and filters apart.
CommonCalls == {[x EXCEPT !.batch = <<>>, !.query = {}, !.tree = {}] :
                   x \in {y \in Calls : y.op \notin {"release", "list_collections"}}}

\* The three surfaces are one interface: from a state of rest, a call that all three have
\* succeeds on all or on none, leaves the same engine and answers the same; a C failure
\* leaves an error object exactly when it carries an engine code.
SurfacesAgree ==
    misuse = {} /\ (\A t \in Threads : th[t].pc = "idle") =>
        \A c \in CommonCalls, io \in BOOLEAN, d \in Instances, w \in Wrappers :
            LET applies == IF OnWrapper(c) THEN cols[w].flag = "open" /\ cols[w].db = {d}
                                                /\ e.inst[d].reg[CHOOSE n \in cols[w].name : TRUE] # {}
                           ELSE IF c.op = "open" THEN dbs[d].flag = "unused" ELSE dbs[d].flag = "open"
                on == [db |-> d, name |-> IF OnWrapper(c) THEN CHOOSE n \in cols[w].name : TRUE ELSE c.name]
                given == [c EXCEPT !.io = io]
                doc == [meta |-> NoMetadata, written |-> NoFields]
            IN  applies => \A byC \in {CAbi(e, on, given, doc, {})} :
                    /\ byC.error = (byC.code > 0)
                    /\ \A r \in {Jni(e, on, given, doc, {}), Node(e, on, given, doc, {})} :
                          r.ok = byC.ok /\ r.e = byC.e /\ r.answer = byC.answer

\* What the SDKs document of collection(name, shape): a wrapper that was asked for with a
\* shape names a collection of that shape.
ShapeAsAsked ==
    \A w \in Wrappers : cols[w].flag = "open" =>
        \A d \in cols[w].db, n \in cols[w].name : \A x \in e.inst[d].reg[n] :
            \A s \in cols[w].asked : s = x.shape
=============================================================================
