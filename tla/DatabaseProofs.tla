---------------------------- MODULE DatabaseProofs ----------------------------
(***************************************************************************)
(* Proofs about Database for any number of threads, names, collections and *)
(* crashes: an acknowledged write is found by the next open, and no        *)
(* collection stands in the way of that open.                              *)
(*                                                                         *)
(* Drops overlap the calls on other collections.  One of them may commit a *)
(* snapshot of the manifest that is not current any more (the run          *)
(* database_drop_race); the names whose entry it takes back are in taken,  *)
(* and what is proved of a name, it is proved while it is not there.       *)
(***************************************************************************)
EXTENDS Database, SequenceTheorems, TLAPS

-------------------------------------------------------------------------------
(* The inductive invariant. *)

\* What the next open finds of collection n, whoever is doing what to it.
Stored(n) ==
    /\ current[n] <= created
    /\ dirs[n].logged \subseteq 1..Len(writes)
    /\ n \notin taken =>
         /\ manifest[n].named <=> current[n] # 0
         /\ Findable(n)
         /\ manifest[n].folded \subseteq 1..Len(writes)
         /\ \A w \in 1..Len(writes) : manifest[n].named /\ writes[w] = current[n] =>
              w \in dirs[n].logged \cup manifest[n].folded

\* What is there of n comes from the collection n stands for, unless a drop
\* left files behind.
Own(n) ==
    n \notin left \cup taken =>
        /\ manifest[n].named =>
             \A w \in dirs[n].logged \cup manifest[n].folded : writes[w] = current[n]
        /\ ~manifest[n].named => dirs[n].logged = {}

\* An open collection agrees with its files.
InStep(n) ==
    /\ manifest[n].named /\ colls[n].open
    /\ colls[n].memtable = dirs[n].logged
    /\ colls[n].segments = manifest[n].folded

\* What holds of n, if its entry was not taken back, while a thread is at a step
\* of a call on it.
InOrder(s, n) ==
    /\ s \in {"create_catalog", "create_commit"} => ~manifest[n].named
    /\ s = "create_open" => manifest[n].named /\ manifest[n].folded = {}
    /\ s \in {"drop_snapshot", "drop_commit"} => InStep(n)
    /\ s \in {"drop_unregister", "drop_remove"} => ~manifest[n].named
    /\ s = "flush_commit" =>
         /\ manifest[n].named /\ colls[n].open
         /\ colls[n].memtable = dirs[n].logged
         /\ colls[n].segments = manifest[n].folded \cup dirs[n].logged
         /\ colls[n].segments \subseteq dirs[n].segments
    /\ s = "flush_checkpoint" =>
         InStep(n) /\ dirs[n].logged \subseteq manifest[n].folded

\* What holds of n at that step in any case.
Stage(s, n) ==
    /\ s \in CreateSteps \cup {"drop_remove"} => ~colls[n].open
    /\ s = "create_commit" => dirs[n].catalog
    /\ n \notin taken => InOrder(s, n)

\* What holds of n while no call on it is running.
Rest(n) == running /\ n \notin taken => InStep(n) \/ (~manifest[n].named /\ ~colls[n].open)

Calls ==
    /\ \A t \in Threads : call[t] # Idle => Stage(call[t].step, call[t].name)
    /\ \A n \in Names :
         (\A t \in Threads : call[t] # Idle => call[t].name # n) => Rest(n)
    /\ \A t, u \in Threads :
         call[t] # Idle /\ call[u] # Idle /\ call[t].name = call[u].name => t = u

Down == ~running =>
    /\ \A t \in Threads : call[t] = Idle
    /\ \A n \in Names : ~colls[n].open

\* Creations are told apart by their numbers.
Numbers ==
    /\ \A w \in 1..Len(writes) : writes[w] <= created
    /\ \A m, n \in Names : current[m] = current[n] /\ current[m] # 0 => m = n

Inv ==
    /\ TypeOK
    /\ \A n \in Names : Stored(n) /\ Own(n)
    /\ Calls
    /\ Down
    /\ Numbers

-------------------------------------------------------------------------------
(* Calls. *)

LEMMA CallFacts ==
    ASSUME NEW c \in Call
    PROVE  /\ c = Idle <=> c.step = "idle"
           /\ c # Idle => /\ c.name \in Names
                          /\ c.step \in CreateSteps \cup FlushSteps \cup DropSteps
           /\ c.step = "drop_commit" => c.snapshot \in [Names -> Entry]
  BY DEF Call, Idle, CreateSteps, FlushSteps, DropSteps

LEMMA CallTypes ==
    /\ Idle \in Call /\ Idle.step = "idle"
    /\ \A s \in CreateSteps \cup FlushSteps \cup (DropSteps \ {"drop_commit"}), n \in Names :
         /\ [step |-> s, name |-> n] \in Call
         /\ [step |-> s, name |-> n] # Idle
    /\ \A n \in Names, m \in [Names -> Entry] :
         /\ [step |-> "drop_commit", name |-> n, snapshot |-> m] \in Call
         /\ [step |-> "drop_commit", name |-> n, snapshot |-> m] # Idle
  BY DEF Call, Idle, CreateSteps, FlushSteps, DropSteps

\* Thread t has collection n to itself.
Alone(t, n) == \A u \in Threads : u # t => (call[u] # Idle => call[u].name # n)

\* A step of thread t touches collection n only, and may take back the entries of
\* others.
Touches(n) ==
    \A m \in Names : m # n =>
        /\ dirs'[m] = dirs[m] /\ colls'[m] = colls[m] /\ current'[m] = current[m]
        /\ m \in taken => m \in taken'
        /\ m \notin taken' => manifest'[m] = manifest[m]

LEMMA InCall ==
    ASSUME Inv, NEW t \in Threads, NEW s \in CreateSteps \cup FlushSteps \cup DropSteps, At(t, s)
    PROVE  /\ running /\ call[t] \in Call /\ call[t] # Idle
           /\ call[t].name \in Names /\ call[t].step = s
           /\ Alone(t, call[t].name)
           /\ Stage(s, call[t].name)
<1>1. running /\ call[t] \in Call /\ call[t].step = s
  BY DEF Inv, TypeOK, At
<1>2. call[t] # Idle /\ call[t].name \in Names
  BY <1>1, CallFacts DEF CreateSteps, FlushSteps, DropSteps
<1>3. Stage(s, call[t].name)
  BY <1>1, <1>2 DEF Inv, Calls
<1>4. Alone(t, call[t].name)
  BY <1>2 DEF Inv, Calls, Alone
<1> QED
  BY <1>1, <1>2, <1>3, <1>4

LEMMA BeginsCall ==
    ASSUME Inv, NEW t \in Threads, NEW n \in Names, MayCall(t, n)
    PROVE  /\ running /\ call[t] = Idle /\ Alone(t, n) /\ Rest(n)
<1>1. running /\ call[t] \in Call /\ call[t].step = "idle"
  BY DEF Inv, TypeOK, MayCall, At
<1>2. call[t] = Idle
  BY <1>1, CallFacts
<1>3. \A u \in Threads : call[u] # Idle => call[u].name # n
  BY DEF MayCall
<1>4. Rest(n)
  BY <1>3 DEF Inv, Calls
<1> QED
  BY <1>1, <1>2, <1>3, <1>4 DEF Alone

\* A step of one thread, at one collection, keeps what is said of the calls if
\* it leaves that thread at a step whose condition holds.
LEMMA CallStep ==
    ASSUME Inv, NEW t \in Threads, NEW n \in Names, NEW c \in Call,
           running, running' = running,
           call' = [call EXCEPT ![t] = c],
           call[t] = Idle \/ call[t].name = n,
           c = Idle \/ c.name = n,
           Alone(t, n), Touches(n),
           c # Idle => Stage(c.step, n)',
           c = Idle => Rest(n)'
    PROVE  Calls' /\ Down'
<1>1. call'[t] = c /\ \A u \in Threads : u # t => call'[u] = call[u]
  BY DEF Inv, TypeOK
<1>2. \A m \in Names : m # n => /\ Rest(m) => Rest(m)'
                                /\ \A s : Stage(s, m) => Stage(s, m)'
  BY DEF Touches, Rest, Stage, InOrder, InStep
<1>3. \A u \in Threads : u # t /\ call[u] # Idle => call[u].name \in Names /\ call[u].name # n
  BY CallFacts DEF Alone, Inv, TypeOK
<1>4. ASSUME NEW u \in Threads, call'[u] # Idle
      PROVE  Stage(call[u].step, call[u].name)'
  <2>1. CASE u = t
    <3>1. c # Idle /\ c.name = n /\ call'[u] = c
      BY <1>1, <1>4, <2>1
    <3>2. Stage(c.step, n)'
      BY <3>1
    <3> QED
      BY <3>1, <3>2 DEF Stage, InOrder, CreateSteps, InStep
  <2>2. CASE u # t
    <3>1. call'[u] = call[u] /\ call[u] # Idle
      BY <1>1, <1>4, <2>2
    <3>a. PICK s : s = call[u].step
      OBVIOUS
    <3>b. PICK m \in Names : m = call[u].name /\ m # n
      BY <1>3, <2>2, <3>1
    <3>2. s = call[u].step /\ m = call[u].name /\ m # n
      BY <3>a, <3>b
    <3>3. Stage(s, m)
      BY <3>1, <3>2 DEF Inv, Calls
    <3>4. Stage(s, m)'
      BY <1>2, <3>2, <3>3
    <3> QED
      BY <3>1, <3>2, <3>4 DEF Stage, InOrder, CreateSteps, InStep
  <2> QED
    BY <2>1, <2>2
<1>5. ASSUME NEW m \in Names, \A u \in Threads : call'[u] # Idle => call'[u].name # m
      PROVE  Rest(m)'
  <2>1. CASE m = n
    <3>1. c = Idle
      BY <1>1, <1>5, <2>1
    <3> QED
      BY <2>1, <3>1
  <2>2. CASE m # n
    <3>1. \A u \in Threads : call[u] # Idle => call[u].name # m
      BY <1>1, <1>5, <2>2
    <3> QED
      BY <1>2, <2>2, <3>1 DEF Inv, Calls
  <2> QED
    BY <2>1, <2>2
<1>6. ASSUME NEW u \in Threads, NEW v \in Threads,
             call'[u] # Idle, call'[v] # Idle, call'[u].name = call'[v].name
      PROVE  u = v
  <2>1. CASE u = t \/ v = t
    BY <1>1, <1>3, <1>6, <2>1
  <2>2. CASE u # t /\ v # t
    BY <1>1, <1>6, <2>2 DEF Inv, Calls
  <2> QED
    BY <2>1, <2>2
<1>7. Calls'
  BY <1>4, <1>5, <1>6 DEF Calls
<1> QED
  BY <1>7 DEF Down

\* A collection that a step does not touch is stored as it was.
LEMMA StoredElsewhere ==
    ASSUME NEW n \in Names, Stored(n), Own(n),
           dirs'[n] = dirs[n], current'[n] = current[n],
           n \in taken => n \in taken', n \notin taken' => manifest'[n] = manifest[n],
           writes' = writes, n \in left' <=> n \in left,
           current[n] \in Nat, created \in Nat, created' \in Nat, created <= created'
    PROVE  Stored(n)' /\ Own(n)'
  BY DEF Stored, Own, Findable

-------------------------------------------------------------------------------
(* create_collection. *)

LEMMA CreateCheckStep ==
    ASSUME Inv, NEW t \in Threads, NEW n \in Names, CreateCheck(t, n)
    PROVE  Inv'
<1> DEFINE c == [step |-> "create_catalog", name |-> n]
<1>1. running /\ call[t] = Idle /\ Alone(t, n) /\ Rest(n)
  BY BeginsCall DEF CreateCheck
<1>2. c \in Call /\ c # Idle /\ c.step = "create_catalog" /\ c.name = n
  BY CallTypes DEF CreateSteps
<1>3. /\ call' = [call EXCEPT ![t] = c] /\ running' = running
      /\ UNCHANGED <<manifest, dirs, colls, crashes, writes, current, created, left, taken>>
      /\ ~colls[n].open
  BY DEF CreateCheck, ghosts
<1> HIDE DEF c
<1>4. Stage("create_catalog", n)'
  BY <1>1, <1>3 DEF Stage, InOrder, CreateSteps, Rest, InStep
<1>5. Calls' /\ Down'
  <2>2. Touches(n)
    BY <1>3 DEF Touches
  <2>3. Stage(c.step, n)'
    BY <1>2, <1>4
  <2> QED
    BY <1>1, <1>2, <1>3, <2>2, <2>3, CallStep
<1>6. TypeOK'
  BY <1>2, <1>3 DEF Inv, TypeOK
<1>7. (\A m \in Names : Stored(m) /\ Own(m))' /\ Numbers'
  BY <1>3 DEF Inv, Stored, Own, Findable, Numbers
<1> QED
  BY <1>5, <1>6, <1>7 DEF Inv

LEMMA CreateCatalogStep ==
    ASSUME Inv, NEW t \in Threads, CreateCatalog(t)
    PROVE  Inv'
<1>1. PICK n \in Names : n = call[t].name
  BY InCall DEF CreateCatalog, CreateSteps
<1> DEFINE c == [step |-> "create_commit", name |-> n]
<1>2. running /\ Alone(t, n) /\ Stage("create_catalog", n)
  BY <1>1, InCall DEF CreateCatalog, CreateSteps
<1>3. c \in Call /\ c # Idle /\ c.step = "create_commit" /\ c.name = n
  BY CallTypes DEF CreateSteps
<1>4. /\ call' = [call EXCEPT ![t] = c] /\ running' = running
      /\ dirs' = [dirs EXCEPT ![n].catalog = TRUE]
      /\ UNCHANGED <<manifest, colls, crashes, writes, current, created, left, taken>>
  BY <1>1 DEF CreateCatalog, Goes, ghosts
<1> HIDE DEF c
<1>5. TypeOK
  BY DEF Inv
<1>6. dirs' \in [Names -> Directory]
      /\ dirs'[n].catalog /\ dirs'[n].logged = dirs[n].logged
      /\ dirs'[n].segments = dirs[n].segments
      /\ \A m \in Names : m # n => dirs'[m] = dirs[m]
  BY <1>4, <1>5 DEF TypeOK, Directory
<1>7. Stage("create_commit", n)'
  BY <1>2, <1>4, <1>6 DEF Stage, InOrder, CreateSteps
<1>8. Calls' /\ Down'
  <2>2. Touches(n)
    BY <1>4, <1>6 DEF Touches
  <2>3. Stage(c.step, n)'
    BY <1>3, <1>7
  <2> QED
    BY <1>1, <1>2, <1>3, <1>4, <2>2, <2>3, CallStep
<1>9. TypeOK'
  BY <1>3, <1>4, <1>5, <1>6 DEF TypeOK
<1>10. ASSUME NEW m \in Names PROVE Stored(m)' /\ Own(m)'
  <2>1. dirs'[m].logged = dirs[m].logged /\ dirs'[m].segments = dirs[m].segments
        /\ (dirs[m].catalog => dirs'[m].catalog)
    BY <1>6
  <2> QED
    BY <1>4, <2>1 DEF Inv, Stored, Findable, Own
<1>11. Numbers'
  BY <1>4 DEF Inv, Numbers
<1> QED
  BY <1>8, <1>9, <1>10, <1>11 DEF Inv

\* The new collection's number is above every other's and above that of every
\* write.
LEMMA CreateCommitStep ==
    ASSUME Inv, NEW t \in Threads, CreateCommit(t)
    PROVE  Inv'
<1>1. PICK n \in Names : n = call[t].name
  BY InCall DEF CreateCommit, CreateSteps
<1> DEFINE c == [step |-> "create_open", name |-> n]
<1>2. running /\ Alone(t, n) /\ Stage("create_commit", n)
  BY <1>1, InCall DEF CreateCommit, CreateSteps
<1>3. c \in Call /\ c # Idle /\ c.step = "create_open" /\ c.name = n
  BY CallTypes DEF CreateSteps
<1>4. /\ call' = [call EXCEPT ![t] = c] /\ running' = running
      /\ manifest' = [manifest EXCEPT ![n] = [named |-> TRUE, folded |-> {}]]
      /\ created < MaxCreates /\ created' = created + 1
      /\ current' = [current EXCEPT ![n] = created + 1]
      /\ left' = left \cup ({n} \cap taken) /\ taken' = taken \ {n}
      /\ UNCHANGED <<dirs, colls, crashes, writes>>
  BY <1>1 DEF CreateCommit, Goes
<1> HIDE DEF c
<1>5. TypeOK /\ created \in Nat /\ created' \in 0..MaxCreates /\ created <= created'
  BY <1>4, DatabaseAssumption DEF Inv, TypeOK
<1>6. /\ manifest' \in [Names -> Entry] /\ manifest'[n] = [named |-> TRUE, folded |-> {}]
      /\ current' \in [Names -> 0..MaxCreates] /\ current'[n] = created'
      /\ left' \subseteq Names /\ taken' \subseteq Names /\ n \notin taken'
      /\ \A m \in Names : m # n => /\ manifest'[m] = manifest[m] /\ current'[m] = current[m]
                                   /\ m \in left' <=> m \in left
                                   /\ m \in taken' <=> m \in taken
  BY <1>4, <1>5 DEF TypeOK, Entry
<1>7. Stage("create_open", n)'
  BY <1>2, <1>4, <1>6 DEF Stage, InOrder, CreateSteps
<1>8. Calls' /\ Down'
  <2>2. Touches(n)
    BY <1>4, <1>6 DEF Touches
  <2>3. Stage(c.step, n)'
    BY <1>3, <1>7
  <2> QED
    BY <1>1, <1>2, <1>3, <1>4, <2>2, <2>3, CallStep
<1>9. TypeOK'
  BY <1>3, <1>4, <1>5, <1>6 DEF TypeOK
<1>10. \A m \in Names : current[m] \in Nat /\ current[m] <= created
  BY <1>5 DEF Inv, TypeOK, Stored, Findable
<1>11. \A w \in 1..Len(writes) : writes[w] \in Nat /\ writes[w] <= created
  <2>1. \A w \in 1..Len(writes) : writes[w] \in 0..MaxCreates
    BY <1>5, ElementOfSeq DEF TypeOK
  <2> QED
    BY <2>1, DatabaseAssumption DEF Inv, Numbers
<1>12. Stored(n)'
  <2>1. dirs[n].catalog /\ dirs[n].logged \subseteq 1..Len(writes)
    BY <1>2 DEF Stage, InOrder, CreateSteps, Inv, Stored, Findable
  <2>2. \A w \in 1..Len(writes) : writes[w] # created'
    BY <1>4, <1>5, <1>11
  <2> QED
    BY <1>4, <1>5, <1>6, <2>1, <2>2 DEF Stored, Findable
<1>13. Own(n)'
  <2>1. n \notin left' => n \notin left \cup taken
    BY <1>4
  <2>2. n \notin taken => ~manifest[n].named
    BY <1>2 DEF Stage, InOrder
  <2>3. n \notin left' => dirs[n].logged = {}
    BY <2>1, <2>2 DEF Inv, Own
  <2>4. dirs' = dirs /\ manifest'[n].folded = {} /\ manifest'[n].named
    BY <1>4, <1>6
  <2> QED
    BY <2>3, <2>4 DEF Own
<1>14. ASSUME NEW m \in Names, m # n PROVE Stored(m)' /\ Own(m)'
  <2>1. Stored(m) /\ Own(m)
    BY DEF Inv
  <2> QED
    BY <1>4, <1>5, <1>6, <1>10, <1>14, <2>1, StoredElsewhere
<1>15. Numbers'
  <2>1. \A w \in 1..Len(writes) : writes[w] <= created'
    BY <1>4, <1>5, <1>11
  <2>2. ASSUME NEW k \in Names, NEW m \in Names, current'[k] = current'[m], current'[k] # 0
        PROVE  k = m
    BY <1>4, <1>5, <1>6, <1>10, <2>2 DEF Inv, Numbers
  <2> QED
    BY <1>4, <2>1, <2>2 DEF Numbers
<1> QED
  BY <1>8, <1>9, <1>12, <1>13, <1>14, <1>15 DEF Inv

LEMMA CreateOpenStep ==
    ASSUME Inv, NEW t \in Threads, CreateOpen(t)
    PROVE  Inv'
<1>1. PICK n \in Names : n = call[t].name
  BY InCall DEF CreateOpen, CreateSteps
<1>2. running /\ Alone(t, n) /\ Stage("create_open", n)
  BY <1>1, InCall DEF CreateOpen, CreateSteps
<1>3. /\ call' = [call EXCEPT ![t] = Idle] /\ running' = running
      /\ dirs' = [dirs EXCEPT ![n] = [@ EXCEPT !.segments = @ \cap {}]]
      /\ colls' = [colls EXCEPT ![n] =
                     [open |-> TRUE, memtable |-> dirs[n].logged, segments |-> {}]]
      /\ UNCHANGED <<manifest, crashes, writes, current, created, left, taken>>
  BY <1>1 DEF CreateOpen, Returns, OpenedDirectory, Opened, ghosts
<1>4. TypeOK
  BY DEF Inv
<1>5. /\ dirs' \in [Names -> Directory]
      /\ dirs'[n].catalog = dirs[n].catalog
      /\ dirs'[n].logged = dirs[n].logged /\ dirs'[n].segments = {}
      /\ \A m \in Names : m # n => dirs'[m] = dirs[m]
  BY <1>3, <1>4 DEF TypeOK, Directory
<1>6. /\ colls' \in [Names -> CollInner]
      /\ colls'[n] = [open |-> TRUE, memtable |-> dirs[n].logged, segments |-> {}]
      /\ \A m \in Names : m # n => colls'[m] = colls[m]
  <2>1. dirs[n].logged \in SUBSET WriteId
    BY <1>4 DEF TypeOK, Directory
  <2> QED
    BY <1>3, <1>4, <2>1 DEF TypeOK, CollInner
<1>7. n \notin taken => manifest[n].named /\ manifest[n].folded = {}
  BY <1>2 DEF Stage, InOrder, CreateSteps
<1>8. Rest(n)'
  BY <1>3, <1>5, <1>6, <1>7 DEF Rest, InStep
<1>9. Calls' /\ Down'
  <2>1. Idle \in Call
    BY CallTypes
  <2>2. Touches(n)
    BY <1>3, <1>5, <1>6 DEF Touches
  <2> QED
    BY <1>1, <1>2, <1>3, <1>8, <2>1, <2>2, CallStep
<1>10. TypeOK'
  BY <1>3, <1>4, <1>5, <1>6, CallTypes DEF TypeOK
<1>11. ASSUME NEW m \in Names PROVE Stored(m)' /\ Own(m)'
  BY <1>3, <1>5, <1>7 DEF Inv, Stored, Findable, Own
<1>12. Numbers'
  BY <1>3 DEF Inv, Numbers
<1> QED
  BY <1>9, <1>10, <1>11, <1>12 DEF Inv

-------------------------------------------------------------------------------
(* drop_collection. *)

LEMMA DropCheckStep ==
    ASSUME Inv, NEW t \in Threads, NEW n \in Names, DropCheck(t, n)
    PROVE  Inv'
<1> DEFINE c == [step |-> "drop_snapshot", name |-> n]
<1>1. running /\ call[t] = Idle /\ Alone(t, n) /\ Rest(n)
  BY BeginsCall DEF DropCheck
<1>3. c \in Call /\ c # Idle /\ c.step = "drop_snapshot" /\ c.name = n
  BY CallTypes DEF DropSteps
<1>4. /\ call' = [call EXCEPT ![t] = c] /\ running' = running
      /\ UNCHANGED <<manifest, dirs, colls, crashes, writes, current, created, left, taken>>
      /\ colls[n].open
  BY DEF DropCheck, ghosts
<1> HIDE DEF c
<1>5. Stage("drop_snapshot", n)'
  BY <1>1, <1>4 DEF Stage, InOrder, CreateSteps, Rest, InStep
<1>6. Calls' /\ Down'
  <2>2. Touches(n)
    BY <1>4 DEF Touches
  <2>3. Stage(c.step, n)'
    BY <1>3, <1>5
  <2> QED
    BY <1>1, <1>3, <1>4, <2>2, <2>3, CallStep
<1>7. TypeOK'
  BY <1>3, <1>4 DEF Inv, TypeOK
<1>8. (\A m \in Names : Stored(m) /\ Own(m))' /\ Numbers'
  BY <1>4 DEF Inv, Stored, Own, Findable, Numbers
<1> QED
  BY <1>6, <1>7, <1>8 DEF Inv

LEMMA DropSnapshotStep ==
    ASSUME Inv, NEW t \in Threads, DropSnapshot(t)
    PROVE  Inv'
<1>1. PICK n \in Names : n = call[t].name
  BY InCall DEF DropSnapshot, DropSteps
<1>2. PICK old \in [Names -> Entry] : old = manifest
  BY DEF Inv, TypeOK
<1> DEFINE c == [step |-> "drop_commit", name |-> n, snapshot |-> old]
<1>3. running /\ Alone(t, n) /\ Stage("drop_snapshot", n)
  BY <1>1, InCall DEF DropSnapshot, DropSteps
<1>4. c \in Call /\ c # Idle /\ c.step = "drop_commit" /\ c.name = n /\ c.snapshot = old
  BY CallTypes
<1>5. /\ call' = [call EXCEPT ![t] = c] /\ running' = running
      /\ UNCHANGED <<manifest, dirs, colls, crashes, writes, current, created, left, taken>>
  BY <1>1, <1>2 DEF DropSnapshot, ghosts
<1> HIDE DEF c
<1>6. Stage("drop_commit", n)'
  BY <1>3, <1>5 DEF Stage, InOrder, CreateSteps, InStep
<1>7. Calls' /\ Down'
  <2>2. Touches(n)
    BY <1>5 DEF Touches
  <2>3. Stage(c.step, n)'
    BY <1>4, <1>6
  <2> QED
    BY <1>1, <1>3, <1>4, <1>5, <2>2, <2>3, CallStep
<1>8. TypeOK'
  BY <1>4, <1>5 DEF Inv, TypeOK
<1>9. (\A m \in Names : Stored(m) /\ Own(m))' /\ Numbers'
  BY <1>5 DEF Inv, Stored, Own, Findable, Numbers
<1> QED
  BY <1>7, <1>8, <1>9 DEF Inv

\* Collections whose entry the snapshot has as it is keep it; the others are
\* taken back.
LEMMA DropCommitStep ==
    ASSUME Inv, NEW t \in Threads, DropCommit(t)
    PROVE  Inv'
<1>1. PICK n \in Names : n = call[t].name
  BY InCall DEF DropCommit, DropSteps
<1> DEFINE c == [step |-> "drop_unregister", name |-> n]
<1>2. running /\ Alone(t, n) /\ Stage("drop_commit", n) /\ call[t].step = "drop_commit"
  BY <1>1, InCall DEF DropCommit, DropSteps
<1>3. c \in Call /\ c # Idle /\ c.step = "drop_unregister" /\ c.name = n
  BY CallTypes DEF DropSteps
<1>4. PICK old \in [Names -> Entry] : old = call[t].snapshot
  BY <1>2, CallFacts DEF Inv, TypeOK
<1>5. /\ call' = [call EXCEPT ![t] = c] /\ running' = running
      /\ manifest' = [old EXCEPT ![n] = NoEntry]
      /\ current' = [current EXCEPT ![n] = 0]
      /\ left' = left \cup {n}
      /\ taken' = (taken \ {n}) \cup {m \in Names \ {n} : old[m] # manifest[m]}
      /\ UNCHANGED <<dirs, colls, crashes, writes, created>>
  BY <1>1, <1>4 DEF DropCommit, Goes, TakenBack
<1> HIDE DEF c
<1>6. TypeOK
  BY DEF Inv
<1>7. /\ manifest' \in [Names -> Entry] /\ manifest'[n] = [named |-> FALSE, folded |-> {}]
      /\ current' \in [Names -> 0..MaxCreates] /\ current'[n] = 0
      /\ taken' \subseteq Names /\ n \notin taken'
  BY <1>5, <1>6, DatabaseAssumption DEF TypeOK, Entry, NoEntry
<1>8. \A m \in Names : m # n => /\ current'[m] = current[m]
                                /\ m \in taken => m \in taken'
                                /\ m \notin taken' => manifest'[m] = manifest[m]
  BY <1>5, <1>6 DEF TypeOK
<1>9. Stage("drop_unregister", n)'
  BY <1>7 DEF Stage, InOrder, CreateSteps
<1>10. Calls' /\ Down'
  <2>1. Touches(n)
    BY <1>5, <1>8 DEF Touches
  <2>2. Stage(c.step, n)'
    BY <1>3, <1>9
  <2> QED
    BY <1>1, <1>2, <1>3, <1>5, <2>1, <2>2, CallStep
<1>11. TypeOK'
  BY <1>3, <1>5, <1>6, <1>7 DEF TypeOK
<1>12. created \in Nat /\ \A m \in Names : current[m] \in Nat
  BY <1>6, DatabaseAssumption DEF TypeOK
<1>13. Stored(n)' /\ Own(n)'
  <2>1. dirs[n].logged \subseteq 1..Len(writes)
    BY DEF Inv, Stored, Findable
  <2> QED
    BY <1>5, <1>7, <1>12, <2>1 DEF Stored, Own, Findable
<1>14. ASSUME NEW m \in Names, m # n PROVE Stored(m)' /\ Own(m)'
  <2>1. Stored(m) /\ Own(m)
    BY DEF Inv
  <2>2. m \in left' <=> m \in left
    BY <1>5, <1>14
  <2> QED
    BY <1>5, <1>8, <1>12, <1>14, <2>1, <2>2, StoredElsewhere
<1>15. Numbers'
  BY <1>5, <1>7, <1>8 DEF Inv, Numbers
<1> QED
  BY <1>10, <1>11, <1>13, <1>14, <1>15 DEF Inv

LEMMA DropUnregisterStep ==
    ASSUME Inv, NEW t \in Threads, DropUnregister(t)
    PROVE  Inv'
<1>1. PICK n \in Names : n = call[t].name
  BY InCall DEF DropUnregister, DropSteps
<1> DEFINE c == [step |-> "drop_remove", name |-> n]
<1>2. running /\ Alone(t, n) /\ Stage("drop_unregister", n)
  BY <1>1, InCall DEF DropUnregister, DropSteps
<1>3. c \in Call /\ c # Idle /\ c.step = "drop_remove" /\ c.name = n
  BY CallTypes DEF DropSteps
<1>4. /\ call' = [call EXCEPT ![t] = c] /\ running' = running
      /\ colls' = [colls EXCEPT ![n] = NotOpen]
      /\ UNCHANGED <<manifest, dirs, crashes, writes, current, created, left, taken>>
  BY <1>1 DEF DropUnregister, Goes, ghosts
<1> HIDE DEF c
<1>5. TypeOK
  BY DEF Inv
<1>6. /\ colls' \in [Names -> CollInner] /\ ~colls'[n].open
      /\ \A m \in Names : m # n => colls'[m] = colls[m]
  BY <1>4, <1>5 DEF TypeOK, CollInner, NotOpen
<1>7. Stage("drop_remove", n)'
  BY <1>2, <1>4, <1>6 DEF Stage, InOrder, CreateSteps
<1>8. Calls' /\ Down'
  <2>2. Touches(n)
    BY <1>4, <1>6 DEF Touches
  <2>3. Stage(c.step, n)'
    BY <1>3, <1>7
  <2> QED
    BY <1>1, <1>2, <1>3, <1>4, <2>2, <2>3, CallStep
<1>9. TypeOK'
  BY <1>3, <1>4, <1>5, <1>6 DEF TypeOK
<1>10. (\A m \in Names : Stored(m) /\ Own(m))' /\ Numbers'
  BY <1>4 DEF Inv, Stored, Own, Findable, Numbers
<1> QED
  BY <1>8, <1>9, <1>10 DEF Inv

LEMMA DropRemoveStep ==
    ASSUME Inv, NEW t \in Threads, DropRemove(t)
    PROVE  Inv'
<1>1. PICK n \in Names : n = call[t].name
  BY InCall DEF DropRemove, DropSteps
<1>2. running /\ Alone(t, n) /\ Stage("drop_remove", n)
  BY <1>1, InCall DEF DropRemove, DropSteps
<1>3. /\ call' = [call EXCEPT ![t] = Idle] /\ running' = running
      /\ dirs' = [dirs EXCEPT ![n] = NoDirectory]
      /\ left' = left \ {n}
      /\ UNCHANGED <<manifest, colls, crashes, writes, current, created, taken>>
  BY <1>1 DEF DropRemove, Returns
<1>4. TypeOK
  BY DEF Inv
<1>5. /\ dirs' \in [Names -> Directory] /\ dirs'[n].logged = {}
      /\ \A m \in Names : m # n => dirs'[m] = dirs[m]
  BY <1>3, <1>4 DEF TypeOK, Directory, NoDirectory
<1>6. ~colls[n].open /\ (n \notin taken => ~manifest[n].named)
  BY <1>2 DEF Stage, InOrder, CreateSteps
<1>7. Rest(n)'
  BY <1>3, <1>6 DEF Rest
<1>8. Calls' /\ Down'
  <2>1. Idle \in Call
    BY CallTypes
  <2>2. Touches(n)
    BY <1>3, <1>5 DEF Touches
  <2> QED
    BY <1>1, <1>2, <1>3, <1>7, <2>1, <2>2, CallStep
<1>9. TypeOK'
  BY <1>3, <1>4, <1>5, CallTypes DEF TypeOK
<1>10. created \in Nat /\ \A m \in Names : current[m] \in Nat
  BY <1>4, DatabaseAssumption DEF TypeOK
<1>11. Stored(n)' /\ Own(n)'
  BY <1>3, <1>5, <1>6 DEF Inv, Stored, Findable, Own
<1>12. ASSUME NEW m \in Names, m # n PROVE Stored(m)' /\ Own(m)'
  <2>1. Stored(m) /\ Own(m)
    BY DEF Inv
  <2>2. m \in left' <=> m \in left
    BY <1>3, <1>12
  <2> QED
    BY <1>3, <1>5, <1>10, <1>12, <2>1, <2>2, StoredElsewhere
<1>13. Numbers'
  BY <1>3 DEF Inv, Numbers
<1> QED
  BY <1>8, <1>9, <1>11, <1>12, <1>13 DEF Inv

-------------------------------------------------------------------------------
(* Calls through a handle. *)

\* The new write carries the number of the collection it went to, which is no
\* other collection's.
LEMMA WriteStep ==
    ASSUME Inv, NEW t \in Threads, NEW n \in Names, Write(t, n)
    PROVE  Inv'
<1>1. running /\ call[t] = Idle /\ Alone(t, n) /\ Rest(n)
  BY BeginsCall DEF Write
<1>2. PICK w \in Nat : w = Len(writes) + 1
  BY DEF Inv, TypeOK
<1>3. /\ writes' = Append(writes, current[n]) /\ w \in WriteId
      /\ colls' = [colls EXCEPT ![n].memtable = @ \cup {w}]
      /\ dirs' = [dirs EXCEPT ![n].logged = @ \cup {w}]
      /\ colls[n].open
      /\ UNCHANGED <<manifest, call, running, crashes, current, created, left, taken>>
  BY <1>2, DatabaseAssumption DEF Write, WriteId, Inv, TypeOK
<1>4. TypeOK /\ created \in Nat /\ (\A m \in Names : current[m] \in Nat)
  BY DatabaseAssumption DEF Inv, TypeOK
<1>5. n \notin taken => InStep(n)
  BY <1>1, <1>3 DEF Rest
<1>6. current[n] \in 0..MaxCreates /\ current[n] <= created
  BY <1>4 DEF Inv, TypeOK, Stored
<1>7. /\ writes' \in Seq(0..MaxCreates) /\ Len(writes') = w
      /\ writes'[w] = current[n]
      /\ \A v \in 1..Len(writes) : writes'[v] = writes[v]
      /\ 1..w = (1..Len(writes)) \cup {w} /\ Len(writes) \in Nat
  <2>1. writes \in Seq(0..MaxCreates)
    BY <1>4 DEF TypeOK
  <2> QED
    BY <1>2, <1>3, <1>6, <2>1, AppendProperties
<1>8. /\ dirs' \in [Names -> Directory]
      /\ dirs'[n].catalog = dirs[n].catalog /\ dirs'[n].segments = dirs[n].segments
      /\ dirs'[n].logged = dirs[n].logged \cup {w}
      /\ \A m \in Names : m # n => dirs'[m] = dirs[m]
  BY <1>3, <1>4 DEF TypeOK, Directory
<1>9. /\ colls' \in [Names -> CollInner]
      /\ colls'[n].open = colls[n].open /\ colls'[n].segments = colls[n].segments
      /\ colls'[n].memtable = colls[n].memtable \cup {w}
      /\ \A m \in Names : m # n => colls'[m] = colls[m]
  BY <1>3, <1>4 DEF TypeOK, CollInner
<1>10. Rest(n)'
  BY <1>3, <1>5, <1>8, <1>9 DEF Rest, InStep
<1>11. Calls' /\ Down'
  <2>1. Idle \in Call
    BY CallTypes
  <2>2. Touches(n)
    BY <1>3, <1>8, <1>9 DEF Touches
  <2>3. call' = [call EXCEPT ![t] = Idle]
    BY <1>1, <1>3, <1>4 DEF TypeOK
  <2> QED
    BY <1>1, <1>3, <1>10, <2>1, <2>2, <2>3, CallStep
<1>12. TypeOK'
  BY <1>3, <1>4, <1>7, <1>8, <1>9 DEF TypeOK
<1>13. ASSUME NEW m \in Names PROVE Stored(m)'
  <2>1. Stored(m)
    BY DEF Inv
  <2>2. dirs'[m].catalog = dirs[m].catalog /\ dirs'[m].segments = dirs[m].segments
        /\ dirs'[m].logged = dirs[m].logged \cup (IF m = n THEN {w} ELSE {})
    BY <1>8
  <2>3. m \notin taken =>
          \A v \in 1..w : manifest[m].named /\ writes'[v] = current[m] =>
            v \in dirs'[m].logged \cup manifest[m].folded
    <3> SUFFICES ASSUME m \notin taken, NEW v \in 1..w, manifest[m].named, writes'[v] = current[m]
                 PROVE  v \in dirs'[m].logged \cup manifest[m].folded
      OBVIOUS
    <3>1. CASE v = w
      <4>1. current[m] # 0 /\ current[m] = current[n]
        BY <1>7, <2>1, <3>1 DEF Stored, Findable
      <4>2. m = n
        BY <4>1 DEF Inv, Numbers
      <4> QED
        BY <2>2, <3>1, <4>2
    <3>2. CASE v # w
      <4>1. v \in 1..Len(writes) /\ writes[v] = current[m]
        BY <1>7, <3>2
      <4> QED
        BY <2>1, <2>2, <4>1 DEF Stored, Findable
    <3> QED
      BY <3>1, <3>2
  <2>4. dirs'[m].logged \subseteq 1..w /\ (m \notin taken => manifest[m].folded \subseteq 1..w)
    BY <1>7, <2>1, <2>2 DEF Stored, Findable
  <2> QED
    BY <1>3, <1>7, <2>1, <2>2, <2>3, <2>4 DEF Stored, Findable
<1>14. ASSUME NEW m \in Names PROVE Own(m)'
  <2> SUFFICES ASSUME m \notin taken PROVE Own(m)'
    BY <1>3 DEF Own
  <2>1. Stored(m) /\ Own(m)
    BY DEF Inv
  <2>2. \A v \in dirs[m].logged \cup manifest[m].folded : writes'[v] = writes[v]
    BY <1>7, <2>1 DEF Stored, Findable
  <2>3. CASE m = n
    <3>0. n \notin taken
      BY <2>3
    <3>1. manifest[n].named /\ dirs'[n].logged = dirs[n].logged \cup {w}
      BY <1>5, <1>8, <3>0 DEF InStep
    <3>2. /\ manifest' = manifest /\ current' = current /\ left' = left /\ taken' = taken
          /\ writes'[w] = current[n]
      BY <1>3, <1>7
    <3>3. n \notin left => \A v \in dirs[n].logged \cup manifest[n].folded : writes'[v] = current[n]
      BY <2>1, <2>2, <2>3, <3>0, <3>1 DEF Own
    <3> QED
      BY <2>3, <3>1, <3>2, <3>3 DEF Own
  <2>4. CASE m # n
    <3>1. /\ manifest' = manifest /\ current' = current /\ left' = left /\ taken' = taken
          /\ dirs'[m] = dirs[m]
      BY <1>3, <1>8, <2>4
    <3> QED
      BY <2>1, <2>2, <3>1 DEF Own
  <2> QED
    BY <2>3, <2>4
<1>15. Numbers'
  <2>1. \A v \in 1..w : writes'[v] <= created
    BY <1>6, <1>7 DEF Inv, Numbers
  <2> QED
    BY <1>3, <1>7, <2>1 DEF Inv, Numbers
<1> QED
  BY <1>11, <1>12, <1>13, <1>14, <1>15 DEF Inv

LEMMA FlushFilesStep ==
    ASSUME Inv, NEW t \in Threads, NEW n \in Names, FlushFiles(t, n)
    PROVE  Inv'
<1> DEFINE c == [step |-> "flush_commit", name |-> n]
<1>1. running /\ call[t] = Idle /\ Alone(t, n) /\ Rest(n)
  BY BeginsCall DEF FlushFiles
<1>2. c \in Call /\ c # Idle /\ c.step = "flush_commit" /\ c.name = n
  BY CallTypes DEF FlushSteps
<1>3. /\ call' = [call EXCEPT ![t] = c] /\ running' = running
      /\ colls[n].open
      /\ dirs' = [dirs EXCEPT ![n].segments = @ \cup colls[n].memtable]
      /\ colls' = [colls EXCEPT ![n].segments = @ \cup colls[n].memtable]
      /\ UNCHANGED <<manifest, crashes, writes, current, created, left, taken>>
  BY DEF FlushFiles, ghosts
<1> HIDE DEF c
<1>4. TypeOK /\ (n \notin taken => InStep(n))
  BY <1>1, <1>3 DEF Inv, Rest
<1>5. /\ dirs' \in [Names -> Directory]
      /\ dirs'[n].catalog = dirs[n].catalog /\ dirs'[n].logged = dirs[n].logged
      /\ dirs'[n].segments = dirs[n].segments \cup colls[n].memtable
      /\ \A m \in Names : m # n => dirs'[m] = dirs[m]
  BY <1>3, <1>4 DEF TypeOK, Directory, CollInner
<1>6. /\ colls' \in [Names -> CollInner]
      /\ colls'[n].open = colls[n].open /\ colls'[n].memtable = colls[n].memtable
      /\ colls'[n].segments = colls[n].segments \cup colls[n].memtable
      /\ \A m \in Names : m # n => colls'[m] = colls[m]
  BY <1>3, <1>4 DEF TypeOK, CollInner
<1>7. Stage("flush_commit", n)'
  <2> SUFFICES ASSUME n \notin taken PROVE Stage("flush_commit", n)'
    BY <1>3 DEF Stage, CreateSteps
  <2>1. manifest[n].folded \subseteq dirs[n].segments
    BY <1>4 DEF Inv, Stored, Findable, InStep
  <2>2. /\ manifest[n].named /\ colls[n].open
        /\ colls[n].memtable = dirs[n].logged
        /\ colls[n].segments = manifest[n].folded
    BY <1>4 DEF InStep
  <2>3. colls'[n].segments \subseteq dirs'[n].segments
    BY <1>5, <1>6, <2>1, <2>2
  <2> QED
    BY <1>3, <1>5, <1>6, <2>2, <2>3 DEF Stage, InOrder, CreateSteps
<1>8. Calls' /\ Down'
  <2>2. Touches(n)
    BY <1>3, <1>5, <1>6 DEF Touches
  <2>3. Stage(c.step, n)'
    BY <1>2, <1>7
  <2> QED
    BY <1>1, <1>2, <1>3, <2>2, <2>3, CallStep
<1>9. TypeOK'
  BY <1>2, <1>3, <1>4, <1>5, <1>6 DEF TypeOK
<1>10. ASSUME NEW m \in Names PROVE Stored(m)' /\ Own(m)'
  <2>1. dirs'[m].catalog = dirs[m].catalog /\ dirs'[m].logged = dirs[m].logged
        /\ dirs[m].segments \subseteq dirs'[m].segments
    BY <1>5
  <2> QED
    BY <1>3, <2>1 DEF Inv, Stored, Findable, Own
<1>11. Numbers'
  BY <1>3 DEF Inv, Numbers
<1> QED
  BY <1>8, <1>9, <1>10, <1>11 DEF Inv

\* The entry of that name alone is replaced; it names the log's writes too.
LEMMA FlushCommitStep ==
    ASSUME Inv, NEW t \in Threads, FlushCommit(t)
    PROVE  Inv'
<1>1. PICK n \in Names : n = call[t].name
  BY InCall DEF FlushCommit, FlushSteps
<1> DEFINE c == [step |-> "flush_checkpoint", name |-> n]
<1>2. running /\ Alone(t, n) /\ Stage("flush_commit", n)
  BY <1>1, InCall DEF FlushCommit, FlushSteps
<1>3. c \in Call /\ c # Idle /\ c.step = "flush_checkpoint" /\ c.name = n
  BY CallTypes DEF FlushSteps
<1>4. /\ call' = [call EXCEPT ![t] = c] /\ running' = running
      /\ manifest' = [manifest EXCEPT ![n] = [named |-> TRUE, folded |-> colls[n].segments]]
      /\ UNCHANGED <<dirs, colls, crashes, writes, current, created, left, taken>>
  BY <1>1 DEF FlushCommit, Goes, ghosts
<1> HIDE DEF c
<1>5. TypeOK
  BY DEF Inv
<1>6. /\ manifest' \in [Names -> Entry]
      /\ manifest'[n].named /\ manifest'[n].folded = colls[n].segments
      /\ \A m \in Names : m # n => manifest'[m] = manifest[m]
  BY <1>4, <1>5 DEF TypeOK, Entry, CollInner
<1>7. n \notin taken =>
        /\ manifest[n].named /\ colls[n].open
        /\ colls[n].memtable = dirs[n].logged
        /\ colls[n].segments = manifest[n].folded \cup dirs[n].logged
        /\ colls[n].segments \subseteq dirs[n].segments
  BY <1>2 DEF Stage, InOrder, CreateSteps
<1>8. Stage("flush_checkpoint", n)'
  BY <1>4, <1>6, <1>7 DEF Stage, InOrder, CreateSteps, InStep
<1>9. Calls' /\ Down'
  <2>2. Touches(n)
    BY <1>4, <1>6 DEF Touches
  <2>3. Stage(c.step, n)'
    BY <1>3, <1>8
  <2> QED
    BY <1>1, <1>2, <1>3, <1>4, <2>2, <2>3, CallStep
<1>10. TypeOK'
  BY <1>3, <1>4, <1>5, <1>6 DEF TypeOK
<1>11. created \in Nat /\ \A m \in Names : current[m] \in Nat
  BY <1>5, DatabaseAssumption DEF TypeOK
<1>12. Stored(n)' /\ Own(n)'
  <2>1. Stored(n) /\ Own(n)
    BY DEF Inv
  <2>2. n \notin taken =>
          manifest'[n].folded \cup dirs[n].logged = manifest[n].folded \cup dirs[n].logged
    BY <1>6, <1>7
  <2> QED
    BY <1>4, <1>6, <1>7, <2>1, <2>2 DEF Stored, Findable, Own
<1>13. ASSUME NEW m \in Names, m # n PROVE Stored(m)' /\ Own(m)'
  <2>1. Stored(m) /\ Own(m)
    BY DEF Inv
  <2> QED
    BY <1>4, <1>6, <1>11, <1>13, <2>1, StoredElsewhere
<1>14. Numbers'
  BY <1>4 DEF Inv, Numbers
<1> QED
  BY <1>9, <1>10, <1>12, <1>13, <1>14 DEF Inv

\* The log may go: the manifest names everything in it.
LEMMA FlushCheckpointStep ==
    ASSUME Inv, NEW t \in Threads, FlushCheckpoint(t)
    PROVE  Inv'
<1>1. PICK n \in Names : n = call[t].name
  BY InCall DEF FlushCheckpoint, FlushSteps
<1>2. running /\ Alone(t, n) /\ Stage("flush_checkpoint", n)
  BY <1>1, InCall DEF FlushCheckpoint, FlushSteps
<1>3. /\ call' = [call EXCEPT ![t] = Idle] /\ running' = running
      /\ dirs' = [dirs EXCEPT ![n].logged = {}]
      /\ colls' = [colls EXCEPT ![n].memtable = {}]
      /\ UNCHANGED <<manifest, crashes, writes, current, created, left, taken>>
  BY <1>1 DEF FlushCheckpoint, Returns, ghosts
<1>4. TypeOK
  BY DEF Inv
<1>5. /\ dirs' \in [Names -> Directory] /\ dirs'[n].logged = {}
      /\ dirs'[n].catalog = dirs[n].catalog /\ dirs'[n].segments = dirs[n].segments
      /\ \A m \in Names : m # n => dirs'[m] = dirs[m]
  BY <1>3, <1>4 DEF TypeOK, Directory
<1>6. /\ colls' \in [Names -> CollInner] /\ colls'[n].memtable = {}
      /\ colls'[n].open = colls[n].open /\ colls'[n].segments = colls[n].segments
      /\ \A m \in Names : m # n => colls'[m] = colls[m]
  BY <1>3, <1>4 DEF TypeOK, CollInner
<1>7. n \notin taken => InStep(n) /\ dirs[n].logged \subseteq manifest[n].folded
  BY <1>2 DEF Stage, InOrder, CreateSteps
<1>8. Rest(n)'
  BY <1>3, <1>5, <1>6, <1>7 DEF Rest, InStep
<1>9. Calls' /\ Down'
  <2>1. Idle \in Call
    BY CallTypes
  <2>2. Touches(n)
    BY <1>3, <1>5, <1>6 DEF Touches
  <2> QED
    BY <1>1, <1>2, <1>3, <1>8, <2>1, <2>2, CallStep
<1>10. TypeOK'
  BY <1>3, <1>4, <1>5, <1>6, CallTypes DEF TypeOK
<1>11. ASSUME NEW m \in Names PROVE Stored(m)' /\ Own(m)'
  <2>1. Stored(m) /\ Own(m)
    BY DEF Inv
  <2>2. CASE m = n
    <3>1. n \notin taken => manifest[n].named
      BY <1>7 DEF InStep
    <3> QED
      BY <1>3, <1>5, <1>7, <2>1, <2>2, <3>1 DEF Stored, Findable, Own
  <2>3. CASE m # n
    BY <1>3, <1>5, <2>1, <2>3 DEF Stored, Findable, Own
  <2> QED
    BY <2>2, <2>3
<1>12. Numbers'
  BY <1>3 DEF Inv, Numbers
<1> QED
  BY <1>9, <1>10, <1>11, <1>12 DEF Inv

-------------------------------------------------------------------------------
(* The process ends and the database is opened again. *)

LEMMA CrashStep ==
    ASSUME Inv, Crash
    PROVE  Inv'
<1>1. /\ running' = FALSE
      /\ crashes < MaxCrashes /\ crashes' = crashes + 1
      /\ colls' = [n \in Names |-> NotOpen]
      /\ call' = [t \in Threads |-> Idle]
      /\ UNCHANGED <<manifest, dirs, writes, current, created, left, taken>>
  BY DEF Crash, ghosts
<1>2. TypeOK
  BY DEF Inv
<1>3. crashes' \in 0..MaxCrashes
  BY <1>1, <1>2, DatabaseAssumption DEF TypeOK
<1>4. colls' \in [Names -> CollInner] /\ \A n \in Names : ~colls'[n].open
  BY <1>1 DEF CollInner, NotOpen
<1>5. call' \in [Threads -> Call] /\ \A t \in Threads : call'[t] = Idle
  BY <1>1, CallTypes
<1>6. TypeOK'
  BY <1>1, <1>2, <1>3, <1>4, <1>5 DEF TypeOK
<1>7. Calls' /\ Down'
  BY <1>1, <1>4, <1>5 DEF Calls, Down, Rest
<1>8. (\A m \in Names : Stored(m) /\ Own(m))' /\ Numbers'
  BY <1>1 DEF Inv, Stored, Own, Findable, Numbers
<1> QED
  BY <1>6, <1>7, <1>8 DEF Inv

LEMMA OpenStep ==
    ASSUME Inv, Open
    PROVE  Inv'
<1>1. /\ ~running /\ running' = TRUE
      /\ colls' = [n \in Names |-> IF manifest[n].named
                                   THEN Opened(dirs[n], manifest[n]) ELSE NotOpen]
      /\ dirs' = [n \in Names |-> IF manifest[n].named
                                  THEN OpenedDirectory(dirs[n], manifest[n]) ELSE dirs[n]]
      /\ UNCHANGED <<manifest, call, crashes, writes, current, created, left, taken>>
      /\ \A n \in Names : Findable(n)
  BY DEF Open, Openable, ghosts
<1>2. TypeOK /\ \A t \in Threads : call[t] = Idle
  BY <1>1 DEF Inv, Down
<1>3. ASSUME NEW n \in Names
      PROVE  /\ dirs'[n] \in Directory
             /\ dirs'[n].catalog = dirs[n].catalog /\ dirs'[n].logged = dirs[n].logged
             /\ manifest[n].named => manifest[n].folded \subseteq dirs'[n].segments
             /\ colls'[n] \in CollInner
             /\ colls'[n].open <=> manifest[n].named
             /\ manifest[n].named => /\ colls'[n].memtable = dirs[n].logged
                                     /\ colls'[n].segments = manifest[n].folded
  <2>1. dirs[n] \in Directory /\ manifest[n] \in Entry
    BY <1>2 DEF TypeOK
  <2>2. manifest[n].named => manifest[n].folded \subseteq dirs[n].segments
    BY <1>1 DEF Findable
  <2>3. CASE manifest[n].named
    <3>1. dirs'[n] = [dirs[n] EXCEPT !.segments = @ \cap manifest[n].folded]
      BY <1>1, <2>3 DEF OpenedDirectory
    <3>2. colls'[n] = [open |-> TRUE, memtable |-> dirs[n].logged,
                       segments |-> manifest[n].folded]
      BY <1>1, <2>3 DEF Opened
    <3> QED
      BY <2>1, <2>2, <2>3, <3>1, <3>2 DEF Directory, Entry, CollInner
  <2>4. CASE ~manifest[n].named
    <3>1. dirs'[n] = dirs[n] /\ colls'[n] = NotOpen
      BY <1>1, <2>4
    <3> QED
      BY <2>1, <2>4, <3>1 DEF NotOpen, CollInner
  <2> QED
    BY <2>3, <2>4
<1>4. TypeOK'
  <2>1. dirs' \in [Names -> Directory] /\ colls' \in [Names -> CollInner]
    BY <1>1, <1>3
  <2> QED
    BY <1>1, <1>2, <2>1 DEF TypeOK
<1>5. ASSUME NEW n \in Names PROVE Rest(n)' /\ Stored(n)' /\ Own(n)'
  <2>1. Stored(n) /\ Own(n)
    BY DEF Inv
  <2>2. Rest(n)'
    BY <1>1, <1>3 DEF Rest, InStep
  <2>3. Stored(n)' /\ Own(n)'
    BY <1>1, <1>3, <2>1 DEF Stored, Findable, Own
  <2> QED
    BY <2>2, <2>3
<1>6. Calls' /\ Down'
  BY <1>1, <1>2, <1>5 DEF Calls, Down
<1>7. Numbers'
  BY <1>1 DEF Inv, Numbers
<1> QED
  BY <1>4, <1>5, <1>6, <1>7 DEF Inv

-------------------------------------------------------------------------------
(* The theorems. *)

LEMMA InvInit == Init => Inv
<1> SUFFICES ASSUME Init PROVE Inv
  OBVIOUS
<1>1. Idle \in Call
  BY CallTypes
<1>2. TypeOK
  BY <1>1, DatabaseAssumption
  DEF Init, TypeOK, Entry, NoEntry, Directory, NoDirectory, CollInner, NotOpen
<1>3. writes = <<>> /\ Len(writes) = 0
  BY DEF Init
<1>4. \A n \in Names : Stored(n) /\ Own(n)
  BY <1>3 DEF Init, Stored, Own, Findable, NoEntry, NoDirectory
<1>5. Calls /\ Down
  BY <1>1 DEF Init, Calls, Down, Rest, NoEntry, NotOpen
<1>6. Numbers
  BY <1>3 DEF Init, Numbers
<1> QED
  BY <1>2, <1>4, <1>5, <1>6 DEF Inv

LEMMA InvNext ==
    ASSUME Inv, [Next]_vars
    PROVE  Inv'
<1>1. ASSUME NEW t \in Threads, NEW n \in Names,
             CreateCheck(t, n) \/ DropCheck(t, n) \/ Write(t, n) \/ FlushFiles(t, n)
      PROVE  Inv'
  BY <1>1, CreateCheckStep, DropCheckStep, WriteStep, FlushFilesStep
<1>2. ASSUME NEW t \in Threads, CreateCatalog(t) \/ CreateCommit(t) \/ CreateOpen(t)
      PROVE  Inv'
  BY <1>2, CreateCatalogStep, CreateCommitStep, CreateOpenStep
<1>3. ASSUME NEW t \in Threads,
             DropSnapshot(t) \/ DropCommit(t) \/ DropUnregister(t) \/ DropRemove(t)
      PROVE  Inv'
  BY <1>3, DropSnapshotStep, DropCommitStep, DropUnregisterStep, DropRemoveStep
<1>4. ASSUME NEW t \in Threads, FlushCommit(t) \/ FlushCheckpoint(t)
      PROVE  Inv'
  BY <1>4, FlushCommitStep, FlushCheckpointStep
<1>5. CASE Crash
  BY <1>5, CrashStep
<1>6. CASE Open
  BY <1>6, OpenStep
<1>7. CASE UNCHANGED vars
  <2>1. TypeOK' /\ (\A n \in Names : Stored(n) /\ Own(n))' /\ Numbers'
    BY <1>7 DEF vars, Inv, TypeOK, Stored, Own, Findable, Numbers
  <2>2. Calls'
    BY <1>7 DEF vars, Inv, Calls, Stage, InOrder, Rest, InStep
  <2>3. Down'
    BY <1>7 DEF vars, Inv, Down
  <2> QED
    BY <2>1, <2>2, <2>3 DEF Inv
<1> QED
  BY <1>1, <1>2, <1>3, <1>4, <1>5, <1>6, <1>7 DEF Next

LEMMA Invariance == Spec => []Inv
<1>1. Inv /\ [Next]_vars => Inv'
  BY InvNext
<1> QED
  BY <1>1, InvInit, PTL DEF Spec

\* Manifest, directories, registry and calls stay well formed; in particular
\* every write goes to a collection that has been created.
THEOREM TypeCorrect == Spec => []TypeOK
<1>1. Inv => TypeOK
  BY DEF Inv
<1> QED
  BY <1>1, Invariance, PTL

\* An acknowledged write to a collection that was not dropped is found by the
\* next open, whatever creates, flushes and drops of other collections ran beside
\* it and wherever a crash stopped them, unless one of those drops took the
\* collection's entry back with a stale manifest snapshot.
THEOREM AcknowledgedWritesDurable == Spec => []AckedDurable
<1>1. Inv => AckedDurable
  <2> SUFFICES ASSUME Inv, NEW n \in Names \ taken, NEW w \in DOMAIN writes,
                      current[n] # 0, writes[w] = current[n]
               PROVE  /\ manifest[n].named
                      /\ w \in dirs[n].logged \cup (manifest[n].folded \cap dirs[n].segments)
    BY DEF AckedDurable, Durable
  <2>1. w \in 1..Len(writes)
    BY DEF Inv, TypeOK
  <2> QED
    BY <2>1 DEF Inv, Stored, Findable
<1> QED
  BY <1>1, Invariance, PTL

\* "Manifest first, files second": at every instant the manifest names nothing
\* whose catalog or segments are missing, entries that a drop's stale snapshot
\* put back apart.  While there are none, the database opens.
THEOREM DatabaseAlwaysOpens == Spec => []AlwaysOpenable
<1>1. Inv => AlwaysOpenable
  BY DEF Inv, Stored, Findable, AlwaysOpenable
<1> QED
  BY <1>1, Invariance, PTL

\* A collection shows writes from before it was created only where a crash
\* cut off an earlier drop of its name before the files were removed, or where
\* the drop of another collection took back its entry.
THEOREM OnlyCrashesResurrect == Spec => []ResurrectionNeedsCrash
<1>1. Inv => ResurrectionNeedsCrash
  <2> SUFFICES ASSUME Inv, NEW n \in Names \ (left \cup taken), colls[n].open, current[n] # 0,
                      NEW w \in colls[n].memtable \cup colls[n].segments
               PROVE  writes[w] = current[n]
    BY DEF ResurrectionNeedsCrash
  <2>1. manifest[n].named /\ Own(n)
    BY DEF Inv, Stored, Findable
  <2>2. running
    BY DEF Inv, Down
  <2>3. w \in dirs[n].logged \cup manifest[n].folded
    <3>1. CASE \A t \in Threads : call[t] # Idle => call[t].name # n
      BY <2>1, <2>2, <3>1 DEF Inv, Calls, Rest, InStep
    <3>2. ASSUME NEW t \in Threads, call[t] # Idle, call[t].name = n
          PROVE  w \in dirs[n].logged \cup manifest[n].folded
      <4>1. Stage(call[t].step, n)
        BY <3>2 DEF Inv, Calls
      <4>2. call[t].step \in CreateSteps \cup FlushSteps \cup DropSteps
        BY <3>2, CallFacts DEF Inv, TypeOK
      <4> QED
        BY <2>1, <4>1, <4>2 DEF Stage, InOrder, InStep, CreateSteps, FlushSteps, DropSteps
    <3> QED
      BY <3>1, <3>2
  <2> QED
    BY <2>1, <2>3 DEF Own
<1> QED
  BY <1>1, Invariance, PTL
===============================================================================
