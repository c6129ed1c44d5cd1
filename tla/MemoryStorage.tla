---------------------------- MODULE MemoryStorage ----------------------------
(***************************************************************************)
(* The semantics every storage backend must match: what the in-memory       *)
(* backend does.  The file system is a value, `fs`, and every operation of  *)
(* the Storage and File traits is an operator from `fs` and its arguments   *)
(* to the answer and the file system after it.  A file is an object that    *)
(* the entries and the open handles share: removing the entry leaves the    *)
(* object to the handles that are open on it.                               *)
(*                                                                          *)
(* Names are abstract: Files and Dirs are disjoint sets of paths, Parent    *)
(* gives the directory of a path.  A byte tells which file it was written   *)
(* to; Zero is the byte a file is extended with.                            *)
(***************************************************************************)
EXTENDS Integers, Sequences, FiniteSets

CONSTANTS
    Files,      \* the paths the engine gives to files
    Dirs,       \* the paths of directories
    Root,       \* the root directory, always there
    Parent,     \* the directory a path is in
    Objects     \* identities of file objects

ASSUME PathsAssumption ==
    /\ Root \in Dirs
    /\ Files \cap Dirs = {}
    /\ Parent \in [Files \cup (Dirs \ {Root}) -> Dirs]

Modes == {"Read", "ReadWrite", "Create", "CreateNew"}

\* OpenMode::is_writable.
IsWritable(mode) == mode # "Read"

NoObject == "no object"

ASSUME ObjectsAssumption ==
    IsFiniteSet(Files) /\ IsFiniteSet(Objects) /\ NoObject \notin Objects

Zero == "zero"

\* Every file object that is not the content of some path or handle is free.
EmptyFs ==
    [dirs |-> {Root}, entry |-> [f \in Files |-> NoObject],
     live |-> [o \in Objects |-> <<>>]]

\* `resize(len, 0)`: the tail is cut, or zeroes are added.
Resize(bytes, len) ==
    [i \in 1..len |-> IF i <= Len(bytes) THEN bytes[i] ELSE Zero]

\* The bytes of `bytes` after `buf` is written at `offset`; a gap is zeroes.
Overwrite(bytes, buf, offset) ==
    LET end  == offset + Len(buf)
        room == IF Len(bytes) < end THEN Resize(bytes, end) ELSE bytes
    IN  [i \in 1..Len(room) |->
            IF i > offset /\ i <= end THEN buf[i - offset] ELSE room[i]]

\* The directories from `d` up to the root: the least set that has `d` and the
\* parent of each of its directories.
Ancestors(d) ==
    {x \in Dirs : \A S \in SUBSET Dirs :
        (d \in S /\ \A y \in S \ {Root} : Parent[y] \in S) => x \in S}

Inside(p, d) == IF p \in Files THEN d \in Ancestors(Parent[p]) ELSE d \in Ancestors(p)

Ok(fs, value)  == [rc |-> "ok", fs |-> fs, value |-> value]
Fails(fs, why) == [rc |-> why, fs |-> fs, value |-> NoObject]

\* Objects that no entry and no handle of `held` refers to.
FreeObjects(fs, held) ==
    Objects \ ({fs.entry[f] : f \in Files} \cup held)

\* MemoryStorage::open_file: the answer's value is the object opened.
OpenFile(fs, p, mode, held) ==
    IF p \in fs.dirs THEN Fails(fs, "io")
    ELSE IF fs.entry[p] # NoObject THEN
        IF mode = "CreateNew" THEN Fails(fs, "exists") ELSE Ok(fs, fs.entry[p])
    ELSE IF mode \in {"Read", "ReadWrite"} THEN Fails(fs, "not found")
    ELSE IF Parent[p] \notin fs.dirs THEN Fails(fs, "not found")
    ELSE LET o == CHOOSE x \in FreeObjects(fs, held) : TRUE
         IN  Ok([fs EXCEPT !.entry[p] = o, !.live[o] = <<>>], o)

\* remove_file: the entry goes, the object stays with its open handles.
RemoveFile(fs, p) ==
    IF p \in fs.dirs THEN Fails(fs, "io")
    ELSE IF fs.entry[p] = NoObject THEN Fails(fs, "not found")
    ELSE Ok([fs EXCEPT !.entry[p] = NoObject], NoObject)

\* create_dir_all: the directory and every missing parent.
CreateDirAll(fs, d) ==
    Ok([fs EXCEPT !.dirs = @ \cup Ancestors(d)], NoObject)

\* remove_dir_all: everything whose path starts with the directory's.
RemoveDirAll(fs, d) ==
    IF d \notin fs.dirs THEN Fails(fs, "not found")
    ELSE Ok([fs EXCEPT !.dirs = {x \in @ : ~ Inside(x, d)} \cup {Root},
                       !.entry = [f \in Files |->
                            IF Inside(f, d) THEN NoObject ELSE fs.entry[f]]],
            NoObject)

\* MemoryFile::append and truncate on an open object; a handle that was opened
\* for reading is refused.
AppendTo(fs, o, writable, buf) ==
    IF ~ writable THEN Fails(fs, "denied")
    ELSE Ok([fs EXCEPT !.live[o] = @ \o buf], NoObject)

Truncate(fs, o, writable, len) ==
    IF ~ writable THEN Fails(fs, "denied")
    ELSE Ok([fs EXCEPT !.live[o] = Resize(@, len)], NoObject)

\* What a reader of the path finds: one sequence of bytes, or none.
Contents(fs, p) == {fs.live[o] : o \in {fs.entry[p]} \ {NoObject}}
=============================================================================
