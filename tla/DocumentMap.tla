----------------------------- MODULE DocumentMap -----------------------------
(***************************************************************************)
(* What a collection promises: one map from ids to documents, changed by   *)
(* the writes its callers make and by nothing else, each of them atomic.   *)
(*                                                                         *)
(* The callers' side is a variable of its own: every step is one write of  *)
(* theirs, and it changes what they have written and what the collection   *)
(* holds in the same way.  A change of the collection's own making, of one *)
(* document even, is no step of this specification.                        *)
(***************************************************************************)

CONSTANTS Docs, Vals, NoVal, Deleted,
          Batches    \* functions from ids to a value, Deleted or NoVal

VARIABLES
    written,   \* the documents as the callers' writes made so far leave them
    docs       \* the documents the collection holds

Init ==
    /\ written = [d \in Docs |-> NoVal]
    /\ docs = written

\* Insert and upsert; which of the two a caller may use is not told apart.
Put(m, d, v) == [m EXCEPT ![d] = v]

Batch(m, w) ==
    [d \in Docs |-> IF w[d] = NoVal THEN m[d]
                    ELSE IF w[d] = Deleted THEN NoVal ELSE w[d]]

Upsert(d, v) == written' = Put(written, d, v) /\ docs' = Put(docs, d, v)

Delete(d) == written' = Put(written, d, NoVal) /\ docs' = Put(docs, d, NoVal)

WriteBatch(w) == written' = Batch(written, w) /\ docs' = Batch(docs, w)

Next ==
    \/ \E d \in Docs, v \in Vals : Upsert(d, v)
    \/ \E d \in Docs : Delete(d)
    \/ \E w \in Batches : WriteBatch(w)

Spec == Init /\ [][Next]_<<written, docs>>
===============================================================================
