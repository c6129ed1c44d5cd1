------------------------------ MODULE AtomicRoot ------------------------------
(***************************************************************************)
(* What the dual-slot manifest promises: one root record that changes      *)
(* atomically.  A commit in flight when the process dies is found either   *)
(* done or not done, never in between, and a finished commit is never      *)
(* undone.                                                                 *)
(***************************************************************************)

CONSTANTS Record,    \* the values a root may have
          NoRecord   \* before the first commit

VARIABLES root,      \* the root in force
          attempts   \* the roots somebody tried to commit since

vars == <<root, attempts>>

Init == root = NoRecord /\ attempts = {}

\* A writer starts to commit r.
Begin(r) ==
    /\ attempts' = attempts \cup {r}
    /\ UNCHANGED root

\* An attempt takes effect: its commit returned, or a restart found it done.
TakeEffect ==
    /\ root' \in attempts
    /\ attempts' = {}

\* A restart found that no attempt took effect.
Forget ==
    /\ attempts' = {}
    /\ UNCHANGED root

Next == (\E r \in Record : Begin(r)) \/ TakeEffect \/ Forget

Spec == Init /\ [][Next]_vars
===============================================================================
