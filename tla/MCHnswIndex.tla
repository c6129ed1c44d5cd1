----------------------------- MODULE MCHnswIndex -----------------------------
(* HnswIndex on two collections of one dimension.                            *)
EXTENDS HnswIndex, TLC

CONSTANTS docs, notes

\* A graph of one collection can be taken for one of the other.
OneDimension == docs :> 2 @@ notes :> 2
\* The searches of one collection override its metric.
OneOverridden == docs :> {"cosine", "l2"} @@ notes :> {"cosine"}
Symmetry == Permutations(Threads) \cup Permutations(Docs)
===============================================================================
