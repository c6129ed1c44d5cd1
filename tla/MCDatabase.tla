----------------------------- MODULE MCDatabase -----------------------------
EXTENDS Database, TLC

\* Threads and names are interchangeable.
Symmetry == Permutations(Threads) \cup Permutations(Names)
=============================================================================
