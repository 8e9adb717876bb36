--------------------------- MODULE MCSessionStore ---------------------------
EXTENDS SessionStore, TLC

CONSTANTS t1, t2, d1, d2, d3, i1, i2

\* Threads, dogs and ids are interchangeable: nothing compares or orders them.
Symmetry == Permutations(Threads) \cup Permutations(Dogs) \cup Permutations(Ids)
=============================================================================
