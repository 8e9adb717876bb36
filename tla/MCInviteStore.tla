--------------------------- MODULE MCInviteStore ---------------------------
\* No symmetry: the run checks liveness, for which symmetry is not sound.
EXTENDS InviteStore

CONSTANTS t1, t2, d1, d2, i1, i2
=============================================================================
