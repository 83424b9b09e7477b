---------------------------- MODULE MCTaskBuffer ----------------------------
EXTENDS TaskBuffer, TLC

CONSTANTS w1, w2, w3, c1, c2, a1, a2, a3, m1, m2

\* Threads are alike; the tasks and the clients are, too, but the properties
\* of the liveness runs tell tasks apart.
MCSymmetry == Permutations(Workers) \cup Permutations(Clients)
=============================================================================
