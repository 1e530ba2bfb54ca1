--------------------------- MODULE MCTenancyMemory ---------------------------
EXTENDS TenancyMemory, TLC

CONSTANTS k1, k2, u1, u2, w1, w2, t1, t2

Keys     == {k1, k2}
Uploads  == {u1, u2}
Turns    == {w1, w2}
Threads  == {t1, t2}
Symmetry == Permutations(Keys) \cup Permutations(Uploads)
            \cup Permutations(Turns) \cup Permutations(Threads)
=============================================================================
