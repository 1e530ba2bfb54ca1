----------------------------- MODULE MCChatSurface -----------------------------
EXTENDS ChatSurface, TLC

CONSTANTS r1, r2, r3, r4, r5, d1, d2, n1, n2, s1

Requests2 == {r1, r2}
Requests3 == {r1, r2, r3}
Requests5 == {r1, r2, r3, r4, r5}
Letters   == {d1, d2}
OneThread == {n1}
TwoThreads == {n1, n2}
Chats     == {s1}
Nobody    == {}

Symmetry == Permutations(Requests5) \cup Permutations(Letters)
=============================================================================
