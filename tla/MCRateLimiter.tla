---------------------------- MODULE MCRateLimiter ----------------------------
EXTENDS RateLimiter, TLC

CONSTANTS q1, q2, q3, q4, q5

Requests == {q1, q2, q3, q4, q5}
Symmetry == Permutations(Requests)
=============================================================================
