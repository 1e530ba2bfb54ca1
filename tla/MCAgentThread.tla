---------------------------- MODULE MCAgentThread ----------------------------
EXTENDS AgentThread, TLC

CONSTANTS q1, q2, q3, q4, c1, c2

Requests3 == {q1, q2, q3}
Requests4 == {q1, q2, q3, q4}
Calls     == {c1, c2}
OneCall   == {c1}

\* One gated call per model message, as the system prompt asks for.
OneByOne == {{c1}, {c2}}
OnceOnly == {{c1}}
\* One model message may carry both calls.
Together == {{c1, c2}}
Mixed    == OneByOne \cup Together
NoEvents     == {}
Concurrent   == {"overlap", "supersede", "resend"}
Looping      == Concurrent \cup {"search"}
EverythingButSearch == EnvEvents \ {"search"}

Symmetry == Permutations(Requests3) \cup Permutations(Calls)
=============================================================================
