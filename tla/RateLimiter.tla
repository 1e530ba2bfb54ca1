----------------------------- MODULE RateLimiter -----------------------------
(***************************************************************************)
(* The sliding-window limiters of src/api/deps.py for one key:             *)
(* check_rate_limit (chat turns of one user) and check_login_rate_limit    *)
(* (login attempts from one address) are the same code with other numbers. *)
(*                                                                         *)
(* A request reads the clock first and takes the lock afterwards, so the   *)
(* time stamps reach the log out of order.  Nothing in the code bounds the *)
(* time between the two; Delay names the bound the scheduler gives.        *)
(* A log entry is the request that made it; now[q] is its time stamp and   *)
(* turn[q] its place in the list.                                          *)
(***************************************************************************)
EXTENDS Integers, FiniteSets

CONSTANTS
  Request,    \* the requests made under the key
  Limit,      \* _RATE_LIMIT_REQUESTS
  Window,     \* _RATE_LIMIT_WINDOW, in ticks of the clock
  PerSecond,  \* ticks in a second: time.time() has fractions
  Delay,      \* most ticks between reading the clock and holding the lock
  Horizon     \* the clock stops here

ASSUME LimiterAssumption ==
  /\ IsFiniteSet(Request)
  /\ Limit \in Nat \ {0}
  /\ Window \in Nat \ {0}
  /\ PerSecond \in Nat \ {0}
  /\ Delay \in Nat
  /\ Horizon \in Nat

VARIABLES
  clock,
  pc,      \* pc[q]: "new", "read" (has read the clock), then the verdict
  now,     \* now[q]: the clock as q read it
  at,      \* at[q]: the clock when q got its verdict
  log,     \* the entries of _request_log[key]
  turn,    \* turn[q]: admissions up to and with the verdict on q
  count,   \* admissions so far
  wait     \* wait[q]: the seconds a refused q is told to wait

vars == <<clock, pc, now, at, log, turn, count, wait>>

Init ==
  /\ clock = 0
  /\ pc = [q \in Request |-> "new"]
  /\ now = [q \in Request |-> 0]
  /\ at = [q \in Request |-> 0]
  /\ log = {}
  /\ turn = [q \in Request |-> 0]
  /\ count = 0
  /\ wait = [q \in Request |-> 1]

-----------------------------------------------------------------------------
\* now = time.time(), before the lock.
Arrive(q) ==
  /\ pc[q] = "new"
  /\ pc' = [pc EXCEPT ![q] = "read"]
  /\ now' = [now EXCEPT ![q] = clock]
  /\ UNCHANGED <<clock, at, log, turn, count, wait>>

\* Mutant of Kept: an entry expires one tick early.
KeptShort(q) == {p \in log : now[q] - now[p] < Window - 1}

\* The entries the list comprehension keeps.
Kept(q) == {p \in log : now[q] - now[p] < Window}

\* timestamps[0]: the entry that was appended first, not the smallest stamp.
First(S) == {p \in S : \A r \in S : turn[p] <= turn[r]}

\* Mutant of Wait: without the rounding up.
WaitFloor(q, p) ==
  LET rest == (Window - (now[q] - now[p])) \div PerSecond
  IN  IF rest > 1 THEN rest ELSE 1

\* max(1, int(window - (now - timestamps[0])) + 1)
Wait(q, p) ==
  LET rest == (Window - (now[q] - now[p])) \div PerSecond
  IN  IF rest + 1 > 1 THEN rest + 1 ELSE 1

\* The list a refused request stores back.
LogRefused(q) == Kept(q)

Refuse(q) ==
  /\ pc[q] = "read"
  /\ Cardinality(Kept(q)) >= Limit
  /\ pc' = [pc EXCEPT ![q] = "refused"]
  /\ log' = LogRefused(q)
  /\ \E p \in First(Kept(q)) : wait' = [wait EXCEPT ![q] = Wait(q, p)]
  /\ at' = [at EXCEPT ![q] = clock]
  /\ turn' = [turn EXCEPT ![q] = count]
  /\ UNCHANGED <<clock, now, count>>

Admit(q) ==
  /\ pc[q] = "read"
  /\ Cardinality(Kept(q)) < Limit
  /\ pc' = [pc EXCEPT ![q] = "admitted"]
  /\ log' = Kept(q) \cup {q}
  /\ at' = [at EXCEPT ![q] = clock]
  /\ count' = count + 1
  /\ turn' = [turn EXCEPT ![q] = count + 1]
  /\ UNCHANGED <<clock, now, wait>>

\* Time passes; nobody waits for the lock longer than Delay.
Tick ==
  /\ clock < Horizon
  /\ \A q \in Request : pc[q] = "read" => clock - now[q] < Delay
  /\ clock' = clock + 1
  /\ UNCHANGED <<pc, now, at, log, turn, count, wait>>

Next == Tick \/ \E q \in Request : Arrive(q) \/ Refuse(q) \/ Admit(q)

Spec == Init /\ [][Next]_vars

-----------------------------------------------------------------------------
\* Every variable has its type; only admitted requests are in the log.
TypeOK ==
  /\ clock \in Nat
  /\ pc \in [Request -> {"new", "read", "refused", "admitted"}]
  /\ now \in [Request -> Nat]
  /\ at \in [Request -> Nat]
  /\ log \subseteq {q \in Request : pc[q] = "admitted"}
  /\ turn \in [Request -> Nat]
  /\ count \in Nat
  /\ wait \in [Request -> Nat \ {0}]

\* The admissions of the last n ticks.
Recent(n) == {q \in Request : pc[q] = "admitted" /\ clock - at[q] < n}

\* The limit as the code can keep it: although stamps are taken before the
\* lock and expire in any order, no more than Limit requests are admitted
\* within a window shortened by the longest wait for the lock.
WindowBound == Cardinality(Recent(Window - Delay)) <= Limit

\* "Bitte warten Sie noch {wait} Sekunden": a client that waits as long as it
\* was told is not refused again, unless others used the key meanwhile.
ToldWaitSuffices ==
  \A q, r \in Request :
    /\ pc[q] = "refused" /\ pc[r] = "refused"
    /\ turn[q] = turn[r]
    => now[r] < at[q] + wait[q] * PerSecond

\* Why both hold, as an invariant that every step keeps: whatever left the log
\* had expired (LeftExpired), the log is never longer than the limit
\* (LogBounded), and after a refusal the entry the wait was computed from frees
\* its place in time (PlaceFrees).
Stamped ==
  \A q \in Request :
    /\ now[q] <= clock
    /\ pc[q] = "read" => clock - now[q] <= Delay
    /\ pc[q] \in {"refused", "admitted"} =>
         now[q] <= at[q] /\ at[q] <= clock /\ at[q] - now[q] <= Delay

LeftExpired ==
  \A q \in Request :
    pc[q] = "admitted" /\ q \notin log => clock - at[q] >= Window - Delay

LogBounded == Cardinality(log) <= Limit

PlaceFrees ==
  \A q \in Request : pc[q] = "refused" /\ turn[q] = count =>
    \E p \in Request :
      /\ pc[p] = "admitted"
      /\ now[p] + Window <= at[q] + wait[q] * PerSecond
      /\ Cardinality(log \ {p}) < Limit

TurnBounded == \A q \in Request : turn[q] <= count

LimiterInv ==
  /\ Stamped /\ LeftExpired /\ LogBounded /\ PlaceFrees /\ TurnBounded
  /\ ToldWaitSuffices
=============================================================================
