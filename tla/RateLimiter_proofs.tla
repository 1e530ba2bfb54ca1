-------------------------- MODULE RateLimiter_proofs --------------------------
(***************************************************************************)
(* The limit of RateLimiter holds for any number of requests, any limit,   *)
(* any window and any wait for the lock.                                   *)
(***************************************************************************)
EXTENDS RateLimiter, FiniteSetTheorems, TLAPS

\* What the helpers return.
LEMMA KeptInLog ==
  ASSUME NEW q \in Request
  PROVE  Kept(q) \subseteq log
BY DEF Kept

LEMMA Quotient ==
  ASSUME NEW w \in Int, NEW d \in Int, d > 0
  PROVE  w \div d \in Int /\ w < ((w \div d) + 1) * d
<1>1. w \div d \in Int /\ w < d * ((w \div d) + 1)
  OBVIOUS
<1> QED BY <1>1

LEMMA WaitEnough ==
  ASSUME TypeOK, NEW q \in Request, NEW p \in Request
  PROVE  /\ Wait(q, p) \in Nat \ {0}
         /\ now[p] + Window < now[q] + Wait(q, p) * PerSecond
<1> DEFINE w == Window - (now[q] - now[p])
           rest == w \div PerSecond
<1>1. /\ w \in Int
      /\ PerSecond \in Int /\ PerSecond > 0
      /\ now[p] \in Int /\ now[q] \in Int /\ Window \in Int
  BY LimiterAssumption DEF TypeOK
<1>2. rest \in Int /\ w < (rest + 1) * PerSecond
  BY <1>1, Quotient
<1>3. Wait(q, p) = IF rest + 1 > 1 THEN rest + 1 ELSE 1
  BY DEF Wait
<1> HIDE DEF rest
<1>4. Wait(q, p) \in Nat \ {0} /\ rest + 1 <= Wait(q, p)
  BY <1>2, <1>3
<1>5. (rest + 1) * PerSecond <= Wait(q, p) * PerSecond
  BY <1>1, <1>2, <1>4
<1> QED BY <1>1, <1>2, <1>4, <1>5

-----------------------------------------------------------------------------
\* Type correctness: every variable of a limiter keeps its type, and a
\* refused request never counts as an entry of the log.
THEOREM TypeCorrect == Spec => []TypeOK
<1>1. Init => TypeOK
  BY DEF Init, TypeOK
<1>2. TypeOK /\ [Next]_vars => TypeOK'
  <2> SUFFICES ASSUME TypeOK, [Next]_vars PROVE TypeOK'
    OBVIOUS
  <2>1. CASE Tick
    BY <2>1 DEF TypeOK, Tick
  <2>2. ASSUME NEW q \in Request, Arrive(q) PROVE TypeOK'
    BY <2>2 DEF TypeOK, Arrive
  <2>3. ASSUME NEW q \in Request, Refuse(q) PROVE TypeOK'
    <3>1. PICK p \in First(Kept(q)) : wait' = [wait EXCEPT ![q] = Wait(q, p)]
      BY <2>3 DEF Refuse
    <3>2. p \in Request
      BY <3>1, KeptInLog DEF First, TypeOK
    <3>3. wait' \in [Request -> Nat \ {0}]
      BY <3>1, <3>2, WaitEnough DEF TypeOK
    <3>4. log' \subseteq {r \in Request : pc'[r] = "admitted"}
      BY <2>3, KeptInLog DEF Refuse, LogRefused, TypeOK
    <3> QED BY <2>3, <3>3, <3>4 DEF Refuse, TypeOK
  <2>4. ASSUME NEW q \in Request, Admit(q) PROVE TypeOK'
    <3>1. log' \subseteq {r \in Request : pc'[r] = "admitted"}
      BY <2>4, KeptInLog DEF Admit, TypeOK
    <3> QED BY <2>4, <3>1 DEF Admit, TypeOK
  <2>5. CASE UNCHANGED vars
    BY <2>5 DEF TypeOK, vars
  <2> QED BY <2>1, <2>2, <2>3, <2>4, <2>5 DEF Next
<1> QED BY <1>1, <1>2, PTL DEF Spec

-----------------------------------------------------------------------------
\* Sets of requests are finite, and a smaller one has no more members.
LEMMA Smaller ==
  ASSUME NEW S, NEW T, S \subseteq Request, T \subseteq S
  PROVE  /\ IsFiniteSet(S)
         /\ Cardinality(S) \in Nat /\ Cardinality(T) \in Nat
         /\ Cardinality(T) <= Cardinality(S)
BY FS_Subset, FS_CardinalityType, LimiterAssumption

LEMMA KeptSmaller ==
  ASSUME TypeOK, LimiterInv, NEW q \in Request
  PROVE  /\ Kept(q) \subseteq Request
         /\ Cardinality(Kept(q)) \in Nat /\ Cardinality(Kept(q)) <= Limit
<1>1. log \subseteq Request /\ Kept(q) \subseteq log
  BY KeptInLog DEF TypeOK
<1>2. /\ Cardinality(log) \in Nat /\ Cardinality(Kept(q)) \in Nat
      /\ Cardinality(Kept(q)) <= Cardinality(log)
  BY <1>1, Smaller
<1> QED BY <1>1, <1>2, LimiterAssumption DEF LimiterInv, LogBounded

\* An entry that a check drops has left the window.
LEMMA DropExpired ==
  ASSUME TypeOK, LimiterInv, NEW q \in Request, pc[q] = "read",
         NEW p \in Request, pc[p] = "admitted", p \notin Kept(q)
  PROVE  clock - at[p] >= Window - Delay
<1>1. CASE p \notin log
  BY <1>1 DEF LimiterInv, LeftExpired
<1>2. CASE p \in log
  <2>1. now[q] - now[p] >= Window
    BY <1>2, LimiterAssumption DEF Kept, TypeOK
  <2>2. now[q] <= clock /\ at[p] - now[p] <= Delay
    BY DEF LimiterInv, Stamped
  <2> QED BY <2>1, <2>2, LimiterAssumption DEF TypeOK
<1> QED BY <1>1, <1>2

\* A refusal after a refusal came before the wait was over.
LEMMA TooEarly ==
  ASSUME TypeOK, LimiterInv, NEW q \in Request, Refuse(q),
         NEW a \in Request, pc[a] = "refused", turn[a] = count
  PROVE  now[q] < at[a] + wait[a] * PerSecond
<1>1. PICK p \in Request : /\ now[p] + Window <= at[a] + wait[a] * PerSecond
                           /\ Cardinality(log \ {p}) < Limit
  BY DEF LimiterInv, PlaceFrees
<1>2. SUFFICES ASSUME now[q] >= at[a] + wait[a] * PerSecond PROVE FALSE
  <2>1. now[q] \in Int /\ at[a] \in Int
    BY DEF TypeOK
  <2>2. wait[a] * PerSecond \in Int
    BY LimiterAssumption DEF TypeOK
  <2> QED BY <2>1, <2>2
<1>3. now[q] - now[p] >= Window
  <2>1. /\ now[q] \in Int /\ now[p] \in Int /\ at[a] \in Int
        /\ Window \in Int
    BY LimiterAssumption DEF TypeOK
  <2>2. wait[a] * PerSecond \in Int
    BY LimiterAssumption DEF TypeOK
  <2> QED BY <1>1, <1>2, <2>1, <2>2
<1>4. Kept(q) \subseteq log \ {p} /\ log \ {p} \subseteq Request
  BY <1>3, LimiterAssumption DEF Kept, TypeOK
<1>5. /\ Cardinality(log \ {p}) \in Nat /\ Cardinality(Kept(q)) \in Nat
      /\ Cardinality(Kept(q)) <= Cardinality(log \ {p})
  BY <1>4, Smaller
<1> QED BY <1>1, <1>5, LimiterAssumption DEF Refuse

LEMMA RefuseKeepsInv ==
  ASSUME TypeOK, TypeOK', LimiterInv, NEW q \in Request, Refuse(q)
  PROVE  LimiterInv'
<1>1. PICK p \in First(Kept(q)) : wait' = [wait EXCEPT ![q] = Wait(q, p)]
  BY DEF Refuse
<1>2. p \in Kept(q) /\ p \in Request
  BY <1>1, KeptInLog DEF First, TypeOK
<1>3. now[q] <= clock /\ clock - now[q] <= Delay /\ pc[q] = "read"
  BY DEF LimiterInv, Stamped, Refuse
<1>4. Stamped'
  BY <1>3 DEF LimiterInv, Stamped, Refuse, TypeOK
<1>5. LeftExpired'
  <2> SUFFICES ASSUME NEW r \in Request, pc'[r] = "admitted", r \notin log'
               PROVE  clock' - at'[r] >= Window - Delay
    BY DEF LeftExpired
  <2>1. r # q /\ pc[r] = "admitted" /\ r \notin Kept(q)
    BY DEF Refuse, LogRefused, TypeOK
  <2>2. clock' = clock /\ at'[r] = at[r]
    BY <2>1 DEF Refuse, TypeOK
  <2> QED BY <1>3, <2>1, <2>2, DropExpired
<1>6. LogBounded'
  BY KeptSmaller DEF Refuse, LogRefused, LogBounded
<1>7. PlaceFrees'
  <2> SUFFICES ASSUME NEW r \in Request, pc'[r] = "refused",
                      turn'[r] = count'
               PROVE  \E s \in Request :
                        /\ pc'[s] = "admitted"
                        /\ now'[s] + Window <= at'[r] + wait'[r] * PerSecond
                        /\ Cardinality(log' \ {s}) < Limit
    BY DEF PlaceFrees
  <2>1. CASE r = q
    <3>1. now'[p] + Window <= at'[q] + wait'[q] * PerSecond
      <4>1. now' = now /\ at'[q] = clock /\ wait'[q] = Wait(q, p)
        BY <1>1 DEF Refuse, TypeOK
      <4>2. now[p] + Window < now[q] + Wait(q, p) * PerSecond
        BY <1>2, WaitEnough
      <4>3. Wait(q, p) * PerSecond \in Int
        BY <1>2, WaitEnough, LimiterAssumption
      <4> QED BY <1>2, <1>3, <4>1, <4>2, <4>3, LimiterAssumption DEF TypeOK
    <3>2. Cardinality(Kept(q) \ {p}) = Cardinality(Kept(q)) - 1
      BY <1>2, KeptSmaller, Smaller, FS_RemoveElement
    <3>3. Cardinality(log' \ {p}) < Limit
      BY <3>2, KeptSmaller, LimiterAssumption DEF Refuse, LogRefused
    <3>4. pc'[p] = "admitted"
      BY <1>2, KeptInLog DEF Refuse, TypeOK
    <3> QED BY <2>1, <3>1, <3>3, <3>4, <1>2
  <2>2. CASE r # q
    <3>1. /\ pc[r] = "refused" /\ turn[r] = count
          /\ at'[r] = at[r] /\ wait'[r] = wait[r] /\ now' = now
      BY <1>1, <2>2 DEF Refuse, TypeOK
    <3>2. PICK s \in Request :
            /\ pc[s] = "admitted"
            /\ now[s] + Window <= at[r] + wait[r] * PerSecond
            /\ Cardinality(log \ {s}) < Limit
      BY <3>1 DEF LimiterInv, PlaceFrees
    <3>3. Kept(q) \ {s} \subseteq log \ {s} /\ log \ {s} \subseteq Request
      BY KeptInLog DEF TypeOK
    <3>4. /\ Cardinality(log \ {s}) \in Nat
          /\ Cardinality(Kept(q) \ {s}) \in Nat
          /\ Cardinality(Kept(q) \ {s}) <= Cardinality(log \ {s})
      BY <3>3, Smaller
    <3>5. Cardinality(log' \ {s}) < Limit
      BY <3>2, <3>4, LimiterAssumption DEF Refuse, LogRefused
    <3>6. pc'[s] = "admitted"
      BY <3>2 DEF Refuse, TypeOK
    <3> QED BY <3>1, <3>2, <3>5, <3>6
  <2> QED BY <2>1, <2>2
<1>8. TurnBounded'
  BY DEF LimiterInv, TurnBounded, Refuse, TypeOK
<1>9. ToldWaitSuffices'
  <2> SUFFICES ASSUME NEW a \in Request, NEW b \in Request,
                      pc'[a] = "refused", pc'[b] = "refused",
                      turn'[a] = turn'[b]
               PROVE  now'[b] < at'[a] + wait'[a] * PerSecond
    BY DEF ToldWaitSuffices
  <2>1. now' = now
    BY DEF Refuse
  <2>2. CASE a = q
    <3>1. at'[a] = clock
      BY <2>2 DEF Refuse, TypeOK
    <3>2. now[b] <= clock
      BY DEF LimiterInv, Stamped
    <3>3. wait'[a] * PerSecond \in Nat \ {0}
      BY LimiterAssumption DEF TypeOK
    <3> QED BY <2>1, <3>1, <3>2, <3>3 DEF TypeOK
  <2>3. CASE a # q
    <3>1. /\ pc[a] = "refused" /\ at'[a] = at[a] /\ wait'[a] = wait[a]
          /\ turn'[a] = turn[a]
      BY <1>1, <2>3 DEF Refuse, TypeOK
    <3>2. CASE b = q
      <4>1. turn[a] = count
        BY <3>1, <3>2 DEF Refuse, TypeOK
      <4> QED BY <2>1, <3>1, <3>2, <4>1, TooEarly
    <3>3. CASE b # q
      <4>1. pc[b] = "refused" /\ turn'[b] = turn[b]
        BY <3>3 DEF Refuse, TypeOK
      <4> QED BY <2>1, <3>1, <4>1 DEF LimiterInv, ToldWaitSuffices
    <3> QED BY <3>2, <3>3
  <2> QED BY <2>2, <2>3
<1> QED BY <1>4, <1>5, <1>6, <1>7, <1>8, <1>9 DEF LimiterInv

LEMMA AdmitKeepsInv ==
  ASSUME TypeOK, TypeOK', LimiterInv, NEW q \in Request, Admit(q)
  PROVE  LimiterInv'
<1>1. now[q] <= clock /\ clock - now[q] <= Delay /\ pc[q] = "read"
  BY DEF LimiterInv, Stamped, Admit
<1>2. Stamped'
  BY <1>1 DEF LimiterInv, Stamped, Admit, TypeOK
<1>3. LeftExpired'
  <2> SUFFICES ASSUME NEW r \in Request, pc'[r] = "admitted", r \notin log'
               PROVE  clock' - at'[r] >= Window - Delay
    BY DEF LeftExpired
  <2>1. r # q /\ pc[r] = "admitted" /\ r \notin Kept(q)
    BY DEF Admit, TypeOK
  <2>2. clock' = clock /\ at'[r] = at[r]
    BY <2>1 DEF Admit, TypeOK
  <2> QED BY <1>1, <2>1, <2>2, DropExpired
<1>4. LogBounded'
  <2>1. q \notin Kept(q)
    BY <1>1, KeptInLog DEF TypeOK
  <2>2. Cardinality(Kept(q) \cup {q}) = Cardinality(Kept(q)) + 1
    BY <2>1, KeptSmaller, Smaller, FS_AddElement
  <2> QED BY <2>2, KeptSmaller, LimiterAssumption DEF Admit, LogBounded
<1>5. \A r \in Request : pc'[r] = "refused" =>
        /\ r # q /\ pc[r] = "refused"
        /\ turn'[r] = turn[r] /\ turn'[r] # count'
        /\ at'[r] = at[r] /\ wait'[r] = wait[r]
  BY DEF LimiterInv, TurnBounded, Admit, TypeOK
<1>6. PlaceFrees'
  BY <1>5 DEF PlaceFrees
<1>7. TurnBounded'
  BY DEF LimiterInv, TurnBounded, Admit, TypeOK
<1>8. ToldWaitSuffices'
  BY <1>5 DEF LimiterInv, ToldWaitSuffices, Admit
<1> QED BY <1>2, <1>3, <1>4, <1>6, <1>7, <1>8 DEF LimiterInv

LEMMA ArriveKeepsInv ==
  ASSUME TypeOK, LimiterInv, NEW q \in Request, Arrive(q)
  PROVE  LimiterInv'
<1>1. \A r \in Request : pc'[r] \in {"refused", "admitted"} =>
        r # q /\ pc[r] = pc'[r] /\ now'[r] = now[r]
  BY DEF Arrive, TypeOK
<1>2. Stamped'
  BY LimiterAssumption DEF LimiterInv, Stamped, Arrive, TypeOK
<1>3. LeftExpired'
  BY <1>1 DEF LimiterInv, LeftExpired, Arrive
<1>4. LogBounded' /\ TurnBounded'
  BY DEF LimiterInv, LogBounded, TurnBounded, Arrive
<1>5. PlaceFrees'
  <2> SUFFICES ASSUME NEW r \in Request, pc'[r] = "refused",
                      turn'[r] = count'
               PROVE  \E s \in Request :
                        /\ pc'[s] = "admitted"
                        /\ now'[s] + Window <= at'[r] + wait'[r] * PerSecond
                        /\ Cardinality(log' \ {s}) < Limit
    BY DEF PlaceFrees
  <2>1. PICK s \in Request :
          /\ pc[s] = "admitted"
          /\ now[s] + Window <= at[r] + wait[r] * PerSecond
          /\ Cardinality(log \ {s}) < Limit
    BY <1>1 DEF LimiterInv, PlaceFrees, Arrive
  <2> QED BY <2>1 DEF Arrive, TypeOK
<1>6. ToldWaitSuffices'
  BY <1>1 DEF LimiterInv, ToldWaitSuffices, Arrive
<1> QED BY <1>2, <1>3, <1>4, <1>5, <1>6 DEF LimiterInv

LEMMA TickKeepsInv ==
  ASSUME TypeOK, LimiterInv, Tick
  PROVE  LimiterInv'
<1>1. Stamped'
  BY LimiterAssumption DEF LimiterInv, Stamped, Tick, TypeOK
<1>2. LeftExpired'
  BY LimiterAssumption DEF LimiterInv, LeftExpired, Tick, TypeOK
<1>3. LogBounded' /\ TurnBounded' /\ PlaceFrees' /\ ToldWaitSuffices'
  BY DEF LimiterInv, LogBounded, TurnBounded, PlaceFrees, ToldWaitSuffices,
         Tick
<1> QED BY <1>1, <1>2, <1>3 DEF LimiterInv

\* The inductive invariant of the limiter: what left the log had expired, the
\* log is never longer than the limit, and the entry a wait was computed from
\* frees its place before the wait is over.
THEOREM LimiterInvariant == Spec => []LimiterInv
<1>1. Init => LimiterInv
  <2> SUFFICES ASSUME Init PROVE LimiterInv
    OBVIOUS
  <2>1. Cardinality(log) = 0
    BY FS_EmptySet DEF Init
  <2> QED BY <2>1, LimiterAssumption
      DEF Init, LimiterInv, Stamped, LeftExpired, LogBounded, PlaceFrees,
          TurnBounded, ToldWaitSuffices
<1>2. TypeOK /\ TypeOK' /\ LimiterInv /\ [Next]_vars => LimiterInv'
  <2> SUFFICES ASSUME TypeOK, TypeOK', LimiterInv, [Next]_vars
               PROVE  LimiterInv'
    OBVIOUS
  <2>1. CASE UNCHANGED vars
    BY <2>1 DEF vars, LimiterInv, Stamped, LeftExpired, LogBounded,
                PlaceFrees, TurnBounded, ToldWaitSuffices
  <2> QED BY <2>1, TickKeepsInv, ArriveKeepsInv, RefuseKeepsInv,
             AdmitKeepsInv DEF Next
<1> QED BY <1>1, <1>2, TypeCorrect, PTL DEF Spec

\* However the requests interleave between reading the clock and taking the
\* lock, at most Limit of them are admitted within Window - Delay ticks.
THEOREM WindowIsBounded == Spec => []WindowBound
<1>1. TypeOK /\ LimiterInv => WindowBound
  <2> SUFFICES ASSUME TypeOK, LimiterInv PROVE WindowBound
    OBVIOUS
  <2>1. Recent(Window - Delay) \subseteq log
    BY LimiterAssumption DEF Recent, LimiterInv, LeftExpired, TypeOK
  <2>2. log \subseteq Request
    BY DEF TypeOK
  <2>3. /\ Cardinality(log) \in Nat
        /\ Cardinality(Recent(Window - Delay)) \in Nat
        /\ Cardinality(Recent(Window - Delay)) <= Cardinality(log)
    BY <2>1, <2>2, Smaller
  <2> QED BY <2>3, LimiterAssumption DEF LimiterInv, LogBounded, WindowBound
<1> QED BY <1>1, TypeCorrect, LimiterInvariant, PTL

\* A client that waits as long as the refusal told it to is admitted, unless
\* the key was used by someone else meanwhile.
THEOREM ToldWaitIsEnough == Spec => []ToldWaitSuffices
<1>1. LimiterInv => ToldWaitSuffices
  BY DEF LimiterInv
<1> QED BY <1>1, LimiterInvariant, PTL
=============================================================================
