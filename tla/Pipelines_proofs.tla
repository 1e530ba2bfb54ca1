---------------------------- MODULE Pipelines_proofs ----------------------------
(***************************************************************************)
(* Whatever the API answers and wherever the script dies, a file that was  *)
(* written in full is never lost: for any books, norms and number of runs. *)
(* The step that would lose it, creating the file, is only taken when the  *)
(* file is not there, and what was there has been renamed, not removed.    *)
(*                                                                         *)
(* And the calculating tools answer what the law says, for all years,      *)
(* rents and areas.                                                        *)
(*                                                                         *)
(* And, when nobody logs in while another's answers are on their way, the  *)
(* lists of the client settle as the user's own: whatever was asked before *)
(* the login was asked for the same user, and the login asks for each list *)
(* again, so that none keeps what it showed before.                        *)
(*                                                                         *)
(* And an evaluation keeps the last good scores, a search answers with     *)
(* what was asked for or degrades to something weaker, never to nothing,   *)
(* and the download drops no norm without a warning, for any rows, books   *)
(* and failures.  These need what a fold over a sequence computes, which   *)
(* is shown by induction on its length.                                    *)
(*                                                                         *)
(* And a dump of decisions is filtered, cut and counted as the ingestion   *)
(* promises, for any decisions, caps and lengths.                          *)
(*                                                                         *)
(* And nothing is lost where a text is cut or put together: the words of a *)
(* contract are those of its clauses, the words of a decision those of its *)
(* parents, which their children cover, and what is not on the page of a   *)
(* source is beyond its length.                                            *)
(* What Words makes of two texts put together it makes of each (Joins), so *)
(* that every cut is shown to put together what was there.                 *)
(***************************************************************************)
EXTENDS Pipelines, FiniteSetTheorems, SequenceTheorems, WellFoundedInduction, TLAPS

Contents == {"none", "partial", "whole"}

\* The files and their backups.
DiskOK == disk \in [File -> [now : Contents, old : SUBSET Contents]]

\* Each of the three steps of a save that touch a file.
LEMMA RenameKeeps ==
  ASSUME DiskOK, SaveRename
  PROVE  DiskOK' /\ \A f \in File : HasCopy(f) => HasCopy(f)'
<1>1. PICK g : disk' = Renamed(g)
  BY DEF SaveRename
<1>2. CASE g \notin File
  <2>1. disk' \in [File -> [now : Contents, old : SUBSET Contents]] /\ disk' = disk
    BY <1>1, <1>2 DEF Renamed, DiskOK
  <2> QED BY <2>1 DEF DiskOK, HasCopy
<1>3. CASE g \in File
  <2>1. disk[g] \in [now : Contents, old : SUBSET Contents]
    BY <1>3 DEF DiskOK
  <2>2. /\ disk'[g] = [now |-> "none", old |-> disk[g].old \cup {disk[g].now}]
        /\ \A f \in File : f # g => disk'[f] = disk[f]
        /\ disk' \in [File -> [now : Contents, old : SUBSET Contents]]
    BY <1>1, <1>3, <2>1 DEF Renamed, DiskOK, Contents
  <2> QED BY <1>3, <2>1, <2>2 DEF DiskOK, HasCopy
<1> QED BY <1>2, <1>3

LEMMA CreateKeeps ==
  ASSUME DiskOK, SaveCreate
  PROVE  DiskOK' /\ \A f \in File : HasCopy(f) => HasCopy(f)'
<1>1. PICK g : disk[g].now = "none" /\ disk' = [disk EXCEPT ![g].now = "partial"]
  BY DEF SaveCreate
<1>2. CASE g \notin File
  <2>1. disk' = disk
    BY <1>1, <1>2 DEF DiskOK
  <2> QED BY <2>1 DEF DiskOK, HasCopy
<1>3. CASE g \in File
  <2>1. disk[g] \in [now : Contents, old : SUBSET Contents]
    BY <1>3 DEF DiskOK
  <2>2. /\ disk'[g] = [now |-> "partial", old |-> disk[g].old]
        /\ \A f \in File : f # g => disk'[f] = disk[f]
        /\ disk' \in [File -> [now : Contents, old : SUBSET Contents]]
    BY <1>1, <1>3, <2>1 DEF DiskOK, Contents
  <2> QED BY <1>1, <1>3, <2>1, <2>2 DEF DiskOK, HasCopy
<1> QED BY <1>2, <1>3

LEMMA WriteKeeps ==
  ASSUME DiskOK, SaveWrite
  PROVE  DiskOK' /\ \A f \in File : HasCopy(f) => HasCopy(f)'
<1>1. PICK g : disk' = [disk EXCEPT ![g].now = "whole"]
  BY DEF SaveWrite
<1>2. CASE g \notin File
  <2>1. disk' = disk
    BY <1>1, <1>2 DEF DiskOK
  <2> QED BY <2>1 DEF DiskOK, HasCopy
<1>3. CASE g \in File
  <2>1. disk[g] \in [now : Contents, old : SUBSET Contents]
    BY <1>3 DEF DiskOK
  <2>2. /\ disk'[g] = [now |-> "whole", old |-> disk[g].old]
        /\ \A f \in File : f # g => disk'[f] = disk[f]
        /\ disk' \in [File -> [now : Contents, old : SUBSET Contents]]
    BY <1>1, <1>3, <2>1 DEF DiskOK, Contents
  <2> QED BY <1>3, <2>1, <2>2 DEF DiskOK, HasCopy
<1> QED BY <1>2, <1>3

\* Every other step leaves the files alone.
LEMMA StepKeeps ==
  ASSUME DiskOK, LoadNext
  PROVE  DiskOK' /\ \A f \in File : HasCopy(f) => HasCopy(f)'
<1>1. CASE SaveRename
  BY <1>1, RenameKeeps
<1>2. CASE SaveCreate
  BY <1>2, CreateKeeps
<1>3. CASE SaveWrite
  BY <1>3, WriteKeeps
<1>4. CASE UNCHANGED disk
  BY <1>4 DEF DiskOK, HasCopy
<1>5. UNCHANGED disk \/ SaveRename \/ SaveCreate \/ SaveWrite
  BY DEF LoadNext, RunScript, ScriptDies, Retry, ResolveBook, ResolveEnd,
         FetchPage, FetchEnd, EnrichNorm, EnrichNoId, EnrichEnd, Result
<1> QED BY <1>1, <1>2, <1>3, <1>4, <1>5

\* The other parts of the system have no part in it.
LEMMA OthersKeep ==
  ASSUME [Next]_vars
  PROVE  UNCHANGED disk \/ LoadNext
BY DEF Next, vars, loadVars, Calculate, Ingest, Rest

\* Once a file was written in full, a full copy of it exists for ever.
THEOREM CopiesAreKept == Spec => CopyKept
<1>1. Init => DiskOK
  BY DEF Init, LoadInit, DiskOK, Contents
<1>2. DiskOK /\ [Next]_vars => DiskOK'
  <2>1. CASE UNCHANGED disk
    BY <2>1 DEF DiskOK
  <2> QED BY <2>1, OthersKeep, StepKeeps
<1>3. DiskOK /\ [Next]_vars => [\A f \in File : HasCopy(f) => HasCopy(f)']_disk
  BY OthersKeep, StepKeeps
<1> QED BY <1>1, <1>2, <1>3, PTL DEF Spec, CopyKept

-----------------------------------------------------------------------------
(* The calculating tools, for every input. *)

NoticeQuestion ==
  [party : Party, type : TenancyType, years : Int \cup {Missing},
   interval : Interval \cup {Missing}, terms : STRING \cup {Missing}]

RentQuestion ==
  [rent : Int, local : Int, area : Int, builtAfter : BOOLEAN, modernised : BOOLEAN]

\* How many of the two anniversaries have passed.
LEMMA Anniversaries ==
  ASSUME NEW years \in Int
  PROVE  3 * Cardinality({y \in {5, 8} : years >= y})
           = IF years >= 8 THEN 6 ELSE IF years >= 5 THEN 3 ELSE 0
<1> DEFINE S == {y \in {5, 8} : years >= y}
<1>1. Cardinality(S) = IF years >= 8 THEN 2 ELSE IF years >= 5 THEN 1 ELSE 0
  <2>1. CASE years >= 8
    <3>1. S = {5} \cup {8}
      BY <2>1
    <3>2. Cardinality({5}) = 1 /\ IsFiniteSet({5})
      BY FS_Singleton
    <3>3. Cardinality({5} \cup {8}) = 2
      BY <3>2, FS_AddElement
    <3> QED BY <2>1, <3>1, <3>3
  <2>2. CASE 5 <= years /\ years < 8
    <3>1. S = {5}
      BY <2>2
    <3> QED BY <2>2, <3>1, FS_Singleton
  <2>3. CASE years < 5
    <3>1. S = {}
      BY <2>3
    <3> QED BY <2>3, <3>1, FS_EmptySet
  <2> QED BY <2>1, <2>2, <2>3
<1> HIDE DEF S
<1>2. 3 * Cardinality(S) = IF years >= 8 THEN 6 ELSE IF years >= 5 THEN 3 ELSE 0
  BY <1>1
<1> QED BY <1>2 DEF S

\* Refused is no period.
LEMMA NoticeIsFair ==
  ASSUME Missing \notin Int, Missing \notin Interval,
         \A u, n : Refused # Period(u, n),
         NEW c \in NoticeQuestion
  PROVE  NoticeFair(c)
<1> DEFINE answer == NoticePeriod(c)
           home == c.type \in {"residential", "welfare_housing"}
<1> USE DEF NoticeQuestion
<1>1. Invalid(c) <=> \/ c.years # Missing /\ c.years < 0
                     \/ YearsMissing(c) \/ IntervalMissing(c) \/ TermsMissing(c)
  BY DEF Invalid
<1>2. CASE Invalid(c)
  <2>1. answer = Refused
    BY <1>2 DEF NoticePeriod
  <2> QED BY <1>1, <1>2, <2>1 DEF NoticeFair, YearsMissing, IntervalMissing, TermsMissing
<1>3. CASE ~Invalid(c) /\ home
  <2>1. c.years \in Int /\ c.years >= 0
    BY <1>1, <1>3 DEF YearsMissing
  <2>2. answer = Period("months", ResidentialMonths(c.party, c.years))
    BY <1>3 DEF NoticePeriod
  <2>3. ResidentialMonths(c.party, c.years) =
          3 + IF c.party = "vermieter"
              THEN 3 * Cardinality({y \in {5, 8} : c.years >= y}) ELSE 0
    BY <2>1, Anniversaries DEF ResidentialMonths, Party
  <2>4. answer # Refused /\ answer.unit = "months"
    BY <2>2 DEF Period
  <2> QED BY <1>3, <2>2, <2>3, <2>4 DEF NoticeFair
<1>4. CASE ~Invalid(c) /\ ~home
  <2> DEFINE d == [c EXCEPT !.party = "mieter"]
  <2>1. /\ d.party = "mieter" /\ d.type = c.type /\ d.years = c.years
        /\ d.interval = c.interval /\ d.terms = c.terms
    OBVIOUS
  <2>2. ~Invalid(d)
    BY <1>4, <2>1 DEF Invalid, YearsMissing, IntervalMissing, TermsMissing, Party
  <2>3. NoticePeriod(d) = answer
    <3>1. LandPeriod(d) = LandPeriod(c)
      BY <2>1 DEF LandPeriod
    <3> QED BY <1>4, <2>1, <2>2, <3>1 DEF NoticePeriod
  <2>4. answer # Refused
    <3>1. CASE c.type \in {"furnished_room", "temporary_residential", "commercial_space"}
      BY <1>4, <3>1 DEF NoticePeriod
    <3>2. CASE c.type \in {"land", "commercial_undeveloped_land", "other_room_nonbusiness"}
      <4>1. c.interval \in Interval
        BY <1>1, <1>4, <3>2 DEF IntervalMissing
      <4>2. \E u, n : LandPeriod(c) = Period(u, n)
        BY <4>1 DEF LandPeriod, Interval
      <4>3. answer = LandPeriod(c)
        BY <1>4, <3>2 DEF NoticePeriod
      <4> QED BY <4>2, <4>3
    <3> QED BY <1>4, <3>1, <3>2 DEF TenancyType
  <2>5. answer.unit = "terms" => answer.n = c.terms /\ c.terms # Missing
    <3>1. CASE c.type = "temporary_residential"
      <4>1. answer = Period("terms", c.terms) /\ c.terms # Missing
        BY <1>1, <1>4, <3>1 DEF NoticePeriod, TermsMissing
      <4> QED BY <4>1 DEF Period
    <3>2. CASE c.type \in {"furnished_room", "commercial_space"}
      <4>1. answer = Period("months", 0) \/ answer = Period("quarters", 1)
        BY <1>4, <3>2 DEF NoticePeriod
      <4> QED BY <4>1 DEF Period
    <3>3. CASE c.type \in {"land", "commercial_undeveloped_land", "other_room_nonbusiness"}
      <4>1. c.interval \in Interval
        BY <1>1, <1>4, <3>3 DEF IntervalMissing
      <4>2. LandPeriod(c) \in {Period("days", 1), Period("words", 0), Period("months", 3)}
        BY <4>1 DEF LandPeriod, Interval
      <4>3. answer = LandPeriod(c)
        BY <1>4, <3>3 DEF NoticePeriod
      <4> QED BY <4>2, <4>3 DEF Period
    <3> QED BY <1>4, <3>1, <3>2, <3>3 DEF TenancyType
  <2> HIDE DEF d
  <2> QED BY <1>4, <2>3, <2>4, <2>5 DEF NoticeFair, d
<1> QED BY <1>2, <1>3, <1>4

\* Two roundings move the limit by a cent at most.
LEMMA RentBrakeIsFair ==
  ASSUME NEW c \in RentQuestion
  PROVE  RentBrakeFair(c)
<1> USE DEF RentQuestion
<1> SUFFICES ASSUME NEW a \in RentBrake(c) \ {Refused}
             PROVE  IF c.builtAfter \/ c.modernised THEN a.compliant /\ a.excess = 0
                    ELSE LET exact == 11 * c.local * c.area
                         IN /\ 100 * c.rent > exact + 110 => ~a.compliant
                            /\ 100 * c.rent < exact - 110 => a.compliant
                            /\ a.compliant = (a.excess = 0)
                            /\ (~a.compliant => c.rent = a.max + a.excess)
  BY DEF RentBrakeFair
<1>1. ~(c.rent <= 0 \/ c.local <= 0 \/ c.area <= 0)
  BY DEF RentBrake
<1>2. CASE Exempt(c)
  <2>1. a = [max |-> -1, compliant |-> TRUE, excess |-> 0]
    BY <1>1, <1>2 DEF RentBrake
  <2> QED BY <1>2, <2>1 DEF Exempt
<1>3. CASE ~Exempt(c)
  <2> DEFINE P == c.local * c.area
  <2>1. PICK M \in Rounded(P, 10) : \E m \in Rounded(M * 11, 10) :
          a = [max |-> m, compliant |-> c.rent <= m, excess |-> Excess(c, m)]
    BY <1>1, <1>3 DEF RentBrake
  <2>2. PICK x \in Rounded(M * 11, 10) :
          a = [max |-> x, compliant |-> c.rent <= x, excess |-> Excess(c, x)]
    BY <2>1
  <2>3. P \in Int /\ 11 * c.local * c.area = 11 * P
    OBVIOUS
  <2> HIDE DEF P
  <2>4. M \in Int /\ 2 * (M * 10 - P) <= 10 /\ 2 * (P - M * 10) <= 10
    BY <2>3 DEF Rounded
  <2>5. x \in Int /\ 2 * (x * 10 - M * 11) <= 10 /\ 2 * (M * 11 - x * 10) <= 10
    BY <2>2, <2>4 DEF Rounded
  <2>6. 100 * x <= 11 * P + 110 /\ 11 * P - 110 <= 100 * x
    BY <2>3, <2>4, <2>5
  <2>7. a.compliant = (c.rent <= x) /\ a.max = x /\ a.excess = Excess(c, x)
    BY <2>2
  <2>8. c.rent \in Int /\ ~(c.builtAfter \/ c.modernised)
    BY <1>3 DEF Exempt
  <2>9. (c.rent <= x) = (Excess(c, x) = 0) /\ (~(c.rent <= x) => c.rent = x + Excess(c, x))
    BY <2>5, <2>8 DEF Excess
  <2>10. /\ 100 * c.rent > 11 * P + 110 => ~(c.rent <= x)
         /\ 100 * c.rent < 11 * P - 110 => c.rent <= x
    BY <2>3, <2>5, <2>6, <2>8
  <2>11. /\ 100 * c.rent > 11 * P + 110 => ~a.compliant
         /\ 100 * c.rent < 11 * P - 110 => a.compliant
         /\ a.compliant = (a.excess = 0)
         /\ ~a.compliant => c.rent = a.max + a.excess
    BY <2>7, <2>9, <2>10, Zenon
  <2> QED BY <2>3, <2>8, <2>11, Zenon
<1> QED BY <1>2, <1>3

\* Every figure of the calculating tools is the one of the law: for all years,
\* rents and areas.
THEOREM FiguresAreRight ==
  ASSUME Missing \notin Int, Missing \notin Interval,
         \A u, n : Refused # Period(u, n),
         NoticeQuestions \subseteq NoticeQuestion, RentQuestions \subseteq RentQuestion
  PROVE  Spec => []FiguresRight
<1> DEFINE Asked == /\ input.kind = "notice" => input.q \in NoticeQuestions
                    /\ input.kind = "rent" => input.q \in RentQuestions
<1>1. Init => Asked
  BY DEF Init, Idle
<1>2. Asked /\ [Next]_vars => Asked'
  <2>1. CASE UNCHANGED input
    BY <2>1
  <2>2. CASE Calculate
    BY <2>2 DEF Calculate
  <2>3. CASE Ingest
    BY <2>3 DEF Ingest
  <2> QED BY <2>1, <2>2, <2>3 DEF Next, Rest, vars
<1>3. Asked => FiguresRight
  BY NoticeIsFair, RentBrakeIsFair DEF FiguresRight
<1> QED BY <1>1, <1>2, <1>3, PTL DEF Spec
-----------------------------------------------------------------------------
(* The session of the client. *)

\* What is on its way is the user's own, and so is every list, or its
\* replacement is on its way.
DeskInv ==
  /\ token = user
  /\ lists \in [List -> User \cup {Nobody}]
  /\ user # Nobody =>
       /\ \A f \in waiting : f.as = user
       /\ \A l \in List : \/ lists[l] \in {user, Nobody}
                         \/ \E f \in waiting : f.list = l
  /\ user \in User \cup {Nobody}
  /\ \A f \in waiting : f.as \in User \cup {Nobody} /\ f.list \in List \cup {"persona"}

\* A round of requests for the user of the session.
LEMMA AskingKeeps ==
  ASSUME DeskInv, NEW ls, ls \subseteq List \cup {"persona"}, AskLists(token, ls),
         UNCHANGED <<token, user, lists>>
  PROVE  DeskInv'
<1>1. \A f \in waiting' : f \in waiting \/ (f.as = token /\ f.list \in ls)
  BY DEF AskLists
<1>2. waiting \subseteq waiting'
  BY DEF AskLists
<1> QED BY <1>1, <1>2 DEF DeskInv

LEMMA LogInKeeps ==
  ASSUME WorkspaceAssumption, ~Late, DeskInv, NEW u \in User, LogIn(u)
  PROVE  DeskInv'
<1>1. \A f \in waiting : f.as = u
  BY DEF LogIn
<1>2. \A f \in waiting' : f \in waiting \/ (f.as = u /\ f.list \in List)
  BY DEF LogIn, AskLists
<1>3. \A l \in List : [round |-> asked', list |-> l, as |-> u] \in waiting'
  BY DEF LogIn, AskLists
<1>4. \A l \in List : \E f \in waiting' : f.list = l
  BY <1>3
<1> QED BY <1>1, <1>2, <1>4 DEF DeskInv, LogIn

LEMMA AnswerKeeps ==
  ASSUME WorkspaceAssumption, DeskInv, NEW f \in waiting, Answered(f)
  PROVE  DeskInv'
<1>1. PICK a \in {"401", "failed"} \cup (IF f.as = Nobody THEN {} ELSE {"ok"}) :
        LET left == IF a = "401" /\ user # Nobody THEN Empty ELSE lists
        IN /\ IF a = "401" THEN LoggedOut ELSE UNCHANGED <<token, user>>
           /\ lists' = IF f.list = "persona" THEN left
                       ELSE [left EXCEPT ![f.list] = Landed(f, a)]
  BY DEF Answered
<1> DEFINE left == IF a = "401" /\ user # Nobody THEN Empty ELSE lists
<1>2. left \in [List -> User \cup {Nobody}]
  BY DEF DeskInv, Empty
<1>3. Landed(f, a) \in User \cup {Nobody}
  BY DEF Landed, DeskInv
<1>4. lists' \in [List -> User \cup {Nobody}]
  BY <1>1, <1>2, <1>3 DEF DeskInv
<1>5. waiting' = waiting \ {f}
  BY DEF Answered
<1>6. CASE a = "401"
  BY <1>1, <1>4, <1>5, <1>6 DEF DeskInv, LoggedOut
<1>7. CASE a # "401"
  <2>1. token' = user' /\ user' = user
    BY <1>1, <1>7 DEF DeskInv
  <2>2. ASSUME user # Nobody, NEW l \in List
        PROVE  lists'[l] \in {user, Nobody} \/ \E g \in waiting' : g.list = l
    <3>1. CASE f.list = l
      <4>1. lists'[l] = Landed(f, a)
        BY <1>1, <1>2, <3>1 DEF List
      <4>2. Landed(f, a) \in {user, Nobody}
        BY <2>2 DEF Landed, DeskInv
      <4> QED BY <4>1, <4>2
    <3>2. CASE f.list # l
      <4>1. lists'[l] = lists[l]
        BY <1>1, <1>2, <1>7, <3>2 DEF DeskInv
      <4>2. \A g \in waiting : g.list = l => g \in waiting'
        BY <1>5, <3>2
      <4> QED BY <2>2, <4>1, <4>2 DEF DeskInv
    <3> QED BY <3>1, <3>2
  <2> QED BY <1>4, <1>5, <2>1, <2>2 DEF DeskInv
<1> QED BY <1>6, <1>7

LEMMA ReloadKeeps ==
  ASSUME DeskInv, Reload
  PROVE  DeskInv'
<1>1. \A f \in waiting' : f.as = token /\ f.list \in List
  BY DEF Reload
<1>2. lists' = Empty /\ UNCHANGED <<token, user>>
  BY DEF Reload
<1> QED BY <1>1, <1>2 DEF DeskInv, Empty

\* If nobody logs in while another's answers are on their way, every list on
\* the screen is the user's own as soon as all requests are answered: for any
\* users and any number of requests, refusals, logouts and reloads.
THEOREM ListsSettle ==
  ASSUME ~Late
  PROVE  Spec => []ListsSettleOwn
<1>1. Init => DeskInv
  BY DEF Init, DeskInit, DeskInv, Empty
<1>2. DeskInv /\ [Next]_vars => DeskInv'
  <2> SUFFICES ASSUME DeskInv, [Next]_vars PROVE DeskInv'
    OBVIOUS
  <2>1. CASE UNCHANGED deskVars
    BY <2>1 DEF DeskInv, deskVars
  <2>2. CASE DeskNext
    <3>1. ASSUME NEW u \in User, LogIn(u) PROVE DeskInv'
      BY <3>1, LogInKeeps, WorkspaceAssumption
    <3>2. CASE LogOut
      BY <3>2 DEF LogOut, LoggedOut, DeskInv, Empty
    <3>3. CASE SetRole
      BY <3>3, AskingKeeps DEF SetRole
    <3>4. CASE Reload
      BY <3>4, ReloadKeeps
    <3>5. ASSUME NEW l \in List, Refresh(l) PROVE DeskInv'
      BY <3>5, AskingKeeps DEF Refresh
    <3>6. ASSUME NEW f \in waiting, Answered(f) PROVE DeskInv'
      BY <3>6, AnswerKeeps, WorkspaceAssumption
    <3> QED BY <2>2, <3>1, <3>2, <3>3, <3>4, <3>5, <3>6 DEF DeskNext
  <2> QED BY <2>1, <2>2 DEF Next, vars, Calculate, Ingest, Rest
<1>3. DeskInv => ListsSettleOwn
  BY DEF DeskInv, ListsSettleOwn
<1> QED BY <1>1, <1>2, <1>3, PTL DEF Spec

-----------------------------------------------------------------------------
(* The evaluation. *)

\* The scores of a collection that the judge could give are of one run.
OfOneRun(s) ==
  /\ Judged \subseteq DOMAIN s
  /\ \A m, n \in Judged : s[m] = NaN \/ s[n] = NaN \/ s[m] = s[n]

AllOfOneRun(scores) == \A c \in DOMAIN scores : OfOneRun(scores[c])

\* What the file has and what a run has read and measured is of one run each,
\* and a run that is not over has kept what it had to keep.
EvalInv ==
  /\ eval.run \in Nat /\ eval.at \in {"idle", "measure", "write"}
  /\ results.ok => AllOfOneRun(results.scores)
  /\ eval.at # "idle" =>
       /\ eval = [at |-> eval.at, run |-> eval.run, todo |-> eval.todo,
                  previous |-> eval.previous, scores |-> eval.scores]
       /\ eval.run \in 1..MaxEvals
       /\ AllOfOneRun(eval.previous) /\ AllOfOneRun(eval.scores)
  /\ ScoresKept

\* One collection: whatever the judge has given, the scores that are kept are
\* of one run, and are none only if there were none before.
LEMMA KeptIsMeasured ==
  ASSUME EvalInv, eval.at = "measure", NEW c, NEW judged \in RagasScores
  PROVE  /\ OfOneRun(KeptScores(c, judged))
         /\ c \in DOMAIN eval.previous /\ IsMeasured(eval.previous[c]) =>
              IsMeasured(KeptScores(c, judged))
<1>1. DOMAIN judged = Judged /\ \A m \in Judged : judged[m] \in {eval.run, NaN}
  BY DEF RagasScores
<1>2. OfOneRun(judged)
  BY <1>1 DEF OfOneRun
<1>3. c \in DOMAIN eval.previous => OfOneRun(eval.previous[c])
  BY DEF EvalInv, AllOfOneRun
<1>4. c \in DOMAIN eval.previous /\ IsMeasured(eval.previous[c]) => ~AllNaN(eval.previous[c])
  BY <1>3 DEF IsMeasured, AllNaN, OfOneRun
<1>5. ~AllNaN(judged) => IsMeasured(judged)
  BY <1>1 DEF IsMeasured, AllNaN
<1> QED BY <1>2, <1>3, <1>4, <1>5 DEF KeptScores

LEMMA MeasureKeeps ==
  ASSUME EvaluationAssumption, EvalInv, Measure
  PROVE  EvalInv'
<1> DEFINE c == Head(eval.todo)
<1>1. PICK judged \in RagasScores :
        eval' = [eval EXCEPT !.todo = Tail(@),
                   !.scores = [d \in DOMAIN @ \cup {c} |->
                     IF d = c THEN WithHitMetrics(c, KeptScores(c, judged)) ELSE @[d]]]
  BY DEF Measure
<1> DEFINE kept == KeptScores(c, judged)
           s == WithHitMetrics(c, kept)
<1> HIDE DEF c
<1>2. /\ OfOneRun(kept)
      /\ c \in DOMAIN eval.previous /\ IsMeasured(eval.previous[c]) => IsMeasured(kept)
  BY KeptIsMeasured DEF Measure
<1> HIDE DEF kept
<1>3. Judged \subseteq DOMAIN s /\ \A m \in Judged : s[m] = kept[m]
  BY <1>2 DEF OfOneRun, WithHitMetrics, Judged
<1>4. c \in Annotated => s["hit_rate"] = eval.run
  BY DEF WithHitMetrics
<1> HIDE DEF s
<1>5. OfOneRun(s)
  BY <1>2, <1>3 DEF OfOneRun
<1>6. c \in DOMAIN eval.previous /\ IsMeasured(eval.previous[c]) => IsMeasured(s)
  BY <1>2, <1>3 DEF IsMeasured
<1>7. /\ eval'.at = eval.at /\ eval'.run = eval.run /\ eval'.previous = eval.previous
      /\ eval'.scores = [d \in DOMAIN eval.scores \cup {c} |->
                          IF d = c THEN s ELSE eval.scores[d]]
      /\ eval' = [at |-> eval'.at, run |-> eval'.run, todo |-> eval'.todo,
                  previous |-> eval'.previous, scores |-> eval'.scores]
  BY <1>1 DEF EvalInv, Measure, s, kept
<1>8. /\ DOMAIN eval'.scores = {c} \cup DOMAIN eval.scores
      /\ eval'.scores[c] = s
      /\ \A d \in DOMAIN eval.scores : d # c => eval'.scores[d] = eval.scores[d]
  BY <1>7
<1>9. AllOfOneRun(eval.scores)'
  BY <1>5, <1>8 DEF AllOfOneRun, EvalInv, Measure
<1>10. ScoresKept'
  <2> SUFFICES ASSUME NEW d \in DOMAIN eval'.scores
               PROVE  /\ d \in DOMAIN eval.previous /\ IsMeasured(eval.previous[d]) =>
                           IsMeasured(eval'.scores[d])
                      /\ OfOneRun(eval'.scores[d])
                      /\ d \in Annotated => eval'.scores[d]["hit_rate"] = eval.run
    BY <1>7, SMTT(30) DEF ScoresKept, OfOneRun, IsMeasured
  <2>1. CASE d = c
    BY <2>1, <1>4, <1>5, <1>6, <1>8
  <2>2. CASE d # c
    BY <2>2, <1>8 DEF EvalInv, Measure, ScoresKept, AllOfOneRun
  <2> QED BY <2>1, <2>2
<1> QED BY <1>7, <1>9, <1>10 DEF EvalInv, Measure, AllOfOneRun

\* What a run is about to save has scores for every collection that the file it
\* read had scores for, and those of a collection are of one run, for any
\* collections and number of runs, however the judge fails and wherever the
\* process dies.
THEOREM LastScoresAreKept == Spec => []ScoresKept
<1>1. Init => EvalInv
  BY DEF Init, EvalInit, EvalInv, ScoresKept
<1>2. EvalInv /\ [Next]_vars => EvalInv'
  <2> SUFFICES ASSUME EvalInv, [Next]_vars PROVE EvalInv'
    OBVIOUS
  <2>1. CASE UNCHANGED evalVars
    BY <2>1 DEF EvalInv, evalVars, ScoresKept, AllOfOneRun, OfOneRun, IsMeasured
  <2>2. CASE StartEval
    <3>1. eval.run + 1 \in 1..MaxEvals
      BY <2>2, EvaluationAssumption DEF StartEval, EvalInv
    <3>2. AllOfOneRun(<<>>)
      BY DEF AllOfOneRun
    <3> QED BY <2>2, <3>1, <3>2 DEF StartEval, EvalInv, ScoresKept, AllOfOneRun, OfOneRun
  <2>3. CASE Measure
    BY <2>3, MeasureKeeps, EvaluationAssumption
  <2>4. CASE OpenResults
    BY <2>4 DEF OpenResults, EvalInv, ScoresKept, AllOfOneRun, OfOneRun, IsMeasured
  <2>5. CASE WriteResults
    BY <2>5 DEF WriteResults, EvalInv, ScoresKept, AllOfOneRun, OfOneRun
  <2>6. CASE EvalDies
    BY <2>6 DEF EvalDies, EvalInv, ScoresKept, AllOfOneRun, OfOneRun
  <2> QED BY <2>1, <2>2, <2>3, <2>4, <2>5, <2>6 DEF Next, EvalNext, vars, Calculate, Ingest, Rest
<1>3. EvalInv => ScoresKept
  BY DEF EvalInv
<1> QED BY <1>1, <1>2, <1>3, PTL DEF Spec

-----------------------------------------------------------------------------
(* Folds over sequences.  FoldLeft is defined by a recursive function on sets *)
(* of positions: such a function exists, by induction on the last position.  *)

\* A set of natural numbers has a least element, so induction works.
LEMMA LeastNatural ==
  ASSUME NEW T \in SUBSET Nat, T # {}
  PROVE  \E m \in T : \A k \in T : m <= k
<1> DEFINE R == OpToRel(<, Nat)
<1>1. IsWellFoundedOn(R, Nat)
  BY NatLessThanWellFounded
<1>2. \A x, y \in Nat : x < y => <<x, y>> \in R
  BY DEF OpToRel
<1> HIDE DEF R
<1>3. PICK x \in T : \A y \in T : ~ (<<y, x>> \in R)
  BY <1>1, WFMin
<1>4. \A y \in T : ~ (y < x)
  BY <1>2, <1>3
<1> QED BY <1>4

LEMMA Induction ==
  ASSUME NEW P, 0 \in P, \A n \in Nat : n \in P => n + 1 \in P
  PROVE  \A n \in Nat : n \in P
<1> SUFFICES ASSUME NEW n \in Nat, n \notin P PROVE FALSE
  OBVIOUS
<1> DEFINE T == {k \in Nat : k \notin P}
<1>1. n \in T /\ T \subseteq Nat
  OBVIOUS
<1>2. PICK m \in T : \A k \in T : m <= k
  <2> HIDE DEF T
  <2> QED BY <1>1, LeastNatural
<1>3. m \in Nat /\ m # 0
  OBVIOUS
<1>4. m - 1 \in Nat /\ m - 1 \notin T
  BY <1>2, <1>3
<1>5. m - 1 \in P /\ (m - 1) + 1 = m
  BY <1>3, <1>4
<1> QED BY <1>4, <1>5

\* The position a fold takes next is the last one.
LEMMA MaxIsTop ==
  ASSUME NEW k \in Nat, NEW s \in SUBSET (1..k), k \in s
  PROVE  Max(s) = k
<1>1. \A y \in s : k >= y
  OBVIOUS
<1>2. Max(s) \in s /\ \A y \in s : Max(s) >= y
  BY <1>1 DEF Max
<1> DEFINE m == Max(s)
<1> HIDE DEF m
<1>3. m \in s /\ m >= k
  BY <1>2 DEF m
<1>4. m \in 1..k
  BY <1>3
<1>5. m = k
  BY <1>3, <1>4
<1> QED BY <1>5 DEF m

LEMMA LastIsIn ==
  ASSUME NEW k \in Nat, NEW s \in SUBSET (1..k), s # {}
  PROVE  Max(s) \in s /\ \A y \in s : Max(s) >= y
<1> DEFINE T == {x \in Nat : k - x \in s}
<1>1. T \in SUBSET Nat /\ T # {}
  <2> PICK x \in s : TRUE
    OBVIOUS
  <2> k - x \in Nat /\ k - (k - x) = x
    OBVIOUS
  <2> QED OBVIOUS
<1>2. PICK m \in T : \A y \in T : m <= y
  <2> HIDE DEF T
  <2> QED BY <1>1, LeastNatural
<1>3. \A y \in s : k - m >= y
  <2> SUFFICES ASSUME NEW y \in s PROVE k - m >= y
    OBVIOUS
  <2>1. y \in Nat /\ k - y \in Nat /\ k - (k - y) = y
    OBVIOUS
  <2>2. m <= k - y /\ m \in Nat
    BY <1>2, <2>1
  <2> QED BY <2>1, <2>2
<1>4. k - m \in s
  BY <1>2
<1> QED BY <1>3, <1>4 DEF Max

\* it folds the positions 1 .. n, the last one last.
FoldsInto(it, base, n, step) ==
  \A s \in SUBSET (1..n) :
    it[s] = IF s = {} THEN base ELSE step[<<it[s \ {Max(s)}], Max(s)>>]

LEMMA FoldExists ==
  ASSUME NEW A, NEW base \in A, NEW n \in Nat, NEW step \in [A \X (1..n) -> A]
  PROVE  \E it \in [SUBSET (1..n) -> A] : FoldsInto(it, base, n, step)
<1> DEFINE Good(k) == \E it \in [SUBSET (1..k) -> A] : FoldsInto(it, base, k, step)
           P == {k \in Nat : k <= n => Good(k)}
<1>1. 0 \in P
  <2>1. [s \in SUBSET (1..0) |-> base] \in [SUBSET (1..0) -> A]
    OBVIOUS
  <2> DEFINE none == [s \in SUBSET (1..0) |-> base]
  <2>2. \A s \in SUBSET (1..0) : s = {} /\ none[s] = base
    OBVIOUS
  <2>3. Good(0)
    <3> HIDE DEF none
    <3> QED BY <2>1, <2>2 DEF none, FoldsInto
  <2> HIDE DEF Good
  <2> QED BY <2>3
<1>2. ASSUME NEW k \in Nat, k \in P
      PROVE  k + 1 \in P
  <2> SUFFICES ASSUME k + 1 <= n, Good(k)
               PROVE  Good(k + 1)
    <3> HIDE DEF Good
    <3>1. k + 1 <= n => k <= n
      OBVIOUS
    <3> QED BY <1>2, <3>1
  <2>1. PICK it \in [SUBSET (1..k) -> A] : FoldsInto(it, base, k, step)
    OBVIOUS
  <2> DEFINE more == [s \in SUBSET (1..(k + 1)) |->
                        IF k + 1 \in s THEN step[<<it[s \ {k + 1}], k + 1>>] ELSE it[s]]
  <2>2. \A s \in SUBSET (1..(k + 1)) : /\ s \ {k + 1} \in SUBSET (1..k)
                                       /\ k + 1 \notin s => s \in SUBSET (1..k)
    OBVIOUS
  <2>3. k + 1 \in 1..n
    OBVIOUS
  <2>4. more \in [SUBSET (1..(k + 1)) -> A]
    BY <2>2, <2>3
  <2>5. ASSUME NEW s \in SUBSET (1..(k + 1))
        PROVE  more[s] = IF s = {} THEN base ELSE step[<<more[s \ {Max(s)}], Max(s)>>]
    <3>1. CASE k + 1 \in s
      <4>1. Max(s) = k + 1
        BY <3>1, MaxIsTop
      <4>2. s \ {k + 1} \in SUBSET (1..(k + 1)) /\ k + 1 \notin s \ {k + 1}
        OBVIOUS
      <4>3. more[s \ {k + 1}] = it[s \ {k + 1}]
        BY <4>2
      <4>4. more[s] = step[<<it[s \ {k + 1}], k + 1>>]
        BY <3>1
      <4> HIDE DEF more
      <4> QED BY <3>1, <4>1, <4>3, <4>4
    <3>2. CASE k + 1 \notin s
      <4>1. s \in SUBSET (1..k)
        BY <3>2, <2>2
      <4>2. more[s] = it[s]
        BY <3>2
      <4>3. s \ {Max(s)} \in SUBSET (1..(k + 1)) /\ k + 1 \notin s \ {Max(s)}
        BY <3>2
      <4>4. more[s \ {Max(s)}] = it[s \ {Max(s)}]
        BY <4>3
      <4>5. it[s] = IF s = {} THEN base ELSE step[<<it[s \ {Max(s)}], Max(s)>>]
        BY <2>1, <4>1 DEF FoldsInto
      <4> HIDE DEF more
      <4> QED BY <4>2, <4>4, <4>5
    <3> QED BY <3>1, <3>2
  <2> HIDE DEF more
  <2> QED BY <2>4, <2>5 DEF FoldsInto
<1>3. \A k \in Nat : k \in P
  <2> HIDE DEF P
  <2> QED BY <1>1, <1>2, Induction
<1>4. n \in P
  BY <1>3
<1>5. Good(n)
  <2> HIDE DEF Good
  <2> QED BY <1>4
<1> QED BY <1>5

\* A fold that appends some of the members of a sequence, as the loops of the
\* search and of the download do.
Appends(it, s, takes) ==
  \A P \in SUBSET (1..Len(s)) :
    it[P] = IF P = {} THEN <<>>
            ELSE IF takes[<<it[P \ {Max(P)}], s[Max(P)]>>]
            THEN Append(it[P \ {Max(P)}], s[Max(P)]) ELSE it[P \ {Max(P)}]

LEMMA AppendsExists ==
  ASSUME NEW S, NEW s \in Seq(S), NEW takes \in [Seq(S) \X S -> BOOLEAN]
  PROVE  \E it \in [SUBSET (1..Len(s)) -> Seq(S)] : Appends(it, s, takes)
<1> DEFINE step == [p \in Seq(S) \X (1..Len(s)) |->
                      IF takes[<<p[1], s[p[2]]>>] THEN Append(p[1], s[p[2]]) ELSE p[1]]
<1>1. step \in [Seq(S) \X (1..Len(s)) -> Seq(S)] /\ <<>> \in Seq(S) /\ Len(s) \in Nat
  OBVIOUS
<1>2. PICK it \in [SUBSET (1..Len(s)) -> Seq(S)] : FoldsInto(it, <<>>, Len(s), step)
  <2> HIDE DEF step
  <2> QED BY <1>1, FoldExists
<1>3. ASSUME NEW P \in SUBSET (1..Len(s)), P # {}
      PROVE  it[P] = IF takes[<<it[P \ {Max(P)}], s[Max(P)]>>]
                     THEN Append(it[P \ {Max(P)}], s[Max(P)]) ELSE it[P \ {Max(P)}]
  <2>1. Max(P) \in P
    BY <1>1, <1>3, LastIsIn
  <2>2. <<it[P \ {Max(P)}], Max(P)>> \in Seq(S) \X (1..Len(s))
    BY <2>1
  <2>3. it[P] = step[<<it[P \ {Max(P)}], Max(P)>>]
    BY <1>2, <1>3 DEF FoldsInto
  <2> QED BY <2>2, <2>3
<1>4. it[{}] = <<>>
  BY <1>2 DEF FoldsInto
<1>5. Appends(it, s, takes)
  BY <1>3, <1>4 DEF Appends
<1> QED BY <1>5

\* The positions up to k, without the last.
LEMMA LastOfFirst ==
  ASSUME NEW n \in Nat, NEW k \in 1..n
  PROVE  /\ 1..k \in SUBSET (1..n) /\ 1..k # {} /\ Max(1..k) = k
         /\ (1..k) \ {k} = 1..(k - 1)
<1>1. Max(1..k) = k
  BY MaxIsTop
<1>2. (1..k) \ {k} = 1..(k - 1)
  OBVIOUS
<1> QED BY <1>1, <1>2

-----------------------------------------------------------------------------
(* The search. *)

\* The children of distinct parents: one of each parent that a child has.
Distinguished(r, s, k) ==
  /\ \A i \in DOMAIN r : r[i].parent # NoParent
  /\ \A i, j \in DOMAIN r : i # j => r[i].parent # r[j].parent
  /\ \A m \in 1..k : s[m].parent = NoParent \/ \E i \in DOMAIN r : r[i].parent = s[m].parent

LEMMA FirstOfEachParent ==
  ASSUME NEW S, NEW s \in Seq(S)
  PROVE  FirstOfEach(s) \in Seq(S) /\ Distinguished(FirstOfEach(s), s, Len(s))
<1> DEFINE n == Len(s)
           Seen(r, c) == c.parent = NoParent \/ \E i \in DOMAIN r : r[i].parent = c.parent
           C(it) == it = [P \in SUBSET DOMAIN s |->
                            IF P = {} THEN <<>>
                            ELSE IF Seen(it[P \ {Max(P)}], s[Max(P)]) THEN it[P \ {Max(P)}]
                            ELSE Append(it[P \ {Max(P)}], s[Max(P)])]
           c == CHOOSE it : C(it)
           takes == [p \in Seq(S) \X S |-> ~Seen(p[1], p[2])]
<1>1. FirstOfEach(s) = c[DOMAIN s]
  BY DEF FirstOfEach, FoldLeft, MapThenFoldSet
<1>2. n \in Nat /\ DOMAIN s = 1..n
  OBVIOUS
<1>3. \E it : C(it)
  <2>1. takes \in [Seq(S) \X S -> BOOLEAN]
    OBVIOUS
  <2>2. PICK it \in [SUBSET (1..n) -> Seq(S)] : Appends(it, s, takes)
    <3> HIDE DEF takes
    <3> QED BY <2>1, AppendsExists
  <2>3. ASSUME NEW P \in SUBSET (1..n), P # {}
        PROVE  it[P] = IF Seen(it[P \ {Max(P)}], s[Max(P)]) THEN it[P \ {Max(P)}]
                       ELSE Append(it[P \ {Max(P)}], s[Max(P)])
    <3>1. Max(P) \in P
      BY <1>2, <2>3, LastIsIn
    <3>2. <<it[P \ {Max(P)}], s[Max(P)]>> \in Seq(S) \X S
      <4>1. P \ {Max(P)} \in SUBSET (1..n) /\ Max(P) \in DOMAIN s
        BY <1>2, <3>1
      <4> QED BY <4>1
    <3>3. it[P] = IF takes[<<it[P \ {Max(P)}], s[Max(P)]>>]
                  THEN Append(it[P \ {Max(P)}], s[Max(P)]) ELSE it[P \ {Max(P)}]
      BY <2>2, <2>3 DEF Appends
    <3> QED BY <3>2, <3>3
  <2>4. it[{}] = <<>>
    BY <2>2 DEF Appends
  <2> HIDE DEF Seen
  <2>5. C(it)
    BY <1>2, <2>2, <2>3, <2>4
  <2> QED BY <2>5
<1>4. C(c)
  <2> HIDE DEF C
  <2> QED BY <1>3
<1>5. c[{}] = <<>> /\ 1..0 = {}
  <2> HIDE DEF c, Seen
  <2> QED BY <1>4
<1>6. ASSUME NEW k \in 1..n
      PROVE  c[1..k] = IF Seen(c[1..(k - 1)], s[k]) THEN c[1..(k - 1)]
                       ELSE Append(c[1..(k - 1)], s[k])
  <2> HIDE DEF c, Seen
  <2>1. /\ 1..k \in SUBSET (1..n) /\ 1..k # {} /\ Max(1..k) = k
        /\ (1..k) \ {k} = 1..(k - 1)
    BY <1>2, LastOfFirst
  <2>2. c[1..k] = IF Seen(c[(1..k) \ {Max(1..k)}], s[Max(1..k)]) THEN c[(1..k) \ {Max(1..k)}]
                  ELSE Append(c[(1..k) \ {Max(1..k)}], s[Max(1..k)])
    BY <1>2, <1>4, <2>1
  <2> QED BY <2>1, <2>2
<1> HIDE DEF c, C
<1> DEFINE T == {k \in Nat : k <= n => c[1..k] \in Seq(S) /\ Distinguished(c[1..k], s, k)}
<1>7. 0 \in T
  <2>1. <<>> \in Seq(S) /\ DOMAIN <<>> = {}
    OBVIOUS
  <2>2. Distinguished(<<>>, s, 0)
    BY <2>1 DEF Distinguished
  <2>3. c[1..0] = <<>>
    BY <1>5
  <2> QED BY <2>1, <2>2, <2>3
<1>8. ASSUME NEW k \in Nat, k \in T PROVE k + 1 \in T
  <2> SUFFICES ASSUME k + 1 <= n
               PROVE  c[1..(k + 1)] \in Seq(S) /\ Distinguished(c[1..(k + 1)], s, k + 1)
    OBVIOUS
  <2> DEFINE r == c[1..k]
             x == s[k + 1]
  <2>1. r \in Seq(S) /\ Distinguished(r, s, k)
    BY <1>2, <1>8
  <2>2. k + 1 \in 1..n /\ (k + 1) - 1 = k /\ x \in S
    BY <1>2
  <2>3. c[1..(k + 1)] = IF Seen(r, x) THEN r ELSE Append(r, x)
    BY <1>6, <2>2
  <2> HIDE DEF r
  <2>4. CASE Seen(r, x)
    BY <2>1, <2>2, <2>3, <2>4 DEF Distinguished
  <2>5. CASE ~Seen(r, x)
    <3>1. Append(r, x) \in Seq(S) /\ Len(Append(r, x)) = Len(r) + 1
      BY <2>1, <2>2
    <3>2. \A i \in DOMAIN Append(r, x) :
            Append(r, x)[i] = IF i = Len(r) + 1 THEN x ELSE r[i]
      BY <2>1, <2>2
    <3>3. DOMAIN Append(r, x) = DOMAIN r \cup {Len(r) + 1} /\ Len(r) + 1 \notin DOMAIN r
      BY <2>1, <2>2
    <3>4. Distinguished(Append(r, x), s, k + 1)
      <4> DEFINE a == Append(r, x)
      <4> HIDE DEF a
      <4>1. \A i \in DOMAIN r : a[i] = r[i] /\ i \in DOMAIN a
        BY <3>2, <3>3 DEF a
      <4>2. a[Len(r) + 1] = x /\ Len(r) + 1 \in DOMAIN a
        BY <3>2, <3>3 DEF a
      <4>3. \A i \in DOMAIN a : i \in DOMAIN r \/ i = Len(r) + 1
        BY <3>3 DEF a
      <4>4. x.parent # NoParent /\ \A i \in DOMAIN r : r[i].parent # x.parent
        BY <2>5
      <4>5. \A m \in 1..(k + 1) : m \in 1..k \/ m = k + 1
        OBVIOUS
      <4> HIDE DEF Seen
      <4>6. /\ \A i \in DOMAIN a : a[i].parent # NoParent
            /\ \A i, j \in DOMAIN a : i # j => a[i].parent # a[j].parent
        BY <2>1, <4>1, <4>2, <4>3, <4>4 DEF Distinguished
      <4>7. \A m \in 1..(k + 1) :
              s[m].parent = NoParent \/ \E i \in DOMAIN a : a[i].parent = s[m].parent
        BY <2>1, <4>1, <4>2, <4>5 DEF Distinguished
      <4> QED BY <4>6, <4>7 DEF Distinguished, a
    <3> QED BY <2>3, <2>5, <3>1, <3>4
  <2> QED BY <2>4, <2>5
<1>9. n \in T
  <2>1. \A k \in Nat : k \in T
    <3> HIDE DEF T
    <3> QED BY <1>7, <1>8, Induction
  <2> QED BY <1>2, <2>1
<1> QED BY <1>1, <1>2, <1>9

\* The lines that are left of the model's answer are a sequence of its lines.
LEMMA FreshLinesAreLines ==
  ASSUME NEW S, NEW s \in Seq(S), NEW q
  PROVE  FreshLines(q, s) \in Seq(S)
<1> DEFINE n == Len(s)
           Seen(r, v) == v.says = q.says \/ \E i \in DOMAIN r : r[i].says = v.says
           C(it) == it = [P \in SUBSET DOMAIN s |->
                            IF P = {} THEN <<>>
                            ELSE IF Seen(it[P \ {Max(P)}], s[Max(P)]) THEN it[P \ {Max(P)}]
                            ELSE Append(it[P \ {Max(P)}], s[Max(P)])]
           c == CHOOSE it : C(it)
           takes == [p \in Seq(S) \X S |-> ~Seen(p[1], p[2])]
<1>1. FreshLines(q, s) = c[DOMAIN s]
  BY DEF FreshLines, FoldLeft, MapThenFoldSet
<1>2. n \in Nat /\ DOMAIN s = 1..n
  OBVIOUS
<1>3. \E it : C(it)
  <2>1. takes \in [Seq(S) \X S -> BOOLEAN]
    OBVIOUS
  <2>2. PICK it \in [SUBSET (1..n) -> Seq(S)] : Appends(it, s, takes)
    <3> HIDE DEF takes
    <3> QED BY <2>1, AppendsExists
  <2>3. ASSUME NEW P \in SUBSET (1..n), P # {}
        PROVE  it[P] = IF Seen(it[P \ {Max(P)}], s[Max(P)]) THEN it[P \ {Max(P)}]
                       ELSE Append(it[P \ {Max(P)}], s[Max(P)])
    <3>1. Max(P) \in P
      BY <1>2, <2>3, LastIsIn
    <3>2. <<it[P \ {Max(P)}], s[Max(P)]>> \in Seq(S) \X S
      <4>1. P \ {Max(P)} \in SUBSET (1..n) /\ Max(P) \in DOMAIN s
        BY <1>2, <3>1
      <4> QED BY <4>1
    <3>3. it[P] = IF takes[<<it[P \ {Max(P)}], s[Max(P)]>>]
                  THEN Append(it[P \ {Max(P)}], s[Max(P)]) ELSE it[P \ {Max(P)}]
      BY <2>2, <2>3 DEF Appends
    <3> QED BY <3>2, <3>3
  <2>4. it[{}] = <<>>
    BY <2>2 DEF Appends
  <2> HIDE DEF Seen
  <2>5. C(it)
    BY <1>2, <2>2, <2>3, <2>4
  <2> QED BY <2>5
<1>4. C(c)
  <2> HIDE DEF C
  <2> QED BY <1>3
<1>5. c[{}] = <<>> /\ 1..0 = {}
  <2> HIDE DEF c, Seen
  <2> QED BY <1>4
<1>6. ASSUME NEW k \in 1..n
      PROVE  c[1..k] = IF Seen(c[1..(k - 1)], s[k]) THEN c[1..(k - 1)]
                       ELSE Append(c[1..(k - 1)], s[k])
  <2> HIDE DEF c, Seen
  <2>1. /\ 1..k \in SUBSET (1..n) /\ 1..k # {} /\ Max(1..k) = k
        /\ (1..k) \ {k} = 1..(k - 1)
    BY <1>2, LastOfFirst
  <2>2. c[1..k] = IF Seen(c[(1..k) \ {Max(1..k)}], s[Max(1..k)]) THEN c[(1..k) \ {Max(1..k)}]
                  ELSE Append(c[(1..k) \ {Max(1..k)}], s[Max(1..k)])
    BY <1>2, <1>4, <2>1
  <2> QED BY <2>1, <2>2
<1> HIDE DEF c, C, Seen
<1> DEFINE T == {k \in Nat : k <= n => c[1..k] \in Seq(S)}
<1>7. 0 \in T
  <2>1. c[1..0] = <<>> /\ <<>> \in Seq(S)
    BY <1>5
  <2> QED BY <2>1
<1>8. ASSUME NEW k \in Nat, k \in T PROVE k + 1 \in T
  <2> SUFFICES ASSUME k + 1 <= n PROVE c[1..(k + 1)] \in Seq(S)
    OBVIOUS
  <2>1. k + 1 \in 1..n /\ (k + 1) - 1 = k /\ s[k + 1] \in S /\ c[1..k] \in Seq(S)
    BY <1>2, <1>8
  <2>2. c[1..(k + 1)] = IF Seen(c[1..k], s[k + 1]) THEN c[1..k] ELSE Append(c[1..k], s[k + 1])
    BY <1>6, <2>1
  <2> QED BY <2>1, <2>2
<1>9. \A k \in Nat : k \in T
  <2> HIDE DEF T
  <2> QED BY <1>7, <1>8, Induction
<1> QED BY <1>1, <1>2, <1>9

\* No member twice.
Once(s) == \A i, j \in DOMAIN s : i # j => s[i] # s[j]

LEMMA TakeKeeps ==
  ASSUME NEW S, NEW s \in Seq(S), NEW k \in Nat \ {0}
  PROVE  /\ Take(s, k) \in Seq(S) /\ Len(Take(s, k)) <= k
         /\ s # <<>> => Take(s, k) # <<>>
         /\ DOMAIN Take(s, k) \subseteq DOMAIN s
         /\ \A i \in DOMAIN Take(s, k) : Take(s, k)[i] = s[i]
         /\ ToSet(Take(s, k)) \subseteq ToSet(s)
         /\ Once(s) => Once(Take(s, k))
<1> DEFINE m == SmallerOf(k, Len(s))
           t == Take(s, k)
<1>1. m \in Nat /\ m <= k /\ m <= Len(s) /\ (s # <<>> => m # 0)
  BY EmptySeq DEF SmallerOf
<1> HIDE DEF m
<1>2. t \in Seq(S) /\ Len(t) = m /\ \A i \in 1..m : t[i] = s[i]
  <2>1. t = SubSeq(s, 1, m)
    BY DEF Take, m
  <2>2. /\ SubSeq(s, 1, m) \in Seq(S) /\ Len(SubSeq(s, 1, m)) = m
        /\ \A i \in 1..m : SubSeq(s, 1, m)[i] = s[i]
    BY <1>1
  <2> QED BY <2>1, <2>2
<1> HIDE DEF t
<1>3. DOMAIN t = 1..m /\ DOMAIN t \subseteq DOMAIN s
  BY <1>1, <1>2
<1>4. s # <<>> => t # <<>>
  BY <1>1, <1>2
<1>5. ToSet(t) \subseteq ToSet(s)
  BY <1>2, <1>3 DEF ToSet
<1>6. Once(s) => Once(t)
  BY <1>2, <1>3 DEF Once
<1> QED BY <1>1, <1>2, <1>3, <1>4, <1>5, <1>6 DEF t

LEMMA OrderIsOnce ==
  ASSUME NEW S, IsFiniteSet(S), NEW s \in SetToSeqs(S)
  PROVE  s \in Seq(S) /\ Once(s) /\ (S # {} => s # <<>>) /\ ToSet(s) \subseteq S
<1> DEFINE n == Cardinality(S)
<1>1. n \in Nat /\ (S # {} => n # 0)
  BY FS_CardinalityType, FS_EmptySet
<1> HIDE DEF n
<1>2. s \in [1..n -> S] /\ \A i, j \in 1..n : i # j => s[i] # s[j]
  BY DEF SetToSeqs, n
<1>3. s \in Seq(S) /\ Len(s) = n
  BY <1>1, <1>2
<1> QED BY <1>1, <1>2, <1>3 DEF Once, ToSet

Coll == DOMAIN Chunks

\* What a collection may be answered with; the members are told apart by their
\* parents if the parents are what is shown.
Sound(q, coll, hits) ==
  /\ hits \in Seq(Chunks[coll]) /\ Once(hits)
  /\ Chunks[coll] # {} => hits # <<>>
  /\ /\ coll = "statutes" /\ q.tag[coll] # NoTag
     /\ \E c \in Chunks[coll] : c.tag = q.tag[coll]
     => \A i \in DOMAIN hits : hits[i].tag = q.tag[coll]

Apart(lever, coll, hits) ==
  lever.parents /\ coll = "case_law" =>
    \A i, j \in DOMAIN hits : i # j /\ hits[i].parent = hits[j].parent => hits[i].parent = NoParent

AnyQuestion == Question \cup UNION {ToSet(lines) : lines \in Variants}

\* What has been found so far is sound, from the first candidates on; it is
\* empty only if the collection is, or as long as queries are left.
SearchInv ==
  /\ find.at \in {"idle", "ask", "fetch", "parents", "found", "answered"}
  /\ find.at # "idle" =>
       /\ find = [at |-> find.at, coll |-> find.coll, q |-> find.q, lever |-> find.lever,
                  queries |-> find.queries, docs |-> find.docs, hits |-> find.hits]
       /\ find.q \in Question /\ find.coll \in Coll /\ DOMAIN find.hits = Coll
       /\ find.coll = "case_law" =>
            /\ Sound(find.q, "statutes", find.hits["statutes"])
            /\ Len(find.hits["statutes"]) <= RetrievalK
  /\ find.at = "ask" => find.docs = <<>>
  /\ find.at = "fetch" =>
       /\ find.queries \in Seq(AnyQuestion)
       /\ find.coll = "statutes" => \A i \in DOMAIN find.queries : find.queries[i] = find.q
       /\ (find.docs = <<>> /\ find.queries # <<>>) \/ Sound(find.q, find.coll, find.docs)
  /\ find.at \in {"parents", "found"} => Sound(find.q, find.coll, find.docs)
  /\ find.at = "parents" => Expanding
  /\ find.at = "found" => Apart(find.lever, find.coll, find.docs)
  /\ find.at = "answered" =>
       /\ find.coll = "case_law"
       /\ Sound(find.q, "case_law", find.hits["case_law"]) /\ Len(find.hits["case_law"]) <= RetrievalK
       /\ Apart(find.lever, "case_law", find.hits["case_law"])

LEMMA SearchInvIsSound == ASSUME RetrievalAssumption, SearchInv PROVE SearchSound
<1> SUFFICES ASSUME find.at = "answered", NEW coll \in DOMAIN Chunks
             PROVE  /\ Sound(find.q, coll, find.hits[coll]) /\ Len(find.hits[coll]) <= RetrievalK
                    /\ Apart(find.lever, coll, find.hits[coll])
  <2>1. ASSUME NEW coll, Sound(find.q, coll, find.hits[coll]) PROVE ToSet(find.hits[coll]) \subseteq Chunks[coll]
    BY <2>1 DEF Sound, ToSet
  <2> QED BY <2>1 DEF SearchSound, Sound, Apart, Once
<1>1. coll \in {"statutes", "case_law"}
  BY DEF RetrievalAssumption
<1>2. CASE coll = "statutes"
  BY <1>2 DEF SearchInv, Apart
<1>3. CASE coll = "case_law"
  BY <1>3 DEF SearchInv
<1> QED BY <1>1, <1>2, <1>3

\* A sequence of members of a sound one, each once, is sound.
LEMMA PartIsSound ==
  ASSUME NEW q, NEW coll, NEW docs, Sound(q, coll, docs), NEW r \in Seq(Chunks[coll]), Once(r),
         ToSet(r) \subseteq ToSet(docs), docs # <<>> => r # <<>>
  PROVE  Sound(q, coll, r)
<1>1. \A i \in DOMAIN r : \E j \in DOMAIN docs : r[i] = docs[j]
  BY DEF ToSet
<1> QED BY <1>1 DEF Sound

LEMMA RerankIsSound ==
  ASSUME NEW q, NEW coll, IsFiniteSet(Chunks[coll]), NEW docs, Sound(q, coll, docs),
         NEW k \in Nat \ {0}, NEW r \in Reranked(docs, k)
  PROVE  Sound(q, coll, r) /\ ToSet(r) \subseteq ToSet(docs)
<1>1. docs \in Seq(Chunks[coll]) /\ Once(docs)
  BY DEF Sound
<1>2. CASE r = Fallback(docs, k)
  BY <1>1, <1>2, TakeKeeps, PartIsSound DEF Fallback
<1>3. CASE \E s \in SetToSeqs(ToSet(docs)) : r = Take(s, k)
  <2>1. PICK s \in SetToSeqs(ToSet(docs)) : r = Take(s, k)
    BY <1>3
  <2>2. IsFiniteSet(ToSet(docs)) /\ (docs # <<>> => ToSet(docs) # {})
           /\ ToSet(docs) \subseteq Chunks[coll]
    <3>1. DOMAIN docs = 1..Len(docs) /\ Len(docs) \in Nat
      BY <1>1
    <3>2. docs # <<>> => docs[1] \in ToSet(docs)
      BY <1>1, <3>1, EmptySeq DEF ToSet
    <3>3. ToSet(docs) \subseteq Chunks[coll]
      BY <1>1 DEF ToSet
    <3> QED BY <3>2, <3>3, FS_Subset
  <2>3. /\ s \in Seq(ToSet(docs)) /\ Once(s) /\ ToSet(s) \subseteq ToSet(docs)
        /\ docs # <<>> => s # <<>>
    BY <2>2, OrderIsOnce
  <2>4. /\ r \in Seq(ToSet(docs)) /\ Once(r) /\ ToSet(r) \subseteq ToSet(s)
        /\ s # <<>> => r # <<>>
    BY <2>1, <2>3, TakeKeeps
  <2>5. r \in Seq(Chunks[coll])
    BY <2>2, <2>4
  <2> QED BY <2>3, <2>4, <2>5, PartIsSound
<1> QED BY <1>2, <1>3 DEF Reranked

\* Reordering what is apart leaves it apart.
LEMMA PartIsApart ==
  ASSUME NEW lever, NEW coll, NEW docs, Apart(lever, coll, docs), NEW r, Once(r), ToSet(r) \subseteq ToSet(docs)
  PROVE  Apart(lever, coll, r)
<1>1. \A i \in DOMAIN r : \E j \in DOMAIN docs : r[i] = docs[j]
  BY DEF ToSet
<1> QED BY <1>1 DEF Apart, Once

\* The candidates of a query are new rows of the collection, the cited ones if
\* there are any, and some unless the collection is empty.
LEMMA FetchKeeps ==
  ASSUME RetrievalAssumption, SearchInv, FetchCandidates
  PROVE  SearchInv'
<1> DEFINE coll == find.coll
           docs == find.docs
           rows == NarrowedRows(coll, Head(find.queries))
<1>1. PICK T \in Ensembles(rows, CandidateK) :
        \E new \in SetToSeqs(T \ ToSet(docs)) :
          find' = [find EXCEPT !.queries = Tail(@), !.docs = @ \o new]
  BY DEF FetchCandidates
<1>2. PICK new \in SetToSeqs(T \ ToSet(docs)) :
        find' = [find EXCEPT !.queries = Tail(@), !.docs = @ \o new]
  BY <1>1
<1>3. /\ find.at = "fetch" /\ find.queries \in Seq(AnyQuestion) /\ find.queries # <<>>
      /\ coll \in Coll
  BY DEF SearchInv, FetchCandidates
<1>4. rows \subseteq Chunks[coll] /\ (Chunks[coll] # {} => rows # {})
  BY DEF NarrowedRows
<1>5. /\ coll = "statutes" /\ find.q.tag[coll] # NoTag
      /\ \E c \in Chunks[coll] : c.tag = find.q.tag[coll]
      => \A c \in rows : c.tag = find.q.tag[coll]
  <2>1. coll = "statutes" => Head(find.queries) = find.q
    BY <1>3, EmptySeq DEF SearchInv
  <2> QED BY <2>1 DEF NarrowedRows
<1> HIDE DEF rows
<1>6. T \subseteq rows /\ IsFiniteSet(T) /\ (rows # {} => T # {})
  <2>1. IsFiniteSet(Chunks[coll])
    BY <1>3 DEF RetrievalAssumption, Coll
  <2>2. IsFiniteSet(rows)
    BY <1>4, <2>1, FS_Subset
  <2>3. T \subseteq rows /\ Cardinality(T) >= SmallerOf(CandidateK, Cardinality(rows))
    BY <1>1 DEF Ensembles
  <2>4. IsFiniteSet(T)
    BY <2>2, <2>3, FS_Subset
  <2>5. rows # {} => Cardinality(rows) \in Nat \ {0}
    BY <2>2, FS_CardinalityType, FS_EmptySet
  <2>6. rows # {} => SmallerOf(CandidateK, Cardinality(rows)) \in Nat \ {0}
    BY <2>5 DEF SmallerOf, RetrievalAssumption
  <2>7. Cardinality({}) = 0
    BY FS_EmptySet
  <2>8. ~ (0 >= SmallerOf(CandidateK, Cardinality(rows))) \/ rows = {}
    BY <2>6
  <2>9. rows # {} => T # {}
    BY <2>3, <2>7, <2>8
  <2> QED BY <2>3, <2>4, <2>9
<1> DEFINE S == T \ ToSet(docs)
<1>7. new \in Seq(S) /\ Once(new) /\ (S # {} => new # <<>>)
  <2>1. IsFiniteSet(S)
    BY <1>6, FS_Subset
  <2> QED BY <2>1, OrderIsOnce
<1>8. docs = <<>> \/ Sound(find.q, coll, docs)
  BY <1>3 DEF SearchInv
<1>9. docs \in Seq(Chunks[coll]) /\ Once(docs)
  <2>1. Once(<<>>) /\ <<>> \in Seq(Chunks[coll])
    BY DEF Once
  <2> QED BY <1>8, <2>1 DEF Sound
<1>10. new \in Seq(Chunks[coll]) /\ \A i \in DOMAIN new : new[i] \in rows /\ new[i] \notin ToSet(docs)
  BY <1>4, <1>6, <1>7
<1> DEFINE all == docs \o new
<1>11. /\ all \in Seq(Chunks[coll])
       /\ \A i \in DOMAIN all : \/ i \in DOMAIN docs /\ all[i] = docs[i]
                                \/ /\ i \notin DOMAIN docs /\ i - Len(docs) \in DOMAIN new
                                   /\ all[i] = new[i - Len(docs)]
       /\ all = <<>> => docs = <<>> /\ new = <<>>
  <2>1. new \in Seq(Chunks[coll])
    BY <1>10
  <2>2. all \in Seq(Chunks[coll]) /\ Len(all) = Len(docs) + Len(new)
    BY <1>9, <2>1, ConcatProperties
  <2>3. \A i \in 1..(Len(docs) + Len(new)) :
          all[i] = IF i <= Len(docs) THEN docs[i] ELSE new[i - Len(docs)]
    BY <1>9, <2>1
  <2>4. Len(docs) \in Nat /\ Len(new) \in Nat
    BY <1>9, <2>1
  <2>5. DOMAIN docs = 1..Len(docs) /\ DOMAIN new = 1..Len(new)
        /\ DOMAIN all = 1..(Len(docs) + Len(new))
    BY <1>9, <2>1, <2>2
  <2>6. all = <<>> => Len(docs) = 0 /\ Len(new) = 0
    BY <2>2, <2>4
  <2>7. all = <<>> => docs = <<>> /\ new = <<>>
    BY <1>9, <2>1, <2>6, EmptySeq
  <2> HIDE DEF all, docs
  <2> QED BY <2>2, <2>3, <2>4, <2>5, <2>7
<1> HIDE DEF all, S
<1>12. Once(all)
  <2> SUFFICES ASSUME NEW i \in DOMAIN all, NEW j \in DOMAIN all, i # j
               PROVE  all[i] # all[j]
    BY DEF Once
  <2>1. \A k \in DOMAIN docs : docs[k] \in ToSet(docs)
    BY DEF ToSet
  <2>2. i \in Nat /\ j \in Nat /\ Len(docs) \in Nat
    BY <1>9, <1>11
  <2>3. i - Len(docs) # j - Len(docs)
    BY <2>2
  <2> QED BY <1>7, <1>9, <1>10, <1>11, <2>1, <2>3 DEF Once
<1>13. Sound(find.q, coll, all)
  <2>1. Chunks[coll] # {} => all # <<>>
    <3>1. docs = <<>> => ToSet(docs) = {}
      BY DEF ToSet
    <3>2. docs = <<>> => S = T
      BY <3>1 DEF S
    <3> QED BY <1>4, <1>6, <1>7, <1>8, <1>11, <3>2 DEF Sound
  <2>2. /\ coll = "statutes" /\ find.q.tag[coll] # NoTag
        /\ \E c \in Chunks[coll] : c.tag = find.q.tag[coll]
        => \A i \in DOMAIN all : all[i].tag = find.q.tag[coll]
    <3> SUFFICES ASSUME coll = "statutes", find.q.tag[coll] # NoTag,
                        \E c \in Chunks[coll] : c.tag = find.q.tag[coll], NEW i \in DOMAIN all
                 PROVE  all[i].tag = find.q.tag[coll]
      OBVIOUS
    <3>1. \A k \in DOMAIN docs : docs[k].tag = find.q.tag[coll]
      BY <1>8 DEF Sound
    <3>2. \A k \in DOMAIN new : new[k].tag = find.q.tag[coll]
      BY <1>5, <1>10
    <3> QED BY <1>11, <3>1, <3>2
  <2> QED BY <1>11, <1>12, <2>1, <2>2 DEF Sound
<1>14. /\ find'.at = "fetch" /\ find'.coll = coll /\ find'.q = find.q /\ find'.lever = find.lever
       /\ find'.queries = Tail(find.queries) /\ find'.docs = all /\ find'.hits = find.hits
       /\ find' = [at |-> find'.at, coll |-> find'.coll, q |-> find'.q, lever |-> find'.lever,
                   queries |-> find'.queries, docs |-> find'.docs, hits |-> find'.hits]
  BY <1>2, <1>3 DEF SearchInv, all
<1>15. /\ Tail(find.queries) \in Seq(AnyQuestion)
       /\ coll = "statutes" => \A i \in DOMAIN Tail(find.queries) : Tail(find.queries)[i] = find.q
  <2>1. \A i \in DOMAIN Tail(find.queries) : /\ i + 1 \in DOMAIN find.queries
                                             /\ Tail(find.queries)[i] = find.queries[i + 1]
    BY <1>3, EmptySeq
  <2> QED BY <1>3, <2>1 DEF SearchInv
<1> HIDE DEF coll, docs
<1> QED BY <1>3, <1>13, <1>14, <1>15 DEF SearchInv, coll, docs

\* The parents of distinct children, or, if none of them has a parent, the
\* children themselves.
LEMMA ExpandKeeps ==
  ASSUME RetrievalAssumption, SearchInv, ExpandParents
  PROVE  SearchInv'
<1> DEFINE docs == find.docs
           first == FirstChildren(docs)
           each == FirstOfEach(docs)
           k == IF find.lever.parentRerank /\ FanoutK > RetrievalK THEN FanoutK ELSE RetrievalK
<1>1. find.at = "parents" /\ Sound(find.q, "case_law", docs) /\ find.coll = "case_law"
  BY DEF ExpandParents, SearchInv, Expanding
<1>2. /\ RetrievalK \in Nat \ {0} /\ k \in Nat \ {0} /\ IsFiniteSet(Chunks["case_law"])
  BY DEF RetrievalAssumption
<1>3. docs \in Seq(Chunks["case_law"]) /\ docs \in Seq(ToSet(docs))
  <2>1. docs \in Seq(Chunks["case_law"])
    BY <1>1 DEF Sound
  <2>2. \A i \in DOMAIN docs : docs[i] \in ToSet(docs)
    BY DEF ToSet
  <2>3. docs \in [1..Len(docs) -> ToSet(docs)] /\ Len(docs) \in Nat
    BY <2>1, <2>2
  <2>4. docs \in Seq(ToSet(docs))
    BY <2>3
  <2> QED BY <2>1, <2>4
<1>4. each \in Seq(ToSet(docs)) /\ Distinguished(each, docs, Len(docs))
  BY <1>3, FirstOfEachParent
<1>5. first = Take(each, k)
  BY DEF FirstChildren
<1> HIDE DEF k, each
<1>6. /\ first \in Seq(ToSet(docs)) /\ (each # <<>> => first # <<>>)
      /\ \A i \in DOMAIN first : i \in DOMAIN each /\ first[i] = each[i]
  BY <1>2, <1>4, <1>5, TakeKeeps
<1> HIDE DEF first
<1>7. \A i, j \in DOMAIN first : i # j => first[i].parent # first[j].parent
  BY <1>4, <1>6 DEF Distinguished
<1>8. Once(first) /\ Apart(find.lever, "case_law", first)
  BY <1>7 DEF Once, Apart
<1>9. ToSet(first) \subseteq ToSet(docs) /\ first \in Seq(Chunks["case_law"])
  <2>1. \A i \in DOMAIN first : first[i] \in ToSet(docs)
    BY <1>6
  <2>2. ToSet(docs) \subseteq Chunks["case_law"]
    BY <1>3 DEF ToSet
  <2> QED BY <1>6, <2>1, <2>2 DEF ToSet
<1>10. first # <<>> => Sound(find.q, "case_law", first)
  BY <1>1, <1>8, <1>9, PartIsSound
<1>11. \A r : first # <<>> /\ r \in Reranked(first, RetrievalK) =>
         Sound(find.q, "case_law", r) /\ Apart(find.lever, "case_law", r)
  <2> SUFFICES ASSUME NEW r, first # <<>>, r \in Reranked(first, RetrievalK)
               PROVE  Sound(find.q, "case_law", r) /\ Apart(find.lever, "case_law", r)
    OBVIOUS
  <2>1. Sound(find.q, "case_law", r) /\ ToSet(r) \subseteq ToSet(first)
    BY <1>2, <1>10, RerankIsSound
  <2> QED BY <1>8, <2>1, PartIsApart DEF Sound
<1>12. first # <<>> => Take(first, RetrievalK) \in Reranked(first, RetrievalK)
  BY DEF Reranked, Fallback
<1>13. first = <<>> => /\ Sound(find.q, "case_law", Take(docs, RetrievalK))
                       /\ Apart(find.lever, "case_law", Take(docs, RetrievalK))
  <2> SUFFICES ASSUME first = <<>>
               PROVE  /\ Sound(find.q, "case_law", Take(docs, RetrievalK))
                      /\ Apart(find.lever, "case_law", Take(docs, RetrievalK))
    OBVIOUS
  <2>1. DOMAIN each = {}
    BY <1>6
  <2>2. \A m \in DOMAIN docs : docs[m].parent = NoParent
    BY <1>3, <1>4, <2>1 DEF Distinguished
  <2>3. Apart(find.lever, "case_law", docs)
    BY <2>2 DEF Apart
  <2>4. Take(docs, RetrievalK) \in Reranked(docs, RetrievalK)
    BY DEF Reranked, Fallback
  <2>5. Sound(find.q, "case_law", Take(docs, RetrievalK))
        /\ ToSet(Take(docs, RetrievalK)) \subseteq ToSet(docs)
    BY <1>1, <1>2, <2>4, RerankIsSound
  <2> QED BY <2>3, <2>5, PartIsApart DEF Sound
<1>14. PICK r : /\ Sound(find.q, "case_law", r) /\ Apart(find.lever, "case_law", r)
                /\ find' = [find EXCEPT !.at = "found", !.docs = r]
  BY <1>11, <1>12, <1>13 DEF ExpandParents, first
<1> QED BY <1>1, <1>14 DEF SearchInv

\* What is kept is sound: the statutes first, then the case law.
LEMMA HitsKeep ==
  ASSUME RetrievalAssumption, SearchInv, KeepHits
  PROVE  SearchInv'
<1> DEFINE coll == find.coll
           kept == Take(find.docs, RetrievalK)
<1>1. /\ find.at = "found" /\ coll \in Coll /\ Coll = {"statutes", "case_law"}
      /\ Sound(find.q, coll, find.docs) /\ Apart(find.lever, coll, find.docs)
      /\ DOMAIN find.hits = Coll
  BY DEF KeepHits, SearchInv, RetrievalAssumption, Coll
<1>2. RetrievalK \in Nat \ {0} /\ IsFiniteSet(Chunks[coll])
  BY <1>1 DEF RetrievalAssumption, Coll
<1>3. kept \in Reranked(find.docs, RetrievalK)
  BY DEF Reranked, Fallback
<1>4. /\ Sound(find.q, coll, kept) /\ ToSet(kept) \subseteq ToSet(find.docs)
      /\ Len(kept) <= RetrievalK
  BY <1>1, <1>2, <1>3, RerankIsSound, TakeKeeps DEF Sound
<1>5. Apart(find.lever, coll, kept)
  BY <1>1, <1>4, PartIsApart DEF Sound
<1> HIDE DEF kept
<1>6. find' = [find EXCEPT !.hits[coll] = kept, !.docs = <<>>,
                 !.at = IF coll = "statutes" THEN "ask" ELSE "answered", !.coll = "case_law"]
  BY DEF KeepHits, kept
<1> HIDE DEF coll
<1>7. /\ find'.q = find.q /\ find'.lever = find.lever /\ find'.docs = <<>>
      /\ find'.at = (IF coll = "statutes" THEN "ask" ELSE "answered")
      /\ find'.coll = "case_law" /\ find'.hits = [find.hits EXCEPT ![coll] = kept]
      /\ find' = [at |-> find'.at, coll |-> find'.coll, q |-> find'.q, lever |-> find'.lever,
                  queries |-> find'.queries, docs |-> find'.docs, hits |-> find'.hits]
      /\ find'.q \in Question
  BY <1>1, <1>6 DEF SearchInv
<1>8. CASE coll = "statutes"
  <2>1. find'.hits["statutes"] = kept /\ DOMAIN find'.hits = Coll
    BY <1>1, <1>7, <1>8
  <2> QED BY <1>1, <1>4, <1>7, <1>8, <2>1 DEF SearchInv
<1>9. CASE coll = "case_law"
  <2>1. /\ find'.hits["case_law"] = kept /\ find'.hits["statutes"] = find.hits["statutes"]
        /\ DOMAIN find'.hits = Coll
    BY <1>1, <1>7, <1>9
  <2>2. /\ Sound(find.q, "statutes", find.hits["statutes"])
        /\ Len(find.hits["statutes"]) <= RetrievalK
    BY <1>1, <1>9 DEF SearchInv, coll
  <2> QED BY <1>1, <1>4, <1>5, <1>7, <1>9, <2>1, <2>2 DEF SearchInv
<1> QED BY <1>1, <1>8, <1>9

LEMMA QueriesKeep ==
  ASSUME RetrievalAssumption, SearchInv, ExpandQueries
  PROVE  SearchInv'
<1>1. find.at = "ask" /\ find.q \in Question /\ find.docs = <<>>
  BY DEF SearchInv, ExpandQueries
<1>2. PICK more \in {<<>>} \cup
        (IF find.coll = "case_law" /\ find.lever.multiQuery
         THEN {Distinct(find.q, lines) : lines \in Variants} ELSE {}) :
        find' = [find EXCEPT !.at = "fetch", !.queries = <<find.q>> \o more]
  BY DEF ExpandQueries
<1>3. more \in Seq(AnyQuestion)
  <2>1. ASSUME NEW lines \in Variants
        PROVE  Distinct(find.q, lines) \in Seq(AnyQuestion)
    <3>1. lines \in Seq(AnyQuestion)
      <4>1. lines \in Seq(ToSet(lines)) /\ ToSet(lines) \subseteq AnyQuestion
        BY DEF RetrievalAssumption, AnyQuestion
      <4> QED BY <4>1
    <3>2. FreshLines(find.q, lines) \in Seq(AnyQuestion)
      BY <3>1, FreshLinesAreLines
    <3>3. MultiQueryN \in Nat \ {0}
      BY DEF RetrievalAssumption
    <3> QED BY <3>2, <3>3, TakeKeeps DEF Distinct
  <2>2. <<>> \in Seq(AnyQuestion)
    OBVIOUS
  <2> QED BY <2>1, <2>2
<1> DEFINE queries == <<find.q>> \o more
<1>4. queries \in Seq(AnyQuestion) /\ queries # <<>>
  <2>1. <<find.q>> \in Seq(AnyQuestion) /\ Len(<<find.q>>) = 1
    BY <1>1 DEF AnyQuestion
  <2>2. Len(queries) = 1 + Len(more) /\ queries \in Seq(AnyQuestion) /\ Len(more) \in Nat
    BY <1>3, <2>1, ConcatProperties
  <2> HIDE DEF queries
  <2> QED BY <2>2
<1>5. find.coll = "statutes" => \A i \in DOMAIN queries : queries[i] = find.q
  <2> SUFFICES ASSUME find.coll = "statutes" PROVE \A i \in DOMAIN queries : queries[i] = find.q
    OBVIOUS
  <2>1. more = <<>>
    BY <1>2
  <2>2. queries = <<find.q>>
    BY <1>1, <2>1
  <2> QED BY <2>2
<1> HIDE DEF queries
<1> QED BY <1>1, <1>2, <1>4, <1>5 DEF SearchInv, queries

\* A reranker that fails, or answers, leaves the answer sound.
LEMMA RerankKeeps ==
  ASSUME RetrievalAssumption, SearchInv, Rerank
  PROVE  SearchInv'
<1>1. /\ find.at = "fetch" /\ find.coll \in Coll
      /\ Sound(find.q, find.coll, find.docs)
  BY DEF SearchInv, Rerank
<1>2. /\ (IF Expanding THEN FanoutK ELSE RetrievalK) \in Nat \ {0}
      /\ IsFiniteSet(Chunks[find.coll])
  BY <1>1 DEF RetrievalAssumption, Coll
<1>3. PICK docs \in Reranked(find.docs, IF Expanding THEN FanoutK ELSE RetrievalK) :
        find' = [find EXCEPT !.at = IF Expanding THEN "parents" ELSE "found", !.docs = docs]
  BY DEF Rerank
<1>4. Sound(find.q, find.coll, docs)
  BY <1>1, <1>2, <1>3, RerankIsSound
<1>5. ~Expanding => Apart(find.lever, find.coll, docs)
  BY DEF Expanding, Apart
<1> QED BY <1>1, <1>3, <1>4, <1>5 DEF SearchInv, Expanding

\* A collection that has rows is never answered with nothing, nor with a chunk
\* or a parent twice, nor with other rows than those of a cited section that
\* exists, whatever is asked, however the services fail and whichever order
\* they answer in.
THEOREM SearchIsSound == Spec => []SearchSound
<1>1. Init => SearchInv
  BY DEF Init, SearchInit, SearchInv
<1>2. SearchInv /\ [Next]_vars => SearchInv'
  <2> SUFFICES ASSUME SearchInv, [Next]_vars PROVE SearchInv'
    OBVIOUS
  <2>1. CASE UNCHANGED find
    BY <2>1 DEF SearchInv, Expanding
  <2>2. CASE SearchNext
    <3>1. CASE StartSearch
      <4>1. "statutes" \in Coll /\ DOMAIN [c \in DOMAIN Chunks |-> <<>>] = Coll
        BY RetrievalAssumption DEF RetrievalAssumption, Coll
      <4> QED BY <3>1, <4>1 DEF StartSearch, SearchInv
    <3>2. CASE ExpandQueries
      BY <3>2, QueriesKeep, RetrievalAssumption
    <3>3. CASE FetchCandidates
      BY <3>3, FetchKeeps, RetrievalAssumption
    <3>4. CASE Rerank
      BY <3>4, RerankKeeps, RetrievalAssumption
    <3>5. CASE ExpandParents
      BY <3>5, ExpandKeeps, RetrievalAssumption
    <3>6. CASE KeepHits
      BY <3>6, HitsKeep, RetrievalAssumption
    <3>7. CASE GetSource
      BY <3>7, <2>1 DEF GetSource
    <3> QED BY <2>2, <3>1, <3>2, <3>3, <3>4, <3>5, <3>6, <3>7 DEF SearchNext
  <2> QED BY <2>1, <2>2 DEF Next, vars, searchVars, Calculate, Ingest, Rest
<1>3. SearchInv => SearchSound
  BY SearchInvIsSound, RetrievalAssumption
<1> QED BY <1>1, <1>2, <1>3, PTL DEF Spec

-----------------------------------------------------------------------------
(* The download of the statutes. *)

\* Sequences without repetitions, and the sets of their members.
LEMMA TailSplits ==
  ASSUME NEW S, NEW s \in Seq(S), s # <<>>, Once(s)
  PROVE  /\ Head(s) \in S /\ Tail(s) \in Seq(S) /\ Once(Tail(s))
         /\ ToSet(s) = {Head(s)} \cup ToSet(Tail(s)) /\ Head(s) \notin ToSet(Tail(s))
<1>1. /\ Len(s) \in Nat \ {0} /\ DOMAIN s = 1..Len(s) /\ Head(s) = s[1] /\ Head(s) \in S
      /\ Tail(s) \in Seq(S) /\ Len(Tail(s)) = Len(s) - 1
      /\ \A i \in 1..(Len(s) - 1) : Tail(s)[i] = s[i + 1]
  BY EmptySeq
<1> DEFINE t == Tail(s)
           n == Len(s)
<1> HIDE DEF t, n
<1>2. DOMAIN t = 1..(n - 1) /\ n \in Nat \ {0} /\ DOMAIN s = 1..n
  BY <1>1 DEF t, n
<1>3. \A i \in DOMAIN t : i + 1 \in DOMAIN s /\ i + 1 # 1 /\ t[i] = s[i + 1]
  BY <1>1, <1>2 DEF t, n
<1>4. \A i \in DOMAIN s : i = 1 \/ (i - 1 \in DOMAIN t /\ s[i] = t[i - 1])
  <2> SUFFICES ASSUME NEW i \in DOMAIN s, i # 1 PROVE i - 1 \in DOMAIN t /\ s[i] = t[i - 1]
    OBVIOUS
  <2>1. i - 1 \in DOMAIN t /\ (i - 1) + 1 = i
    BY <1>2
  <2> QED BY <1>3, <2>1
<1>5. 1 \in DOMAIN s
  BY <1>2
<1>6. ToSet(s) = {s[1]} \cup ToSet(t)
  BY <1>3, <1>4, <1>5 DEF ToSet
<1>7. s[1] \notin ToSet(t)
  BY <1>3, <1>5 DEF Once, ToSet
<1>8. Once(t)
  <2> SUFFICES ASSUME NEW i \in DOMAIN t, NEW j \in DOMAIN t, i # j PROVE t[i] # t[j]
    BY DEF Once
  <2>1. i + 1 # j + 1
    BY <1>2
  <2> QED BY <1>3, <2>1 DEF Once
<1> QED BY <1>1, <1>6, <1>7, <1>8 DEF t

LEMMA ConcatJoins ==
  ASSUME NEW S, NEW s \in Seq(S), NEW t \in Seq(S)
  PROVE  /\ s \o t \in Seq(S) /\ ToSet(s \o t) = ToSet(s) \cup ToSet(t)
         /\ Once(s) /\ Once(t) /\ ToSet(s) \cap ToSet(t) = {} => Once(s \o t)
<1> DEFINE u == s \o t
           m == Len(s)
           n == Len(t)
<1>1. /\ u \in Seq(S) /\ m \in Nat /\ n \in Nat
      /\ DOMAIN s = 1..m /\ DOMAIN t = 1..n /\ DOMAIN u = 1..(m + n)
      /\ \A i \in 1..(m + n) : u[i] = IF i <= m THEN s[i] ELSE t[i - m]
  BY ConcatProperties
<1> HIDE DEF u, m, n
<1>2. \A i \in DOMAIN u : \/ i \in DOMAIN s /\ u[i] = s[i]
                          \/ i \notin DOMAIN s /\ i - m \in DOMAIN t /\ u[i] = t[i - m]
  BY <1>1
<1>3. \A i \in DOMAIN s : i \in DOMAIN u /\ u[i] = s[i]
  BY <1>1
<1>4. \A i \in DOMAIN t : i + m \in DOMAIN u /\ u[i + m] = t[i]
  <2> SUFFICES ASSUME NEW i \in DOMAIN t PROVE i + m \in DOMAIN u /\ u[i + m] = t[i]
    OBVIOUS
  <2>1. i + m \in 1..(m + n) /\ ~(i + m <= m) /\ (i + m) - m = i
    BY <1>1
  <2> QED BY <1>1, <2>1
<1>5. ToSet(u) = ToSet(s) \cup ToSet(t)
  <2>1. \A x \in ToSet(u) : x \in ToSet(s) \cup ToSet(t)
    BY <1>2 DEF ToSet
  <2>2. \A x \in ToSet(s) : x \in ToSet(u)
    BY <1>3 DEF ToSet
  <2>3. \A x \in ToSet(t) : x \in ToSet(u)
    BY <1>4 DEF ToSet
  <2> QED BY <2>1, <2>2, <2>3
<1>6. ASSUME Once(s), Once(t), ToSet(s) \cap ToSet(t) = {}
      PROVE  Once(u)
  <2> SUFFICES ASSUME NEW i \in DOMAIN u, NEW j \in DOMAIN u, i # j PROVE u[i] # u[j]
    BY DEF Once
  <2>1. i - m # j - m
    BY <1>1
  <2>2. \A k \in DOMAIN s, l \in DOMAIN t : s[k] # t[l]
    BY <1>6 DEF ToSet
  <2> QED BY <1>2, <1>6, <2>1, <2>2 DEF Once
<1> QED BY <1>1, <1>5, <1>6 DEF u

LEMMA AppendJoins ==
  ASSUME NEW S, NEW s \in Seq(S), NEW x \in S
  PROVE  /\ Append(s, x) \in Seq(S) /\ ToSet(Append(s, x)) = ToSet(s) \cup {x}
         /\ Once(s) /\ x \notin ToSet(s) => Once(Append(s, x))
<1>1. <<x>> \in Seq(S) /\ DOMAIN <<x>> = {1} /\ <<x>>[1] = x
  OBVIOUS
<1>2. ToSet(<<x>>) = {x} /\ Once(<<x>>)
  BY <1>1 DEF ToSet, Once
<1>3. Append(s, x) = s \o <<x>>
  OBVIOUS
<1> DEFINE t == <<x>>
<1>4. t \in Seq(S) /\ ToSet(t) = {x} /\ Once(t) /\ Append(s, x) = s \o t
  BY <1>1, <1>2, <1>3
<1> HIDE DEF t
<1>5. /\ s \o t \in Seq(S) /\ ToSet(s \o t) = ToSet(s) \cup ToSet(t)
      /\ Once(s) /\ Once(t) /\ ToSet(s) \cap ToSet(t) = {} => Once(s \o t)
  BY <1>4, ConcatJoins
<1> QED BY <1>4, <1>5

\* The norms that are to be enriched, in their order: all of them, each once.
LEMMA CandidatesAreAll ==
  ASSUME NEW S, NEW s \in Seq(S), Once(s)
  PROVE  /\ Candidates(s) \in Seq(S) /\ Once(Candidates(s))
         /\ ToSet(Candidates(s)) = {x \in ToSet(s) : ShouldEnrich(x)}
<1> DEFINE n == Len(s)
           C(it) == it = [P \in SUBSET DOMAIN s |->
                            IF P = {} THEN <<>>
                            ELSE IF ShouldEnrich(s[Max(P)])
                            THEN Append(it[P \ {Max(P)}], s[Max(P)]) ELSE it[P \ {Max(P)}]]
           c == CHOOSE it : C(it)
           takes == [p \in Seq(S) \X S |-> IF ShouldEnrich(p[2]) THEN TRUE ELSE FALSE]
<1>1. Candidates(s) = c[DOMAIN s]
  BY DEF Candidates, FoldLeft, MapThenFoldSet
<1>2. n \in Nat /\ DOMAIN s = 1..n
  OBVIOUS
<1>3. \E it : C(it)
  <2>1. takes \in [Seq(S) \X S -> BOOLEAN]
    OBVIOUS
  <2>2. PICK it \in [SUBSET (1..n) -> Seq(S)] : Appends(it, s, takes)
    <3> HIDE DEF takes
    <3> QED BY <2>1, AppendsExists
  <2>3. ASSUME NEW P \in SUBSET (1..n), P # {}
        PROVE  it[P] = IF ShouldEnrich(s[Max(P)])
                       THEN Append(it[P \ {Max(P)}], s[Max(P)]) ELSE it[P \ {Max(P)}]
    <3>1. Max(P) \in P
      BY <1>2, <2>3, LastIsIn
    <3>2. <<it[P \ {Max(P)}], s[Max(P)]>> \in Seq(S) \X S
      <4>1. P \ {Max(P)} \in SUBSET (1..n) /\ Max(P) \in DOMAIN s
        BY <1>2, <3>1
      <4> QED BY <4>1
    <3>3. it[P] = IF takes[<<it[P \ {Max(P)}], s[Max(P)]>>]
                  THEN Append(it[P \ {Max(P)}], s[Max(P)]) ELSE it[P \ {Max(P)}]
      BY <2>2, <2>3 DEF Appends
    <3> QED BY <3>2, <3>3
  <2>4. it[{}] = <<>>
    BY <2>2 DEF Appends
  <2>5. C(it)
    BY <1>2, <2>2, <2>3, <2>4
  <2> QED BY <2>5
<1>4. C(c)
  <2> HIDE DEF C
  <2> QED BY <1>3
<1>5. c[{}] = <<>> /\ 1..0 = {}
  <2> HIDE DEF c
  <2> QED BY <1>4
<1>6. ASSUME NEW k \in 1..n
      PROVE  c[1..k] = IF ShouldEnrich(s[k]) THEN Append(c[1..(k - 1)], s[k])
                       ELSE c[1..(k - 1)]
  <2> HIDE DEF c
  <2>1. /\ 1..k \in SUBSET (1..n) /\ 1..k # {} /\ Max(1..k) = k
        /\ (1..k) \ {k} = 1..(k - 1)
    BY <1>2, LastOfFirst
  <2>2. c[1..k] = IF ShouldEnrich(s[Max(1..k)])
                  THEN Append(c[(1..k) \ {Max(1..k)}], s[Max(1..k)])
                  ELSE c[(1..k) \ {Max(1..k)}]
    BY <1>2, <1>4, <2>1
  <2> QED BY <2>1, <2>2
<1> HIDE DEF c, C
<1> DEFINE Chosen(k) == {x \in S : \E i \in 1..k : x = s[i] /\ ShouldEnrich(x)}
           T == {k \in Nat : k <= n => /\ c[1..k] \in Seq(S) /\ Once(c[1..k])
                                       /\ ToSet(c[1..k]) = Chosen(k)}
<1>7. 0 \in T
  <2>1. c[1..0] = <<>> /\ <<>> \in Seq(S) /\ DOMAIN <<>> = {} /\ Chosen(0) = {}
    BY <1>5
  <2>2. Once(<<>>) /\ ToSet(<<>>) = {}
    BY <2>1 DEF Once, ToSet
  <2> HIDE DEF Chosen
  <2> QED BY <2>1, <2>2
<1>8. ASSUME NEW k \in Nat, k \in T PROVE k + 1 \in T
  <2> SUFFICES ASSUME k + 1 <= n
               PROVE  /\ c[1..(k + 1)] \in Seq(S) /\ Once(c[1..(k + 1)])
                      /\ ToSet(c[1..(k + 1)]) = Chosen(k + 1)
    <3> HIDE DEF Chosen
    <3> QED OBVIOUS
  <2> DEFINE r == c[1..k]
             x == s[k + 1]
  <2>1. k + 1 \in 1..n /\ (k + 1) - 1 = k /\ k <= n /\ x \in S
    BY <1>2
  <2>2. r \in Seq(S) /\ Once(r) /\ ToSet(r) = Chosen(k)
    <3> HIDE DEF Chosen
    <3> QED BY <1>8, <2>1
  <2>3. c[1..(k + 1)] = IF ShouldEnrich(x) THEN Append(r, x) ELSE r
    BY <1>6, <2>1
  <2> HIDE DEF r
  <2>4. \A i \in 1..(k + 1) : i \in 1..k \/ i = k + 1
    BY <2>1
  <2>5. \A i \in 1..k : i \in DOMAIN s /\ i # k + 1 /\ i \in 1..(k + 1)
    BY <1>2, <2>1
  <2>6. x \notin Chosen(k)
    BY <1>2, <2>1, <2>5 DEF Once
  <2>7. Chosen(k + 1) = IF ShouldEnrich(x) THEN Chosen(k) \cup {x} ELSE Chosen(k)
    BY <2>1, <2>4, <2>5
  <2> HIDE DEF Chosen, x
  <2>8. /\ Append(r, x) \in Seq(S) /\ ToSet(Append(r, x)) = ToSet(r) \cup {x}
        /\ x \notin ToSet(r) => Once(Append(r, x))
    BY <2>1, <2>2, AppendJoins
  <2> QED BY <2>2, <2>3, <2>6, <2>7, <2>8
<1>9. \A k \in Nat : k \in T
  <2> HIDE DEF T
  <2> QED BY <1>7, <1>8, Induction
<1>10. c[1..n] \in Seq(S) /\ Once(c[1..n]) /\ ToSet(c[1..n]) = Chosen(n)
  <2> HIDE DEF Chosen
  <2> QED BY <1>2, <1>9
<1>11. Chosen(n) = {x \in ToSet(s) : ShouldEnrich(x)}
  BY <1>2 DEF ToSet
<1> QED BY <1>1, <1>2, <1>10, <1>11

\* The lines from marker k to the next one, of m lines.
LinesFrom(m, marks, k) == {l \in 1..m : l >= k /\ \A e \in {h \in marks : h > k} \cup {m + 1} : l < e}

\* A line at or behind a marker is cut with one marker, the last up to it.
LEMMA LineHasOneMark ==
  ASSUME NEW m \in Nat, NEW marks \in SUBSET (1..m), NEW i \in 1..m, NEW f \in marks, f <= i
  PROVE  \E j \in marks : \A k \in marks : i \in LinesFrom(m, marks, k) <=> k = j
<1> DEFINE P == {k \in marks : k <= i}
           j == Max(P)
<1>1. j \in P /\ \A k \in P : j >= k
  <2> HIDE DEF P
  <2>1. P \in SUBSET (1..m) /\ P # {}
    BY DEF P
  <2> QED BY <2>1, LastIsIn
<1>2. j \in marks /\ j <= i /\ j \in Nat /\ \A k \in marks : k <= i => j >= k
  <2> HIDE DEF j
  <2> QED BY <1>1
<1> HIDE DEF j
<1>3. \A e \in {h \in marks : h > j} \cup {m + 1} : i < e
  <2>1. ASSUME NEW h \in marks, h > j PROVE i < h
    BY <1>2, <2>1
  <2> QED BY <2>1
<1>4. ASSUME NEW k \in marks, i >= k, \A e \in {h \in marks : h > k} \cup {m + 1} : i < e
      PROVE  k = j
  <2>1. k \in Nat /\ j >= k /\ ~(j > k)
    BY <1>2, <1>4
  <2> QED BY <1>2, <2>1
<1> QED BY <1>2, <1>3, <1>4 DEF LinesFrom

\* Line i of text t has a marker at or before it, or the text has none.
Covered(t, i) == (\E j \in 1..i : t[j] # "") \/ ToSet(t) = {""}

\* Line i of norm n is in one part of it, and in one document.
InOnePart(n, i) ==
  \E piece \in SplitByAbsatz(n) : \A x \in SplitByAbsatz(n) : i \in x.lines <=> x = piece

InOneDocument(docs, n, i) ==
  \E d \in docs : {e \in docs : e.norm = n /\ i \in e.part.lines} = {d}

\* A line at or behind a marker is in one part, and so is each line of a text
\* without markers.
LEMMA LineIsInOnePart ==
  ASSUME NEW T, NEW t \in Seq(T), NEW n, n.text = t, NEW i \in DOMAIN t, Covered(t, i)
  PROVE  InOnePart(n, i)
<1> DEFINE m == Len(t)
           lines == 1..m
           marks == {k \in lines : t[k] # ""}
           chunk(k) == [absatz |-> t[k], lines |-> LinesFrom(m, marks, k)]
           whole == [absatz |-> "", lines |-> lines]
<1>1. m \in Nat /\ i \in lines /\ DOMAIN t = lines
  OBVIOUS
<1>2. SplitByAbsatz(n) = IF marks = {} THEN {whole} ELSE {chunk(k) : k \in marks}
  BY Zenon DEF SplitByAbsatz, LinesFrom
<1>3. ASSUME marks = {}
      PROVE  InOnePart(n, i)
  <2>1. SplitByAbsatz(n) = {whole}
    <3> HIDE DEF marks, whole, chunk
    <3> QED BY <1>2, <1>3
  <2>2. whole.lines = lines
    BY Zenon
  <2> HIDE DEF whole
  <2> QED BY <1>1, <2>1, <2>2 DEF InOnePart
<1>4. ASSUME marks # {}, NEW f \in marks, f <= i
      PROVE  InOnePart(n, i)
  <2>1. marks \in SUBSET lines
    BY Zenon
  <2>2. PICK j \in marks : \A k \in marks : i \in LinesFrom(m, marks, k) <=> k = j
    <3> HIDE DEF marks, m
    <3> QED BY <1>1, <1>4, <2>1, LineHasOneMark
  <2> HIDE DEF marks, whole, m
  <2>3. \A k : chunk(k).lines = LinesFrom(m, marks, k)
    OBVIOUS
  <2> HIDE DEF chunk
  <2>4. chunk(j) \in SplitByAbsatz(n)
    BY <1>2, <1>4
  <2>5. \A x \in SplitByAbsatz(n) : \E k \in marks : x = chunk(k)
    BY <1>2, <1>4
  <2>6. ASSUME NEW x \in SplitByAbsatz(n) PROVE i \in x.lines <=> x = chunk(j)
    <3>1. PICK k \in marks : x = chunk(k)
      BY <2>5
    <3>2. i \in x.lines <=> k = j
      BY <2>2, <2>3, <3>1
    <3>3. x = chunk(j) => i \in x.lines
      BY <2>2, <2>3
    <3> QED BY <3>1, <3>2, <3>3
  <2> QED BY <2>4, <2>6 DEF InOnePart
<1>5. ASSUME marks # {}
      PROVE  \E f \in marks : f <= i
  <2>1. PICK k \in marks : TRUE
    BY <1>5, Zenon
  <2>2. k \in DOMAIN t /\ t[k] # ""
    BY <1>1, <2>1, Zenon
  <2>3. t[k] \in ToSet(t)
    BY <2>2, Zenon DEF ToSet
  <2>4. PICK j \in 1..i : t[j] # ""
    BY <2>2, <2>3, Zenon DEF Covered
  <2>5. j \in lines /\ j <= i
    <3> HIDE DEF marks
    <3> QED BY <1>1
  <2>6. j \in marks
    BY <2>4, <2>5, Zenon
  <2> QED BY <2>5, <2>6, Zenon
<1> QED BY <1>3, <1>4, <1>5, Zenon

\* So it is in one document, if its norm has been enriched once.
LEMMA LineIsInOneDocument ==
  ASSUME NEW S, NEW enriched \in Seq(S), Once(enriched), NEW n \in ToSet(enriched), NEW i,
         InOnePart(n, i)
  PROVE  InOneDocument(RagDocuments(enriched), n, i)
<1>0. PICK piece \in SplitByAbsatz(n) : \A x \in SplitByAbsatz(n) : i \in x.lines <=> x = piece
  BY DEF InOnePart
<1>1. PICK k \in DOMAIN enriched : enriched[k] = n
  BY DEF ToSet
<1> DEFINE docs == RagDocuments(enriched)
           d == [nr |-> k, norm |-> n, part |-> piece]
<1>2. docs = UNION {{[nr |-> l, norm |-> enriched[l], part |-> x] : x \in SplitByAbsatz(enriched[l])} :
                      l \in DOMAIN enriched}
  BY Zenon DEF RagDocuments
<1> HIDE DEF docs
<1>3. d \in docs
  <2>1. d \in {[nr |-> k, norm |-> enriched[k], part |-> x] : x \in SplitByAbsatz(enriched[k])}
    BY <1>1
  <2> QED BY <1>2, <2>1
<1>4. ASSUME NEW e \in docs, e.norm = n, i \in e.part.lines PROVE e = d
  <2>1. PICK l \in DOMAIN enriched :
          e \in {[nr |-> l, norm |-> enriched[l], part |-> x] : x \in SplitByAbsatz(enriched[l])}
    BY <1>2
  <2>2. PICK x \in SplitByAbsatz(enriched[l]) : e = [nr |-> l, norm |-> enriched[l], part |-> x]
    BY <2>1
  <2>3. e.norm = enriched[l] /\ e.part = x
    BY <2>2
  <2>4. enriched[l] = n /\ l = k
    BY <1>1, <1>4, <2>3 DEF Once
  <2>5. x = piece
    BY <1>0, <1>4, <2>3, <2>4
  <2> QED BY <2>2, <2>4, <2>5
<1>5. d.norm = n /\ d.part = piece /\ i \in piece.lines
  BY <1>0
<1> HIDE DEF d
<1>6. InOneDocument(docs, n, i)
  BY <1>3, <1>4, <1>5 DEF InOneDocument
<1> QED BY <1>6 DEF docs

\* The books the API has, and the norms it lists.
Books == {s \in ToSet(TargetSlugs) : Law[s] # NoBook}
Listed(b, p) == ToSet(Law[b][p])
AllNorms == UNION {UNION {Listed(b, p) : p \in DOMAIN Law[b]} : b \in Books}

Fields == {"at", "run", "todo", "page", "books", "norms", "enriched", "docs", "gaps", "save"}

\* Page p of book b is still to be asked for.
Waiting(b, p) ==
  \/ load.at = "resolve" /\ b \in ToSet(load.todo) \cup ToSet(load.books)
  \/ load.at = "pages" /\ b \in ToSet(load.todo) /\ (b = Head(load.todo) => load.page <= p)
  \/ load.at = "save norms" /\ b \in ToSet(Tail(load.todo))

\* While the listing is fetched a norm is in a page to come, or in the list, or
\* the log has named the reason why not; and no page is asked for twice.
FetchInv ==
  /\ load.norms \in Seq(AllNorms) /\ Once(load.norms) /\ load.enriched = <<>>
  /\ load.at = "resolve" =>
       /\ load.todo \in Seq(ToSet(TargetSlugs)) /\ load.books \in Seq(Books)
       /\ ToSet(load.todo) \cap ToSet(load.books) = {}
       /\ Once(load.books) /\ load.page = 1 /\ load.norms = <<>>
  /\ load.at # "resolve" =>
       /\ load.todo \in Seq(Books)
       /\ load.todo # <<>> => load.page \in DOMAIN Law[Head(load.todo)]
  /\ load.at = "save norms" => load.todo # <<>>
  /\ Once(load.todo)
  /\ \A b \in Books : \A p \in DOMAIN Law[b] :
       /\ Waiting(b, p) => \A n \in Listed(b, p) : n \notin ToSet(load.norms)
       /\ ~Waiting(b, p) => \A n \in Listed(b, p) : Announced(n, p) \/ n \in ToSet(load.norms)

\* From then on a norm in scope is to be enriched or has been, or is announced.
EnrichInv ==
  /\ load.enriched \in Seq(AllNorms) /\ Once(load.enriched)
  /\ load.at = "detail" =>
       /\ load.todo \in Seq(AllNorms) /\ Once(load.todo)
       /\ ToSet(load.todo) \cap ToSet(load.enriched) = {}
  /\ load.at \in {"save rag", "save summary", "done"} => load.docs = RagDocuments(load.enriched)
  /\ \A b \in Books : \A p \in DOMAIN Law[b] : \A n \in Listed(b, p) :
       ShouldEnrich(n) => \/ Announced(n, p)
                          \/ n \in ToSet(load.enriched)
                          \/ load.at = "detail" /\ n \in ToSet(load.todo)

LoadInv ==
  /\ DOMAIN load = Fields
  /\ load.at \in {"resolve", "pages", "save norms"} => FetchInv
  /\ load.at \in {"detail", "save enriched", "save rag", "save summary", "done"} => EnrichInv

LEMMA LawIsListed ==
  ASSUME LegalDataAssumption, NEW b \in Books, NEW p \in DOMAIN Law[b]
  PROVE  /\ p \in 1..Len(Law[b]) /\ Len(Law[b]) \in Nat \ {0} /\ DOMAIN Law[b] = 1..Len(Law[b])
         /\ Law[b][p] \in Seq(AllNorms) /\ Once(Law[b][p])
         /\ \A n \in Listed(b, p) : n \in AllNorms /\ n.book = b /\ n.text \in Seq(ToSet(n.text))
<1>1. /\ Law[b] \in Seq(ToSet(Law[b])) /\ Law[b] # <<>>
      /\ Law[b][p] \in Seq(ToSet(Law[b][p])) /\ IsInjective(Law[b][p])
      /\ \A n \in ToSet(Law[b][p]) : n.book = b /\ n.text \in Seq(ToSet(n.text))
  BY DEF LegalDataAssumption, Books
<1>2. Listed(b, p) \subseteq AllNorms
  BY DEF AllNorms
<1>3. Law[b][p] \in Seq(AllNorms)
  <2> DEFINE s == Law[b][p]
  <2> HIDE DEF s
  <2>1. s \in Seq(ToSet(s)) /\ ToSet(s) \subseteq AllNorms
    BY <1>1, <1>2 DEF s, Listed
  <2>2. s \in Seq(AllNorms)
    BY <2>1
  <2> QED BY <2>2 DEF s
<1>4. Once(Law[b][p])
  BY <1>1 DEF Once, IsInjective
<1>5. Len(Law[b]) \in Nat \ {0} /\ DOMAIN Law[b] = 1..Len(Law[b])
  <2> DEFINE s == Law[b]
  <2> HIDE DEF s
  <2>1. s \in Seq(ToSet(s)) /\ s # <<>>
    BY <1>1 DEF s
  <2>2. Len(s) \in Nat \ {0} /\ DOMAIN s = 1..Len(s)
    BY <2>1, EmptySeq
  <2> QED BY <2>2 DEF s
<1> QED BY <1>1, <1>2, <1>3, <1>4, <1>5 DEF Listed

\* No norm is in two pages.
LEMMA PagesAreApart ==
  ASSUME LegalDataAssumption, NEW b \in Books, NEW p \in DOMAIN Law[b],
         NEW c \in Books, NEW q \in DOMAIN Law[c], b # c \/ p # q
  PROVE  Listed(b, p) \cap Listed(c, q) = {}
<1>1. CASE b = c
  <2>1. ToSet(Law[b][p]) \cap ToSet(Law[b][q]) = {}
    BY <1>1 DEF LegalDataAssumption, Books
  <2> QED BY <1>1, <2>1 DEF Listed
<1>2. CASE b # c
  <2>1. \A n \in Listed(b, p) : n.book = b
    BY LawIsListed
  <2>2. \A n \in Listed(c, q) : n.book = c
    BY LawIsListed
  <2> QED BY <1>2, <2>1, <2>2
<1> QED BY <1>1, <1>2

\* The steps of a save but the last.
LEMMA SaveStepKeeps ==
  ASSUME LoadInv, NEW mode, load' = [load EXCEPT !.save = mode]
  PROVE  LoadInv'
<1>1. /\ DOMAIN load' = Fields
      /\ load'.at = load.at /\ load'.todo = load.todo /\ load'.page = load.page
      /\ load'.books = load.books /\ load'.norms = load.norms /\ load'.gaps = load.gaps
      /\ load'.enriched = load.enriched /\ load'.docs = load.docs
  BY DEF LoadInv, Fields
<1>2. \A n, p : Announced(n, p)' <=> Announced(n, p)
  BY <1>1 DEF Announced
<1>3. \A b, p : Waiting(b, p)' <=> Waiting(b, p)
  BY <1>1 DEF Waiting
<1>4. FetchInv => FetchInv'
  BY <1>1, <1>2, <1>3 DEF FetchInv
<1>5. EnrichInv => EnrichInv'
  BY <1>1, <1>2 DEF EnrichInv
<1> QED BY <1>1, <1>4, <1>5 DEF LoadInv

LEMMA ResolvingKeeps ==
  ASSUME LegalDataAssumption, LoadInv, ResolveBook
  PROVE  LoadInv'
<1> DEFINE t == load.todo
           b == Head(t)
<1>1. PICK d \in {"data", "none"} :
        /\ Result(d)
        /\ load' = [load EXCEPT
               !.todo = Tail(@),
               !.books = IF d = "data" /\ Law[b] # NoBook THEN Append(@, b) ELSE @,
               !.gaps = IF d = "data" /\ Law[b] # NoBook THEN @
                        ELSE @ \cup {[kind |-> "book", book |-> b]}]
  BY DEF ResolveBook
<1> DEFINE found == d = "data" /\ Law[b] # NoBook
<1>2. load.at = "resolve" /\ DOMAIN load = Fields /\ t # <<>>
  BY <1>1 DEF ResolveBook, Result, Asking, LoadInv
<1>3. /\ load'.at = "resolve" /\ DOMAIN load' = Fields
      /\ load'.todo = Tail(t) /\ load'.page = load.page /\ load'.norms = load.norms
      /\ load'.enriched = load.enriched
      /\ load'.books = IF found THEN Append(load.books, b) ELSE load.books
      /\ load'.gaps = IF found THEN load.gaps
                      ELSE load.gaps \cup {[kind |-> "book", book |-> b]}
  BY <1>1, <1>2 DEF Fields
<1>4. FetchInv
  BY <1>2 DEF LoadInv
<1>5. t \in Seq(ToSet(TargetSlugs)) /\ Once(t) /\ load.books \in Seq(Books) /\ Once(load.books)
  BY <1>2, <1>4 DEF FetchInv
<1>6. /\ b \in ToSet(TargetSlugs) /\ Tail(t) \in Seq(ToSet(TargetSlugs)) /\ Once(Tail(t))
      /\ ToSet(t) = {b} \cup ToSet(Tail(t)) /\ b \notin ToSet(Tail(t))
  <2> HIDE DEF t
  <2> QED BY <1>2, <1>5, TailSplits
<1>7. ASSUME found
      PROVE  /\ b \in Books /\ load'.books \in Seq(Books) /\ Once(load'.books)
             /\ ToSet(load'.books) = ToSet(load.books) \cup {b}
  <2>1. b \in Books
    BY <1>6, <1>7 DEF Books
  <2>2. b \notin ToSet(load.books)
    BY <1>2, <1>4, <1>6 DEF FetchInv
  <2> HIDE DEF b
  <2> QED BY <1>3, <1>5, <1>7, <2>1, <2>2, AppendJoins
<1>8. ASSUME ~found
      PROVE  /\ load'.books = load.books
             /\ \A n, p : n.book = b => Announced(n, p)'
  <2>1. [kind |-> "book", book |-> b] \in load'.gaps
    BY <1>3, <1>8
  <2> QED BY <1>3, <1>8, <2>1 DEF Announced
<1>9. \A n, p : Announced(n, p) => Announced(n, p)'
  BY <1>3 DEF Announced
<1> HIDE DEF found, b, t
<1>10. ASSUME NEW c \in Books, NEW p \in DOMAIN Law[c]
       PROVE  /\ Waiting(c, p)' => \A n \in Listed(c, p) : n \notin ToSet(load'.norms)
              /\ ~Waiting(c, p)' => \A n \in Listed(c, p) :
                                      Announced(n, p)' \/ n \in ToSet(load'.norms)
  <2>1. Waiting(c, p)' => Waiting(c, p)
    BY <1>2, <1>3, <1>6, <1>7, <1>8 DEF Waiting, t
  <2>2. Waiting(c, p) /\ ~Waiting(c, p)' => c = b /\ ~found
    BY <1>2, <1>3, <1>6, <1>7, <1>8 DEF Waiting, t
  <2>3. \A n \in Listed(c, p) : n.book = c
    BY LawIsListed
  <2>4. /\ Waiting(c, p) => \A n \in Listed(c, p) : n \notin ToSet(load.norms)
        /\ ~Waiting(c, p) => \A n \in Listed(c, p) : Announced(n, p) \/ n \in ToSet(load.norms)
    BY <1>4 DEF FetchInv
  <2> QED BY <1>3, <1>8, <1>9, <2>1, <2>2, <2>3, <2>4
<1>11. ToSet(load'.todo) \cap ToSet(load'.books) = {}
  BY <1>2, <1>3, <1>4, <1>6, <1>7, <1>8 DEF FetchInv, t
<1>12. FetchInv'
  BY <1>2, <1>3, <1>4, <1>5, <1>6, <1>7, <1>8, <1>10, <1>11 DEF FetchInv
<1> QED BY <1>3, <1>12 DEF LoadInv

LEMMA ResolvedKeeps ==
  ASSUME LegalDataAssumption, LoadInv, ResolveEnd
  PROVE  LoadInv'
<1>1. load.at = "resolve" /\ load.todo = <<>> /\ DOMAIN load = Fields /\ FetchInv
  BY DEF ResolveEnd, LoadInv
<1>2. CASE load.books = <<>>
  <2>1. load' = [load EXCEPT !.at = "failed"]
    BY <1>2 DEF ResolveEnd
  <2>2. load'.at = "failed" /\ DOMAIN load' = Fields
    BY <1>1, <2>1 DEF Fields
  <2> QED BY <2>2 DEF LoadInv
<1>3. CASE load.books # <<>>
  <2>1. load' = [load EXCEPT !.at = "pages", !.todo = load.books]
    BY <1>3 DEF ResolveEnd
  <2>2. /\ load'.at = "pages" /\ load'.todo = load.books /\ load'.page = 1 /\ load'.norms = load.norms
        /\ load'.enriched = load.enriched /\ load'.gaps = load.gaps /\ DOMAIN load' = Fields
    BY <1>1, <2>1 DEF Fields, FetchInv
  <2>3. load.books \in Seq(Books) /\ Once(load.books)
    BY <1>1 DEF FetchInv
  <2>4. ToSet(<<>>) = {}
    BY DEF ToSet
  <2>5. 1 \in DOMAIN Law[Head(load.books)]
    <3>1. Head(load.books) \in Books
      BY <1>3, <2>3, TailSplits
    <3>2. Law[Head(load.books)] \in Seq(ToSet(Law[Head(load.books)])) /\ Law[Head(load.books)] # <<>>
      BY <3>1 DEF LegalDataAssumption, Books
    <3> QED BY <3>2, EmptySeq
  <2>6. ASSUME NEW b \in Books, NEW p \in DOMAIN Law[b]
        PROVE  Waiting(b, p)' <=> Waiting(b, p)
    <3> DEFINE m == Len(Law[b])
    <3>1. p \in Nat /\ 1 <= p
      <4>1. p \in 1..m /\ m \in Nat
        BY LawIsListed
      <4> HIDE DEF m
      <4> QED BY <4>1
    <3> QED BY <1>1, <2>2, <2>4, <3>1 DEF Waiting
  <2>7. \A n, p : Announced(n, p)' <=> Announced(n, p)
    BY <2>2 DEF Announced
  <2>8. FetchInv'
    BY <1>1, <2>2, <2>3, <2>5, <2>6, <2>7 DEF FetchInv
  <2> QED BY <2>2, <2>8 DEF LoadInv
<1> QED BY <1>2, <1>3

LEMMA PageKeeps ==
  ASSUME LegalDataAssumption, LoadInv, FetchPage
  PROVE  LoadInv'
<1> DEFINE t == load.todo
           b == Head(t)
           k == load.page
           law == Law[b]
           m == Len(law)
<1>1. PICK d \in {"data", "none"} :
        /\ Result(d)
        /\ load' = IF d = "none"
                   THEN [load EXCEPT !.at = "save norms",
                           !.gaps = @ \cup {[kind |-> "page", book |-> b, from |-> k]}]
                   ELSE [load EXCEPT !.norms = @ \o law[k],
                           !.at = IF k = Len(law) THEN "save norms" ELSE @,
                           !.page = IF k = Len(law) THEN @ ELSE @ + 1]
  BY DEF FetchPage
<1>2. load.at = "pages" /\ DOMAIN load = Fields /\ t # <<>> /\ FetchInv
  BY <1>1 DEF FetchPage, Result, Asking, LoadInv
<1>3. t \in Seq(Books) /\ Once(t) /\ k \in DOMAIN law /\ load.enriched = <<>>
      /\ load.norms \in Seq(AllNorms) /\ Once(load.norms)
  BY <1>2 DEF FetchInv
<1>4. b \in Books /\ ToSet(t) = {b} \cup ToSet(Tail(t)) /\ b \notin ToSet(Tail(t))
  <2> HIDE DEF t
  <2> QED BY <1>2, <1>3, TailSplits
<1> HIDE DEF t, b
<1>5. m \in Nat \ {0} /\ DOMAIN law = 1..m /\ k \in 1..m
      /\ law[k] \in Seq(AllNorms) /\ Once(law[k]) /\ ToSet(law[k]) = Listed(b, k)
  BY <1>3, <1>4, LawIsListed DEF Listed
<1> HIDE DEF m, k, law
<1>6. \A c \in Books : \A p \in DOMAIN Law[c] :
        Waiting(c, p) <=> c \in ToSet(Tail(t)) \/ (c = b /\ k <= p)
  BY <1>2, <1>4 DEF Waiting, t, b, k
<1>7. \A c \in Books : \A p \in DOMAIN Law[c] :
        /\ Waiting(c, p) => \A n \in Listed(c, p) : n \notin ToSet(load.norms)
        /\ ~Waiting(c, p) => \A n \in Listed(c, p) : Announced(n, p) \/ n \in ToSet(load.norms)
  BY <1>2 DEF FetchInv
<1>8. CASE d = "none"
  <2>1. /\ load'.at = "save norms" /\ load'.todo = t /\ load'.norms = load.norms
        /\ load'.page = k /\ load'.enriched = load.enriched
        /\ load'.gaps = load.gaps \cup {[kind |-> "page", book |-> b, from |-> k]}
        /\ DOMAIN load' = Fields
    BY <1>1, <1>2, <1>8 DEF Fields, t, k
  <2>2. \A n, p : Announced(n, p) \/ (n.book = b /\ k <= p) => Announced(n, p)'
    <3>1. \A n, p : Announced(n, p) => Announced(n, p)'
      BY <2>1 DEF Announced
    <3>2. [kind |-> "page", book |-> b, from |-> k] \in load'.gaps
      BY <2>1
    <3>3. \A n, p : (n.book = b /\ k <= p) => Announced(n, p)'
      BY <3>2 DEF Announced
    <3> QED BY <3>1, <3>3
  <2>3. \A c \in Books : \A p \in DOMAIN Law[c] : Waiting(c, p)' <=> c \in ToSet(Tail(t))
    BY <2>1 DEF Waiting
  <2>4. \A c \in Books : \A p \in DOMAIN Law[c] : \A n \in Listed(c, p) : n.book = c
    BY LawIsListed
  <2>5. \A c \in Books : \A p \in DOMAIN Law[c] :
          /\ Waiting(c, p)' => \A n \in Listed(c, p) : n \notin ToSet(load'.norms)
          /\ ~Waiting(c, p)' => \A n \in Listed(c, p) :
                                  Announced(n, p)' \/ n \in ToSet(load'.norms)
    <3> SUFFICES ASSUME NEW c \in Books, NEW p \in DOMAIN Law[c]
                 PROVE  /\ Waiting(c, p)' => \A n \in Listed(c, p) : n \notin ToSet(load'.norms)
                        /\ ~Waiting(c, p)' => \A n \in Listed(c, p) :
                                                Announced(n, p)' \/ n \in ToSet(load'.norms)
      OBVIOUS
    <3>1. Waiting(c, p) <=> Waiting(c, p)' \/ (c = b /\ k <= p)
      BY <1>6, <2>3
    <3>2. /\ Waiting(c, p) => \A n \in Listed(c, p) : n \notin ToSet(load'.norms)
          /\ ~Waiting(c, p) => \A n \in Listed(c, p) : Announced(n, p) \/ n \in ToSet(load'.norms)
      BY <1>7, <2>1
    <3>3. c = b /\ k <= p => \A n \in Listed(c, p) : Announced(n, p)'
      BY <2>2, <2>4
    <3> QED BY <2>2, <3>1, <3>2, <3>3
  <2>6. k \in DOMAIN Law[Head(t)]
    BY <1>3 DEF b, law
  <2>7. FetchInv'
    BY <1>2, <1>3, <2>1, <2>5, <2>6 DEF FetchInv
  <2> QED BY <2>1, <2>7 DEF LoadInv
<1>9. CASE d = "data"
  <2>1. /\ load'.norms = load.norms \o law[k] /\ load'.todo = t
        /\ load'.at = (IF k = m THEN "save norms" ELSE "pages")
        /\ load'.page = (IF k = m THEN k ELSE k + 1)
        /\ load'.enriched = load.enriched /\ load'.gaps = load.gaps /\ DOMAIN load' = Fields
    BY <1>1, <1>2, <1>9 DEF Fields, t, k, m
  <2>2. \A n, p : Announced(n, p)' <=> Announced(n, p)
    BY <2>1 DEF Announced
  <2>3. ASSUME NEW c \in Books, NEW p \in DOMAIN Law[c]
        PROVE  Waiting(c, p)' <=> Waiting(c, p) /\ ~(c = b /\ p = k)
    <3>1. c = b => p \in 1..m
      BY <1>5 DEF law
    <3>2. CASE k = m
      <4>1. Waiting(c, p)' <=> c \in ToSet(Tail(t))
        BY <2>1, <3>2 DEF Waiting
      <4>2. c = b => (k <= p <=> p = k)
        BY <1>5, <3>1, <3>2
      <4> QED BY <1>4, <1>6, <4>1, <4>2
    <3>3. CASE k # m
      <4>1. Waiting(c, p)' <=> c \in ToSet(t) /\ (c = b => k + 1 <= p)
        BY <2>1, <3>3 DEF Waiting, b
      <4>2. c = b => (k + 1 <= p <=> k <= p /\ p # k)
        BY <1>5, <3>1
      <4> QED BY <1>4, <1>6, <4>1, <4>2
    <3> QED BY <3>2, <3>3
  <2>4. k \in DOMAIN Law[b] /\ Waiting(b, k)
    <3>1. k \in DOMAIN Law[b] /\ k <= k
      BY <1>3, <1>5 DEF law
    <3> QED BY <1>4, <1>6, <3>1
  <2>5. ToSet(load.norms) \cap ToSet(law[k]) = {}
    BY <1>4, <1>5, <1>7, <2>4
  <2>6. /\ load'.norms \in Seq(AllNorms) /\ Once(load'.norms)
        /\ ToSet(load'.norms) = ToSet(load.norms) \cup Listed(b, k)
    <3> DEFINE s == law[k]
    <3>1. s \in Seq(AllNorms) /\ Once(s) /\ ToSet(s) = Listed(b, k)
          /\ ToSet(load.norms) \cap ToSet(s) = {} /\ load'.norms = load.norms \o s
      BY <1>5, <2>1, <2>5
    <3> HIDE DEF s
    <3> QED BY <1>3, <3>1, ConcatJoins
  <2>7. ASSUME NEW c \in Books, NEW p \in DOMAIN Law[c]
        PROVE  /\ Waiting(c, p)' => \A n \in Listed(c, p) : n \notin ToSet(load'.norms)
               /\ ~Waiting(c, p)' => \A n \in Listed(c, p) :
                                       Announced(n, p)' \/ n \in ToSet(load'.norms)
    <3>1. CASE c = b /\ p = k
      BY <2>3, <2>6, <3>1
    <3>2. CASE c # b \/ p # k
      <4>1. Listed(c, p) \cap Listed(b, k) = {}
        BY <1>4, <2>4, <3>2, PagesAreApart
      <4> QED BY <1>7, <2>2, <2>3, <2>6, <3>2, <4>1
    <3> QED BY <3>1, <3>2
  <2>8. load'.page \in DOMAIN Law[Head(t)]
    <3>1. load'.page \in 1..m
      <4>1. m \in Nat /\ k \in 1..m
        BY <1>5
      <4>2. k \in Nat /\ (k # m => k + 1 \in 1..m)
        BY <4>1
      <4> QED BY <2>1, <4>1, <4>2
    <3> QED BY <1>5, <3>1 DEF b, law
  <2>9. FetchInv'
    BY <1>2, <1>3, <2>1, <2>6, <2>7, <2>8 DEF FetchInv
  <2> QED BY <2>1, <2>9 DEF LoadInv
<1> QED BY <1>8, <1>9

LEMMA ListingKeeps ==
  ASSUME LoadInv, FetchEnd
  PROVE  LoadInv'
<1>1. load.at = "pages" /\ load.todo = <<>> /\ DOMAIN load = Fields /\ FetchInv
      /\ load' = [load EXCEPT !.at = "detail", !.todo = Candidates(load.norms)]
  BY DEF FetchEnd, LoadInv
<1>2. /\ load'.at = "detail" /\ load'.todo = Candidates(load.norms)
      /\ load'.enriched = load.enriched /\ load'.gaps = load.gaps /\ DOMAIN load' = Fields
  BY <1>1 DEF Fields
<1>3. load.norms \in Seq(AllNorms) /\ Once(load.norms) /\ load.enriched = <<>>
  BY <1>1 DEF FetchInv
<1>4. /\ load'.todo \in Seq(AllNorms) /\ Once(load'.todo)
      /\ ToSet(load'.todo) = {n \in ToSet(load.norms) : ShouldEnrich(n)}
  BY <1>2, <1>3, CandidatesAreAll
<1>5. ToSet(<<>>) = {} /\ Once(<<>>) /\ <<>> \in Seq(AllNorms)
  BY DEF ToSet, Once
<1>6. \A b \in Books : \A p \in DOMAIN Law[b] : ~Waiting(b, p)
  BY <1>1, <1>5 DEF Waiting
<1>7. \A n, p : Announced(n, p)' <=> Announced(n, p)
  BY <1>2 DEF Announced
<1>8. \A b \in Books : \A p \in DOMAIN Law[b] : \A n \in Listed(b, p) :
        Announced(n, p) \/ n \in ToSet(load.norms)
  BY <1>1, <1>6 DEF FetchInv
<1>9. EnrichInv'
  BY <1>2, <1>3, <1>4, <1>5, <1>7, <1>8 DEF EnrichInv
<1> QED BY <1>2, <1>9 DEF LoadInv

\* A norm leaves the queue for the list of the enriched, or with a warning.
LEMMA EnrichingKeeps ==
  ASSUME LoadInv, EnrichNorm \/ EnrichNoId
  PROVE  LoadInv'
<1> DEFINE t == load.todo
           done == load.enriched
<1> PICK n : n = Head(t)
  OBVIOUS
<1>1. load.at = "detail" /\ t # <<>> /\ DOMAIN load = Fields /\ EnrichInv
  BY DEF EnrichNorm, EnrichNoId, Result, Asking, LoadInv
<1>2. /\ t \in Seq(AllNorms) /\ Once(t) /\ done \in Seq(AllNorms) /\ Once(done)
      /\ ToSet(t) \cap ToSet(done) = {}
  BY <1>1 DEF EnrichInv
<1>3. /\ n \in AllNorms /\ Tail(t) \in Seq(AllNorms) /\ Once(Tail(t))
      /\ ToSet(t) = {n} \cup ToSet(Tail(t)) /\ n \notin ToSet(Tail(t))
  <2> HIDE DEF t
  <2> QED BY <1>1, <1>2, TailSplits
<1>4. /\ Append(done, n) \in Seq(AllNorms) /\ ToSet(Append(done, n)) = ToSet(done) \cup {n}
      /\ Once(Append(done, n))
  <2>1. n \notin ToSet(done)
    BY <1>2, <1>3
  <2> HIDE DEF done
  <2> QED BY <1>2, <1>3, <2>1, AppendJoins
<1>5. CASE load' = [load EXCEPT !.at = "failed"]
  <2>1. load'.at = "failed" /\ DOMAIN load' = Fields
    BY <1>1, <1>5 DEF Fields
  <2> QED BY <2>1 DEF LoadInv
<1>6. CASE load' = [load EXCEPT !.todo = Tail(@), !.enriched = Append(@, Head(load.todo))]
  <2>1. /\ load'.at = "detail" /\ load'.todo = Tail(t) /\ load'.enriched = Append(done, n)
        /\ load'.gaps = load.gaps /\ DOMAIN load' = Fields
    BY <1>1, <1>6 DEF Fields
  <2>2. \A m, p : Announced(m, p)' <=> Announced(m, p)
    BY <2>1 DEF Announced
  <2> HIDE DEF t, done
  <2>3. EnrichInv'
    BY <1>1, <1>2, <1>3, <1>4, <2>1, <2>2 DEF EnrichInv, t, done
  <2> QED BY <2>1, <2>3 DEF LoadInv
<1>7. CASE load' = [load EXCEPT !.todo = Tail(@),
                      !.gaps = @ \cup {[kind |-> "id", norm |-> Head(load.todo)]}]
  <2>1. /\ load'.at = "detail" /\ load'.todo = Tail(t) /\ load'.enriched = done
        /\ load'.gaps = load.gaps \cup {[kind |-> "id", norm |-> n]} /\ DOMAIN load' = Fields
    BY <1>1, <1>7 DEF Fields
  <2>2. \A m, p : Announced(m, p) => Announced(m, p)'
    BY <2>1 DEF Announced
  <2>3. \A p : Announced(n, p)'
    <3>1. [kind |-> "id", norm |-> n] \in load'.gaps
      BY <2>1
    <3> QED BY <3>1 DEF Announced
  <2> HIDE DEF t, done
  <2>4. EnrichInv'
    BY <1>1, <1>2, <1>3, <2>1, <2>2, <2>3 DEF EnrichInv, t, done
  <2> QED BY <2>1, <2>4 DEF LoadInv
<1> QED BY <1>5, <1>6, <1>7 DEF EnrichNorm, EnrichNoId, DetailLost

LEMMA EnrichedKeeps ==
  ASSUME LoadInv, EnrichEnd
  PROVE  LoadInv'
<1>1. load.at = "detail" /\ load.todo = <<>> /\ DOMAIN load = Fields /\ EnrichInv
      /\ load' = [load EXCEPT !.at = "save enriched"]
  BY DEF EnrichEnd, LoadInv
<1>2. /\ load'.at = "save enriched" /\ load'.enriched = load.enriched /\ load'.gaps = load.gaps
      /\ DOMAIN load' = Fields
  BY <1>1 DEF Fields
<1>3. ToSet(<<>>) = {}
  BY DEF ToSet
<1>4. \A n, p : Announced(n, p)' <=> Announced(n, p)
  BY <1>2 DEF Announced
<1>5. EnrichInv'
  BY <1>1, <1>2, <1>3, <1>4 DEF EnrichInv
<1> QED BY <1>2, <1>5 DEF LoadInv

\* The last step of a save, from which the script goes on.
LEMMA SavedKeeps ==
  ASSUME LegalDataAssumption, LoadInv, SaveWrite
  PROVE  LoadInv'
<1>1. Saving /\ load' = [Saves(load.at)[2] EXCEPT !.save = "closed"] /\ DOMAIN load = Fields
  BY DEF SaveWrite, LoadInv
<1>2. CASE load.at = "save norms"
  <2>1. Saves(load.at)[2] = [load EXCEPT !.at = "pages", !.todo = Tail(@), !.page = 1]
    BY <1>2 DEF Saves
  <2>2. /\ load'.at = "pages" /\ load'.todo = Tail(load.todo) /\ load'.page = 1
        /\ load'.norms = load.norms /\ load'.enriched = load.enriched
        /\ load'.gaps = load.gaps /\ DOMAIN load' = Fields
    BY <1>1, <2>1 DEF Fields
  <2>3. FetchInv /\ load.todo # <<>> /\ load.todo \in Seq(Books) /\ Once(load.todo)
    BY <1>2 DEF LoadInv, FetchInv
  <2>4. Tail(load.todo) \in Seq(Books) /\ Once(Tail(load.todo))
    <3> DEFINE t == load.todo
    <3> HIDE DEF t
    <3>1. t \in Seq(Books) /\ t # <<>> /\ Once(t)
      BY <2>3 DEF t
    <3>2. Tail(t) \in Seq(Books) /\ Once(Tail(t))
      BY <3>1, TailSplits
    <3> QED BY <3>2 DEF t
  <2>5. load'.todo # <<>> => 1 \in DOMAIN Law[Head(load'.todo)]
    <3> SUFFICES ASSUME load'.todo # <<>> PROVE 1 \in DOMAIN Law[Head(load'.todo)]
      OBVIOUS
    <3> DEFINE b == Head(load'.todo)
    <3>1. b \in Books
      BY <2>2, <2>4, TailSplits
    <3> HIDE DEF b
    <3>2. Law[b] \in Seq(ToSet(Law[b])) /\ Law[b] # <<>>
      BY <3>1 DEF LegalDataAssumption, Books
    <3>3. 1 \in DOMAIN Law[b]
      BY <3>2, EmptySeq
    <3> QED BY <3>3 DEF b
  <2>6. ASSUME NEW b \in Books, NEW p \in DOMAIN Law[b]
        PROVE  Waiting(b, p)' <=> Waiting(b, p)
    <3> DEFINE m == Len(Law[b])
    <3>1. 1 <= p
      <4>1. p \in 1..m /\ m \in Nat
        BY LawIsListed
      <4> HIDE DEF m
      <4> QED BY <4>1
    <3> QED BY <1>2, <2>2, <3>1 DEF Waiting
  <2>7. \A n, p : Announced(n, p)' <=> Announced(n, p)
    BY <2>2 DEF Announced
  <2>8. FetchInv'
    BY <2>2, <2>3, <2>4, <2>5, <2>6, <2>7 DEF FetchInv
  <2> QED BY <2>2, <2>8 DEF LoadInv
<1>3. CASE load.at \in {"save enriched", "save rag", "save summary"}
  <2>1. /\ load'.at \in {"save rag", "save summary", "done"} /\ load'.enriched = load.enriched
        /\ load'.gaps = load.gaps /\ DOMAIN load' = Fields
        /\ load'.docs = IF load.at = "save enriched" THEN RagDocuments(load.enriched)
                        ELSE load.docs
    BY <1>1, <1>3 DEF Saves, Fields
  <2>2. EnrichInv
    BY <1>3 DEF LoadInv
  <2>3. \A n, p : Announced(n, p)' <=> Announced(n, p)
    BY <2>1 DEF Announced
  <2>4. EnrichInv'
    BY <1>3, <2>1, <2>2, <2>3 DEF EnrichInv
  <2> QED BY <2>1, <2>4 DEF LoadInv
<1> QED BY <1>1, <1>2, <1>3 DEF Saving

\* Whoever reads the log of a run that has come to its end knows every gap.
LEMMA LoadInvIsComplete ==
  ASSUME LegalDataAssumption, LoadInv
  PROVE  QuietIsComplete
<1>1. ASSUME load.at = "done", NEW b \in Books, NEW p \in DOMAIN Law[b], NEW n \in Listed(b, p),
             ShouldEnrich(n), ~Announced(n, p), NEW i \in DOMAIN n.text, Covered(n.text, i)
      PROVE  InOneDocument(load.docs, n, i)
  <2>1. /\ load.docs = RagDocuments(load.enriched) /\ n \in ToSet(load.enriched)
        /\ load.enriched \in Seq(AllNorms) /\ Once(load.enriched)
    BY <1>1 DEF LoadInv, EnrichInv
  <2>2. n.text \in Seq(ToSet(n.text))
    BY LawIsListed
  <2>3. InOnePart(n, i)
    <3> DEFINE t == n.text
    <3>1. t \in Seq(ToSet(t)) /\ n.text = t /\ i \in DOMAIN t /\ Covered(t, i)
      BY <1>1, <2>2
    <3> HIDE DEF t
    <3> QED BY <3>1, LineIsInOnePart
  <2>4. InOneDocument(RagDocuments(load.enriched), n, i)
    BY <2>1, <2>3, LineIsInOneDocument
  <2> QED BY <2>1, <2>4
<1>2. QuietIsComplete <=>
        (load.at = "done" =>
           \A b \in Books : \A p \in DOMAIN Law[b] : \A n \in {m \in Listed(b, p) : ShouldEnrich(m)} :
             Announced(n, p) \/ \A i \in DOMAIN n.text :
                                  Covered(n.text, i) => InOneDocument(load.docs, n, i))
  BY Zenon DEF QuietIsComplete, Books, Listed, Covered, InOneDocument
<1> QED BY <1>1, <1>2

\* No norm is dropped without a warning: whatever the books, the pages and the
\* texts, and wherever a request fails or the script dies.
THEOREM NormsAreNotDropped == Spec => []QuietIsComplete
<1>1. ASSUME NEW run, load' = NewLoad(run) \/ load' = [NewLoad(run) EXCEPT !.at = "down"]
      PROVE  LoadInv'
  <2>1. CASE load' = [NewLoad(run) EXCEPT !.at = "down"]
    <3>1. DOMAIN load' = Fields /\ load'.at = "down"
      BY <2>1 DEF NewLoad, Fields
    <3> QED BY <3>1 DEF LoadInv
  <2>2. CASE load' = NewLoad(run)
    <3>1. /\ DOMAIN load' = Fields /\ load'.at = "resolve" /\ load'.todo = TargetSlugs
          /\ load'.page = 1 /\ load'.books = <<>> /\ load'.norms = <<>> /\ load'.enriched = <<>>
      BY <2>2 DEF NewLoad, Fields
    <3>2. ToSet(<<>>) = {} /\ Once(<<>>)
      BY DEF ToSet, Once
    <3>3. <<>> \in Seq(AllNorms) /\ <<>> \in Seq(Books)
      OBVIOUS
    <3>4. TargetSlugs \in Seq(ToSet(TargetSlugs)) /\ Once(TargetSlugs)
      BY LegalDataAssumption DEF LegalDataAssumption, Once, IsInjective
    <3>5. \A b \in Books : \A p \in DOMAIN Law[b] : Waiting(b, p)'
      BY <3>1 DEF Waiting, Books
    <3>6. FetchInv'
      BY <3>1, <3>2, <3>3, <3>4, <3>5 DEF FetchInv
    <3> QED BY <3>1, <3>6 DEF LoadInv
  <2> QED BY <1>1, <2>1, <2>2
<1>2. Init => LoadInv
  <2>1. LoadInit => DOMAIN load = Fields /\ load.at = "down"
    BY DEF LoadInit, NewLoad, Fields
  <2> QED BY <2>1 DEF Init, LoadInv
<1>3. LoadInv /\ [Next]_vars => LoadInv'
  <2> SUFFICES ASSUME LoadInv, [Next]_vars PROVE LoadInv'
    OBVIOUS
  <2>1. CASE UNCHANGED load
    BY <2>1 DEF LoadInv, FetchInv, EnrichInv, Waiting, Announced
  <2>2. CASE LoadNext
    <3>1. CASE RunScript \/ ScriptDies
      BY <1>1, <3>1 DEF RunScript, ScriptDies
    <3>2. CASE Retry
      BY <2>1, <3>2 DEF Retry
    <3>3. CASE ResolveBook \/ ResolveEnd
      BY <3>3, ResolvingKeeps, ResolvedKeeps, LegalDataAssumption
    <3>4. CASE FetchPage \/ FetchEnd
      BY <3>4, PageKeeps, ListingKeeps, LegalDataAssumption
    <3>5. CASE EnrichNorm \/ EnrichNoId \/ EnrichEnd
      BY <3>5, EnrichingKeeps, EnrichedKeeps
    <3>6. CASE SaveRename \/ SaveCreate
      BY <3>6, SaveStepKeeps DEF SaveRename, SaveCreate
    <3>7. CASE SaveWrite
      BY <3>7, SavedKeeps, LegalDataAssumption
    <3> QED BY <2>2, <3>1, <3>2, <3>3, <3>4, <3>5, <3>6, <3>7 DEF LoadNext
  <2> QED BY <2>1, <2>2 DEF Next, vars, loadVars, Calculate, Ingest, Rest
<1>4. LoadInv => QuietIsComplete
  BY LoadInvIsComplete, LegalDataAssumption
<1> QED BY <1>2, <1>3, <1>4, PTL DEF Spec

-----------------------------------------------------------------------------
(* The decisions: which are kept and what is made of them. *)

\* Sequences put one after the other, one at a time.
Unrolls(r, n, ss) ==
  r[0] = <<>> /\ r[n] = FlattenSeq(ss) /\ \A k \in 1..n : r[k] = r[k - 1] \o ss[k]

LEMMA FlattenUnrolls ==
  ASSUME NEW A, NEW n \in Nat, NEW ss \in [1..n -> Seq(A)]
  PROVE  \E r \in [0..n -> Seq(A)] : Unrolls(r, n, ss)
<1>1. Len(ss) = n /\ DOMAIN ss = 1..n
  OBVIOUS
<1>2. CASE n = 0
  <2> DEFINE r == [k \in 0..0 |-> <<>>]
  <2>1. ss = <<>>
    BY <1>2
  <2>2. FlattenSeq(ss) = <<>>
    BY <1>1, <1>2, <2>1 DEF FlattenSeq
  <2>3. r \in [0..0 -> Seq(A)] /\ r[0] = <<>>
    OBVIOUS
  <2> HIDE DEF r
  <2> QED BY <1>2, <2>2, <2>3 DEF Unrolls
<1>3. CASE n # 0
  <2> DEFINE C(f) == f = [i \in 1..n |-> IF i = 1 THEN ss[i] ELSE f[i - 1] \o ss[i]]
             c == CHOOSE f : C(f)
             step == [p \in Seq(A) \X (1..n) |-> p[1] \o ss[p[2]]]
  <2>1. step \in [Seq(A) \X (1..n) -> Seq(A)] /\ <<>> \in Seq(A)
    BY ConcatProperties
  <2>2. PICK it \in [SUBSET (1..n) -> Seq(A)] : FoldsInto(it, <<>>, n, step)
    <3> HIDE DEF step
    <3> QED BY <2>1, FoldExists
  <2>3. it[1..0] = <<>>
    <3> HIDE DEF step
    <3>1. it[{}] = <<>>
      BY <2>2 DEF FoldsInto
    <3>2. 1..0 = {}
      OBVIOUS
    <3> QED BY <3>1, <3>2
  <2>4. ASSUME NEW k \in 1..n PROVE it[1..k] = it[1..(k - 1)] \o ss[k]
    <3>1. 1..k \in SUBSET (1..n) /\ 1..k # {} /\ Max(1..k) = k /\ (1..k) \ {k} = 1..(k - 1)
      BY LastOfFirst
    <3>2. it[1..k] = step[<<it[(1..k) \ {Max(1..k)}], Max(1..k)>>]
      <4> HIDE DEF step
      <4> QED BY <2>2, <3>1 DEF FoldsInto
    <3>3. <<it[1..(k - 1)], k>> \in Seq(A) \X (1..n)
      BY <3>1
    <3> QED BY <3>1, <3>2, <3>3
  <2> DEFINE f == [i \in 1..n |-> it[1..i]]
  <2>5. C(f)
    <3>1. ASSUME NEW i \in 1..n, i # 1 PROVE f[i] = f[i - 1] \o ss[i]
      <4>1. i - 1 \in 1..n
        BY <3>1
      <4> QED BY <2>4, <4>1
    <3>2. 1 \in 1..n /\ 1 - 1 = 0
      BY <1>3
    <3>3. f[1] = ss[1]
      <4>1. it[1..1] = it[1..(1 - 1)] \o ss[1] /\ ss[1] \in Seq(A)
        <5> HIDE DEF f
        <5> QED BY <2>4, <3>2, Zenon
      <4>2. f[1] = it[1..0] \o ss[1] /\ ss[1] \in Seq(A)
        BY <3>2, <4>1
      <4> QED BY <2>3, <4>2, ConcatEmptySeq
    <3>4. f = [i \in 1..n |-> f[i]]
      OBVIOUS
    <3> HIDE DEF f
    <3> QED BY <3>1, <3>3, <3>4
  <2>6. C(c)
    <3> HIDE DEF C, f
    <3> QED BY <2>5
  <2>7. FlattenSeq(ss) = c[n]
    BY <1>1, <1>3 DEF FlattenSeq
  <2> HIDE DEF c, f, step
  <2> DEFINE r == [k \in 0..n |-> it[1..k]]
             T == {k \in Nat : k + 1 \in 1..n => c[k + 1] = it[1..(k + 1)]}
  <2>8. 0 \in T
    <3>1. 1 \in 1..n /\ c[1] = ss[1] /\ ss[1] \in Seq(A)
      BY <1>3, <2>6
    <3>2. it[1..1] = it[1..0] \o ss[1]
      <4>1. it[1..1] = it[1..(1 - 1)] \o ss[1]
        BY <2>4, <3>1, Zenon
      <4> QED BY <4>1
    <3> QED BY <2>3, <3>1, <3>2, ConcatEmptySeq
  <2>9. ASSUME NEW k \in Nat, k \in T PROVE k + 1 \in T
    <3> SUFFICES ASSUME (k + 1) + 1 \in 1..n PROVE c[(k + 1) + 1] = it[1..((k + 1) + 1)]
      OBVIOUS
    <3> DEFINE m == (k + 1) + 1
    <3>1. m \in 1..n /\ m # 1 /\ m - 1 = k + 1 /\ k + 1 \in 1..n
      OBVIOUS
    <3>2. c[k + 1] = it[1..(k + 1)]
      BY <2>9, <3>1
    <3> HIDE DEF m, C
    <3>3. c[m] = c[m - 1] \o ss[m]
      BY <2>6, <3>1 DEF C
    <3>4. it[1..m] = it[1..(m - 1)] \o ss[m]
      BY <2>4, <3>1
    <3>5. c[m] = it[1..m]
      BY <3>1, <3>2, <3>3, <3>4
    <3> QED BY <3>5 DEF m
  <2>10. n - 1 \in Nat /\ (n - 1) + 1 = n /\ n \in 1..n
    BY <1>3
  <2>11. n - 1 \in T
    <3> HIDE DEF T
    <3> QED BY <2>8, <2>9, <2>10, Induction
  <2>12. c[n] = it[1..n]
    BY <2>10, <2>11
  <2>13. r \in [0..n -> Seq(A)] /\ r[0] = <<>> /\ r[n] = c[n]
    <3>1. \A k \in 0..n : 1..k \in SUBSET (1..n)
      OBVIOUS
    <3> QED BY <2>3, <2>12, <3>1
  <2>14. \A k \in 1..n : r[k] = r[k - 1] \o ss[k]
    <3> SUFFICES ASSUME NEW k \in 1..n PROVE r[k] = r[k - 1] \o ss[k]
      OBVIOUS
    <3>1. k \in 0..n /\ k - 1 \in 0..n
      OBVIOUS
    <3> QED BY <2>4, <3>1
  <2> HIDE DEF r
  <2> QED BY <2>7, <2>13, <2>14 DEF Unrolls
<1> QED BY <1>2, <1>3

SameLengths(A, ss, B, tt, n) ==
  /\ ss \in [1..n -> Seq(A)] /\ tt \in [1..n -> Seq(B)]
  /\ \A k \in 1..n : Len(ss[k]) = Len(tt[k])

\* What they make has as many members as any others of the same lengths make.
LEMMA AsManyMembers ==
  ASSUME NEW A, NEW ss, NEW B, NEW tt, NEW n \in Nat, SameLengths(A, ss, B, tt, n)
  PROVE  Len(FlattenSeq(ss)) = Len(FlattenSeq(tt))
<1> ss \in [1..n -> Seq(A)] /\ tt \in [1..n -> Seq(B)]
  BY DEF SameLengths
<1>1. PICK r \in [0..n -> Seq(A)] : Unrolls(r, n, ss)
  BY FlattenUnrolls, Zenon
<1>2. PICK q \in [0..n -> Seq(B)] : Unrolls(q, n, tt)
  BY FlattenUnrolls, Zenon
<1> DEFINE T == {k \in Nat : k <= n => Len(r[k]) = Len(q[k])}
<1>3. 0 \in T
  BY <1>1, <1>2 DEF Unrolls
<1>4. ASSUME NEW k \in Nat, k \in T PROVE k + 1 \in T
  <2> SUFFICES ASSUME k + 1 <= n PROVE Len(r[k + 1]) = Len(q[k + 1])
    OBVIOUS
  <2>1. k \in 0..n /\ k + 1 \in 1..n /\ (k + 1) - 1 = k /\ Len(r[k]) = Len(q[k])
    BY <1>4
  <2>2. r[k + 1] = r[k] \o ss[k + 1] /\ q[k + 1] = q[k] \o tt[k + 1]
    BY <1>1, <1>2, <2>1 DEF Unrolls
  <2>3. r[k] \in Seq(A) /\ ss[k + 1] \in Seq(A) /\ q[k] \in Seq(B) /\ tt[k + 1] \in Seq(B)
    BY <2>1
  <2>4. /\ Len(r[k] \o ss[k + 1]) = Len(r[k]) + Len(ss[k + 1])
        /\ Len(q[k] \o tt[k + 1]) = Len(q[k]) + Len(tt[k + 1])
    BY <2>3, ConcatProperties
  <2> QED BY <2>1, <2>2, <2>4 DEF SameLengths
<1>5. n \in T
  <2> HIDE DEF T
  <2> QED BY <1>3, <1>4, Induction
<1> QED BY <1>1, <1>2, <1>5 DEF Unrolls

LEMMA FlattenIsSeq ==
  ASSUME NEW A, NEW n \in Nat, NEW ss \in [1..n -> Seq(A)]
  PROVE  FlattenSeq(ss) \in Seq(A)
<1>1. PICK r \in [0..n -> Seq(A)] : Unrolls(r, n, ss)
  BY FlattenUnrolls, Zenon
<1>2. r[n] \in Seq(A)
  OBVIOUS
<1> QED BY <1>1, <1>2 DEF Unrolls

\* Of a sequence without repetitions, the members that are taken.
LEMMA TakenAreOnce ==
  ASSUME NEW A, NEW s \in Seq(A), Once(s), NEW ss \in [1..Len(s) -> Seq(A)],
         \A k \in 1..Len(s) : ss[k] \in {<<>>, <<s[k]>>}
  PROVE  /\ Once(FlattenSeq(ss))
         /\ ToSet(FlattenSeq(ss)) = {s[k] : k \in {j \in 1..Len(s) : ss[j] # <<>>}}
<1> DEFINE n == Len(s)
           Taken(k) == {x \in A : \E j \in 1..k : ss[j] # <<>> /\ x = s[j]}
<1>1. n \in Nat /\ DOMAIN s = 1..n /\ ss \in [1..n -> Seq(A)]
  OBVIOUS
<1>2. PICK r \in [0..n -> Seq(A)] : Unrolls(r, n, ss)
  <2> HIDE DEF n
  <2> QED BY <1>1, FlattenUnrolls, Zenon
<1> HIDE DEF n
<1> DEFINE T == {k \in Nat : k <= n => Once(r[k]) /\ ToSet(r[k]) = Taken(k)}
<1>3. 0 \in T
  <2>1. r[0] = <<>> /\ DOMAIN <<>> = {} /\ Taken(0) = {}
    BY <1>2 DEF Unrolls
  <2>2. Once(<<>>) /\ ToSet(<<>>) = {}
    BY <2>1 DEF Once, ToSet
  <2> HIDE DEF Taken
  <2> QED BY <2>1, <2>2
<1>4. ASSUME NEW k \in Nat, k \in T PROVE k + 1 \in T
  <2> SUFFICES ASSUME k + 1 <= n PROVE Once(r[k + 1]) /\ ToSet(r[k + 1]) = Taken(k + 1)
    <3> HIDE DEF Taken
    <3> QED OBVIOUS
  <2> DEFINE x == s[k + 1]
  <2>1. k \in 0..n /\ k + 1 \in 1..n /\ (k + 1) - 1 = k /\ x \in A /\ r[k] \in Seq(A)
    BY <1>1
  <2>2. Once(r[k]) /\ ToSet(r[k]) = Taken(k)
    <3> HIDE DEF Taken
    <3> QED BY <1>4, <2>1
  <2>3. r[k + 1] = r[k] \o ss[k + 1]
    BY <1>2, <2>1 DEF Unrolls
  <2>4. \A j \in 1..(k + 1) : j \in 1..k \/ j = k + 1
    OBVIOUS
  <2>5. \A j \in 1..k : j \in DOMAIN s /\ j # k + 1 /\ j \in 1..(k + 1)
    BY <1>1, <2>1
  <2>6. CASE ss[k + 1] = <<>>
    <3>1. r[k + 1] = r[k]
      BY <2>1, <2>3, <2>6, ConcatEmptySeq
    <3>2. Taken(k + 1) = Taken(k)
      BY <2>4, <2>5, <2>6
    <3> HIDE DEF Taken
    <3> QED BY <2>2, <3>1, <3>2
  <2>7. CASE ss[k + 1] = <<x>> /\ <<x>> # <<>>
    <3>1. r[k + 1] = Append(r[k], x)
      BY <2>1, <2>3, <2>7, AppendIsConcat
    <3>2. k + 1 \in 1..(k + 1) /\ ss[k + 1] # <<>> /\ k + 1 \in DOMAIN s
      BY <1>1, <2>1, <2>7
    <3>3. Taken(k + 1) = Taken(k) \cup {x}
      BY <2>1, <2>4, <2>5, <3>2
    <3>4. x \notin Taken(k)
      BY <2>5, <3>2 DEF Once
    <3> HIDE DEF Taken, x
    <3>5. /\ ToSet(Append(r[k], x)) = ToSet(r[k]) \cup {x}
          /\ x \notin ToSet(r[k]) => Once(Append(r[k], x))
      BY <2>1, <2>2, AppendJoins
    <3> QED BY <2>2, <3>1, <3>3, <3>4, <3>5
  <2>8. <<x>> # <<>>
    OBVIOUS
  <2>9. ss[k + 1] \in {<<>>, <<x>>}
    BY <1>1, <2>1 DEF n
  <2> HIDE DEF Taken, x
  <2> QED BY <2>6, <2>7, <2>8, <2>9
<1>5. n \in T
  <2> HIDE DEF T
  <2> QED BY <1>1, <1>3, <1>4, Induction
<1>6. Once(r[n]) /\ ToSet(r[n]) = Taken(n)
  <2> HIDE DEF Taken
  <2> QED BY <1>1, <1>5
<1>7. Taken(n) = {s[k] : k \in {j \in 1..n : ss[j] # <<>>}}
  BY <1>1
<1> QED BY <1>2, <1>6, <1>7 DEF Unrolls, n

-----------------------------------------------------------------------------
(* Texts are cut into texts. *)

\* The least of some natural numbers.
LEMMA FirstIsIn ==
  ASSUME NEW P \in SUBSET Nat, P # {}
  PROVE  Min(P) \in P /\ \A k \in P : Min(P) <= k
BY LeastNatural DEF Min

LEMMA SliceIsText ==
  ASSUME NEW W, NEW t \in Seq(W), NEW i \in Nat \ {0}, NEW j \in Nat, j <= Len(t)
  PROVE  SubSeq(t, i, j) \in Seq(W)
<1>1. \A k \in i..j : t[k] \in W
  OBVIOUS
<1> QED BY <1>1, SubSeqProperties

LEMMA StripIsText ==
  ASSUME NEW W, NEW t \in Seq(W)
  PROVE  Strip(t) \in Seq(W) /\ NonBlank(t) \in Seq(Seq(W))
<1> DEFINE inner == {i \in DOMAIN t : t[i] # "/"}
<1>1. Len(t) \in Nat /\ inner \in SUBSET (1..Len(t)) /\ inner \in SUBSET Nat
  OBVIOUS
<1>2. Strip(t) = IF inner = {} THEN <<>> ELSE SubSeq(t, Min(inner), Max(inner))
  BY DEF Strip
<1> HIDE DEF inner
<1>3. Strip(t) \in Seq(W)
  <2>1. CASE inner = {}
    BY <1>2, <2>1
  <2>2. CASE inner # {}
    <3>1. Min(inner) \in inner /\ Max(inner) \in inner
      BY <1>1, <2>2, FirstIsIn, LastIsIn
    <3>2. Min(inner) \in 1..Len(t) /\ Max(inner) \in 1..Len(t)
      BY <1>1, <3>1, Zenon
    <3> DEFINE a == Min(inner)
               b == Max(inner)
    <3> HIDE DEF a, b
    <3>3. a \in 1..Len(t) /\ b \in 1..Len(t)
      BY <3>2 DEF a, b
    <3>4. a \in Nat \ {0} /\ b \in Nat /\ b <= Len(t)
      BY <1>1, <3>3
    <3>5. SubSeq(t, a, b) \in Seq(W)
      BY <3>4, SliceIsText
    <3> QED BY <1>2, <2>2, <3>5 DEF a, b
  <2> QED BY <2>1, <2>2
<1> HIDE DEF Strip
<1>4. NonBlank(t) = <<>> \/ NonBlank(t) = <<Strip(t)>>
  BY DEF NonBlank
<1>5. <<>> \in Seq(Seq(W)) /\ \A x \in Seq(W) : <<x>> \in Seq(Seq(W))
  OBVIOUS
<1> QED BY <1>3, <1>4, <1>5, Zenon

\* The position before the next one of P.
LEMMA NextIsBehind ==
  ASSUME NEW n \in Nat, NEW P \in SUBSET Nat, NEW i \in 0..n
  PROVE  /\ Min({j \in P : j > i} \cup {n + 1}) \in Nat
         /\ Min({j \in P : j > i} \cup {n + 1}) - 1 \in i..n
<1> DEFINE Q == {j \in P : j > i} \cup {n + 1}
           m == Min(Q)
<1>1. Q \in SUBSET Nat /\ n + 1 \in Q
  <2>1. n + 1 \in Nat
    OBVIOUS
  <2>2. \A j \in Q : j \in Nat
    BY <2>1
  <2> QED BY <2>2
<1>2. \A j \in Q : j > i
  OBVIOUS
<1> HIDE DEF Q
<1>3. m \in Q /\ m <= n + 1
  BY <1>1, FirstIsIn
<1> HIDE DEF m
<1>4. m \in Nat /\ m > i /\ m <= n + 1
  BY <1>1, <1>2, <1>3
<1>5. m \in Nat /\ m - 1 \in i..n
  BY <1>4
<1> QED BY <1>5 DEF m, Q

LEMMA CutIsTexts ==
  ASSUME NEW W, NEW t \in Seq(W), NEW P \in SUBSET Nat
  PROVE  Cut(t, P) \in Seq(Seq(W))
<1> DEFINE n == Len(t)
           end(i) == Min({j \in P : j > i} \cup {n + 1}) - 1
           ss == [i \in DOMAIN t |-> IF i = 1 \/ i \in P THEN NonBlank(SubSeq(t, i, end(i)))
                                     ELSE <<>>]
<1>1. n \in Nat /\ DOMAIN t = 1..n
  OBVIOUS
<1>2. ASSUME NEW i \in 1..n PROVE NonBlank(SubSeq(t, i, end(i))) \in Seq(Seq(W))
  <2>1. i \in 0..n /\ i \in Nat \ {0}
    BY <1>1
  <2>2. end(i) \in i..n
    <3> HIDE DEF n
    <3> QED BY <1>1, <2>1, NextIsBehind
  <2> HIDE DEF end
  <2>3. end(i) \in Nat /\ end(i) <= n
    BY <1>1, <2>2
  <2>4. SubSeq(t, i, end(i)) \in Seq(W)
    BY <2>1, <2>3, SliceIsText
  <2> QED BY <2>4, StripIsText
<1>3. ss \in [1..n -> Seq(Seq(W))]
  <2> HIDE DEF end, n
  <2>1. <<>> \in Seq(Seq(W))
    OBVIOUS
  <2> QED BY <1>1, <1>2, <2>1
<1>4. Cut(t, P) = FlattenSeq(ss)
  BY DEF Cut
<1> HIDE DEF ss, n
<1>5. FlattenSeq(ss) \in Seq(Seq(W))
  BY <1>1, <1>3, FlattenIsSeq
<1> QED BY <1>4, <1>5

LEMMA AfterFirstLineIsText ==
  ASSUME NEW W, NEW p \in Seq(W)
  PROVE  AfterFirstLine(p) \in Seq(W)
<1> DEFINE n == Len(p)
           ends == {j \in DOMAIN p : p[j] = "/"}
<1>1. n \in Nat /\ ends \in SUBSET Nat /\ \A j \in ends : j > 0
  OBVIOUS
<1> DEFINE Q == {j \in ends : j > 0} \cup {n + 1}
<1>2. LineEnd(p) = Min(Q)
  <2>1. {j \in ends : j > 0} = ends
    BY <1>1
  <2>2. LineEnd(p) = Min(ends \cup {n + 1})
    BY DEF LineEnd
  <2> HIDE DEF ends
  <2> QED BY <2>1, <2>2
<1> DEFINE m == Min(Q)
<1>3. m \in Nat /\ m - 1 \in 0..n
  <2> HIDE DEF ends, n
  <2>1. 0 \in 0..n
    BY <1>1
  <2> QED BY <1>1, <2>1, NextIsBehind
<1> HIDE DEF Q, ends, m
<1>4. m + 1 \in Nat \ {0} /\ n <= Len(p)
  BY <1>1, <1>3
<1>5. SubSeq(p, m + 1, n) \in Seq(W)
  BY <1>1, <1>4, SliceIsText
<1> QED BY <1>2, <1>5 DEF AfterFirstLine, m

LEMMA SlicedIsTexts ==
  ASSUME NEW W, NEW s \in Seq(W), NEW n \in Nat \ {0}
  PROVE  Sliced(s, n) \in Seq(Seq(W))
<1> DEFINE m == Len(s)
           last == (m + n - 1) \div n
           piece(k) == SubSeq(s, (k - 1) * n + 1, IF k * n < m THEN k * n ELSE m)
<1>1. m \in Nat
  OBVIOUS
<1> HIDE DEF m
<1>2. last \in Nat
  <2> DEFINE a == m + n - 1
  <2>1. a \in Nat
    BY <1>1
  <2> HIDE DEF a
  <2>2. a \div n \in Nat
    BY <2>1
  <2> QED BY <2>2 DEF a
<1>3. ASSUME NEW k \in 1..last PROVE piece(k) \in Seq(W)
  <2>1. k \in Nat /\ k - 1 \in Nat /\ k * n = (k - 1) * n + n
    BY <1>2
  <2> DEFINE a == (k - 1) * n
             b == k * n
  <2>2. a \in Nat /\ b \in Nat
    <3>1. \A x \in Nat : x * n \in Nat
      OBVIOUS
    <3> QED BY <2>1, <3>1
  <2> HIDE DEF a, b
  <2>3. a + 1 \in Nat \ {0} /\ (IF b < m THEN b ELSE m) \in Nat /\ (IF b < m THEN b ELSE m) <= m
    BY <1>1, <2>2
  <2>4. SubSeq(s, a + 1, IF b < m THEN b ELSE m) \in Seq(W)
    BY <2>3, SliceIsText DEF m
  <2> QED BY <2>4 DEF a, b
<1> HIDE DEF last, piece
<1>4. [k \in 1..last |-> piece(k)] \in Seq(Seq(W))
  BY <1>2, <1>3, IsASeq
<1> QED BY <1>4 DEF Sliced, last, piece, m

LEMMA SectionsAreTexts ==
  ASSUME NEW W, NEW t \in Seq(W)
  PROVE  SplitByHeading(t) \in Seq(Seq(W))
<1> DEFINE P == {i \in LineStarts(t) : t[i] = "##"}
           parts == Cut(t, P)
           section(p) == NonBlank(IF p[1] = "##" THEN AfterFirstLine(p) ELSE p)
           ss == [k \in DOMAIN parts |-> section(parts[k])]
<1>1. P \in SUBSET Nat
  BY DEF LineStarts
<1> HIDE DEF P
<1>2. parts \in Seq(Seq(W))
  BY <1>1, CutIsTexts
<1>3. SplitByHeading(t) = FlattenSeq(ss)
  BY DEF SplitByHeading, Joined, P
<1> HIDE DEF parts
<1>4. Len(parts) \in Nat /\ DOMAIN parts = 1..Len(parts)
  BY <1>2
<1>5. ASSUME NEW p \in Seq(W) PROVE section(p) \in Seq(Seq(W))
  BY AfterFirstLineIsText, StripIsText
<1> HIDE DEF section
<1>6. ss \in [1..Len(parts) -> Seq(Seq(W))]
  BY <1>2, <1>4, <1>5
<1> HIDE DEF ss
<1> QED BY <1>3, <1>4, <1>6, FlattenIsSeq

\* The windows of a parent w that its children are cut from.
WindowFrom(k) == (k - 1) * (ChildTokens - ChildOverlap) + 1
WindowTo(w, k) == Min({WindowFrom(k) + ChildTokens - 1, Len(w)})
WindowOpens(w, k) == k = 1 \/ WindowFrom(k) + ChildOverlap <= Len(w)
Bits(w) ==
  [k \in DOMAIN w |->
     IF WindowOpens(w, k) THEN NonBlank(SubSeq(w, WindowFrom(k), WindowTo(w, k))) ELSE <<>>]

LEMMA TimesKeepsOrder ==
  ASSUME NEW x \in Nat, NEW y \in Nat, NEW d \in Nat, x <= y
  PROVE  x * d \in Nat /\ y * d \in Nat /\ x * d <= y * d
<1>1. y - x \in Nat /\ y = x + (y - x)
  OBVIOUS
<1>2. PICK z \in Nat : y = x + z
  BY <1>1
<1>3. (x + z) * d = x * d + z * d /\ z * d \in Nat /\ x * d \in Nat
  OBVIOUS
<1> QED BY <1>2, <1>3

\* A window that is opened is within the text; one behind another begins behind
\* it, but for the overlap; and every token is in one of them.
LEMMA WindowsReach ==
  ASSUME NEW W, NEW w \in Seq(W), ClausesAssumption
  PROVE  /\ \A k \in 1..Len(w) : WindowOpens(w, k) =>
              WindowFrom(k) \in 1..Len(w) /\ WindowTo(w, k) \in WindowFrom(k)..Len(w)
         /\ \A k, l \in 1..Len(w) : k < l /\ WindowOpens(w, k) =>
              WindowFrom(k) <= WindowFrom(l) /\ WindowTo(w, k) < WindowFrom(l) + ChildOverlap
         /\ \A i \in 1..Len(w) : \E k \in 1..Len(w) :
              WindowOpens(w, k) /\ i \in WindowFrom(k)..WindowTo(w, k)
<1> DEFINE n == Len(w)
           d == ChildTokens - ChildOverlap
<1>1. /\ n \in Nat /\ ChildTokens \in Nat \ {0} /\ ChildOverlap \in Nat
      /\ d \in Nat /\ d >= 1 /\ ChildTokens = d + ChildOverlap
  BY DEF ClausesAssumption
<1> HIDE DEF n, d
<1>2. ASSUME NEW k \in 1..n
      PROVE  /\ WindowFrom(k) \in Nat /\ WindowFrom(k) >= k
             /\ k = 1 => WindowFrom(k) = 1
             /\ k > 1 => k - 1 \in 1..n /\ WindowFrom(k) = WindowFrom(k - 1) + d
             /\ \A l \in 1..n : k < l => WindowFrom(k) + d <= WindowFrom(l)
  <2>1. \A x \in 1..n : WindowFrom(x) = (x - 1) * d + 1 /\ x - 1 \in Nat
    BY <1>1 DEF WindowFrom, d
  <2>2. (k - 1) * d \in Nat /\ (k - 1) * 1 <= (k - 1) * d
    <3>1. d * (k - 1) = (k - 1) * d /\ 1 * (k - 1) = k - 1 /\ (k - 1) * 1 = k - 1 /\ 1 \in Nat
      BY <1>1, <2>1
    <3>2. 1 * (k - 1) <= d * (k - 1) /\ d * (k - 1) \in Nat
      BY <1>1, <2>1, TimesKeepsOrder
    <3> QED BY <3>1, <3>2
  <2>3. WindowFrom(k) \in Nat /\ WindowFrom(k) >= k
    BY <1>1, <2>1, <2>2
  <2>4. k = 1 => WindowFrom(k) = 1
    <3>1. 0 * d = 0
      BY <1>1
    <3> QED BY <2>1, <3>1
  <2>5. ASSUME k > 1 PROVE k - 1 \in 1..n /\ WindowFrom(k) = WindowFrom(k - 1) + d
    <3>1. k - 1 \in 1..n
      BY <1>1, <2>5
    <3>2. WindowFrom(k - 1) = ((k - 1) - 1) * d + 1 /\ WindowFrom(k) = (k - 1) * d + 1
      BY <2>1, <3>1
    <3>3. ((k - 1) - 1) * d + d = (k - 1) * d /\ ((k - 1) - 1) * d \in Nat
      BY <1>1, <2>1, <3>1
    <3> QED BY <1>1, <2>2, <3>1, <3>2, <3>3
  <2>6. ASSUME NEW l \in 1..n, k < l PROVE WindowFrom(k) + d <= WindowFrom(l)
    <3>1. k \in Nat /\ l - 1 \in Nat /\ k <= l - 1
      BY <1>1, <2>6
    <3>3. k * d = (k - 1) * d + d
      <4>1. \A x \in Nat : (x + 1) * d = x * d + d
        BY <1>1
      <4>2. k - 1 \in Nat /\ (k - 1) + 1 = k
        BY <1>1
      <4> QED BY <4>1, <4>2
    <3>2. k * d <= (l - 1) * d /\ k * d \in Nat /\ (l - 1) * d \in Nat
      BY <1>1, <3>1, TimesKeepsOrder
    <3>4. WindowFrom(k) = (k - 1) * d + 1 /\ WindowFrom(l) = (l - 1) * d + 1
      BY <2>1
    <3> QED BY <1>1, <2>2, <3>2, <3>3, <3>4
  <2> QED BY <2>3, <2>4, <2>5, <2>6
<1>3. ASSUME NEW k \in 1..n
      PROVE  /\ WindowTo(w, k) \in {WindowFrom(k) + ChildTokens - 1, n}
             /\ WindowTo(w, k) <= WindowFrom(k) + ChildTokens - 1 /\ WindowTo(w, k) <= n
             /\ WindowTo(w, k) \in Nat
  <2> DEFINE P == {WindowFrom(k) + ChildTokens - 1, n}
  <2>1. WindowFrom(k) + ChildTokens - 1 \in Nat
    BY <1>1, <1>2
  <2>2. P \in SUBSET Nat /\ P # {}
    BY <1>1, <2>1
  <2>3. Min(P) \in P /\ \A x \in P : Min(P) <= x
    <3> HIDE DEF P
    <3> QED BY <2>2, FirstIsIn
  <2>4. WindowTo(w, k) = Min(P)
    BY DEF WindowTo, n
  <2>5. Min(P) \in Nat
    BY <2>2, <2>3
  <2> QED BY <2>3, <2>4, <2>5
<1>4. ASSUME NEW k \in 1..n, WindowOpens(w, k)
      PROVE  WindowFrom(k) \in 1..n /\ WindowTo(w, k) \in WindowFrom(k)..n
  <2>1. WindowFrom(k) <= n
    <3>1. CASE k = 1
      BY <1>1, <1>2, <3>1
    <3>2. CASE k # 1
      BY <1>1, <1>2, <1>4, <3>2 DEF WindowOpens, n
    <3> QED BY <3>1, <3>2
  <2>2. WindowFrom(k) \in Nat /\ WindowFrom(k) >= k /\ WindowTo(w, k) \in {WindowFrom(k) + ChildTokens - 1, n}
    BY <1>2, <1>3
  <2>3. WindowFrom(k) \in 1..n
    BY <1>1, <2>1, <2>2
  <2>4. WindowTo(w, k) \in WindowFrom(k)..n
    BY <1>1, <1>3, <2>1, <2>2
  <2> QED BY <2>3, <2>4
<1>5. ASSUME NEW k \in 1..n, NEW l \in 1..n, k < l, WindowOpens(w, k)
      PROVE  WindowFrom(k) <= WindowFrom(l) /\ WindowTo(w, k) < WindowFrom(l) + ChildOverlap
  <2>1. WindowFrom(k) + d <= WindowFrom(l) /\ WindowFrom(k) \in Nat /\ WindowFrom(l) \in Nat
    BY <1>2, <1>5
  <2>2. WindowTo(w, k) \in Nat /\ WindowTo(w, k) <= WindowFrom(k) + ChildTokens - 1
    BY <1>1, <1>2, <1>3
  <2> DEFINE f == WindowFrom(k)
             g == WindowFrom(l)
             e == WindowTo(w, k)
  <2>3. f + d <= g /\ f \in Nat /\ g \in Nat /\ e \in Nat /\ e <= f + ChildTokens - 1
    BY <2>1, <2>2
  <2> HIDE DEF f, g, e
  <2>4. f <= g /\ e < g + ChildOverlap
    BY <1>1, <2>3
  <2> QED BY <2>4 DEF f, g, e
<1>6. ASSUME NEW i \in 1..n PROVE \E k \in 1..n : WindowOpens(w, k) /\ i \in WindowFrom(k)..WindowTo(w, k)
  <2> DEFINE T == {k \in 1..n : i <= WindowFrom(k) + ChildTokens - 1}
  <2>1. i \in T /\ T \in SUBSET Nat /\ T # {}
    BY <1>1, <1>2
  <2>2. PICK k \in T : \A l \in T : k <= l
    <3> HIDE DEF T
    <3> QED BY <2>1, LeastNatural
  <2>3. k \in 1..n /\ i <= WindowFrom(k) + ChildTokens - 1 /\ WindowFrom(k) \in Nat
    BY <1>2, <2>2
  <2>4. WindowOpens(w, k) /\ WindowFrom(k) <= i
    <3>1. CASE k = 1
      BY <1>1, <1>2, <2>3, <3>1 DEF WindowOpens
    <3>2. CASE k # 1
      <4>1. k - 1 \in 1..n /\ WindowFrom(k) = WindowFrom(k - 1) + d /\ WindowFrom(k - 1) \in Nat
        BY <1>2, <2>3, <3>2
      <4>2. ~ (i <= WindowFrom(k - 1) + ChildTokens - 1)
        <5>1. k - 1 \notin T
          BY <2>2, <2>3, <4>1
        <5> QED BY <4>1, <5>1
      <4>3. WindowFrom(k) + ChildOverlap <= i
        BY <1>1, <2>3, <4>1, <4>2
      <4> QED BY <1>1, <2>3, <4>3 DEF WindowOpens, n
    <3> QED BY <3>1, <3>2
  <2>5. i <= WindowTo(w, k)
    BY <1>1, <1>3, <2>3
  <2>6. WindowTo(w, k) \in Nat
    BY <1>1, <1>2, <1>3, <2>3
  <2>7. i \in WindowFrom(k)..WindowTo(w, k)
    BY <1>1, <2>3, <2>4, <2>5, <2>6
  <2> QED BY <2>3, <2>4, <2>7
<1> QED BY <1>4, <1>5, <1>6 DEF n

LEMMA ChildTextsAreTexts ==
  ASSUME NEW W, NEW w \in Seq(W), ClausesAssumption
  PROVE  /\ ChildTexts(w) = FlattenSeq(Bits(w)) /\ ChildTexts(w) \in Seq(Seq(W))
         /\ Bits(w) \in [1..Len(w) -> Seq(Seq(W))]
<1>1. ChildTexts(w) = FlattenSeq(Bits(w))
  BY DEF ChildTexts, Bits, WindowFrom, WindowTo, WindowOpens
<1>2. Len(w) \in Nat /\ DOMAIN w = 1..Len(w)
  OBVIOUS
<1>3. ASSUME NEW k \in 1..Len(w), WindowOpens(w, k)
      PROVE  NonBlank(SubSeq(w, WindowFrom(k), WindowTo(w, k))) \in Seq(Seq(W))
  <2>1. WindowFrom(k) \in 1..Len(w) /\ WindowTo(w, k) \in WindowFrom(k)..Len(w)
    BY <1>3, WindowsReach
  <2>2. WindowFrom(k) \in Nat \ {0} /\ WindowTo(w, k) \in Nat /\ WindowTo(w, k) <= Len(w)
    BY <1>2, <2>1
  <2>3. SubSeq(w, WindowFrom(k), WindowTo(w, k)) \in Seq(W)
    BY <2>2, SliceIsText
  <2> QED BY <2>3, StripIsText
<1>4. <<>> \in Seq(Seq(W))
  OBVIOUS
<1>5. Bits(w) \in [1..Len(w) -> Seq(Seq(W))]
  BY <1>2, <1>3, <1>4 DEF Bits
<1>6. FlattenSeq(Bits(w)) \in Seq(Seq(W))
  BY <1>2, <1>5, FlattenIsSeq
<1> QED BY <1>1, <1>5, <1>6

\* The parents of a decision, each with its children.
Units(W) == [text : Seq(W), children : Seq(Seq(W))]

LEMMA HierarchyIsUnits ==
  ASSUME NEW W, NEW t \in Seq(W), ClausesAssumption
  PROVE  Hierarchy(t) \in Seq(Units(W))
<1> DEFINE sections == SplitByHeading(t)
           cuts == [k \in DOMAIN sections |-> Sliced(sections[k], ParentTokens)]
           windows == FlattenSeq(cuts)
           children(w) == ChildTexts(w)
           unit(w) == IF children(w) = <<>> THEN <<>>
                      ELSE <<[text |-> w, children |-> children(w)]>>
           units == [k \in DOMAIN windows |-> unit(windows[k])]
<1>1. Hierarchy(t) = FlattenSeq(units)
  BY DEF Hierarchy, Joined
<1>2. ParentTokens \in Nat \ {0}
  BY DEF ClausesAssumption
<1>3. windows \in Seq(Seq(W))
  <2>1. sections \in Seq(Seq(W))
    BY SectionsAreTexts
  <2> HIDE DEF sections
  <2>2. Len(sections) \in Nat /\ DOMAIN sections = 1..Len(sections)
    BY <2>1
  <2>3. \A k \in 1..Len(sections) : Sliced(sections[k], ParentTokens) \in Seq(Seq(W))
    BY <1>2, <2>1, <2>2, SlicedIsTexts
  <2>4. cuts \in [1..Len(sections) -> Seq(Seq(W))]
    BY <2>2, <2>3
  <2> HIDE DEF cuts
  <2> QED BY <2>2, <2>4, FlattenIsSeq
<1>4. ASSUME NEW w \in Seq(W) PROVE children(w) \in Seq(Seq(W))
  BY ChildTextsAreTexts
<1>5. ASSUME NEW w \in Seq(W) PROVE unit(w) \in Seq(Units(W))
  <2> HIDE DEF children
  <2>1. [text |-> w, children |-> children(w)] \in Units(W)
    BY <1>4, <1>5 DEF Units
  <2> QED BY <2>1
<1> HIDE DEF windows, unit
<1>6. Len(windows) \in Nat /\ DOMAIN windows = 1..Len(windows)
  BY <1>3
<1>7. units \in [1..Len(windows) -> Seq(Units(W))]
  BY <1>3, <1>5, <1>6
<1> HIDE DEF units
<1> QED BY <1>1, <1>6, <1>7, FlattenIsSeq

\* The children of a decision: each is its prefix and a piece of its text, and
\* how many there are is up to the text alone.
Children(W, prefix) ==
  [chunk : Nat \X Nat, parent : Nat, text : {prefix \o x : x \in Seq(W)}]

LEMMA ChunksArePrefixed ==
  ASSUME NEW W, NEW t \in Seq(W), NEW prefix, ClausesAssumption
  PROVE  /\ DecisionToChunks(t, prefix).children \in Seq(Children(W, prefix))
         /\ Len(DecisionToChunks(t, prefix).children) = Len(DecisionToChunks(t, <<>>).children)
         /\ Len(DecisionToChunks(t, prefix).parents) \in Nat
<1> DEFINE units == Hierarchy(t)
           n == Len(units)
           children(p, k) ==
             [c \in DOMAIN units[k].children |->
                [chunk |-> <<k - 1, c - 1>>, parent |-> k - 1, text |-> p \o units[k].children[c]]]
           ss(p) == [k \in DOMAIN units |-> children(p, k)]
<1>1. units \in Seq(Units(W))
  BY HierarchyIsUnits
<1>2. \A p : DecisionToChunks(t, p).children = FlattenSeq(ss(p))
  BY DEF DecisionToChunks
<1>3. DecisionToChunks(t, prefix).parents = [k \in DOMAIN units |-> [parent |-> k - 1, text |-> units[k].text]]
  BY DEF DecisionToChunks
<1> HIDE DEF units
<1>4. n \in Nat /\ DOMAIN units = 1..n
  BY <1>1
<1>5. ASSUME NEW p, NEW k \in 1..n
      PROVE  children(p, k) \in Seq(Children(W, p)) /\ Len(children(p, k)) = Len(units[k].children)
  <2> DEFINE u == units[k].children
             child(c) == [chunk |-> <<k - 1, c - 1>>, parent |-> k - 1, text |-> p \o u[c]]
  <2>1. u \in Seq(Seq(W))
    <3>1. units[k] \in Units(W)
      BY <1>1, <1>4
    <3> QED BY <3>1 DEF Units
  <2> HIDE DEF u
  <2>2. Len(u) \in Nat /\ DOMAIN u = 1..Len(u)
    BY <2>1
  <2>3. ASSUME NEW c \in 1..Len(u) PROVE child(c) \in Children(W, p)
    <3>1. k - 1 \in Nat /\ c - 1 \in Nat /\ u[c] \in Seq(W)
      BY <1>4, <2>1, <2>2
    <3> QED BY <3>1 DEF Children
  <2> HIDE DEF child
  <2>4. [c \in 1..Len(u) |-> child(c)] \in Seq(Children(W, p)) /\ Len([c \in 1..Len(u) |-> child(c)]) = Len(u)
    BY <2>2, <2>3
  <2> QED BY <2>2, <2>4 DEF child, u
<1> HIDE DEF n, children
<1>6. \A p : ss(p) \in [1..n -> Seq(Children(W, p))]
  BY <1>4, <1>5
<1>7. \A k \in 1..n : Len(ss(prefix)[k]) = Len(ss(<<>>)[k])
  BY <1>4, <1>5
<1>8. Len(DecisionToChunks(t, prefix).parents) \in Nat
  BY <1>3, <1>4
<1> HIDE DEF ss
<1>9. FlattenSeq(ss(prefix)) \in Seq(Children(W, prefix))
  BY <1>4, <1>6, FlattenIsSeq
<1>10. Len(FlattenSeq(ss(prefix))) = Len(FlattenSeq(ss(<<>>)))
  <2>1. SameLengths(Children(W, prefix), ss(prefix), Children(W, <<>>), ss(<<>>), n)
    BY <1>6, <1>7 DEF SameLengths
  <2> QED BY <1>4, <2>1, AsManyMembers
<1> QED BY <1>2, <1>8, <1>9, <1>10

-----------------------------------------------------------------------------
(* The heap of the decisions without a citation. *)

LEMMA HeapMinIsLeast ==
  ASSUME NEW heap \in SUBSET (Nat \X Nat), heap # {}
  PROVE  /\ HeapMin(heap) \in heap
         /\ \A y \in heap : HeapMin(heap)[1] <= y[1]
<1> DEFINE scores == {x[1] : x \in heap}
<1>1. scores \in SUBSET Nat /\ scores # {}
  OBVIOUS
<1>2. PICK m \in scores : \A k \in scores : m <= k
  <2> HIDE DEF scores
  <2> QED BY <1>1, LeastNatural
<1> DEFINE places == {x[2] : x \in {y \in heap : y[1] = m}}
<1>3. places \in SUBSET Nat /\ places # {}
  BY <1>2
<1>4. PICK p \in places : \A k \in places : p <= k
  <2> HIDE DEF places
  <2> QED BY <1>3, LeastNatural
<1>5. PICK x \in heap : x[1] = m /\ x[2] = p
  BY <1>4
<1>6. \A y \in heap : x = y \/ Below(x, y)
  <2> SUFFICES ASSUME NEW y \in heap, x # y PROVE Below(x, y)
    OBVIOUS
  <2>1. m <= y[1] /\ m \in Nat /\ p \in Nat /\ y[1] \in Nat /\ y[2] \in Nat
    BY <1>1, <1>2, <1>3, <1>4
  <2>2. y[1] = m => p <= y[2]
    BY <1>4
  <2>3. y[1] # m \/ y[2] # p
    BY <1>5
  <2> QED BY <1>5, <2>1, <2>2, <2>3 DEF Below
<1>7. HeapMin(heap) \in heap /\ \A y \in heap : HeapMin(heap) = y \/ Below(HeapMin(heap), y)
  BY <1>6 DEF HeapMin
<1> DEFINE h == HeapMin(heap)
<1> HIDE DEF h
<1>8. h \in heap /\ \A y \in heap : h = y \/ Below(h, y)
  BY <1>7 DEF h
<1>9. \A y \in heap : h[1] <= y[1]
  BY <1>8 DEF Below
<1> QED BY <1>8, <1>9 DEF h

\* The entries of the first k decisions, and what a heap has kept of some.
Entries(rows, k) == {<<rows[i].hits, i>> : i \in {j \in Tier2(rows) : j <= k}}

Smaller(a, b) == IF a < b THEN a ELSE b

BestOf(heap, entries) ==
  /\ heap \subseteq entries
  /\ Cardinality(heap) = Smaller(Cardinality(entries), MaxDecisions)
  /\ \A x \in entries \ heap, y \in heap : x[1] <= y[1]

LEMMA PushedIsBest ==
  ASSUME CaseLawAssumption, NEW entries \in SUBSET (Nat \X Nat), IsFiniteSet(entries),
         NEW heap, BestOf(heap, entries), NEW x \in Nat \X Nat, x \notin entries
  PROVE  BestOf(Pushed(heap, x), entries \cup {x})
<1> DEFINE n == Cardinality(heap)
           e == Cardinality(entries)
           m == HeapMin(heap)
<1>1. /\ heap \subseteq entries /\ n = Smaller(e, MaxDecisions) /\ x \notin heap
      /\ \A z \in entries \ heap, y \in heap : z[1] <= y[1]
  BY DEF BestOf
<1>2. e \in Nat /\ Cardinality(entries \cup {x}) = e + 1
  BY FS_CardinalityType, FS_AddElement
<1>3. IsFiniteSet(heap) /\ n \in Nat /\ (n = e => heap = entries)
  BY <1>1, FS_Subset, FS_CardinalityType
<1>4. IsFiniteSet(heap \cup {x}) /\ Cardinality(heap \cup {x}) = n + 1
  BY <1>1, <1>3, FS_AddElement
<1>5. MaxDecisions \in Nat
  BY DEF CaseLawAssumption
<1>6. heap \in SUBSET (Nat \X Nat)
  BY <1>1
<1>7. CASE n < MaxDecisions
  <2>1. Pushed(heap, x) = heap \cup {x}
    BY <1>7 DEF Pushed
  <2> HIDE DEF n, e
  <2>2. n = e /\ n + 1 = Smaller(e + 1, MaxDecisions)
    BY <1>1, <1>2, <1>3, <1>5, <1>7 DEF Smaller
  <2>3. heap = entries
    BY <1>3, <2>2
  <2> QED BY <1>2, <1>4, <2>1, <2>2, <2>3 DEF BestOf, n, e
<1>8. CASE ~(n < MaxDecisions)
  <2>1. n = MaxDecisions /\ n = Smaller(e + 1, MaxDecisions)
    <3> HIDE DEF n, e
    <3> QED BY <1>1, <1>2, <1>3, <1>5, <1>8 DEF Smaller
  <2>2. CASE MaxDecisions > 0 /\ x[1] > m[1]
    <3>1. heap # {}
      BY <1>5, <2>1, <2>2, FS_EmptySet
    <3>2. m \in heap /\ \A y \in heap : m[1] <= y[1]
      BY <1>6, <3>1, HeapMinIsLeast
    <3> HIDE DEF m
    <3>3. Pushed(heap, x) = (heap \ {m}) \cup {x}
      BY <1>8, <2>2 DEF Pushed, m
    <3>4. IsFiniteSet(heap \ {m}) /\ Cardinality(heap \ {m}) = n - 1
      BY <1>3, <3>2, FS_RemoveElement
    <3>5. x \notin heap \ {m}
      BY <1>1
    <3>6. Cardinality((heap \ {m}) \cup {x}) = (n - 1) + 1
      BY <3>4, <3>5, FS_AddElement
    <3>7. ASSUME NEW z \in (entries \cup {x}) \ ((heap \ {m}) \cup {x}),
                 NEW y \in (heap \ {m}) \cup {x}
          PROVE  z[1] <= y[1]
      <4>1. z \in entries /\ (z = m \/ z \notin heap)
        OBVIOUS
      <4>2. z[1] <= m[1]
        <5>1. m[1] \in Nat
          BY <1>6, <3>2
        <5> QED BY <1>1, <3>2, <4>1, <5>1
      <4>3. z[1] \in Nat /\ m[1] \in Nat /\ x[1] \in Nat
        BY <1>6, <3>2, <4>1
      <4>4. CASE y = x
        BY <2>2, <4>2, <4>3, <4>4
      <4>5. CASE y \in heap
        <5>1. y[1] \in Nat /\ m[1] <= y[1]
          BY <1>6, <3>2, <4>5
        <5> QED BY <4>2, <4>3, <5>1
      <4> QED BY <4>4, <4>5
    <3>8. (heap \ {m}) \cup {x} \subseteq entries \cup {x}
      BY <1>1
    <3>9. (n - 1) + 1 = n
      BY <1>3
    <3> HIDE DEF n, e
    <3>10. Cardinality(Pushed(heap, x)) = Smaller(Cardinality(entries \cup {x}), MaxDecisions)
      BY <1>2, <2>1, <3>3, <3>6, <3>9
    <3> QED BY <3>3, <3>7, <3>8, <3>10 DEF BestOf
  <2>3. CASE ~(MaxDecisions > 0 /\ x[1] > m[1])
    <3>1. Pushed(heap, x) = heap
      BY <1>8, <2>3 DEF Pushed
    <3>2. ASSUME NEW y \in heap PROVE x[1] <= y[1]
      <4>1. heap # {} /\ Cardinality(heap) # 0
        BY <1>3, FS_EmptySet
      <4>2. m \in heap /\ m[1] <= y[1]
        BY <1>6, <4>1, HeapMinIsLeast
      <4> HIDE DEF m
      <4>3. m[1] \in Nat /\ y[1] \in Nat /\ x[1] \in Nat
        BY <1>6, <4>2
      <4>4. MaxDecisions > 0
        BY <1>5, <2>1, <4>1
      <4> QED BY <2>3, <4>2, <4>3, <4>4
    <3>3. Cardinality(heap) = Smaller(Cardinality(entries \cup {x}), MaxDecisions)
      BY <1>2, <2>1
    <3>4. ASSUME NEW z \in (entries \cup {x}) \ heap, NEW y \in heap PROVE z[1] <= y[1]
      BY <1>1, <3>2
    <3>5. heap \subseteq entries \cup {x}
      BY <1>1
    <3> QED BY <3>1, <3>3, <3>4, <3>5 DEF BestOf
  <2> QED BY <2>2, <2>3
<1> QED BY <1>7, <1>8

\* A dump, as the assumption has it.
Decent(rows) ==
  /\ rows \in Seq(ToSet(rows))
  /\ \A i, j \in DOMAIN rows : i # j => rows[i].id # rows[j].id
  /\ \A i \in DOMAIN rows : rows[i].cites \in BOOLEAN /\ rows[i].hits \in Nat

LEMMA EntriesAreFew ==
  ASSUME NEW rows, Decent(rows), NEW k \in Nat
  PROVE  Entries(rows, k) \in SUBSET (Nat \X Nat) /\ IsFiniteSet(Entries(rows, k))
<1> DEFINE n == Len(rows)
           D == {j \in Tier2(rows) : j <= k}
           f == [i \in D |-> <<rows[i].hits, i>>]
<1>1. n \in Nat /\ DOMAIN rows = 1..n
  BY DEF Decent
<1>2. D \in SUBSET (1..n) /\ IsFiniteSet(1..n)
  BY <1>1, FS_Interval DEF Tier2
<1>3. IsFiniteSet(D)
  <2> HIDE DEF D
  <2> QED BY <1>2, FS_Subset
<1>4. f \in Surjection(D, Entries(rows, k))
  BY DEF Surjection, Entries
<1>5. IsFiniteSet(Entries(rows, k))
  <2> HIDE DEF D, f
  <2> QED BY <1>3, <1>4, FS_Surjection
<1>6. \A i \in D : <<rows[i].hits, i>> \in Nat \X Nat
  BY <1>1, <1>2 DEF Decent
<1> QED BY <1>5, <1>6 DEF Entries

LEMMA HeapIsBest ==
  ASSUME CaseLawAssumption, NEW rows, Decent(rows)
  PROVE  BestOf(Heap(rows), Entries(rows, Len(rows)))
<1> DEFINE n == Len(rows)
           d == [i \in DOMAIN rows |-> i]
           Next2(h, i) == IF i \in Tier2(rows) THEN Pushed(h, <<rows[i].hits, i>>) ELSE h
           C(it) == it = [P \in SUBSET DOMAIN d |->
                            IF P = {} THEN {} ELSE Next2(it[P \ {Max(P)}], d[Max(P)])]
           c == CHOOSE it : C(it)
           H == SUBSET (Nat \X Nat)
           step == [p \in H \X (1..n) |-> Next2(p[1], p[2])]
<1>1. Heap(rows) = c[DOMAIN d]
  BY DEF Heap, FoldLeftDomain, FoldLeft, MapThenFoldSet
<1>2. n \in Nat /\ DOMAIN rows = 1..n /\ DOMAIN d = 1..n /\ \A i \in 1..n : d[i] = i
  BY DEF Decent
<1>3. \A i \in 1..n : <<rows[i].hits, i>> \in Nat \X Nat
  BY <1>2 DEF Decent
<1>4. \A h \in H, i \in 1..n : Next2(h, i) \in H
  BY <1>3 DEF Pushed
<1>5. step \in [H \X (1..n) -> H] /\ {} \in H
  <2> HIDE DEF Next2, H
  <2>1. step \in [H \X (1..n) -> H]
    BY <1>4
  <2> QED BY <2>1 DEF H
<1> HIDE DEF d
<1>6. \E it : C(it)
  <2>1. PICK it \in [SUBSET (1..n) -> H] : FoldsInto(it, {}, n, step)
    <3> HIDE DEF step, H
    <3> QED BY <1>2, <1>5, FoldExists
  <2>2. ASSUME NEW P \in SUBSET (1..n), P # {}
        PROVE  it[P] = Next2(it[P \ {Max(P)}], d[Max(P)])
    <3> HIDE DEF Next2, H, step
    <3>1. Max(P) \in P
      BY <1>2, <2>2, LastIsIn
    <3>2. it[P] = step[<<it[P \ {Max(P)}], Max(P)>>]
      BY <2>1, <2>2 DEF FoldsInto
    <3>3. it[P \ {Max(P)}] \in H /\ Max(P) \in 1..n /\ d[Max(P)] = Max(P)
      BY <1>2, <2>1, <3>1
    <3>4. \A h \in H, i \in 1..n : step[<<h, i>>] = Next2(h, i)
      BY DEF step
    <3> QED BY <3>2, <3>3, <3>4
  <2>3. it[{}] = {}
    BY <2>1 DEF FoldsInto
  <2> HIDE DEF Next2, H
  <2>4. C(it)
    BY <1>2, <2>1, <2>2, <2>3
  <2> HIDE DEF C
  <2> QED BY <2>4
<1>7. C(c)
  <2> HIDE DEF C
  <2> QED BY <1>6
<1> HIDE DEF c, Next2
<1>8. c[{}] = {} /\ 1..0 = {}
  BY <1>2, <1>7
<1>9. ASSUME NEW k \in 1..n PROVE c[1..k] = Next2(c[1..(k - 1)], k)
  <2>1. /\ 1..k \in SUBSET (1..n) /\ 1..k # {} /\ Max(1..k) = k
        /\ (1..k) \ {k} = 1..(k - 1)
    BY <1>2, LastOfFirst
  <2>2. c[1..k] = Next2(c[(1..k) \ {Max(1..k)}], d[Max(1..k)])
    BY <1>2, <1>7, <2>1
  <2> QED BY <1>2, <2>1, <2>2
<1> HIDE DEF C, H
<1> DEFINE T == {k \in Nat : k <= n => BestOf(c[1..k], Entries(rows, k))}
<1>10. 0 \in T
  <2>1. Entries(rows, 0) = {}
    BY <1>2 DEF Entries, Tier2
  <2>2. BestOf({}, {})
    BY FS_EmptySet DEF BestOf, Smaller, CaseLawAssumption
  <2> QED BY <1>8, <2>1, <2>2
<1>11. ASSUME NEW k \in Nat, k \in T PROVE k + 1 \in T
  <2> SUFFICES ASSUME k + 1 <= n PROVE BestOf(c[1..(k + 1)], Entries(rows, k + 1))
    OBVIOUS
  <2> DEFINE x == <<rows[k + 1].hits, k + 1>>
             E == Entries(rows, k)
  <2>1. k + 1 \in 1..n /\ (k + 1) - 1 = k /\ k <= n /\ BestOf(c[1..k], E)
    BY <1>2, <1>11
  <2>2. c[1..(k + 1)] = IF k + 1 \in Tier2(rows) THEN Pushed(c[1..k], x) ELSE c[1..k]
    BY <1>9, <2>1 DEF Next2
  <2>3. \A j \in Tier2(rows) : j \in Nat /\ (j <= k + 1 <=> j <= k \/ j = k + 1)
    BY <1>2 DEF Tier2
  <2>4. Entries(rows, k + 1) = IF k + 1 \in Tier2(rows) THEN E \cup {x} ELSE E
    BY <2>3 DEF Entries
  <2>5. x \in Nat \X Nat
    BY <1>3, <2>1
  <2>6. x \notin E
    BY <2>3 DEF Entries
  <2>7. E \in SUBSET (Nat \X Nat) /\ IsFiniteSet(E)
    BY EntriesAreFew
  <2> HIDE DEF E, x
  <2>8. BestOf(Pushed(c[1..k], x), E \cup {x})
    BY <2>1, <2>5, <2>6, <2>7, PushedIsBest
  <2> QED BY <2>1, <2>2, <2>4, <2>8
<1>12. n \in T
  <2> HIDE DEF T
  <2> QED BY <1>2, <1>10, <1>11, Induction
<1> QED BY <1>1, <1>2, <1>12

-----------------------------------------------------------------------------
(* The order of the heap. *)

LEMMA RanksAreApart ==
  ASSUME NEW heap \in SUBSET (Nat \X Nat), IsFiniteSet(heap),
         NEW x \in heap, NEW y \in heap, Before(x, y)
  PROVE  Cardinality({z \in heap : Before(z, x)}) < Cardinality({z \in heap : Before(z, y)})
<1> DEFINE X == {z \in heap : Before(z, x)}
           Y == {z \in heap : Before(z, y)}
<1>1. X \subseteq Y
  <2> SUFFICES ASSUME NEW z \in heap, Before(z, x) PROVE Before(z, y)
    OBVIOUS
  <2>1. /\ x[1] \in Nat /\ x[2] \in Nat /\ y[1] \in Nat /\ y[2] \in Nat
        /\ z[1] \in Nat /\ z[2] \in Nat
    OBVIOUS
  <2> QED BY <2>1 DEF Before
<1>2. x \in Y /\ x \notin X
  BY DEF Before
<1>3. IsFiniteSet(Y) /\ Y \subseteq heap
  <2>1. Y \in SUBSET heap
    OBVIOUS
  <2> QED BY <2>1, FS_Subset
<1> HIDE DEF X, Y
<1>4. /\ IsFiniteSet(X) /\ Cardinality(X) <= Cardinality(Y)
      /\ Cardinality(Y) = Cardinality(X) => Y = X
  BY <1>1, <1>3, FS_Subset
<1>5. Cardinality(X) \in Nat /\ Cardinality(Y) \in Nat
  BY <1>3, <1>4, FS_CardinalityType
<1>6. Cardinality(X) < Cardinality(Y)
  BY <1>2, <1>4, <1>5
<1> QED BY <1>6 DEF X, Y

\* A heap can be brought in its order.
LEMMA RankedIsSorted ==
  ASSUME NEW heap \in SUBSET (Nat \X Nat), IsFiniteSet(heap)
  PROVE  /\ Ranked(heap) \in SetToSeqs(heap)
         /\ \A i, j \in DOMAIN Ranked(heap) :
              i < j => Before(Ranked(heap)[i], Ranked(heap)[j])
<1> DEFINE n == Cardinality(heap)
           Ahead(x) == {z \in heap : Before(z, x)}
           rank == [x \in heap |-> Cardinality(Ahead(x)) + 1]
<1>1. n \in Nat
  BY FS_CardinalityType
<1>2. ASSUME NEW x \in heap PROVE rank[x] \in 1..n
  <2> DEFINE A == Ahead(x)
  <2>1. A \subseteq heap /\ x \in heap /\ x \notin A
    BY DEF Before
  <2>2. rank[x] = Cardinality(A) + 1
    OBVIOUS
  <2> HIDE DEF A
  <2>3. /\ IsFiniteSet(A) /\ Cardinality(A) <= n /\ (n = Cardinality(A) => heap = A)
    BY <2>1, FS_Subset
  <2>4. Cardinality(A) \in Nat
    BY <2>3, FS_CardinalityType
  <2> HIDE DEF rank, n
  <2>5. Cardinality(A) # n
    BY <2>1, <2>3
  <2> QED BY <1>1, <2>2, <2>3, <2>4, <2>5
<1>3. ASSUME NEW x \in heap, NEW y \in heap, Before(x, y) PROVE rank[x] < rank[y]
  <2>1. Cardinality(Ahead(x)) < Cardinality(Ahead(y))
    BY <1>3, RanksAreApart
  <2>2. rank[x] \in Nat /\ rank[y] \in Nat
    BY <1>1, <1>2
  <2>3. rank[x] = Cardinality(Ahead(x)) + 1 /\ rank[y] = Cardinality(Ahead(y)) + 1
    OBVIOUS
  <2>4. Cardinality(Ahead(x)) \in Nat /\ Cardinality(Ahead(y)) \in Nat
    <3>1. Ahead(x) \subseteq heap /\ Ahead(y) \subseteq heap
      OBVIOUS
    <3>2. IsFiniteSet(Ahead(x)) /\ IsFiniteSet(Ahead(y))
      <4> HIDE DEF Ahead
      <4> QED BY <3>1, FS_Subset
    <3> QED BY <3>2, FS_CardinalityType
  <2> HIDE DEF rank, Ahead
  <2> QED BY <2>1, <2>3, <2>4
<1> HIDE DEF rank
<1>4. ASSUME NEW x \in heap, NEW y \in heap, x # y PROVE Before(x, y) \/ Before(y, x)
  <2>1. x[1] \in Nat /\ x[2] \in Nat /\ y[1] \in Nat /\ y[2] \in Nat /\ (x[1] # y[1] \/ x[2] # y[2])
    BY <1>4
  <2> QED BY <2>1 DEF Before
<1>5. ASSUME NEW x \in heap, NEW y \in heap, rank[x] = rank[y] PROVE x = y
  <2>1. rank[x] \in Nat /\ rank[y] \in Nat
    BY <1>1, <1>2
  <2> QED BY <1>3, <1>4, <1>5, <2>1
<1>6. rank \in Injection(heap, 1..n)
  <2>1. rank \in [heap -> 1..n]
    <3>1. rank = [x \in heap |-> rank[x]]
      BY DEF rank
    <3> QED BY <1>2, <3>1
  <2> QED BY <1>5, <2>1 DEF Injection, IsInjective
<1>7. \A k \in 1..n : \E x \in heap : rank[x] = k
  <2>1. IsFiniteSet(1..n) /\ Cardinality(1..n) = n
    BY <1>1, FS_Interval
  <2>2. rank \in Surjection(heap, 1..n)
    BY <1>6, <2>1, FS_Injection
  <2> QED BY <2>2 DEF Surjection
<1> DEFINE s == [k \in 1..n |-> CHOOSE x \in heap : rank[x] = k]
<1>8. \A k \in 1..n : s[k] \in heap /\ rank[s[k]] = k
  BY <1>7
<1>9. s \in [1..n -> heap] /\ DOMAIN s = 1..n
  BY <1>8
<1> HIDE DEF s
<1>10. s \in SetToSeqs(heap)
  BY <1>8, <1>9 DEF SetToSeqs
<1>11. ASSUME NEW i \in DOMAIN s, NEW j \in DOMAIN s, i < j PROVE Before(s[i], s[j])
  <2>1. i \in 1..n /\ j \in 1..n /\ s[i] # s[j]
    BY <1>8, <1>9, <1>11
  <2>2. s[i] \in heap /\ s[j] \in heap /\ rank[s[i]] = i /\ rank[s[j]] = j
    BY <1>8, <2>1
  <2>3. Before(s[i], s[j]) \/ j < i
    BY <1>3, <1>4, <2>1, <2>2
  <2> QED BY <1>1, <1>11, <2>1, <2>3
<1> QED BY <1>10, <1>11 DEF Ranked

\* An entry stands for its decision.
LEMMA EntriesAreRows ==
  ASSUME NEW rows, Decent(rows)
  PROVE  /\ \A e \in Entries(rows, Len(rows)) :
              /\ e \in Nat \X Nat /\ e[2] \in Tier2(rows) /\ e[2] \in DOMAIN rows
              /\ e[1] = rows[e[2]].hits
         /\ \A i \in Tier2(rows) : <<rows[i].hits, i>> \in Entries(rows, Len(rows))
         /\ \A e, f \in Entries(rows, Len(rows)) : rows[e[2]] = rows[f[2]] => e = f
<1>1. Len(rows) \in Nat /\ DOMAIN rows = 1..Len(rows)
  BY DEF Decent
<1>2. Entries(rows, Len(rows)) = {<<rows[i].hits, i>> : i \in Tier2(rows)}
  <2>1. \A j \in Tier2(rows) : j <= Len(rows)
    BY <1>1 DEF Tier2
  <2> QED BY <2>1 DEF Entries
<1>3. \A i \in Tier2(rows) : i \in DOMAIN rows /\ i \in Nat /\ rows[i].hits \in Nat
  BY <1>1 DEF Tier2, Decent
<1>4. \A e \in Entries(rows, Len(rows)) :
        /\ e \in Nat \X Nat /\ e[2] \in Tier2(rows) /\ e[2] \in DOMAIN rows
        /\ e[1] = rows[e[2]].hits /\ e = <<rows[e[2]].hits, e[2]>>
  BY <1>2, <1>3
<1>5. \A i, j \in DOMAIN rows : rows[i] = rows[j] => i = j
  BY DEF Decent
<1>6. ASSUME NEW e \in Entries(rows, Len(rows)), NEW f \in Entries(rows, Len(rows)),
             rows[e[2]] = rows[f[2]]
      PROVE  e = f
  <2>1. e[2] = f[2]
    BY <1>4, <1>5, <1>6
  <2> QED BY <1>4, <2>1
<1> QED BY <1>2, <1>4, <1>6

RowsOf(rows, heap) == {rows[e[2]] : e \in heap}

LEMMA AsManyRows ==
  ASSUME NEW rows, Decent(rows), NEW heap \in SUBSET Entries(rows, Len(rows))
  PROVE  IsFiniteSet(heap) /\ Cardinality(RowsOf(rows, heap)) = Cardinality(heap)
<1> DEFINE f == [e \in heap |-> rows[e[2]]]
<1>1. Len(rows) \in Nat
  BY DEF Decent
<1>2. IsFiniteSet(heap)
  BY <1>1, EntriesAreFew, FS_Subset
<1>3. f \in [heap -> RowsOf(rows, heap)] /\ \A x \in RowsOf(rows, heap) : \E e \in heap : f[e] = x
  BY DEF RowsOf
<1>4. \A e, g \in heap : f[e] = f[g] => e = g
  BY EntriesAreRows
<1> HIDE DEF f
<1>5. f \in Surjection(heap, RowsOf(rows, heap)) /\ f \in Injection(heap, RowsOf(rows, heap))
  BY <1>3, <1>4 DEF Surjection, Injection, IsInjective
<1>6. Cardinality(RowsOf(rows, heap)) = Cardinality(heap)
  BY <1>2, <1>5, FS_Surjection
<1> QED BY <1>2, <1>6

\* The best of them, in their order.
BestRows(rows) == [k \in DOMAIN Ranked(Heap(rows)) |-> rows[Ranked(Heap(rows))[k][2]]]

LEMMA BestAreRanked ==
  ASSUME CaseLawAssumption, NEW rows, Decent(rows)
  PROVE  /\ BestRows(rows) \in Seq(ToSet(rows)) /\ Once(BestRows(rows))
         /\ ToSet(BestRows(rows)) = RowsOf(rows, Heap(rows))
         /\ \A i, j \in DOMAIN BestRows(rows) :
              i < j => BestRows(rows)[j].hits <= BestRows(rows)[i].hits
<1> DEFINE E == Entries(rows, Len(rows))
           heap == Heap(rows)
           s == Ranked(heap)
           n == Cardinality(heap)
           best == BestRows(rows)
<1>1. heap \in SUBSET E
  BY HeapIsBest DEF BestOf
<1>2. \A e \in heap : e \in Nat \X Nat /\ e[2] \in DOMAIN rows /\ e[1] = rows[e[2]].hits
  BY <1>1, EntriesAreRows
<1>3. heap \in SUBSET (Nat \X Nat)
  BY <1>2
<1>4. IsFiniteSet(heap)
  BY <1>1, AsManyRows
<1> HIDE DEF heap
<1>5. s \in SetToSeqs(heap) /\ \A i, j \in DOMAIN s : i < j => Before(s[i], s[j])
  BY <1>3, <1>4, RankedIsSorted
<1>6. n \in Nat
  BY <1>4, FS_CardinalityType
<1>7. best = [k \in DOMAIN s |-> rows[s[k][2]]]
  BY DEF BestRows, heap
<1> HIDE DEF s
<1>8. s \in [1..n -> heap] /\ DOMAIN s = 1..n /\ \A i, j \in 1..n : i # j => s[i] # s[j]
  BY <1>5 DEF SetToSeqs
<1>9. \A e \in heap : \E k \in 1..n : s[k] = e
  <2>1. s \in Injection(1..n, heap)
    BY <1>8 DEF Injection, IsInjective
  <2>2. IsFiniteSet(1..n) /\ Cardinality(1..n) = Cardinality(heap)
    BY <1>6, FS_Interval
  <2>3. s \in Surjection(1..n, heap)
    BY <1>4, <2>1, <2>2, FS_Injection
  <2> QED BY <2>3 DEF Surjection
<1> HIDE DEF n, best
<1>10. DOMAIN best = 1..n /\ \A k \in 1..n : best[k] = rows[s[k][2]] /\ s[k] \in heap
  BY <1>7, <1>8
<1>11. best \in Seq(ToSet(rows))
  <2>1. \A k \in 1..n : rows[s[k][2]] \in ToSet(rows)
    BY <1>2, <1>10 DEF ToSet
  <2>2. best = [k \in 1..n |-> rows[s[k][2]]]
    BY <1>7, <1>8
  <2> QED BY <1>6, <2>1, <2>2
<1>12. Once(best)
  <2> SUFFICES ASSUME NEW i \in 1..n, NEW j \in 1..n, i # j PROVE best[i] # best[j]
    BY <1>10 DEF Once
  <2>1. s[i] # s[j] /\ s[i] \in E /\ s[j] \in E
    BY <1>1, <1>8
  <2> QED BY <1>10, <2>1, EntriesAreRows
<1>13. ToSet(best) = RowsOf(rows, heap)
  <2>1. \A x \in ToSet(best) : x \in RowsOf(rows, heap)
    BY <1>10 DEF ToSet, RowsOf
  <2>2. ASSUME NEW e \in heap PROVE rows[e[2]] \in ToSet(best)
    <3>1. PICK k \in 1..n : s[k] = e
      BY <1>9
    <3> QED BY <1>10, <3>1 DEF ToSet
  <2>3. \A x \in RowsOf(rows, heap) : x \in ToSet(best)
    BY <2>2 DEF RowsOf
  <2> QED BY <2>1, <2>3
<1>14. ASSUME NEW i \in DOMAIN best, NEW j \in DOMAIN best, i < j
       PROVE  best[j].hits <= best[i].hits
  <2>1. i \in 1..n /\ j \in 1..n /\ Before(s[i], s[j])
    BY <1>5, <1>8, <1>10, <1>14
  <2>2. /\ s[i][1] = best[i].hits /\ s[j][1] = best[j].hits
        /\ s[i][1] \in Nat /\ s[j][1] \in Nat
    BY <1>2, <1>3, <1>10, <2>1
  <2>3. s[j][1] <= s[i][1]
    BY <2>1, <2>2 DEF Before
  <2> QED BY <2>2, <2>3
<1> QED BY <1>11, <1>12, <1>13, <1>14 DEF heap, best

\* What a filter promises of the decisions it keeps.
KeptFaithful(rows, kept) ==
  LET tier2 == {rows[i] : i \in Tier2(rows)}
      chosen == ToSet(kept) \cap tier2
  IN /\ ToSet(kept) \ tier2 = {r \in ToSet(rows) : r.cites} /\ IsInjective(kept)
     /\ Cardinality(chosen) = Smaller(Cardinality(tier2), MaxDecisions)
     /\ \A r \in chosen, s \in tier2 \ chosen : s.hits <= r.hits
     /\ \A i, j \in DOMAIN kept : i < j /\ ~kept[i].cites => kept[j].hits <= kept[i].hits

LEMMA KeptIsFaithful ==
  ASSUME CaseLawAssumption, NEW rows, Decent(rows)
  PROVE  Kept(rows) \in Seq(ToSet(rows)) /\ KeptFaithful(rows, Kept(rows))
<1> DEFINE R == ToSet(rows)
           n == Len(rows)
           E == Entries(rows, n)
           heap == Heap(rows)
           best == BestRows(rows)
           cited(r) == IF r.cites THEN <<r>> ELSE <<>>
           ss == [k \in DOMAIN rows |-> cited(rows[k])]
           citing == FlattenSeq(ss)
           kept == Kept(rows)
           tier2 == {rows[i] : i \in Tier2(rows)}
           chosen == ToSet(kept) \cap tier2
<1>1. rows \in Seq(R) /\ n \in Nat /\ DOMAIN rows = 1..n /\ Once(rows)
  <2>1. Once(rows)
    BY DEF Decent, Once
  <2> QED BY <2>1 DEF Decent
<1>2. kept = citing \o best
  BY DEF Kept, BestRows, Joined
<1>3. /\ best \in Seq(R) /\ Once(best) /\ ToSet(best) = RowsOf(rows, heap)
      /\ \A i, j \in DOMAIN best : i < j => best[j].hits <= best[i].hits
  BY BestAreRanked
<1>4. BestOf(heap, E)
  BY HeapIsBest
<1> HIDE DEF kept, best, heap
<1>5. citing \in Seq(R) /\ Once(citing) /\ ToSet(citing) = {r \in R : r.cites}
  <2>1. \A k \in 1..n : rows[k] \in R /\ cited(rows[k]) \in Seq(R)
    BY <1>1
  <2>2. ss \in [1..n -> Seq(R)] /\ \A k \in 1..n : ss[k] = IF rows[k].cites THEN <<rows[k]>> ELSE <<>>
    BY <1>1, <2>1
  <2> HIDE DEF ss, R
  <2>3. \A k \in 1..n : <<rows[k]>> # <<>>
    OBVIOUS
  <2>4. \A k \in 1..n : ss[k] \in {<<>>, <<rows[k]>>} /\ (ss[k] # <<>> <=> rows[k].cites)
    BY <2>2, <2>3, Zenon
  <2>5. FlattenSeq(ss) \in Seq(R)
    BY <1>1, <2>2, FlattenIsSeq
  <2>6. /\ Once(FlattenSeq(ss))
        /\ ToSet(FlattenSeq(ss)) = {rows[k] : k \in {j \in 1..n : ss[j] # <<>>}}
    BY <1>1, <2>2, <2>4, TakenAreOnce
  <2>7. {rows[k] : k \in {j \in 1..n : ss[j] # <<>>}} = {r \in R : r.cites}
    BY <1>1, <2>4 DEF R, ToSet
  <2> QED BY <2>5, <2>6, <2>7
<1> HIDE DEF citing
<1>6. \A r \in tier2 : ~r.cites /\ r \in R
  BY DEF Tier2, ToSet
<1>7. tier2 = RowsOf(rows, E)
  <2>1. \A i \in Tier2(rows) : <<rows[i].hits, i>> \in E /\ <<rows[i].hits, i>>[2] = i
    BY EntriesAreRows
  <2>2. \A e \in E : e[2] \in Tier2(rows)
    BY EntriesAreRows
  <2> HIDE DEF E
  <2>3. \A x \in tier2 : x \in RowsOf(rows, E)
    BY <2>1 DEF RowsOf
  <2>4. \A x \in RowsOf(rows, E) : x \in tier2
    BY <2>2 DEF RowsOf
  <2> HIDE DEF tier2
  <2> QED BY <2>3, <2>4
<1>8. heap \in SUBSET E /\ E \in SUBSET E
  BY <1>4 DEF BestOf
<1>9. ToSet(best) \subseteq tier2
  BY <1>3, <1>7, <1>8 DEF RowsOf
<1> HIDE DEF E, tier2
<1>10. ToSet(citing) \cap ToSet(best) = {}
  BY <1>5, <1>6, <1>9
<1>11. kept \in Seq(R) /\ ToSet(kept) = ToSet(citing) \cup ToSet(best) /\ Once(kept)
  BY <1>2, <1>3, <1>5, <1>10, ConcatJoins
<1>12. ToSet(kept) \ tier2 = {r \in R : r.cites} /\ chosen = ToSet(best)
  BY <1>5, <1>6, <1>9, <1>11
<1>13. IsInjective(kept)
  BY <1>11 DEF Once, IsInjective
<1>14. Cardinality(chosen) = Smaller(Cardinality(tier2), MaxDecisions)
  <2>1. Cardinality(tier2) = Cardinality(E) /\ Cardinality(ToSet(best)) = Cardinality(heap)
    BY <1>3, <1>7, <1>8, AsManyRows DEF E
  <2> QED BY <1>4, <1>12, <2>1 DEF BestOf
<1>15. ASSUME NEW r \in chosen, NEW s \in tier2 \ chosen PROVE s.hits <= r.hits
  <2>1. PICK e \in heap : r = rows[e[2]]
    BY <1>3, <1>12 DEF RowsOf
  <2>2. PICK f \in E : s = rows[f[2]]
    BY <1>7 DEF RowsOf
  <2>3. f \notin heap
    BY <1>3, <1>12, <2>2 DEF RowsOf
  <2>4. f[1] <= e[1]
    BY <1>4, <2>1, <2>2, <2>3 DEF BestOf
  <2>5. e[1] = r.hits /\ f[1] = s.hits
    BY <1>8, <2>1, <2>2, EntriesAreRows DEF E
  <2> QED BY <2>4, <2>5
<1>16. ASSUME NEW i \in DOMAIN kept, NEW j \in DOMAIN kept, i < j, ~kept[i].cites
       PROVE  kept[j].hits <= kept[i].hits
  <2> DEFINE m == Len(citing)
             b == Len(best)
  <2>1. /\ m \in Nat /\ b \in Nat /\ DOMAIN citing = 1..m /\ DOMAIN best = 1..b
        /\ DOMAIN kept = 1..(m + b)
        /\ \A k \in 1..(m + b) : kept[k] = IF k <= m THEN citing[k] ELSE best[k - m]
    BY <1>2, <1>3, <1>5, ConcatProperties
  <2> HIDE DEF m, b
  <2>2. ~(i <= m)
    <3>1. \A k \in 1..m : citing[k].cites
      BY <1>5, <2>1 DEF ToSet
    <3>2. i \in Nat /\ i >= 1
      BY <2>1
    <3> QED BY <1>16, <2>1, <3>1, <3>2
  <2>3. /\ i - m \in 1..b /\ j - m \in 1..b /\ i - m < j - m /\ ~(j <= m)
    BY <1>16, <2>1, <2>2
  <2>4. kept[i] = best[i - m] /\ kept[j] = best[j - m]
    BY <2>1, <2>2, <2>3
  <2> QED BY <1>3, <2>1, <2>3, <2>4
<1> QED BY <1>11, <1>12, <1>13, <1>14, <1>15, <1>16 DEF KeptFaithful, kept, tier2

-----------------------------------------------------------------------------
(* The chunks of what is kept. *)

LEMMA PrefixComesFirst ==
  ASSUME NEW row, NEW G, NEW gist \in Seq(G), NEW W, NEW x \in Seq(W)
  PROVE  Head(FormatPrefix(row, gist) \o x) = row.id
<1> DEFINE S == {row.id} \cup G \cup W
           name == <<row.id>>
<1>1. name \in Seq(S) /\ Len(name) = 1 /\ name[1] = row.id
  OBVIOUS
<1>2. gist \in Seq(S) /\ x \in Seq(S)
  BY SeqMonotonic
<1> HIDE DEF S, name
<1>3. /\ name \o gist \in Seq(S) /\ Len(name \o gist) = Len(name) + Len(gist)
      /\ \A i \in 1..(Len(name) + Len(gist)) :
           (name \o gist)[i] = IF i <= Len(name) THEN name[i] ELSE gist[i - Len(name)]
  BY <1>1, <1>2, ConcatProperties
<1>4. Len(gist) \in Nat /\ Len(x) \in Nat
  OBVIOUS
<1> DEFINE p == name \o gist
<1>5. p \in Seq(S) /\ Len(p) \in Nat /\ Len(p) >= 1 /\ p[1] = row.id
  BY <1>1, <1>3, <1>4
<1>6. FormatPrefix(row, gist) = p
  BY DEF FormatPrefix, name
<1> HIDE DEF p
<1>7. /\ p \o x \in Seq(S) /\ Len(p \o x) = Len(p) + Len(x)
      /\ \A i \in 1..(Len(p) + Len(x)) : (p \o x)[i] = IF i <= Len(p) THEN p[i] ELSE x[i - Len(p)]
  BY <1>2, <1>5, ConcatProperties
<1>8. (p \o x)[1] = row.id
  BY <1>4, <1>5, <1>7
<1>9. Head(p \o x) = (p \o x)[1]
  <2> DEFINE q == p \o x
  <2>1. q \in Seq(S) /\ Len(q) >= 1
    BY <1>4, <1>5, <1>7
  <2> HIDE DEF q
  <2>2. Head(q) = q[1]
    BY <2>1
  <2> QED BY <2>2 DEF q
<1> QED BY <1>6, <1>8, <1>9

\* Decisions that can be cut, and gists of them.
Readable(R, g) ==
  \A r \in R : r.text \in Seq(ToSet(r.text)) /\ g[r.id] \in Seq(ToSet(g[r.id]))

WordsOf(R) == UNION {ToSet(r.text) : r \in R}

\* The chunks of one decision, without a prefix.
Bare(row) == DecisionToChunks(row.text, <<>>).children

LEMMA ChunksAreCounted ==
  ASSUME ClausesAssumption, NEW R, NEW g, Readable(R, g), NEW kept \in Seq(R)
  PROVE  /\ Len(IngestedChunks(kept, g)) = Len(FlattenSeq([k \in DOMAIN kept |-> Bare(kept[k])]))
         /\ \A i \in DOMAIN IngestedChunks(kept, g) :
              Head(IngestedChunks(kept, g)[i].child.text) = IngestedChunks(kept, g)[i].id
         /\ \A r \in R : Bare(r) \in Seq(Children(WordsOf(R), <<>>))
<1> DEFINE n == Len(kept)
           W == WordsOf(R)
           pre(r) == FormatPrefix(r, g[r.id])
           full(r) == DecisionToChunks(r.text, pre(r)).children
           chunks(r) == [k \in DOMAIN full(r) |-> [id |-> r.id, child |-> full(r)[k]]]
           ss == [k \in DOMAIN kept |-> chunks(kept[k])]
           tt == [k \in DOMAIN kept |-> Bare(kept[k])]
           Tagged(r) == [id : {r.id}, child : Children(W, pre(r))]
           A == UNION {Tagged(r) : r \in R}
           all == IngestedChunks(kept, g)
<1>1. all = FlattenSeq(ss)
  BY DEF IngestedChunks, Joined
<1>2. n \in Nat /\ DOMAIN kept = 1..n /\ \A k \in 1..n : kept[k] \in R
  OBVIOUS
<1>3. ASSUME NEW r \in R
      PROVE  /\ full(r) \in Seq(Children(W, pre(r))) /\ Bare(r) \in Seq(Children(W, <<>>))
             /\ Len(full(r)) = Len(Bare(r))
  <2>1. r.text \in Seq(W)
    <3>1. ToSet(r.text) \subseteq W
      BY DEF WordsOf
    <3>2. r.text \in Seq(ToSet(r.text))
      BY DEF Readable
    <3> HIDE DEF W
    <3> QED BY <3>1, <3>2, SeqMonotonic
  <2> HIDE DEF W, pre
  <2> QED BY <2>1, ChunksArePrefixed DEF Bare
<1> HIDE DEF full, W, pre, all
<1>4. ASSUME NEW r \in R PROVE chunks(r) \in Seq(A) /\ Len(chunks(r)) = Len(Bare(r))
  <2> DEFINE s == full(r)
  <2>1. Len(s) \in Nat /\ DOMAIN s = 1..Len(s) /\ Len(s) = Len(Bare(r))
    BY <1>3
  <2>2. \A k \in 1..Len(s) : s[k] \in Children(W, pre(r))
    BY <1>3
  <2> HIDE DEF s
  <2>3. ASSUME NEW k \in 1..Len(s) PROVE [id |-> r.id, child |-> s[k]] \in A
    <3>1. [id |-> r.id, child |-> s[k]] \in Tagged(r)
      BY <2>2
    <3> HIDE DEF Tagged
    <3> QED BY <3>1
  <2> HIDE DEF A
  <2>4. /\ [k \in 1..Len(s) |-> [id |-> r.id, child |-> s[k]]] \in Seq(A)
        /\ Len([k \in 1..Len(s) |-> [id |-> r.id, child |-> s[k]]]) = Len(s)
    BY <2>1, <2>3
  <2> QED BY <2>1, <2>4 DEF s
<1>5. \A a \in A : Head(a.child.text) = a.id
  <2> SUFFICES ASSUME NEW r \in R, NEW a \in Tagged(r) PROVE Head(a.child.text) = a.id
    OBVIOUS
  <2>1. PICK x \in Seq(W) : a.child.text = pre(r) \o x
    BY DEF Children
  <2>2. a.id = r.id
    OBVIOUS
  <2>3. g[r.id] \in Seq(ToSet(g[r.id]))
    BY DEF Readable
  <2>4. Head(pre(r) \o x) = r.id
    <3> HIDE DEF Tagged, A
    <3> QED BY <2>3, PrefixComesFirst DEF pre
  <2> QED BY <2>1, <2>2, <2>4
<1> HIDE DEF n, chunks, A
<1>6. ss \in [1..n -> Seq(A)] /\ tt \in [1..n -> Seq(Children(W, <<>>))]
  BY <1>2, <1>3, <1>4
<1>7. \A k \in 1..n : Len(ss[k]) = Len(tt[k])
  BY <1>2, <1>4
<1> HIDE DEF ss
<1>8. SameLengths(A, ss, Children(W, <<>>), tt, n)
  BY <1>6, <1>7 DEF SameLengths
<1> HIDE DEF tt
<1>9. Len(FlattenSeq(ss)) = Len(FlattenSeq(tt)) /\ FlattenSeq(ss) \in Seq(A)
  BY <1>2, <1>6, <1>8, AsManyMembers, FlattenIsSeq
<1>10. \A i \in DOMAIN all : all[i] \in A
  BY <1>1, <1>9
<1> QED BY <1>1, <1>3, <1>5, <1>9, <1>10 DEF tt, W, all

\* What the dry run announces is what is written.
LEMMA EstimateIsRight ==
  ASSUME ClausesAssumption, NEW R, NEW g, Readable(R, g), NEW kept \in Seq(R)
  PROVE  /\ Estimate(kept).kept = Len(kept)
         /\ Estimate(kept).children = Len(IngestedChunks(kept, g))
<1> DEFINE n == Len(kept)
           Add(e, row) == [kept |-> e.kept + 1,
                           children |-> e.children + Len(DecisionToChunks(row.text, <<>>).children),
                           parents |-> e.parents + Len(DecisionToChunks(row.text, <<>>).parents)]
           none == [kept |-> 0, children |-> 0, parents |-> 0]
           C(it) == it = [P \in SUBSET DOMAIN kept |->
                            IF P = {} THEN none ELSE Add(it[P \ {Max(P)}], kept[Max(P)])]
           c == CHOOSE it : C(it)
           E == [kept : Nat, children : Nat, parents : Nat]
           step == [p \in E \X (1..n) |-> Add(p[1], kept[p[2]])]
           W == WordsOf(R)
           tt == [k \in DOMAIN kept |-> Bare(kept[k])]
<1>1. Estimate(kept) = c[DOMAIN kept]
  BY DEF Estimate, FoldLeft, MapThenFoldSet
<1>2. n \in Nat /\ DOMAIN kept = 1..n /\ \A k \in 1..n : kept[k] \in R
  OBVIOUS
<1>3. ASSUME NEW e \in E, NEW row \in R PROVE Add(e, row) \in E
  <2>1. row.text \in Seq(ToSet(row.text))
    BY DEF Readable
  <2>2. Len(Bare(row)) \in Nat
    BY ChunksAreCounted
  <2>3. Len(DecisionToChunks(row.text, <<>>).parents) \in Nat
    BY <2>1, ChunksArePrefixed
  <2>4. e.kept + 1 \in Nat
    OBVIOUS
  <2>5. e.children + Len(Bare(row)) \in Nat
    BY <2>2
  <2>6. e.parents + Len(DecisionToChunks(row.text, <<>>).parents) \in Nat
    BY <2>3
  <2> QED BY <2>4, <2>5, <2>6 DEF Bare
<1>4. none \in E
  OBVIOUS
<1> HIDE DEF Add, none, E
<1>5. step \in [E \X (1..n) -> E]
  BY <1>2, <1>3
<1> HIDE DEF n
<1>6. \E it : C(it)
  <2>1. PICK it \in [SUBSET (1..n) -> E] : FoldsInto(it, none, n, step)
    <3> HIDE DEF step
    <3> QED BY <1>2, <1>4, <1>5, FoldExists
  <2>2. ASSUME NEW P \in SUBSET (1..n), P # {}
        PROVE  it[P] = Add(it[P \ {Max(P)}], kept[Max(P)])
    <3> HIDE DEF step
    <3>1. Max(P) \in P
      BY <1>2, <2>2, LastIsIn
    <3>2. it[P] = step[<<it[P \ {Max(P)}], Max(P)>>]
      BY <2>1, <2>2 DEF FoldsInto
    <3>3. it[P \ {Max(P)}] \in E /\ Max(P) \in 1..n
      BY <2>1, <3>1
    <3>4. \A e \in E, i \in 1..n : step[<<e, i>>] = Add(e, kept[i])
      BY DEF step
    <3> QED BY <3>2, <3>3, <3>4
  <2>3. it[{}] = none
    BY <2>1 DEF FoldsInto
  <2>4. C(it)
    BY <1>2, <2>1, <2>2, <2>3
  <2> HIDE DEF C
  <2> QED BY <2>4
<1>7. C(c)
  <2> HIDE DEF C
  <2> QED BY <1>6
<1> HIDE DEF c
<1>8. c[1..0] = none
  <2>1. c[{}] = none
    BY <1>2, <1>7
  <2>2. 1..0 = {}
    OBVIOUS
  <2> QED BY <2>1, <2>2
<1>9. ASSUME NEW k \in 1..n PROVE c[1..k] = Add(c[1..(k - 1)], kept[k])
  <2>1. /\ 1..k \in SUBSET (1..n) /\ 1..k # {} /\ Max(1..k) = k
        /\ (1..k) \ {k} = 1..(k - 1)
    BY <1>2, LastOfFirst
  <2>2. c[1..k] = Add(c[(1..k) \ {Max(1..k)}], kept[Max(1..k)])
    BY <1>2, <1>7, <2>1
  <2> QED BY <2>1, <2>2
<1> HIDE DEF C, step
<1>10. tt \in [1..n -> Seq(Children(W, <<>>))] /\ \A k \in 1..n : tt[k] = Bare(kept[k])
  BY <1>2, ChunksAreCounted
<1> HIDE DEF tt, W
<1>11. PICK r \in [0..n -> Seq(Children(W, <<>>))] : Unrolls(r, n, tt)
  BY <1>2, <1>10, FlattenUnrolls, Zenon
<1> DEFINE T == {k \in Nat : k <= n => /\ c[1..k].kept = k /\ c[1..k].children = Len(r[k])}
<1>12. 0 \in T
  <2>1. r[0] = <<>> /\ Len(<<>>) = 0
    BY <1>11 DEF Unrolls
  <2> QED BY <1>8, <2>1 DEF none
<1>13. ASSUME NEW k \in Nat, k \in T PROVE k + 1 \in T
  <2> SUFFICES ASSUME k + 1 <= n
               PROVE  c[1..(k + 1)].kept = k + 1 /\ c[1..(k + 1)].children = Len(r[k + 1])
    OBVIOUS
  <2>1. /\ k \in 0..n /\ k + 1 \in 1..n /\ (k + 1) - 1 = k
        /\ c[1..k].kept = k /\ c[1..k].children = Len(r[k])
    BY <1>2, <1>13
  <2>2. c[1..(k + 1)] = Add(c[1..k], kept[k + 1])
    BY <1>9, <2>1
  <2>3. /\ c[1..(k + 1)].kept = k + 1
        /\ c[1..(k + 1)].children = Len(r[k]) + Len(Bare(kept[k + 1]))
    BY <2>1, <2>2 DEF Add, Bare
  <2>4. r[k + 1] = r[k] \o tt[k + 1] /\ tt[k + 1] = Bare(kept[k + 1])
    BY <1>10, <1>11, <2>1 DEF Unrolls
  <2>5. r[k] \in Seq(Children(W, <<>>)) /\ tt[k + 1] \in Seq(Children(W, <<>>))
    BY <1>10, <2>1
  <2>6. Len(r[k] \o tt[k + 1]) = Len(r[k]) + Len(tt[k + 1])
    BY <2>5, ConcatProperties
  <2> QED BY <2>3, <2>4, <2>6
<1>14. n \in T
  <2> HIDE DEF T
  <2> QED BY <1>2, <1>12, <1>13, Induction
<1>15. Len(IngestedChunks(kept, g)) = Len(FlattenSeq(tt))
  BY ChunksAreCounted DEF tt
<1> QED BY <1>1, <1>2, <1>11, <1>14, <1>15 DEF Unrolls, n

\* No decision that cites a section is ever left out, of the others the best
\* are kept, every row says which decision it is from, and the dry run counts
\* what is then written: for any dumps, gists, caps and lengths.
THEOREM DumpsAreFaithful == Spec => []DumpsFaithful
<1> DEFINE Filtered ==
             /\ input.kind = "filter" => input.rows \in Dumps /\ input.kept = Kept(input.rows)
             /\ input.kind = "ingested" =>
                  \E g \in Gists : /\ input.rows \in Dumps /\ input.kept = Kept(input.rows)
                                   /\ input.chunks = IngestedChunks(input.kept, g)
<1>1. Init => Filtered
  BY DEF Init, Idle
<1>2. Filtered /\ [Next]_vars => Filtered'
  <2> SUFFICES ASSUME Filtered, [Next]_vars PROVE Filtered'
    OBVIOUS
  <2>1. CASE UNCHANGED input
    BY <2>1
  <2>2. CASE Calculate
    BY <2>2 DEF Calculate
  <2>3. CASE Ingest
    BY <2>3 DEF Ingest
  <2> QED BY <2>1, <2>2, <2>3 DEF Next, Rest, vars
<1>3. Filtered => DumpsFaithful
  <2> SUFFICES ASSUME NEW g \in Gists, NEW rows \in Dumps
               PROVE  CaseLawFaithful(rows, Kept(rows), IngestedChunks(Kept(rows), g))
    BY DEF DumpsFaithful
  <2> DEFINE kept == Kept(rows)
             chunks == IngestedChunks(kept, g)
  <2>1. /\ rows \in Seq(ToSet(rows))
        /\ \A i, j \in DOMAIN rows : i # j => rows[i].id # rows[j].id
        /\ \A r \in ToSet(rows) :
             /\ r.cites \in BOOLEAN /\ r.hits \in Nat /\ r.text \in Seq(ToSet(r.text))
             /\ g[r.id] \in Seq(ToSet(g[r.id]))
    BY DumpsAssumption DEF DumpsAssumption
  <2>2. Decent(rows)
    <3>1. \A i \in DOMAIN rows : rows[i] \in ToSet(rows)
      BY DEF ToSet
    <3> QED BY <2>1, <3>1 DEF Decent
  <2>3. Readable(ToSet(rows), g)
    BY <2>1 DEF Readable
  <2>4. kept \in Seq(ToSet(rows)) /\ KeptFaithful(rows, kept)
    BY <2>2, CaseLawAssumption, KeptIsFaithful
  <2> HIDE DEF kept
  <2>5. Estimate(kept).kept = Len(kept) /\ Estimate(kept).children = Len(chunks)
    BY <2>3, <2>4, ClausesAssumption, EstimateIsRight
  <2>6. \A i \in DOMAIN chunks : Head(chunks[i].child.text) = chunks[i].id
    BY <2>3, <2>4, ClausesAssumption, ChunksAreCounted
  <2> HIDE DEF chunks
  <2>7. CaseLawFaithful(rows, kept, chunks)
    BY <2>4, <2>5, <2>6 DEF CaseLawFaithful, KeptFaithful, Smaller
  <2> QED BY <2>7 DEF kept, chunks
<1> QED BY <1>1, <1>2, <1>3, PTL DEF Spec

-----------------------------------------------------------------------------
(* The words of texts that are put together and cut. *)

LEMMA FlattenJoins ==
  ASSUME NEW A, NEW ss \in Seq(Seq(A)), NEW tt \in Seq(Seq(A))
  PROVE  FlattenSeq(ss \o tt) = FlattenSeq(ss) \o FlattenSeq(tt)
<1> DEFINE m == Len(ss)
           n == Len(tt)
           u == ss \o tt
<1>1. /\ m \in Nat /\ n \in Nat /\ ss \in [1..m -> Seq(A)] /\ tt \in [1..n -> Seq(A)]
      /\ u \in Seq(Seq(A)) /\ Len(u) = m + n
      /\ \A i \in 1..(m + n) : u[i] = IF i <= m THEN ss[i] ELSE tt[i - m]
  BY ConcatProperties
<1> HIDE DEF m, n, u
<1>2. u \in [1..(m + n) -> Seq(A)] /\ m + n \in Nat
  BY <1>1
<1>3. PICK p \in [0..m -> Seq(A)] : Unrolls(p, m, ss)
  BY <1>1, FlattenUnrolls, Zenon
<1>4. PICK q \in [0..n -> Seq(A)] : Unrolls(q, n, tt)
  BY <1>1, FlattenUnrolls, Zenon
<1>5. PICK r \in [0..(m + n) -> Seq(A)] : Unrolls(r, m + n, u)
  BY <1>2, FlattenUnrolls, Zenon
<1> DEFINE F == {k \in Nat : k <= m => r[k] = p[k]}
           G == {k \in Nat : k <= n => r[m + k] = p[m] \o q[k]}
<1>6. 0 \in F
  BY <1>3, <1>5 DEF Unrolls
<1>7. ASSUME NEW k \in Nat, k \in F PROVE k + 1 \in F
  <2> SUFFICES ASSUME k + 1 <= m PROVE r[k + 1] = p[k + 1]
    OBVIOUS
  <2>1. /\ k + 1 \in 1..m /\ k + 1 \in 1..(m + n) /\ (k + 1) - 1 = k /\ r[k] = p[k]
        /\ u[k + 1] = ss[k + 1]
    BY <1>1, <1>7
  <2>2. r[k + 1] = r[k] \o u[k + 1] /\ p[k + 1] = p[k] \o ss[k + 1]
    BY <1>3, <1>5, <2>1 DEF Unrolls
  <2> QED BY <2>1, <2>2
<1>8. \A k \in Nat : k \in F
  <2> HIDE DEF F
  <2> QED BY <1>6, <1>7, Induction
<1>9. r[m] = p[m]
  BY <1>1, <1>8
<1>10. 0 \in G
  <2>1. p[m] \in Seq(A) /\ m + 0 = m /\ q[0] = <<>>
    BY <1>1, <1>4 DEF Unrolls
  <2> QED BY <1>9, <2>1, ConcatEmptySeq
<1>11. ASSUME NEW k \in Nat, k \in G PROVE k + 1 \in G
  <2> SUFFICES ASSUME k + 1 <= n PROVE r[m + (k + 1)] = p[m] \o q[k + 1]
    <3>1. k + 1 \in Nat
      OBVIOUS
    <3> QED BY <3>1
  <2> DEFINE j == m + (k + 1)
  <2>1. /\ k + 1 \in 1..n /\ j \in 1..(m + n) /\ (k + 1) - 1 = k /\ j - 1 = m + k
        /\ ~(j <= m) /\ j - m = k + 1 /\ m \in 0..m /\ k \in 0..n
    BY <1>1
  <2>2. r[m + k] = p[m] \o q[k]
    BY <1>11, <2>1
  <2>3. u[j] = tt[k + 1]
    BY <1>1, <2>1
  <2> HIDE DEF j
  <2>4. r[j] = r[j - 1] \o u[j] /\ q[k + 1] = q[k] \o tt[k + 1]
    BY <1>4, <1>5, <2>1 DEF Unrolls
  <2>5. p[m] \in Seq(A) /\ q[k] \in Seq(A) /\ tt[k + 1] \in Seq(A)
    BY <1>1, <2>1
  <2>6. (p[m] \o q[k]) \o tt[k + 1] = p[m] \o (q[k] \o tt[k + 1])
    <3> DEFINE a == p[m]
               b == q[k]
               c == tt[k + 1]
    <3>1. a \in Seq(A) /\ b \in Seq(A) /\ c \in Seq(A)
      BY <2>5
    <3> HIDE DEF a, b, c
    <3>2. (a \o b) \o c = a \o (b \o c)
      BY <3>1, ConcatAssociative
    <3> QED BY <3>2 DEF a, b, c
  <2> QED BY <2>1, <2>2, <2>3, <2>4, <2>6 DEF j
<1>12. \A k \in Nat : k \in G
  <2> HIDE DEF G
  <2> QED BY <1>10, <1>11, Induction
<1>13. r[m + n] = p[m] \o q[n]
  BY <1>1, <1>12
<1> QED BY <1>3, <1>4, <1>5, <1>13 DEF Unrolls, u

LEMMA FlattenOne ==
  ASSUME NEW A, NEW s \in Seq(A)
  PROVE  FlattenSeq(<<s>>) = s /\ FlattenSeq(<<>>) = <<>>
<1> DEFINE ss == <<s>>
           none == <<>>
<1>1. ss \in [1..1 -> Seq(A)] /\ ss[1] = s
  OBVIOUS
<1>2. none \in [1..0 -> Seq(A)]
  OBVIOUS
<1> HIDE DEF ss
<1>3. PICK r \in [0..1 -> Seq(A)] : Unrolls(r, 1, ss)
  BY <1>1, FlattenUnrolls, Zenon
<1>4. r[1] = r[0] \o s /\ r[0] = <<>> /\ r[1] = FlattenSeq(ss)
  <2>1. 1 \in 1..1 /\ 1 - 1 = 0
    OBVIOUS
  <2> QED BY <1>1, <1>3, <2>1 DEF Unrolls
<1>5. FlattenSeq(none) = <<>>
  <2> HIDE DEF none
  <2>1. PICK q \in [0..0 -> Seq(A)] : Unrolls(q, 0, none)
    BY <1>2, FlattenUnrolls, Zenon
  <2> QED BY <2>1 DEF Unrolls
<1> QED BY <1>4, <1>5, ConcatEmptySeq DEF ss

\* What f makes of the members of s, ...
Mapped(f, s) == [k \in DOMAIN s |-> f[s[k]]]

IsMapped(m, B, f, s) ==
  m \in Seq(B) /\ Len(m) = Len(s) /\ \A k \in 1..Len(s) : m[k] = f[s[k]]

LEMMA MappedIsSeq ==
  ASSUME NEW A, NEW B, NEW f \in [A -> B], NEW s \in Seq(A)
  PROVE  IsMapped(Mapped(f, s), B, f, s)
<1>1. Len(s) \in Nat /\ DOMAIN s = 1..Len(s) /\ \A k \in 1..Len(s) : f[s[k]] \in B
  OBVIOUS
<1> DEFINE m == [k \in 1..Len(s) |-> f[s[k]]]
<1>2. m \in Seq(B) /\ Len(m) = Len(s) /\ \A k \in 1..Len(s) : m[k] = f[s[k]]
  BY <1>1
<1> QED BY <1>1, <1>2 DEF Mapped, IsMapped

MapJoins(A, B, f) ==
  \A s, t \in Seq(A) : /\ Mapped(f, s \o t) = Mapped(f, s) \o Mapped(f, t)
                       /\ Mapped(f, s) \in Seq(B)

LEMMA MappedJoins ==
  ASSUME NEW A, NEW B, NEW f \in [A -> B]
  PROVE  MapJoins(A, B, f)
<1> SUFFICES ASSUME NEW s \in Seq(A), NEW t \in Seq(A)
             PROVE  /\ Mapped(f, s \o t) = Mapped(f, s) \o Mapped(f, t)
                    /\ Mapped(f, s) \in Seq(B)
  BY DEF MapJoins
<1> DEFINE m == Len(s)
           n == Len(t)
           u == s \o t
           p == Mapped(f, s)
           q == Mapped(f, t)
           r == Mapped(f, u)
           v == p \o q
<1>1. /\ m \in Nat /\ n \in Nat /\ u \in Seq(A) /\ Len(u) = m + n
      /\ \A i \in 1..(m + n) : u[i] = IF i <= m THEN s[i] ELSE t[i - m]
  BY ConcatProperties
<1> HIDE DEF u
<1>2. IsMapped(p, B, f, s) /\ IsMapped(q, B, f, t) /\ IsMapped(r, B, f, u)
  BY <1>1, MappedIsSeq, Zenon
<1> HIDE DEF p, q, r
<1>3. /\ p \in Seq(B) /\ Len(p) = m /\ \A k \in 1..m : p[k] = f[s[k]]
      /\ q \in Seq(B) /\ Len(q) = n /\ \A k \in 1..n : q[k] = f[t[k]]
      /\ r \in Seq(B) /\ Len(r) = m + n /\ \A k \in 1..(m + n) : r[k] = f[u[k]]
  BY <1>1, <1>2 DEF IsMapped
<1>4. /\ v \in Seq(B) /\ Len(v) = m + n
      /\ \A i \in 1..(m + n) : v[i] = IF i <= m THEN p[i] ELSE q[i - m]
  BY <1>3, ConcatProperties
<1> HIDE DEF m, n, v
<1>5. ASSUME NEW i \in 1..(m + n) PROVE r[i] = v[i]
  <2>1. CASE i <= m
    <3>1. i \in 1..m
      BY <1>1, <2>1
    <3>2. r[i] = f[u[i]] /\ u[i] = s[i]
      BY <1>1, <1>3, <2>1
    <3>3. v[i] = p[i] /\ p[i] = f[s[i]]
      BY <1>3, <1>4, <2>1, <3>1
    <3> QED BY <3>2, <3>3
  <2>2. CASE ~(i <= m)
    <3>1. i - m \in 1..n
      BY <1>1, <2>2
    <3> QED BY <1>1, <1>3, <1>4, <2>2, <3>1
  <2> QED BY <2>1, <2>2
<1>6. r = v
  BY <1>3, <1>4, <1>5, SeqEqual
<1> QED BY <1>3, <1>6 DEF r, v, p, q, u

\* ... one after the other.
FlatMap(f, s) == FlattenSeq(Mapped(f, s))

\* h takes what is put together to what it makes of the parts, put together.
Joins(h, A, B) ==
  /\ h \in [Seq(A) -> Seq(B)] /\ h[<<>>] = <<>>
  /\ \A x, y \in Seq(A) : h[x \o y] = h[x] \o h[y]

LEMMA FlatMapJoins ==
  ASSUME NEW A, NEW B, NEW f \in [A -> Seq(B)]
  PROVE  /\ Joins([s \in Seq(A) |-> FlatMap(f, s)], A, B)
         /\ \A x \in A : FlatMap(f, <<x>>) = f[x]
<1> DEFINE h == [s \in Seq(A) |-> FlatMap(f, s)]
           D == Seq(B)
<1>0. f \in [A -> D]
  OBVIOUS
<1>1. MapJoins(A, Seq(B), f)
  <2>1. MapJoins(A, D, f)
    <3> HIDE DEF D
    <3> QED BY <1>0, MappedJoins, Zenon
  <2> QED BY <2>1
<1>2. ASSUME NEW s \in Seq(A) PROVE FlatMap(f, s) \in Seq(B)
  <2> DEFINE m == Mapped(f, s)
  <2>1. m \in Seq(Seq(B))
    BY <1>1 DEF MapJoins
  <2> HIDE DEF m
  <2>2. Len(m) \in Nat /\ m \in [1..Len(m) -> Seq(B)]
    BY <2>1
  <2>3. FlattenSeq(m) \in Seq(B)
    BY <2>2, FlattenIsSeq
  <2> QED BY <2>3 DEF FlatMap, m
<1>3. ASSUME NEW s \in Seq(A), NEW t \in Seq(A)
      PROVE  FlatMap(f, s \o t) = FlatMap(f, s) \o FlatMap(f, t)
  <2>1. Mapped(f, s \o t) = Mapped(f, s) \o Mapped(f, t)
    BY <1>1 DEF MapJoins
  <2> DEFINE a == Mapped(f, s)
             b == Mapped(f, t)
  <2>2. a \in Seq(Seq(B)) /\ b \in Seq(Seq(B))
    BY <1>1 DEF MapJoins
  <2> HIDE DEF a, b
  <2>3. FlattenSeq(a \o b) = FlattenSeq(a) \o FlattenSeq(b)
    BY <2>2, FlattenJoins
  <2> QED BY <2>1, <2>3 DEF a, b, FlatMap
<1>4. FlatMap(f, <<>>) = <<>>
  <2>1. Mapped(f, <<>>) = <<>>
    BY DEF Mapped
  <2>2. <<>> \in Seq(B)
    OBVIOUS
  <2>3. FlattenSeq(<<>>) = <<>>
    BY <2>2, FlattenOne
  <2> QED BY <2>1, <2>3 DEF FlatMap
<1>5. ASSUME NEW x \in A PROVE FlatMap(f, <<x>>) = f[x]
  <2>1. Mapped(f, <<x>>) = <<f[x]>>
    BY DEF Mapped
  <2> DEFINE y == f[x]
  <2>2. y \in Seq(B)
    OBVIOUS
  <2> HIDE DEF y
  <2>3. FlattenSeq(<<y>>) = y
    BY <2>2, FlattenOne
  <2> QED BY <2>1, <2>3 DEF FlatMap, y
<1>6. /\ h \in [Seq(A) -> Seq(B)] /\ h[<<>>] = <<>>
      /\ \A s, t \in Seq(A) : s \o t \in Seq(A)
      /\ \A s \in Seq(A) : h[s] = FlatMap(f, s)
  <2>1. <<>> \in Seq(A)
    OBVIOUS
  <2> QED BY <1>2, <1>4, <2>1
<1> HIDE DEF h
<1>7. \A s, t \in Seq(A) : h[s \o t] = h[s] \o h[t]
  BY <1>3, <1>6
<1>8. Joins(h, A, B)
  BY <1>6, <1>7 DEF Joins
<1> QED BY <1>5, <1>8 DEF h

\* The parts ss and what it makes of them.
MakesOf(h, A, B, n, ss, tt) ==
  /\ Joins(h, A, B) /\ ss \in [1..n -> Seq(A)] /\ tt \in [1..n -> Seq(B)]
  /\ \A k \in 1..n : tt[k] = h[ss[k]]

LEMMA FlattenCommutes ==
  ASSUME NEW A, NEW B, NEW h, NEW n \in Nat, NEW ss, NEW tt, MakesOf(h, A, B, n, ss, tt)
  PROVE  h[FlattenSeq(ss)] = FlattenSeq(tt)
<1>0. /\ Joins(h, A, B) /\ ss \in [1..n -> Seq(A)] /\ tt \in [1..n -> Seq(B)]
      /\ \A k \in 1..n : tt[k] = h[ss[k]]
  BY DEF MakesOf
<1>1. PICK p \in [0..n -> Seq(A)] : Unrolls(p, n, ss)
  BY <1>0, FlattenUnrolls, Zenon
<1>2. PICK q \in [0..n -> Seq(B)] : Unrolls(q, n, tt)
  BY <1>0, FlattenUnrolls, Zenon
<1> DEFINE T == {k \in Nat : k <= n => h[p[k]] = q[k]}
<1>3. 0 \in T
  BY <1>0, <1>1, <1>2 DEF Unrolls, Joins
<1>4. ASSUME NEW k \in Nat, k \in T PROVE k + 1 \in T
  <2> SUFFICES ASSUME k + 1 <= n PROVE h[p[k + 1]] = q[k + 1]
    OBVIOUS
  <2>1. k \in 0..n /\ k + 1 \in 1..n /\ (k + 1) - 1 = k /\ h[p[k]] = q[k]
    BY <1>4
  <2>2. p[k + 1] = p[k] \o ss[k + 1] /\ q[k + 1] = q[k] \o tt[k + 1]
    BY <1>1, <1>2, <2>1 DEF Unrolls
  <2>3. p[k] \in Seq(A) /\ ss[k + 1] \in Seq(A) /\ tt[k + 1] = h[ss[k + 1]]
    BY <1>0, <2>1
  <2>4. h[p[k] \o ss[k + 1]] = h[p[k]] \o h[ss[k + 1]]
    BY <1>0, <2>3 DEF Joins
  <2> QED BY <2>1, <2>2, <2>3, <2>4
<1>5. n \in T
  <2> HIDE DEF T
  <2> QED BY <1>3, <1>4, Induction
<1> QED BY <1>1, <1>2, <1>5 DEF Unrolls

-----------------------------------------------------------------------------
(* The words of a text, and of texts. *)

AllWords(ss) == Joined(Words, ss)

LEMMA WordsJoin ==
  ASSUME NEW W
  PROVE  /\ Joins([t \in Seq(W) |-> Words(t)], W, W)
         /\ \A x \in W : Words(<<x>>) = IF x = "/" THEN <<>> ELSE <<x>>
<1> DEFINE f == [c \in W |-> IF c = "/" THEN <<>> ELSE <<c>>]
<1>1. f \in [W -> Seq(W)] /\ \A x \in W : f[x] = IF x = "/" THEN <<>> ELSE <<x>>
  OBVIOUS
<1>2. ASSUME NEW t \in Seq(W) PROVE Words(t) = FlatMap(f, t)
  <2>1. \A k \in DOMAIN t : t[k] \in W
    OBVIOUS
  <2>2. [k \in DOMAIN t |-> IF t[k] = "/" THEN <<>> ELSE <<t[k]>>] = Mapped(f, t)
    <3> HIDE DEF f
    <3> QED BY <1>1, <2>1 DEF Mapped
  <2> HIDE DEF f
  <2> QED BY <2>2 DEF Words, Joined, FlatMap
<1> HIDE DEF f
<1>3. /\ Joins([t \in Seq(W) |-> FlatMap(f, t)], W, W)
      /\ \A x \in W : FlatMap(f, <<x>>) = f[x]
  BY <1>1, FlatMapJoins, Zenon
<1>4. [t \in Seq(W) |-> FlatMap(f, t)] = [t \in Seq(W) |-> Words(t)]
  BY <1>2
<1>5. \A x \in W : <<x>> \in Seq(W)
  OBVIOUS
<1> QED BY <1>1, <1>2, <1>3, <1>4, <1>5

LEMMA WordsAdd ==
  ASSUME NEW W, NEW s \in Seq(W), NEW t \in Seq(W)
  PROVE  /\ Words(s \o t) = Words(s) \o Words(t)
         /\ Words(s) \in Seq(W) /\ Words(<<>>) = <<>>
<1> DEFINE h == [x \in Seq(W) |-> Words(x)]
<1>1. Joins(h, W, W)
  BY WordsJoin
<1>2. s \o t \in Seq(W) /\ <<>> \in Seq(W)
  OBVIOUS
<1>3. h[s] = Words(s) /\ h[t] = Words(t) /\ h[s \o t] = Words(s \o t) /\ h[<<>>] = Words(<<>>)
  BY <1>2
<1> HIDE DEF h
<1> QED BY <1>1, <1>3 DEF Joins

LEMMA AllWordsJoin ==
  ASSUME NEW W
  PROVE  /\ Joins([ss \in Seq(Seq(W)) |-> AllWords(ss)], Seq(W), W)
         /\ \A x \in Seq(W) : AllWords(<<x>>) = Words(x)
<1> DEFINE D == Seq(W)
           f == [x \in D |-> Words(x)]
<1>1. f \in [D -> Seq(W)] /\ \A x \in D : f[x] = Words(x)
  BY WordsAdd
<1>2. ASSUME NEW ss \in Seq(D) PROVE AllWords(ss) = FlatMap(f, ss)
  <2>1. \A k \in DOMAIN ss : ss[k] \in D
    <3> HIDE DEF D
    <3> QED OBVIOUS
  <2>2. [k \in DOMAIN ss |-> Words(ss[k])] = Mapped(f, ss)
    <3> HIDE DEF f, D
    <3> QED BY <1>1, <2>1 DEF Mapped
  <2> HIDE DEF f
  <2> QED BY <2>2 DEF AllWords, Joined, FlatMap
<1> HIDE DEF f
<1>3. /\ Joins([ss \in Seq(D) |-> FlatMap(f, ss)], D, W)
      /\ \A x \in D : FlatMap(f, <<x>>) = f[x]
  <2> HIDE DEF D
  <2> QED BY <1>1, FlatMapJoins, Zenon
<1>4. [ss \in Seq(D) |-> FlatMap(f, ss)] = [ss \in Seq(D) |-> AllWords(ss)]
  BY <1>2
<1>5. \A x \in D : <<x>> \in Seq(D)
  OBVIOUS
<1> QED BY <1>1, <1>2, <1>3, <1>4, <1>5

LEMMA AllWordsAdd ==
  ASSUME NEW W, NEW ss \in Seq(Seq(W)), NEW tt \in Seq(Seq(W))
  PROVE  /\ AllWords(ss \o tt) = AllWords(ss) \o AllWords(tt)
         /\ AllWords(ss) \in Seq(W) /\ AllWords(<<>>) = <<>>
<1> DEFINE h == [x \in Seq(Seq(W)) |-> AllWords(x)]
<1>1. Joins(h, Seq(W), W)
  BY AllWordsJoin
<1>2. ss \o tt \in Seq(Seq(W)) /\ <<>> \in Seq(Seq(W))
  OBVIOUS
<1>3. /\ h[ss] = AllWords(ss) /\ h[tt] = AllWords(tt)
      /\ h[ss \o tt] = AllWords(ss \o tt) /\ h[<<>>] = AllWords(<<>>)
  BY <1>2
<1> HIDE DEF h
<1> QED BY <1>1, <1>3 DEF Joins

\* What is cut in two has the words of the two.
LEMMA WordsSplit ==
  ASSUME NEW W, NEW t \in Seq(W), NEW i \in 1..(Len(t) + 1), NEW k \in (i - 1)..Len(t),
         NEW j \in k..Len(t)
  PROVE  Words(SubSeq(t, i, j)) = Words(SubSeq(t, i, k)) \o Words(SubSeq(t, k + 1, j))
<1>1. SubSeq(t, i, j) = SubSeq(t, i, k) \o SubSeq(t, k + 1, j)
  BY ConcatAdjacentSubSeq
<1>2. SubSeq(t, i, k) \in Seq(W)
  <2>1. i \in Nat \ {0} /\ k \in Nat /\ k <= Len(t)
    OBVIOUS
  <2> QED BY <2>1, SliceIsText
<1>3. SubSeq(t, k + 1, j) \in Seq(W)
  <2>1. k + 1 \in Nat \ {0} /\ j \in Nat /\ j <= Len(t)
    OBVIOUS
  <2> QED BY <2>1, SliceIsText
<1> DEFINE a == SubSeq(t, i, k)
           b == SubSeq(t, k + 1, j)
<1> HIDE DEF a, b
<1>4. Words(a \o b) = Words(a) \o Words(b)
  BY <1>2, <1>3, WordsAdd DEF a, b
<1> QED BY <1>1, <1>4 DEF a, b

LEMMA OneIsSlice ==
  ASSUME NEW W, NEW t \in Seq(W), NEW k \in 1..Len(t)
  PROVE  SubSeq(t, k, k) = <<t[k]>>
<1>1. SubSeq(t, k, k) = <<t[k]>> \o SubSeq(t, k + 1, k)
  <2>1. k \in k..Len(t)
    OBVIOUS
  <2> QED BY <2>1, SubSeqRecursiveFirst
<1>2. SubSeq(t, k + 1, k) = <<>>
  <2>1. k + 1 \in Int /\ k \in Int /\ k < k + 1
    OBVIOUS
  <2> QED BY <2>1, SubSeqEmpty
<1>3. <<t[k]>> \in Seq(W)
  OBVIOUS
<1> DEFINE x == <<t[k]>>
<1> HIDE DEF x
<1>4. x \o <<>> = x
  BY <1>3, ConcatEmptySeq DEF x
<1> QED BY <1>1, <1>2, <1>4 DEF x

\* A text of line breaks has no words, and any other has.
LEMMA BlankHasNoWords ==
  ASSUME NEW W, NEW t \in Seq(W)
  PROVE  Words(t) = <<>> <=> \A i \in 1..Len(t) : t[i] = "/"
<1> DEFINE n == Len(t)
<1>1. n \in Nat /\ \A i \in 1..n : t[i] \in W
  OBVIOUS
<1> HIDE DEF n
<1>2. ASSUME NEW k \in 1..n
      PROVE  /\ Words(SubSeq(t, 1, k)) =
                  Words(SubSeq(t, 1, k - 1)) \o (IF t[k] = "/" THEN <<>> ELSE <<t[k]>>)
             /\ Words(SubSeq(t, 1, k - 1)) \in Seq(W)
  <2>1. 1 \in 1..(n + 1) /\ k - 1 \in (1 - 1)..n /\ k \in (k - 1)..n /\ (k - 1) + 1 = k
    BY <1>1
  <2>2. Words(SubSeq(t, 1, k)) = Words(SubSeq(t, 1, k - 1)) \o Words(SubSeq(t, (k - 1) + 1, k))
    BY <2>1, WordsSplit DEF n
  <2>3. SubSeq(t, k, k) = <<t[k]>>
    BY OneIsSlice DEF n
  <2>4. Words(<<t[k]>>) = IF t[k] = "/" THEN <<>> ELSE <<t[k]>>
    BY <1>1, WordsJoin
  <2>5. SubSeq(t, 1, k - 1) \in Seq(W)
    <3>1. 1 \in Nat \ {0} /\ k - 1 \in Nat /\ k - 1 <= Len(t)
      BY <1>1 DEF n
    <3> QED BY <3>1, SliceIsText
  <2>6. Words(SubSeq(t, 1, k - 1)) \in Seq(W)
    BY <2>5, WordsAdd
  <2> QED BY <2>1, <2>2, <2>3, <2>4, <2>6
<1> DEFINE w(k) == Words(SubSeq(t, 1, k))
<1>3. w(0) = <<>> /\ w(n) = Words(t)
  <2>1. SubSeq(t, 1, 0) = <<>>
    BY SubSeqEmpty
  <2>2. SubSeq(t, 1, n) = t
    BY SubSeqFull DEF n
  <2>3. Words(<<>>) = <<>>
    BY WordsAdd
  <2> QED BY <2>1, <2>2, <2>3
<1>4. ASSUME NEW k \in 1..n
      PROVE  w(k) = w(k - 1) \o (IF t[k] = "/" THEN <<>> ELSE <<t[k]>>) /\ w(k - 1) \in Seq(W)
  BY <1>2
<1> HIDE DEF w
<1> DEFINE T == {k \in Nat : k <= n => (w(k) = <<>> <=> \A i \in 1..k : t[i] = "/")}
<1>5. 0 \in T
  BY <1>3
<1>6. ASSUME NEW k \in Nat, k \in T PROVE k + 1 \in T
  <2> SUFFICES ASSUME k + 1 <= n
               PROVE  w(k + 1) = <<>> <=> \A i \in 1..(k + 1) : t[i] = "/"
    OBVIOUS
  <2>1. k + 1 \in 1..n /\ (k + 1) - 1 = k /\ (w(k) = <<>> <=> \A i \in 1..k : t[i] = "/")
    BY <1>1, <1>6
  <2>2. w(k + 1) = w(k) \o (IF t[k + 1] = "/" THEN <<>> ELSE <<t[k + 1]>>) /\ w(k) \in Seq(W)
    BY <1>4, <2>1
  <2>3. (\A i \in 1..(k + 1) : t[i] = "/") <=> (\A i \in 1..k : t[i] = "/") /\ t[k + 1] = "/"
    <3>1. \A i \in 1..(k + 1) : i \in 1..k \/ i = k + 1
      OBVIOUS
    <3>2. k + 1 \in 1..(k + 1) /\ \A i \in 1..k : i \in 1..(k + 1)
      OBVIOUS
    <3> QED BY <3>1, <3>2
  <2>4. CASE t[k + 1] = "/"
    <3>1. w(k + 1) = w(k)
      BY <2>2, <2>4, ConcatEmptySeq
    <3> QED BY <2>1, <2>3, <2>4, <3>1
  <2>5. CASE t[k + 1] # "/"
    <3> DEFINE x == <<t[k + 1]>>
    <3>1. x \in Seq(W) /\ x # <<>>
      BY <1>1, <2>1
    <3>2. w(k + 1) = w(k) \o x
      BY <2>2, <2>5
    <3> HIDE DEF x
    <3>3. w(k + 1) # <<>>
      BY <2>2, <3>1, <3>2, ConcatEqualIffEmpty
    <3> QED BY <2>3, <2>5, <3>3
  <2> QED BY <2>4, <2>5
<1>7. n \in T
  <2> HIDE DEF T
  <2> QED BY <1>1, <1>5, <1>6, Induction
<1> QED BY <1>1, <1>3, <1>7 DEF n

\* What is left when the line breaks at the ends are stripped.
IsStrip(t, a, b) ==
  /\ a \in 1..Len(t) /\ b \in a..Len(t) /\ Strip(t) = SubSeq(t, a, b)
  /\ t[a] # "/" /\ \A i \in 1..Len(t) : i < a \/ i > b => t[i] = "/"

LEMMA StripIsWithin ==
  ASSUME NEW W, NEW t \in Seq(W), ~ (\A i \in 1..Len(t) : t[i] = "/")
  PROVE  \E a, b \in 1..Len(t) : IsStrip(t, a, b)
<1> DEFINE inner == {i \in DOMAIN t : t[i] # "/"}
           n == Len(t)
<1>1. /\ n \in Nat /\ inner \in SUBSET (1..n) /\ inner \in SUBSET Nat /\ inner # {}
      /\ \A i \in 1..n : i \in inner <=> t[i] # "/"
  OBVIOUS
<1>2. Strip(t) = IF inner = {} THEN <<>> ELSE SubSeq(t, Min(inner), Max(inner))
  BY DEF Strip
<1> DEFINE a == Min(inner)
           b == Max(inner)
<1> HIDE DEF inner, n
<1>3. a \in inner /\ \A k \in inner : a <= k
  BY <1>1, FirstIsIn
<1>4. b \in inner /\ \A k \in inner : b >= k
  BY <1>1, LastIsIn
<1>5. Strip(t) = SubSeq(t, a, b)
  BY <1>1, <1>2
<1> HIDE DEF a, b
<1>6. a \in 1..n /\ b \in 1..n /\ b \in a..n
  BY <1>1, <1>3, <1>4
<1>7. \A i \in 1..n : i < a \/ i > b => t[i] = "/"
  BY <1>1, <1>3, <1>4, <1>6
<1>8. t[a] # "/"
  BY <1>1, <1>3, <1>6
<1>9. IsStrip(t, a, b)
  BY <1>5, <1>6, <1>7, <1>8 DEF IsStrip, n
<1> QED BY <1>6, <1>9 DEF n

LEMMA StripKeepsWords ==
  ASSUME NEW W, NEW t \in Seq(W)
  PROVE  Words(Strip(t)) = Words(t)
<1> DEFINE n == Len(t)
<1>1. n \in Nat /\ SubSeq(t, 1, n) = t
  BY SubSeqFull
<1>2. CASE \A i \in 1..n : t[i] = "/"
  <2>1. {i \in DOMAIN t : t[i] # "/"} = {}
    BY <1>2
  <2>2. Strip(t) = <<>>
    BY <2>1 DEF Strip
  <2>3. Words(t) = <<>>
    BY <1>2, BlankHasNoWords
  <2>4. Words(<<>>) = <<>>
    BY WordsAdd
  <2> QED BY <2>2, <2>3, <2>4
<1>3. CASE ~ (\A i \in 1..n : t[i] = "/")
  <2>1. PICK a, b \in 1..n : IsStrip(t, a, b)
    BY <1>3, StripIsWithin
  <2>2. /\ a \in 1..n /\ b \in a..n /\ Strip(t) = SubSeq(t, a, b)
        /\ \A i \in 1..n : i < a \/ i > b => t[i] = "/"
    BY <2>1 DEF IsStrip
  <2> HIDE DEF n
  <2>3. Words(SubSeq(t, 1, n)) = Words(SubSeq(t, 1, a - 1)) \o Words(SubSeq(t, (a - 1) + 1, n))
    <3>1. 1 \in 1..(n + 1) /\ a - 1 \in (1 - 1)..n /\ n \in (a - 1)..n
      BY <1>1, <2>2
    <3> QED BY <3>1, WordsSplit DEF n
  <2>4. Words(SubSeq(t, a, n)) = Words(SubSeq(t, a, b)) \o Words(SubSeq(t, b + 1, n))
    <3>1. a \in 1..(n + 1) /\ b \in (a - 1)..n /\ n \in b..n
      BY <1>1, <2>2
    <3> QED BY <3>1, WordsSplit DEF n
  <2>5. ASSUME NEW i \in 1..(n + 1), NEW j \in 0..n, \A k \in i..j : t[k] = "/"
        PROVE  SubSeq(t, i, j) \in Seq(W) /\ Words(SubSeq(t, i, j)) = <<>>
    <3> DEFINE s == SubSeq(t, i, j)
    <3>1. i \in Nat \ {0} /\ j \in Nat /\ j <= Len(t) /\ i \in Int /\ j \in Int
      BY <1>1 DEF n
    <3>2. \A k \in i..j : t[k] \in W
      BY <3>1
    <3>3. /\ s \in Seq(W) /\ Len(s) = (IF i <= j THEN j - i + 1 ELSE 0)
          /\ \A k \in 1..(j - i + 1) : s[k] = t[i + k - 1]
      BY <3>1, <3>2, SubSeqProperties
    <3> HIDE DEF s
    <3>4. \A k \in 1..Len(s) : s[k] = "/"
      <4> SUFFICES ASSUME NEW k \in 1..Len(s) PROVE s[k] = "/"
        OBVIOUS
      <4>1. k \in 1..(j - i + 1) /\ i + k - 1 \in i..j
        BY <3>1, <3>3
      <4> QED BY <2>5, <3>3, <4>1
    <3>5. Words(s) = <<>>
      BY <3>3, <3>4, BlankHasNoWords
    <3> QED BY <3>3, <3>5 DEF s
  <2>6. Words(SubSeq(t, 1, a - 1)) = <<>>
    <3>1. 1 \in 1..(n + 1) /\ a - 1 \in 0..n /\ \A k \in 1..(a - 1) : t[k] = "/"
      BY <1>1, <2>2
    <3> QED BY <2>5, <3>1
  <2>7. Words(SubSeq(t, b + 1, n)) = <<>>
    <3>1. b + 1 \in 1..(n + 1) /\ n \in 0..n /\ \A k \in (b + 1)..n : t[k] = "/"
      BY <1>1, <2>2
    <3> QED BY <2>5, <3>1
  <2> DEFINE s == SubSeq(t, a, b)
  <2>8. s \in Seq(W)
    <3>1. a \in Nat \ {0} /\ b \in Nat /\ b <= Len(t)
      BY <1>1, <2>2 DEF n
    <3> QED BY <3>1, SliceIsText
  <2> HIDE DEF s
  <2>9. Words(s) \in Seq(W)
    BY <2>8, WordsAdd
  <2> DEFINE w == Words(s)
  <2> HIDE DEF w
  <2>10. w \o <<>> = w /\ <<>> \o w = w
    BY <2>9, ConcatEmptySeq DEF w
  <2>11. (a - 1) + 1 = a
    BY <2>2
  <2> QED BY <1>1, <2>2, <2>3, <2>4, <2>6, <2>7, <2>10, <2>11 DEF w, s
<1> QED BY <1>2, <1>3

LEMMA NonBlankKeepsWords ==
  ASSUME NEW W, NEW t \in Seq(W)
  PROVE  AllWords(NonBlank(t)) = Words(t)
<1>1. CASE Words(t) = <<>>
  <2>1. AllWords(<<>>) = <<>>
    <3>1. <<>> \in Seq(Seq(W))
      OBVIOUS
    <3> QED BY <3>1, AllWordsAdd
  <2> QED BY <1>1, <2>1 DEF NonBlank
<1>2. CASE Words(t) # <<>>
  <2>1. Strip(t) \in Seq(W)
    BY StripIsText
  <2>2. AllWords(<<Strip(t)>>) = Words(Strip(t))
    BY <2>1, AllWordsJoin
  <2> QED BY <1>2, <2>2, StripKeepsWords DEF NonBlank
<1> QED BY <1>1, <1>2

\* A part with words that opens with one keeps it first.
LEMMA StripKeepsHead ==
  ASSUME NEW W, NEW t \in Seq(W), NEW a \in 1..Len(t), t[a] # "/",
         \A i \in 1..(a - 1) : t[i] = "/"
  PROVE  /\ NonBlank(t) = <<Strip(t)>> /\ Strip(t) \in Seq(W) /\ Strip(t) # <<>>
         /\ Strip(t)[1] = t[a]
<1>1. Words(t) # <<>>
  BY BlankHasNoWords
<1>2. PICK c, b \in 1..Len(t) : IsStrip(t, c, b)
  BY StripIsWithin
<1>3. /\ c \in 1..Len(t) /\ b \in c..Len(t) /\ Strip(t) = SubSeq(t, c, b)
      /\ t[c] # "/" /\ \A i \in 1..Len(t) : i < c \/ i > b => t[i] = "/"
  BY <1>2 DEF IsStrip
<1>4. c = a
  <2>1. ~ (c < a)
    BY <1>3
  <2>2. ~ (a < c)
    BY <1>3
  <2> QED BY <1>3, <2>1, <2>2
<1>5. \A i \in c..b : t[i] \in W
  BY <1>3
<1>6. /\ Len(SubSeq(t, c, b)) = b - c + 1
      /\ \A i \in 1..(b - c + 1) : SubSeq(t, c, b)[i] = t[c + i - 1]
  <2>1. c \in Int /\ b \in Int /\ c <= b
    BY <1>3
  <2> QED BY <1>5, <2>1, SubSeqProperties
<1> DEFINE s == SubSeq(t, c, b)
<1>7. s[1] = t[c] /\ Len(s) >= 1
  <2> HIDE DEF s
  <2>1. 1 \in 1..(b - c + 1) /\ c + 1 - 1 = c
    BY <1>3
  <2> QED BY <1>3, <1>6, <2>1 DEF s
<1>8. s # <<>>
  <2> HIDE DEF s
  <2> QED BY <1>7
<1>9. Strip(t) \in Seq(W)
  BY StripIsText
<1> HIDE DEF s
<1> QED BY <1>1, <1>3, <1>4, <1>7, <1>8, <1>9 DEF NonBlank, s

LEMMA WordsOfFlat ==
  ASSUME NEW W, NEW ss \in Seq(Seq(W))
  PROVE  Words(FlattenSeq(ss)) = AllWords(ss)
<1> DEFINE h == [x \in Seq(W) |-> Words(x)]
           n == Len(ss)
           tt == [k \in DOMAIN ss |-> Words(ss[k])]
<1>1. n \in Nat /\ ss \in [1..n -> Seq(W)] /\ DOMAIN ss = 1..n
  OBVIOUS
<1>2. \A k \in 1..n : ss[k] \in Seq(W) /\ Words(ss[k]) \in Seq(W)
  BY <1>1, WordsAdd
<1>3. Joins(h, W, W) /\ \A x \in Seq(W) : h[x] = Words(x)
  BY WordsJoin
<1> HIDE DEF n, h
<1>4. tt \in [1..n -> Seq(W)] /\ \A k \in 1..n : tt[k] = h[ss[k]]
  BY <1>1, <1>2, <1>3
<1> HIDE DEF tt
<1>5. h[FlattenSeq(ss)] = FlattenSeq(tt)
  <2>1. MakesOf(h, W, W, n, ss, tt)
    BY <1>1, <1>3, <1>4 DEF MakesOf
  <2> QED BY <1>1, <2>1, FlattenCommutes, Zenon
<1>6. FlattenSeq(ss) \in Seq(W)
  BY <1>1, FlattenIsSeq
<1> QED BY <1>3, <1>5, <1>6 DEF AllWords, Joined, tt

\* What is cut further keeps its words.
LEMMA SameWords ==
  ASSUME NEW W, NEW xs \in Seq(Seq(W)), NEW ss \in [1..Len(xs) -> Seq(Seq(W))],
         \A k \in 1..Len(xs) : AllWords(ss[k]) = Words(xs[k])
  PROVE  /\ AllWords(FlattenSeq(ss)) = AllWords(xs)
         /\ FlattenSeq(ss) \in Seq(Seq(W))
<1> DEFINE D == Seq(W)
           h == [x \in Seq(D) |-> AllWords(x)]
           n == Len(xs)
           tt == [k \in DOMAIN xs |-> Words(xs[k])]
<1>1. n \in Nat /\ ss \in [1..n -> Seq(D)] /\ DOMAIN xs = 1..n
  OBVIOUS
<1>2. \A k \in 1..n : xs[k] \in Seq(W) /\ Words(xs[k]) \in Seq(W) /\ AllWords(ss[k]) = Words(xs[k])
  BY <1>1, WordsAdd
<1>3. Joins(h, D, W) /\ \A x \in Seq(D) : h[x] = AllWords(x)
  BY AllWordsJoin
<1> HIDE DEF n, h
<1>4. tt \in [1..n -> Seq(W)] /\ \A k \in 1..n : tt[k] = h[ss[k]]
  BY <1>1, <1>2, <1>3
<1> HIDE DEF tt, D
<1>5. h[FlattenSeq(ss)] = FlattenSeq(tt)
  <2>1. MakesOf(h, D, W, n, ss, tt)
    BY <1>1, <1>3, <1>4 DEF MakesOf
  <2> QED BY <1>1, <2>1, FlattenCommutes, Zenon
<1>6. FlattenSeq(ss) \in Seq(D)
  BY <1>1, FlattenIsSeq
<1>7. AllWords(FlattenSeq(ss)) = AllWords(xs)
  BY <1>3, <1>5, <1>6 DEF AllWords, Joined, tt
<1> QED BY <1>6, <1>7 DEF D

\* Where the part that starts at i ends, if the cuts are before the positions
\* in P, and what it becomes.
EndOf(P, i, n) == Min({j \in P : j > i} \cup {n + 1}) - 1
Part(t, P, i) ==
  IF i = 1 \/ i \in P THEN NonBlank(SubSeq(t, i, EndOf(P, i, Len(t)))) ELSE <<>>
Parts(t, P) == [i \in 1..Len(t) |-> Part(t, P, i)]

LEMMA EndIsNext ==
  ASSUME NEW n \in Nat, NEW P \in SUBSET Nat, NEW i \in 0..n
  PROVE  /\ EndOf(P, i, n) \in i..n
         /\ \A j \in P : j > i => j > EndOf(P, i, n)
         /\ EndOf(P, i, n) = n \/ EndOf(P, i, n) + 1 \in P
<1> DEFINE Q == {j \in P : j > i} \cup {n + 1}
           m == Min(Q)
<1>1. Q \in SUBSET Nat /\ n + 1 \in Q
  <2>1. n + 1 \in Nat
    OBVIOUS
  <2>2. \A j \in Q : j \in Nat
    BY <2>1
  <2> QED BY <2>2
<1>2. \A j \in Q : j > i /\ (j = n + 1 \/ j \in P)
  OBVIOUS
<1>3. \A j \in P : j > i => j \in Q
  OBVIOUS
<1>4. EndOf(P, i, n) = m - 1
  BY DEF EndOf
<1> HIDE DEF Q
<1>5. m \in Q /\ \A j \in Q : m <= j
  BY <1>1, FirstIsIn
<1> HIDE DEF m
<1>6. m \in Nat /\ m > i /\ m <= n + 1
  BY <1>1, <1>2, <1>5
<1>7. m - 1 \in i..n
  BY <1>6
<1>8. \A j \in P : j > i => j > m - 1
  BY <1>3, <1>5, <1>6
<1>9. m - 1 = n \/ (m - 1) + 1 \in P
  BY <1>2, <1>5, <1>6
<1> QED BY <1>4, <1>7, <1>8, <1>9

LEMMA CutIsParts ==
  ASSUME NEW W, NEW t \in Seq(W), NEW P \in SUBSET Nat
  PROVE  /\ Cut(t, P) = FlattenSeq(Parts(t, P))
         /\ Parts(t, P) \in [1..Len(t) -> Seq(Seq(W))]
         /\ \A i \in 1..Len(t) : SubSeq(t, i, EndOf(P, i, Len(t))) \in Seq(W)
<1> DEFINE n == Len(t)
<1>1. n \in Nat /\ DOMAIN t = 1..n
  OBVIOUS
<1>2. ASSUME NEW i \in 1..n PROVE SubSeq(t, i, EndOf(P, i, n)) \in Seq(W)
  <2> DEFINE e == EndOf(P, i, n)
  <2>1. e \in i..n
    <3>1. i \in 0..n
      BY <1>1
    <3> HIDE DEF n
    <3> QED BY <1>1, <3>1, EndIsNext
  <2> HIDE DEF e
  <2>2. i \in Nat \ {0} /\ e \in Nat /\ e <= Len(t)
    BY <2>1
  <2>3. SubSeq(t, i, e) \in Seq(W)
    BY <2>2, SliceIsText
  <2> QED BY <2>3 DEF e
<1>3. ASSUME NEW i \in 1..n PROVE Part(t, P, i) \in Seq(Seq(W))
  <2>1. <<>> \in Seq(Seq(W))
    OBVIOUS
  <2>2. NonBlank(SubSeq(t, i, EndOf(P, i, n))) \in Seq(Seq(W))
    BY <1>2, StripIsText
  <2> QED BY <2>1, <2>2 DEF Part
<1>4. [i \in DOMAIN t |-> IF i = 1 \/ i \in P
                          THEN NonBlank(SubSeq(t, i, Min({j \in P : j > i} \cup {Len(t) + 1}) - 1))
                          ELSE <<>>] = Parts(t, P)
  BY <1>1 DEF Parts, Part, EndOf
<1> QED BY <1>2, <1>3, <1>4 DEF Cut, Parts

LEMMA CutKeepsWords ==
  ASSUME NEW W, NEW t \in Seq(W), NEW P \in SUBSET Nat
  PROVE  AllWords(Cut(t, P)) = Words(t)
<1> DEFINE n == Len(t)
           ss == Parts(t, P)
           D == Seq(W)
           h == [x \in Seq(D) |-> AllWords(x)]
           tt == [i \in 1..n |-> AllWords(ss[i])]
           e(i) == EndOf(P, i, n)
<1>1. n \in Nat /\ ss \in [1..n -> Seq(D)] /\ Cut(t, P) = FlattenSeq(ss)
  BY CutIsParts
<1>2. Joins(h, D, W) /\ \A x \in Seq(D) : h[x] = AllWords(x) /\ AllWords(x) \in Seq(W)
  BY AllWordsJoin, AllWordsAdd
<1> HIDE DEF h
<1>3. ASSUME NEW i \in 1..n
      PROVE  tt[i] = IF i = 1 \/ i \in P THEN Words(SubSeq(t, i, e(i))) ELSE <<>>
  <2>1. SubSeq(t, i, e(i)) \in Seq(W)
    BY CutIsParts
  <2>2. AllWords(NonBlank(SubSeq(t, i, e(i)))) = Words(SubSeq(t, i, e(i)))
    BY <2>1, NonBlankKeepsWords
  <2>3. <<>> \in Seq(Seq(W))
    OBVIOUS
  <2>4. AllWords(<<>>) = <<>>
    BY <2>3, AllWordsAdd
  <2> QED BY <2>2, <2>4 DEF Parts, Part
<1> HIDE DEF D
<1>4. tt \in [1..n -> Seq(W)] /\ \A i \in 1..n : tt[i] = h[ss[i]]
  BY <1>1, <1>2
<1> HIDE DEF tt, ss, n
<1>5. h[FlattenSeq(ss)] = FlattenSeq(tt)
  <2>1. MakesOf(h, D, W, n, ss, tt)
    BY <1>1, <1>2, <1>4 DEF MakesOf
  <2>2. n \in Nat
    BY <1>1
  <2> QED BY <2>1, <2>2, FlattenCommutes, Zenon
<1>6. FlattenSeq(ss) \in Seq(D)
  BY <1>1, FlattenIsSeq
<1>7. AllWords(Cut(t, P)) = FlattenSeq(tt)
  BY <1>1, <1>2, <1>5, <1>6
<1>8. PICK r \in [0..n -> Seq(W)] : Unrolls(r, n, tt)
  BY <1>1, <1>4, FlattenUnrolls, Zenon
<1>9. ASSUME NEW i \in 0..n
      PROVE  /\ e(i) \in i..n /\ \A j \in P : j > i => j > e(i)
             /\ e(i) = n \/ e(i) + 1 \in P
  BY <1>1, EndIsNext
<1> HIDE DEF e
<1> DEFINE T == {k \in Nat : k + 1 <= n => r[k + 1] = Words(SubSeq(t, 1, e(k + 1)))}
<1>10. 0 \in T
  <2> SUFFICES ASSUME 1 <= n PROVE r[1] = Words(SubSeq(t, 1, e(1)))
    OBVIOUS
  <2>1. 1 \in 1..n /\ 1 - 1 = 0
    BY <1>1
  <2>2. r[1] = <<>> \o tt[1] /\ tt[1] \in Seq(W)
    BY <1>4, <1>8, <2>1 DEF Unrolls
  <2>3. <<>> \o tt[1] = tt[1]
    BY <2>2, ConcatEmptySeq
  <2> QED BY <1>3, <2>1, <2>2, <2>3
<1>11. ASSUME NEW k \in Nat, k \in T PROVE k + 1 \in T
  <2> SUFFICES ASSUME (k + 1) + 1 <= n
               PROVE  r[(k + 1) + 1] = Words(SubSeq(t, 1, e((k + 1) + 1)))
    <3>1. k + 1 \in Nat
      OBVIOUS
    <3> QED BY <3>1
  <2> DEFINE m == (k + 1) + 1
  <2>1. /\ m \in 1..n /\ m - 1 = k + 1 /\ k + 1 \in 0..n /\ m \in 0..n /\ m # 1
        /\ k + 1 < m /\ k + 1 \in 1..n
    BY <1>1
  <2>2. r[k + 1] = Words(SubSeq(t, 1, e(k + 1)))
    BY <1>1, <1>11, <2>1
  <2> HIDE DEF m, T
  <2> DEFINE i == k + 1
  <2> HIDE DEF i
  <2>3. i \in 1..n /\ i \in 0..n /\ m - 1 = i /\ m = i + 1 /\ r[i] = Words(SubSeq(t, 1, e(i)))
    BY <2>1, <2>2 DEF i
  <2>4. r[m] = r[i] \o tt[m] /\ r[i] \in Seq(W)
    BY <1>8, <2>1, <2>3 DEF Unrolls
  <2>5. e(i) \in i..n /\ e(m) \in m..n
    BY <1>9, <2>1, <2>3
  <2> SUFFICES r[m] = Words(SubSeq(t, 1, e(m)))
    BY DEF m
  <2>6. CASE m \in P
    <3>1. e(i) = i
      <4>1. m > i
        BY <2>1, <2>3
      <4>2. m > e(i)
        BY <1>9, <2>3, <2>6, <4>1
      <4> QED BY <1>1, <2>1, <2>3, <2>5, <4>2
    <3>2. tt[m] = Words(SubSeq(t, m, e(m)))
      BY <1>3, <2>1, <2>6
    <3>3. Words(SubSeq(t, 1, e(m))) = Words(SubSeq(t, 1, i)) \o Words(SubSeq(t, i + 1, e(m)))
      <4>1. 1 \in 1..(n + 1) /\ i \in (1 - 1)..n /\ e(m) \in i..n
        BY <1>1, <2>1, <2>3, <2>5
      <4> QED BY <4>1, WordsSplit DEF n
    <3> QED BY <2>3, <2>4, <3>1, <3>2, <3>3
  <2>7. CASE m \notin P
    <3>1. tt[m] = <<>>
      BY <1>3, <2>1, <2>7
    <3>2. r[m] = r[i]
      BY <2>4, <3>1, ConcatEmptySeq
    <3>3. e(i) \in m..n
      <4>1. e(i) # i
        <5>1. i # n
          BY <1>1, <2>1, <2>3
        <5> QED BY <1>9, <2>3, <2>7, <5>1
      <4> QED BY <1>1, <2>1, <2>3, <2>5, <4>1
    <3>4. \A j \in P : j > e(i) => j > m
      BY <1>1, <2>1, <3>3
    <3>5. ~ (e(m) < e(i))
      <4> SUFFICES ASSUME e(m) < e(i) PROVE FALSE
        OBVIOUS
      <4>1. e(m) + 1 \in P
        BY <1>1, <1>9, <2>1, <2>5, <3>3
      <4>2. e(m) + 1 > i
        BY <1>1, <2>1, <2>3, <2>5
      <4>3. e(m) + 1 > e(i)
        BY <1>9, <2>3, <4>1, <4>2
      <4> QED BY <1>1, <2>5, <4>3
    <3>6. ~ (e(i) < e(m))
      <4> SUFFICES ASSUME e(i) < e(m) PROVE FALSE
        OBVIOUS
      <4>1. e(i) + 1 \in P
        BY <1>1, <1>9, <2>3, <2>5
      <4>2. e(i) + 1 > m
        BY <1>1, <2>1, <3>3
      <4>3. e(i) + 1 > e(m)
        BY <1>9, <2>1, <4>1, <4>2
      <4> QED BY <1>1, <2>5, <4>3
    <3>7. e(i) = e(m)
      BY <1>1, <2>5, <3>5, <3>6
    <3> QED BY <2>3, <3>2, <3>7
  <2> QED BY <2>6, <2>7
<1>12. CASE n = 0
  <2>1. r[n] = <<>>
    BY <1>8, <1>12 DEF Unrolls
  <2>2. Words(t) = <<>>
    <3>1. t = <<>>
      BY <1>12 DEF n
    <3> QED BY <3>1, WordsAdd
  <2> QED BY <1>7, <1>8, <2>1, <2>2 DEF Unrolls
<1>13. CASE n # 0
  <2>1. n - 1 \in Nat /\ (n - 1) + 1 = n
    BY <1>1, <1>13
  <2>2. n - 1 \in T
    <3> HIDE DEF T
    <3> QED BY <1>10, <1>11, <2>1, Induction
  <2>3. r[n] = Words(SubSeq(t, 1, e(n)))
    BY <1>1, <2>1, <2>2
  <2>4. e(n) = n
    <3>1. n \in 0..n
      BY <1>1
    <3> QED BY <1>1, <1>9, <3>1
  <2>5. SubSeq(t, 1, n) = t
    BY SubSeqFull DEF n
  <2> QED BY <1>7, <1>8, <2>3, <2>4, <2>5 DEF Unrolls
<1> QED BY <1>12, <1>13

LEMMA Quotient ==
  ASSUME NEW a \in Nat, NEW n \in Nat \ {0}
  PROVE  a \div n \in Nat /\ (a \div n) * n <= a /\ a < (a \div n) * n + n
<1>1. a = (a \div n) * n + (a % n) /\ a % n \in 0..(n - 1) /\ a \div n \in Int
  OBVIOUS
<1> QED BY <1>1

LEMMA MoreTimes ==
  ASSUME NEW n \in Nat, NEW x \in Nat, NEW y \in Nat, x <= y
  PROVE  x * n <= y * n
<1> DEFINE d == y - x
<1>1. d \in Nat /\ y = x + d
  OBVIOUS
<1> HIDE DEF d
<1>2. (x + d) * n = x * n + d * n /\ d * n \in Nat /\ x * n \in Nat
  BY <1>1
<1> DEFINE a == x * n
           b == d * n
<1> HIDE DEF a, b
<1>3. a + b = y * n /\ a \in Nat /\ b \in Nat
  BY <1>1, <1>2 DEF a, b
<1>4. a <= a + b
  BY <1>3
<1> QED BY <1>3, <1>4 DEF a

\* A text is its slices one after the other.
Ends(m, n, k) == IF k * n < m THEN k * n ELSE m

IsSliced(ss, s, n) ==
  /\ \A k \in 1..Len(ss) : /\ Ends(Len(s), n, k - 1) \in 0..(Len(s) - 1)
                           /\ Ends(Len(s), n, k) \in (Ends(Len(s), n, k - 1) + 1)..Len(s)
                           /\ Ends(Len(s), n, k) - Ends(Len(s), n, k - 1) <= n
                           /\ ss[k] = SubSeq(s, Ends(Len(s), n, k - 1) + 1, Ends(Len(s), n, k))
  /\ Ends(Len(s), n, 0) = 0 /\ Ends(Len(s), n, Len(ss)) = Len(s)

LEMMA SlicedIsCut ==
  ASSUME NEW W, NEW s \in Seq(W), NEW n \in Nat \ {0}
  PROVE  IsSliced(Sliced(s, n), s, n)
<1> DEFINE m == Len(s)
           last == (m + n - 1) \div n
           ss == Sliced(s, n)
<1>1. m \in Nat
  OBVIOUS
<1> HIDE DEF m
<1>2. last \in Nat /\ last * n <= m + n - 1 /\ m + n - 1 < last * n + n
  <2> DEFINE a == m + n - 1
  <2>1. a \in Nat
    BY <1>1
  <2> HIDE DEF a
  <2> QED BY <2>1, Quotient DEF a
<1>3. ss = [k \in 1..last |-> SubSeq(s, (k - 1) * n + 1, Ends(m, n, k))]
  BY DEF Sliced, Ends, m
<1> HIDE DEF last, ss
<1>4. Len(ss) = last
  BY <1>2, <1>3
<1>5. Ends(m, n, 0) = 0
  <2>1. 0 * n = 0
    OBVIOUS
  <2> QED BY <1>1, <2>1 DEF Ends
<1>6. Ends(m, n, last) = m
  <2> DEFINE b == last * n
  <2>1. b \in Nat
    BY <1>2
  <2>2. b <= m + n - 1 /\ m + n - 1 < b + n
    BY <1>2
  <2> HIDE DEF b
  <2>3. ~ (b < m)
    BY <1>1, <2>1, <2>2
  <2> QED BY <2>3 DEF Ends, b
<1>7. ASSUME NEW k \in 1..last
      PROVE  /\ Ends(m, n, k - 1) \in 0..(m - 1)
             /\ Ends(m, n, k) \in (Ends(m, n, k - 1) + 1)..m
             /\ Ends(m, n, k) - Ends(m, n, k - 1) <= n
             /\ ss[k] = SubSeq(s, Ends(m, n, k - 1) + 1, Ends(m, n, k))
  <2> DEFINE a == (k - 1) * n
             b == k * n
             c == last * n
  <2>1. k \in Nat /\ k - 1 \in Nat /\ k <= last
    BY <1>2
  <2>2. b <= c
    BY <1>2, <2>1, MoreTimes
  <2>3. a \in Nat /\ b \in Nat /\ c \in Nat /\ b = a + n
    <3>1. (k - 1) * n + n = k * n
      BY <2>1
    <3>2. \A x \in Nat : x * n \in Nat
      OBVIOUS
    <3> QED BY <1>2, <2>1, <3>1, <3>2
  <2>4. c <= m + n - 1
    BY <1>2
  <2>5. Ends(m, n, k - 1) = IF a < m THEN a ELSE m
    BY DEF Ends
  <2>6. Ends(m, n, k) = IF b < m THEN b ELSE m
    BY DEF Ends
  <2>7. ss[k] = SubSeq(s, a + 1, Ends(m, n, k))
    BY <1>3
  <2> HIDE DEF a, b, c
  <2>8. a < m
    BY <1>1, <2>2, <2>3, <2>4
  <2>9. Ends(m, n, k - 1) = a
    BY <2>5, <2>8
  <2>10. Ends(m, n, k) \in (a + 1)..m /\ Ends(m, n, k) - a <= n
    BY <1>1, <2>3, <2>6, <2>8
  <2> QED BY <1>1, <2>3, <2>7, <2>8, <2>9, <2>10
<1> QED BY <1>4, <1>5, <1>6, <1>7 DEF IsSliced, m, ss

LEMMA SlicesJoin ==
  ASSUME NEW W, NEW s \in Seq(W), NEW n \in Nat \ {0}
  PROVE  FlattenSeq(Sliced(s, n)) = s
<1> DEFINE m == Len(s)
           ss == Sliced(s, n)
           l == Len(ss)
           e(k) == Ends(m, n, k)
<1>1. ss \in Seq(Seq(W)) /\ IsSliced(ss, s, n)
  BY SlicedIsTexts, SlicedIsCut
<1> HIDE DEF ss
<1>2. m \in Nat /\ l \in Nat /\ ss \in [1..l -> Seq(W)]
  BY <1>1
<1>3. /\ \A k \in 1..l : /\ e(k - 1) \in 0..(m - 1) /\ e(k) \in (e(k - 1) + 1)..m
                         /\ ss[k] = SubSeq(s, e(k - 1) + 1, e(k))
      /\ e(0) = 0 /\ e(l) = m
  BY <1>1 DEF IsSliced
<1> HIDE DEF m, l, e
<1>4. PICK r \in [0..l -> Seq(W)] : Unrolls(r, l, ss)
  BY <1>2, FlattenUnrolls, Zenon
<1> DEFINE T == {k \in Nat : k <= l => r[k] = SubSeq(s, 1, e(k))}
<1>5. 0 \in T
  <2>1. SubSeq(s, 1, 0) = <<>>
    BY SubSeqEmpty
  <2> QED BY <1>3, <1>4, <2>1 DEF Unrolls
<1>6. ASSUME NEW k \in Nat, k \in T PROVE k + 1 \in T
  <2> SUFFICES ASSUME k + 1 <= l PROVE r[k + 1] = SubSeq(s, 1, e(k + 1))
    OBVIOUS
  <2>1. k + 1 \in 1..l /\ (k + 1) - 1 = k /\ r[k] = SubSeq(s, 1, e(k))
    BY <1>2, <1>6
  <2>2. r[k + 1] = r[k] \o ss[k + 1]
    BY <1>4, <2>1 DEF Unrolls
  <2>3. e(k) \in 0..(m - 1) /\ e(k + 1) \in (e(k) + 1)..m /\ ss[k + 1] = SubSeq(s, e(k) + 1, e(k + 1))
    BY <1>3, <2>1
  <2>4. 1 \in 1..(m + 1) /\ e(k) \in (1 - 1)..m /\ e(k + 1) \in e(k)..m
    BY <1>2, <2>3
  <2>5. SubSeq(s, 1, e(k)) \o SubSeq(s, e(k) + 1, e(k + 1)) = SubSeq(s, 1, e(k + 1))
    BY <2>4, ConcatAdjacentSubSeq DEF m
  <2> QED BY <2>1, <2>2, <2>3, <2>5
<1>7. l \in T
  <2> HIDE DEF T
  <2> QED BY <1>2, <1>5, <1>6, Induction
<1>8. r[l] = SubSeq(s, 1, m)
  BY <1>2, <1>3, <1>7
<1>9. SubSeq(s, 1, m) = s
  BY SubSeqFull DEF m
<1> QED BY <1>4, <1>8, <1>9 DEF Unrolls, ss

LEMMA SlicesKeepWords ==
  ASSUME NEW W, NEW s \in Seq(W), NEW n \in Nat \ {0}
  PROVE  AllWords(Sliced(s, n)) = Words(s)
<1> DEFINE ss == Sliced(s, n)
<1>1. ss \in Seq(Seq(W)) /\ FlattenSeq(ss) = s
  BY SlicedIsTexts, SlicesJoin
<1> HIDE DEF ss
<1>2. Words(FlattenSeq(ss)) = AllWords(ss)
  BY <1>1, WordsOfFlat
<1> QED BY <1>1, <1>2 DEF ss

\* The slices are short, and the first opens as the text does.
LEMMA SlicesAreShort ==
  ASSUME NEW W, NEW s \in Seq(W), NEW n \in Nat \ {0}
  PROVE  /\ \A k \in 1..Len(Sliced(s, n)) : Len(Sliced(s, n)[k]) <= n
         /\ s # <<>> => /\ Len(Sliced(s, n)) >= 1 /\ Sliced(s, n)[1] # <<>>
                        /\ Sliced(s, n)[1][1] = s[1]
<1> DEFINE m == Len(s)
           ss == Sliced(s, n)
           l == Len(ss)
           e(k) == Ends(m, n, k)
<1>1. ss \in Seq(Seq(W)) /\ IsSliced(ss, s, n)
  BY SlicedIsTexts, SlicedIsCut
<1> HIDE DEF ss
<1>2. m \in Nat /\ l \in Nat
  BY <1>1
<1>3. /\ \A k \in 1..l : /\ e(k - 1) \in 0..(m - 1) /\ e(k) \in (e(k - 1) + 1)..m
                         /\ e(k) - e(k - 1) <= n /\ ss[k] = SubSeq(s, e(k - 1) + 1, e(k))
      /\ e(0) = 0 /\ e(l) = m
  BY <1>1 DEF IsSliced
<1> HIDE DEF l, e
<1>4. ASSUME NEW k \in 1..l
      PROVE  /\ Len(ss[k]) = e(k) - e(k - 1) /\ Len(ss[k]) <= n /\ Len(ss[k]) >= 1
             /\ ss[k][1] = s[e(k - 1) + 1]
  <2> DEFINE a == e(k - 1) + 1
             b == e(k)
             x == SubSeq(s, a, b)
  <2>1. a \in 1..m /\ b \in a..m /\ b - a + 1 <= n /\ b - a + 1 = e(k) - e(k - 1)
    BY <1>2, <1>3
  <2> HIDE DEF a, b
  <2>2. \A i \in a..b : s[i] \in W
    BY <2>1
  <2>3. Len(x) = b - a + 1 /\ \A i \in 1..(b - a + 1) : x[i] = s[a + i - 1]
    BY <2>1, <2>2, SubSeqProperties
  <2> HIDE DEF x
  <2>4. 1 \in 1..(b - a + 1) /\ a + 1 - 1 = a
    BY <2>1
  <2>5. x[1] = s[a]
    BY <2>3, <2>4
  <2>6. ss[k] = x
    BY <1>3 DEF x, a, b
  <2> QED BY <1>2, <2>1, <2>3, <2>5, <2>6 DEF a
<1>5. ASSUME s # <<>> PROVE l >= 1 /\ ss[1] # <<>> /\ ss[1][1] = s[1]
  <2>1. m # 0
    BY <1>5
  <2>2. l # 0
    BY <1>3, <2>1
  <2>3. 1 \in 1..l /\ 1 - 1 = 0
    BY <1>2, <2>2
  <2>4. Len(ss[1]) >= 1 /\ ss[1][1] = s[e(0) + 1]
    BY <1>4, <2>3
  <2>5. ss[1] # <<>>
    BY <2>4
  <2> QED BY <1>2, <1>3, <2>2, <2>4, <2>5
<1> QED BY <1>4, <1>5 DEF l, ss

-----------------------------------------------------------------------------
(* The clauses of a contract. *)

\* Texts that are short enough for a review.
Short(W) == {x \in Seq(W) : Len(x) <= MaxClauseChars}

OpensWith(ps, x) == Len(ps) >= 1 /\ ps[1] # <<>> /\ ps[1][1] = x

LEMMA OpeningStays ==
  ASSUME NEW W, NEW ps \in Seq(Seq(W)), NEW qs \in Seq(Seq(W)), NEW x, OpensWith(ps, x)
  PROVE  OpensWith(ps \o qs, x)
<1>1. /\ Len(ps \o qs) = Len(ps) + Len(qs) /\ Len(ps) \in Nat /\ Len(qs) \in Nat
      /\ \A i \in 1..(Len(ps) + Len(qs)) :
           (ps \o qs)[i] = IF i <= Len(ps) THEN ps[i] ELSE qs[i - Len(ps)]
  BY ConcatProperties
<1> DEFINE u == ps \o qs
           m == Len(ps)
           n == Len(qs)
<1> HIDE DEF u, m, n
<1>2. /\ Len(u) = m + n /\ m \in Nat /\ n \in Nat /\ m >= 1
      /\ \A i \in 1..(m + n) : u[i] = IF i <= m THEN ps[i] ELSE qs[i - m]
  BY <1>1 DEF u, m, n, OpensWith
<1>3. u[1] = ps[1] /\ Len(u) >= 1
  BY <1>2
<1> QED BY <1>3 DEF OpensWith, u

LEMMA ShortAreTexts ==
  ASSUME NEW W, NEW ps \in Seq(Short(W))
  PROVE  ps \in Seq(Seq(W))
<1>1. Short(W) \subseteq Seq(W)
  BY DEF Short
<1> DEFINE S == Short(W)
           T == Seq(W)
<1> HIDE DEF S, T
<1>2. S \subseteq T /\ ps \in Seq(S)
  BY <1>1 DEF S, T
<1>3. ps \in Seq(T)
  BY <1>2, SeqMonotonic
<1> QED BY <1>3 DEF T

Chunking(W) == [done : Seq(Short(W)), open : Short(W)]

LEMMA ClosedIsShort ==
  ASSUME NEW W, NEW acc \in Chunking(W)
  PROVE  /\ Closed(acc) \in Seq(Short(W)) /\ acc.done \in Seq(Short(W)) /\ acc.open \in Short(W)
         /\ acc.open = <<>> => Closed(acc) = acc.done
         /\ acc.open # <<>> => Closed(acc) = acc.done \o <<acc.open>>
<1> DEFINE S == Short(W)
           done == acc.done
           open == acc.open
<1>1. done \in Seq(S) /\ open \in S
  BY DEF Chunking
<1>2. Closed(acc) = done \o (IF open = <<>> THEN <<>> ELSE <<open>>)
  BY DEF Closed
<1> HIDE DEF S, done, open
<1>3. <<open>> \in Seq(S) /\ done \o <<>> = done
  BY <1>1, ConcatEmptySeq
<1>4. done \o <<open>> \in Seq(S)
  BY <1>1, <1>3, ConcatProperties
<1> QED BY <1>1, <1>2, <1>3, <1>4 DEF S, done, open

\* Nothing of an atom is lost.
PackedWell(W, acc, atom, next) ==
  /\ next \in Chunking(W)
  /\ AllWords(Closed(next)) = AllWords(Closed(acc)) \o Words(atom)
  /\ \A x : OpensWith(Closed(acc), x) => OpensWith(Closed(next), x)
  /\ Closed(acc) = <<>> /\ atom # <<>> => OpensWith(Closed(next), atom[1])

LEMMA PackedKeepsWords ==
  ASSUME NEW W, "/" \in W, NEW acc \in Chunking(W), NEW atom \in Seq(W), ClausesAssumption
  PROVE  PackedWell(W, acc, atom, Packed(acc, atom))
<1> DEFINE S == Short(W)
           T == Seq(W)
           done == acc.done
           open == acc.open
           closed == Closed(acc)
           next == Packed(acc, atom)
<1>1. /\ closed \in Seq(S) /\ done \in Seq(S) /\ open \in S
      /\ open = <<>> => closed = done
      /\ open # <<>> => closed = done \o <<open>>
  BY ClosedIsShort
<1>2. MaxClauseChars \in Nat \ {0} /\ DOMAIN acc = {"done", "open"}
  BY DEF ClausesAssumption, Chunking
<1>3. \A x \in S : x \in T /\ <<x>> \in Seq(S) /\ <<x>> \in Seq(T)
  BY DEF Short
<1>4. \A ps \in Seq(S) : ps \in Seq(T) /\ ps \o <<>> = ps
  BY ShortAreTexts, ConcatEmptySeq
<1>5. \A ps \in Seq(S), qs \in Seq(S) :
        /\ ps \o qs \in Seq(S) /\ AllWords(ps \o qs) = AllWords(ps) \o AllWords(qs)
        /\ \A x : OpensWith(ps, x) => OpensWith(ps \o qs, x)
  <2> SUFFICES ASSUME NEW ps \in Seq(S), NEW qs \in Seq(S)
               PROVE  /\ ps \o qs \in Seq(S) /\ AllWords(ps \o qs) = AllWords(ps) \o AllWords(qs)
                      /\ \A x : OpensWith(ps, x) => OpensWith(ps \o qs, x)
    OBVIOUS
  <2>1. ps \in Seq(Seq(W)) /\ qs \in Seq(Seq(W))
    BY ShortAreTexts
  <2>2. ps \o qs \in Seq(S)
    <3> HIDE DEF S
    <3> QED BY ConcatProperties
  <2> QED BY <2>1, <2>2, AllWordsAdd, OpeningStays
<1>6. \A x \in T : AllWords(<<x>>) = Words(x)
  BY AllWordsJoin
<1>7. CASE Len(atom) > MaxClauseChars
  <2> DEFINE ss == Sliced(atom, MaxClauseChars)
  <2>1. next = [done |-> closed \o ss, open |-> <<>>]
    BY <1>7 DEF Packed
  <2>2. ss \in Seq(Seq(W)) /\ AllWords(ss) = Words(atom)
    BY <1>2, SlicedIsTexts, SlicesKeepWords
  <2>3. /\ \A k \in 1..Len(ss) : Len(ss[k]) <= MaxClauseChars
        /\ atom # <<>> => OpensWith(ss, atom[1])
    BY <1>2, SlicesAreShort DEF OpensWith
  <2> HIDE DEF ss, next
  <2>4. ss \in Seq(S)
    <3>1. \A k \in 1..Len(ss) : ss[k] \in S
      BY <2>2, <2>3 DEF Short
    <3>2. ss \in [1..Len(ss) -> S] /\ Len(ss) \in Nat
      BY <2>2, <3>1
    <3> QED BY <3>2
  <2>5. closed \o ss \in Seq(S)
    BY <1>1, <1>5, <2>4
  <2>6. <<>> \in S
    BY <1>2 DEF Short
  <2>7. next \in Chunking(W) /\ next.open = <<>> /\ next.done = closed \o ss
    <3> HIDE DEF closed
    <3> QED BY <2>1, <2>5, <2>6 DEF Chunking
  <2>8. Closed(next) = closed \o ss
    BY <2>7, ClosedIsShort
  <2>9. AllWords(closed \o ss) = AllWords(closed) \o Words(atom)
    BY <1>1, <1>5, <2>2, <2>4
  <2>10. \A x : OpensWith(closed, x) => OpensWith(closed \o ss, x)
    BY <1>1, <1>5, <2>4
  <2>11. closed = <<>> => closed \o ss = ss
    <3> HIDE DEF closed
    <3> QED BY <2>4, ConcatEmptySeq
  <2> HIDE DEF closed
  <2> QED BY <2>3, <2>7, <2>8, <2>9, <2>10, <2>11 DEF PackedWell, closed, next
<1>8. CASE ~ (Len(atom) > MaxClauseChars) /\ open # <<>> /\ Len(open) + 1 + Len(atom) > MaxClauseChars
  <2>1. next = [acc EXCEPT !.done = Append(done, open), !.open = atom]
    BY <1>8 DEF Packed
  <2>2. atom \in S
    BY <1>2, <1>8 DEF Short
  <2>3. Append(done, open) = closed
    <3> HIDE DEF S, done, open, closed
    <3> QED BY <1>1, <1>8, AppendIsConcat DEF open
  <2> HIDE DEF next, closed
  <2>4. next \in Chunking(W) /\ next.open = atom /\ next.done = closed
    BY <1>1, <1>2, <2>1, <2>2, <2>3 DEF Chunking
  <2>5. closed # <<>>
    BY <1>1, <1>8, <2>3 DEF closed
  <2>6. CASE atom = <<>>
    <3>1. Closed(next) = closed
      BY <2>4, <2>6, ClosedIsShort
    <3>2. Words(atom) = <<>>
      BY <2>6, WordsAdd
    <3>3. AllWords(closed) \o <<>> = AllWords(closed)
      <4>1. AllWords(closed) \in Seq(W)
        BY <1>1, <1>4, AllWordsAdd
      <4> DEFINE w == AllWords(closed)
      <4> HIDE DEF w
      <4>2. w \o <<>> = w
        BY <4>1, ConcatEmptySeq DEF w
      <4> QED BY <4>2 DEF w
    <3> QED BY <2>4, <2>5, <3>1, <3>2, <3>3 DEF PackedWell, closed, next
  <2>7. CASE atom # <<>>
    <3>1. Closed(next) = closed \o <<atom>>
      BY <2>4, <2>7, ClosedIsShort
    <3>2. /\ AllWords(closed \o <<atom>>) = AllWords(closed) \o Words(atom)
          /\ \A x : OpensWith(closed, x) => OpensWith(closed \o <<atom>>, x)
      BY <1>1, <1>3, <1>5, <1>6, <2>2
    <3> QED BY <2>4, <2>5, <3>1, <3>2 DEF PackedWell, closed, next
  <2> QED BY <2>6, <2>7
<1>9. CASE ~ (Len(atom) > MaxClauseChars) /\ open = <<>>
  <2>1. next = [acc EXCEPT !.open = atom]
    BY <1>9 DEF Packed
  <2>2. atom \in S
    BY <1>2, <1>9 DEF Short
  <2> HIDE DEF next, closed
  <2>3. next \in Chunking(W) /\ next.open = atom /\ next.done = closed
    BY <1>1, <1>2, <1>9, <2>1, <2>2 DEF Chunking
  <2>4. CASE atom = <<>>
    <3>1. Closed(next) = closed
      BY <2>3, <2>4, ClosedIsShort
    <3>2. Words(atom) = <<>>
      BY <2>4, WordsAdd
    <3>3. AllWords(closed) \o <<>> = AllWords(closed)
      <4>1. AllWords(closed) \in Seq(W)
        BY <1>1, <1>4, AllWordsAdd
      <4> DEFINE w == AllWords(closed)
      <4> HIDE DEF w
      <4>2. w \o <<>> = w
        BY <4>1, ConcatEmptySeq DEF w
      <4> QED BY <4>2 DEF w
    <3> QED BY <2>3, <2>4, <3>1, <3>2, <3>3 DEF PackedWell, closed, next
  <2>5. CASE atom # <<>>
    <3>1. Closed(next) = closed \o <<atom>>
      BY <2>3, <2>5, ClosedIsShort
    <3>2. /\ AllWords(closed \o <<atom>>) = AllWords(closed) \o Words(atom)
          /\ \A x : OpensWith(closed, x) => OpensWith(closed \o <<atom>>, x)
      BY <1>1, <1>3, <1>5, <1>6, <2>2
    <3>3. closed = <<>> => OpensWith(closed \o <<atom>>, atom[1])
      <4> SUFFICES ASSUME closed = <<>> PROVE OpensWith(closed \o <<atom>>, atom[1])
        OBVIOUS
      <4> DEFINE x == <<atom>>
      <4>1. x \in Seq(S) /\ Len(x) = 1 /\ x[1] = atom
        BY <1>3, <2>2
      <4> HIDE DEF x
      <4>2. closed \o x = x
        BY <4>1, ConcatEmptySeq
      <4> QED BY <2>5, <4>1, <4>2 DEF OpensWith, x
    <3> QED BY <2>3, <3>1, <3>2, <3>3 DEF PackedWell, closed, next
  <2> QED BY <2>4, <2>5
<1>10. CASE ~ (Len(atom) > MaxClauseChars) /\ open # <<>> /\ ~ (Len(open) + 1 + Len(atom) > MaxClauseChars)
  <2> DEFINE x == open \o <<"/">> \o atom
  <2>1. next = [acc EXCEPT !.open = x]
    BY <1>10 DEF Packed
  <2>2. open \in T /\ <<"/">> \in T /\ Len(<<"/">>) = 1
    BY <1>1, <1>3
  <2>3. /\ x \in T /\ Len(x) = Len(open) + 1 + Len(atom)
        /\ x[1] = open[1] /\ x # <<>> /\ Words(x) = Words(open) \o Words(atom)
    <3> DEFINE o == open
               b == <<"/">>
               y == o \o b
    <3> HIDE DEF o, b
    <3>1. o \in Seq(W) /\ b \in Seq(W) /\ Len(b) = 1 /\ Len(o) \in Nat /\ Len(o) # 0 /\ Len(atom) \in Nat
      BY <1>10, <2>2 DEF o, b
    <3>2. /\ y \in Seq(W) /\ Len(y) = Len(o) + Len(b)
          /\ \A i \in 1..(Len(o) + Len(b)) : y[i] = IF i <= Len(o) THEN o[i] ELSE b[i - Len(o)]
      BY <3>1, ConcatProperties
    <3>3. Words(y) = Words(o) \o Words(b)
      BY <3>1, WordsAdd
    <3>4. Words(b) = <<>>
      BY WordsJoin DEF b
    <3>5. Words(o) \in Seq(W)
      BY <3>1, WordsAdd
    <3>6. Words(y) = Words(o)
      BY <3>3, <3>4, <3>5, ConcatEmptySeq
    <3>7. y[1] = o[1]
      BY <3>1, <3>2
    <3> DEFINE z == y \o atom
    <3> HIDE DEF y
    <3>8. /\ z \in Seq(W) /\ Len(z) = Len(y) + Len(atom)
          /\ \A i \in 1..(Len(y) + Len(atom)) : z[i] = IF i <= Len(y) THEN y[i] ELSE atom[i - Len(y)]
      BY <3>2, ConcatProperties
    <3>9. Words(z) = Words(y) \o Words(atom)
      BY <3>2, WordsAdd
    <3>10. z = x
      BY DEF y, o, b
    <3> HIDE DEF z
    <3>11. z[1] = y[1] /\ Len(z) # 0
      BY <3>1, <3>2, <3>8
    <3>12. z # <<>>
      BY <3>11
    <3> HIDE DEF x
    <3> QED BY <3>1, <3>2, <3>6, <3>7, <3>8, <3>9, <3>10, <3>11, <3>12 DEF o
  <2> HIDE DEF x, next, closed
  <2>4. x \in S
    BY <1>2, <1>10, <2>2, <2>3 DEF Short
  <2>5. next \in Chunking(W) /\ next.open = x /\ next.done = done
    BY <1>1, <1>2, <2>1, <2>4 DEF Chunking
  <2>6. Closed(next) = done \o <<x>>
    BY <2>3, <2>5, ClosedIsShort
  <2>7. /\ AllWords(done \o <<x>>) = AllWords(done) \o Words(x)
        /\ AllWords(done \o <<open>>) = AllWords(done) \o Words(open)
    BY <1>1, <1>3, <1>5, <1>6, <2>4
  <2>8. AllWords(Closed(next)) = AllWords(closed) \o Words(atom)
    <3> DEFINE a == AllWords(done)
               b == Words(open)
               c == Words(atom)
    <3>1. a \in Seq(W) /\ b \in Seq(W) /\ c \in Seq(W)
      BY <1>1, <1>4, <2>2, AllWordsAdd, WordsAdd
    <3>2. /\ AllWords(Closed(next)) = a \o (b \o c)
          /\ AllWords(closed) = a \o b
      BY <1>1, <1>10, <2>3, <2>6, <2>7
    <3> HIDE DEF a, b, c
    <3>3. (a \o b) \o c = a \o (b \o c)
      BY <3>1, ConcatAssociative
    <3> QED BY <3>2, <3>3 DEF c
  <2>9. \A y : OpensWith(closed, y) => OpensWith(Closed(next), y)
    <3> SUFFICES ASSUME NEW y, OpensWith(closed, y) PROVE OpensWith(Closed(next), y)
      OBVIOUS
    <3> DEFINE p == <<open>>
               q == <<x>>
               d == done
    <3>1. p \in Seq(S) /\ q \in Seq(S) /\ p[1] = open /\ q[1] = x /\ Len(p) = 1 /\ Len(q) = 1
      BY <1>1, <1>3, <2>4
    <3>2. closed = d \o p /\ Closed(next) = d \o q /\ d \in Seq(S)
      BY <1>1, <1>10, <2>6
    <3> HIDE DEF p, q, d
    <3>3. CASE d = <<>>
      <4>1. d \o p = p /\ d \o q = q
        BY <3>1, <3>3, ConcatEmptySeq
      <4> QED BY <2>3, <3>1, <3>2, <4>1 DEF OpensWith
    <3>4. CASE d # <<>>
      <4> HIDE DEF S
      <4>1. Len(d) \in Nat /\ Len(d) >= 1
        BY <3>2, <3>4
      <4>2. (d \o p)[1] = d[1]
        BY <3>1, <3>2, <4>1, ConcatProperties
      <4>3. OpensWith(d, y)
        BY <3>2, <4>1, <4>2 DEF OpensWith
      <4> QED BY <1>5, <3>1, <3>2, <4>3
    <3> QED BY <3>3, <3>4
  <2>10. closed # <<>>
    <3> DEFINE p == <<open>>
    <3>1. p \in Seq(S) /\ p # <<>> /\ closed = done \o p
      BY <1>1, <1>3, <1>10
    <3> HIDE DEF p, done, S
    <3> QED BY <1>1, <3>1, ConcatEqualIffEmpty
  <2> QED BY <2>5, <2>8, <2>9, <2>10 DEF PackedWell, closed, next
<1> QED BY <1>7, <1>8, <1>9, <1>10

LEMMA FlattenOpens ==
  ASSUME NEW W, NEW n \in Nat \ {0}, NEW ss \in [1..n -> Seq(Seq(W))], NEW x, OpensWith(ss[1], x)
  PROVE  OpensWith(FlattenSeq(ss), x)
<1> DEFINE D == Seq(W)
<1>1. ss \in [1..n -> Seq(D)] /\ n \in Nat
  OBVIOUS
<1> HIDE DEF D
<1>2. PICK r \in [0..n -> Seq(D)] : Unrolls(r, n, ss)
  BY <1>1, FlattenUnrolls, Zenon
<1> DEFINE T == {k \in Nat : k + 1 <= n => OpensWith(r[k + 1], x)}
<1>3. 0 \in T
  <2>1. 1 \in 1..n /\ 1 - 1 = 0 /\ 0 + 1 = 1
    OBVIOUS
  <2>2. r[1] = <<>> \o ss[1] /\ ss[1] \in Seq(D)
    BY <1>1, <1>2, <2>1 DEF Unrolls
  <2>3. r[1] = ss[1]
    BY <2>2, ConcatEmptySeq
  <2> QED BY <2>1, <2>3
<1>4. ASSUME NEW k \in Nat, k \in T PROVE k + 1 \in T
  <2> SUFFICES ASSUME (k + 1) + 1 <= n PROVE OpensWith(r[(k + 1) + 1], x)
    <3>1. k + 1 \in Nat
      OBVIOUS
    <3> QED BY <3>1
  <2> DEFINE m == (k + 1) + 1
  <2>1. m \in 1..n /\ m - 1 = k + 1 /\ k + 1 \in 0..n
    OBVIOUS
  <2>2. OpensWith(r[k + 1], x)
    BY <1>4, <2>1
  <2> HIDE DEF m
  <2>3. r[m] = r[k + 1] \o ss[m] /\ r[k + 1] \in Seq(D) /\ ss[m] \in Seq(D)
    BY <1>1, <1>2, <2>1 DEF Unrolls
  <2> DEFINE p == r[k + 1]
             q == ss[m]
  <2> HIDE DEF p, q
  <2>4. p \in Seq(Seq(W)) /\ q \in Seq(Seq(W)) /\ OpensWith(p, x)
    BY <2>2, <2>3 DEF p, q, D
  <2>5. OpensWith(p \o q, x)
    BY <2>4, OpeningStays
  <2>6. OpensWith(r[m], x)
    BY <2>3, <2>5 DEF p, q
  <2> QED BY <2>6 DEF m
<1>5. n - 1 \in T /\ (n - 1) + 1 = n
  <2>1. n - 1 \in Nat /\ (n - 1) + 1 = n
    OBVIOUS
  <2> HIDE DEF T
  <2> QED BY <1>3, <1>4, <2>1, Induction
<1>6. OpensWith(r[n], x)
  BY <1>5
<1> QED BY <1>2, <1>6 DEF Unrolls

\* A part keeps its first word first.
LEMMA PartOpens ==
  ASSUME NEW W, NEW t \in Seq(W), NEW P \in SUBSET Nat, NEW i \in 1..Len(t), i = 1 \/ i \in P,
         NEW j \in i..EndOf(P, i, Len(t)), t[j] # "/", \A m \in i..(j - 1) : t[m] = "/"
  PROVE  OpensWith(Part(t, P, i), t[j]) /\ Len(Part(t, P, i)) = 1
<1> DEFINE n == Len(t)
           e == EndOf(P, i, n)
           s == SubSeq(t, i, e)
           a == j - i + 1
<1>0. n \in Nat
  OBVIOUS
<1>1. s \in Seq(W)
  <2>1. \A k \in 1..Len(t) : SubSeq(t, k, EndOf(P, k, Len(t))) \in Seq(W)
    BY CutIsParts
  <2>2. SubSeq(t, i, EndOf(P, i, Len(t))) \in Seq(W)
    BY <2>1
  <2> QED BY <2>2
<1>2. e \in i..n
  <2>1. i \in 0..n
    BY <1>0
  <2> HIDE DEF n
  <2> QED BY <1>0, <2>1, EndIsNext
<1>3. Part(t, P, i) = NonBlank(s)
  BY DEF Part
<1>4. j \in i..e
  OBVIOUS
<1> HIDE DEF n, e
<1>5. i \in Int /\ e \in Int /\ i <= e /\ \A m \in i..e : t[m] \in W
  BY <1>0, <1>2 DEF n
<1>6. Len(s) = e - i + 1 /\ \A m \in 1..(e - i + 1) : s[m] = t[i + m - 1]
  BY <1>5, SubSeqProperties
<1> HIDE DEF s
<1>7. a \in 1..Len(s) /\ s[a] = t[j]
  <2>1. a \in 1..(e - i + 1) /\ i + a - 1 = j
    BY <1>4, <1>5
  <2> QED BY <1>6, <2>1
<1>8. \A m \in 1..(a - 1) : s[m] = "/"
  <2> SUFFICES ASSUME NEW m \in 1..(a - 1) PROVE s[m] = "/"
    OBVIOUS
  <2>1. m \in 1..(e - i + 1) /\ i + m - 1 \in i..(j - 1)
    BY <1>4, <1>5
  <2> QED BY <1>6, <2>1
<1> HIDE DEF a
<1>9. NonBlank(s) = <<Strip(s)>> /\ Strip(s) # <<>> /\ Strip(s)[1] = t[j]
  BY <1>1, <1>7, <1>8, StripKeepsHead
<1> QED BY <1>3, <1>9 DEF OpensWith

\* A text that opens with a word is cut into parts of which the first does.
LEMMA CutOpens ==
  ASSUME NEW W, NEW t \in Seq(W), NEW P \in SUBSET Nat, t # <<>>, t[1] # "/"
  PROVE  OpensWith(Cut(t, P), t[1])
<1> DEFINE n == Len(t)
<1>1. n \in Nat \ {0} /\ 1 \in 1..n
  OBVIOUS
<1>2. Cut(t, P) = FlattenSeq(Parts(t, P)) /\ Parts(t, P) \in [1..n -> Seq(Seq(W))]
  BY CutIsParts
<1>3. EndOf(P, 1, n) \in 1..n
  <2>1. n \in Nat /\ 1 \in 0..n
    BY <1>1
  <2> HIDE DEF n
  <2> QED BY <2>1, EndIsNext
<1>4. Parts(t, P)[1] = Part(t, P, 1)
  BY <1>1 DEF Parts
<1>5. OpensWith(Part(t, P, 1), t[1])
  <2>1. 1 \in 1..EndOf(P, 1, n) /\ \A m \in 1..(1 - 1) : t[m] = "/"
    BY <1>3
  <2> QED BY <1>1, <2>1, PartOpens
<1> QED BY <1>1, <1>2, <1>4, <1>5, FlattenOpens

\* What a text is cut into is short, has its words, and opens as it does.
IsPieces(W, ps, t) ==
  /\ ps \in Seq(Short(W)) /\ AllWords(ps) = Words(t)
  /\ t # <<>> /\ t[1] # "/" => OpensWith(ps, t[1])

LEMMA AtomsKeepWords ==
  ASSUME NEW W, NEW t \in Seq(W)
  PROVE  /\ Atoms(t) \in Seq(Seq(W)) /\ AllWords(Atoms(t)) = Words(t)
         /\ t # <<>> /\ t[1] # "/" => OpensWith(Atoms(t), t[1])
<1> DEFINE paragraphs == {i \in DOMAIN t : i > 2 /\ t[i - 1] = "/" /\ t[i - 2] = "/"}
           lines == {i \in DOMAIN t : i > 1 /\ t[i - 1] = "/"}
           sentences == {i \in DOMAIN t : i > 1 /\ t[i - 1] = "."}
           P == IF paragraphs # {} THEN paragraphs ELSE IF lines # {} THEN lines ELSE sentences
<1>1. P \in SUBSET Nat
  <2>1. DOMAIN t \subseteq Nat
    OBVIOUS
  <2>2. paragraphs \subseteq DOMAIN t /\ lines \subseteq DOMAIN t /\ sentences \subseteq DOMAIN t
    OBVIOUS
  <2> HIDE DEF paragraphs, lines, sentences
  <2> QED BY <2>1, <2>2
<1>2. Atoms(t) = Cut(t, P)
  BY DEF Atoms
<1> HIDE DEF P
<1> QED BY <1>1, <1>2, CutIsTexts, CutKeepsWords, CutOpens

LEMMA PackKeepsWords ==
  ASSUME NEW W, "/" \in W, NEW t \in Seq(W), ClausesAssumption
  PROVE  IsPieces(W, Pack(t), t)
<1> DEFINE atoms == Atoms(t)
           n == Len(atoms)
           none == [done |-> <<>>, open |-> <<>>]
           C(it) == it = [P \in SUBSET DOMAIN atoms |->
                            IF P = {} THEN none ELSE Packed(it[P \ {Max(P)}], atoms[Max(P)])]
           c == CHOOSE it : C(it)
           S == Chunking(W)
           step == [p \in S \X (1..n) |-> Packed(p[1], atoms[p[2]])]
           words == [k \in DOMAIN atoms |-> Words(atoms[k])]
<1>1. Pack(t) = Closed(c[DOMAIN atoms])
  BY DEF Pack, FoldLeft, MapThenFoldSet
<1>2. /\ atoms \in Seq(Seq(W)) /\ AllWords(atoms) = Words(t)
      /\ t # <<>> /\ t[1] # "/" => OpensWith(atoms, t[1])
  BY AtomsKeepWords
<1> HIDE DEF atoms
<1>3. n \in Nat /\ DOMAIN atoms = 1..n /\ \A k \in 1..n : atoms[k] \in Seq(W)
  BY <1>2
<1>4. \A acc \in S, atom \in Seq(W) : PackedWell(W, acc, atom, Packed(acc, atom))
  BY PackedKeepsWords
<1>5. \A acc \in S, k \in 1..n : Packed(acc, atoms[k]) \in S
  BY <1>3, <1>4 DEF PackedWell
<1>6. none \in S /\ Closed(none) = <<>>
  <2>1. <<>> \in Short(W) /\ <<>> \in Seq(Short(W))
    BY DEF Short, ClausesAssumption
  <2>2. none \in S
    BY <2>1 DEF Chunking
  <2>3. none.open = <<>> /\ none.done = <<>>
    OBVIOUS
  <2> HIDE DEF none
  <2> QED BY <2>2, <2>3, ClosedIsShort
<1> HIDE DEF none, S
<1>7. step \in [S \X (1..n) -> S]
  BY <1>5
<1>8. words \in [1..n -> Seq(W)] /\ \A k \in 1..n : words[k] = Words(atoms[k])
  BY <1>3, WordsAdd
<1>9. FlattenSeq(words) = AllWords(atoms)
  BY DEF AllWords, Joined
<1> HIDE DEF n, words
<1>10. \E it : C(it)
  <2>1. PICK it \in [SUBSET (1..n) -> S] : FoldsInto(it, none, n, step)
    <3> HIDE DEF step
    <3> QED BY <1>3, <1>6, <1>7, FoldExists
  <2>2. ASSUME NEW P \in SUBSET (1..n), P # {}
        PROVE  it[P] = Packed(it[P \ {Max(P)}], atoms[Max(P)])
    <3> HIDE DEF step
    <3>1. Max(P) \in P
      BY <1>3, <2>2, LastIsIn
    <3>2. it[P] = step[<<it[P \ {Max(P)}], Max(P)>>]
      BY <2>1, <2>2 DEF FoldsInto
    <3>3. it[P \ {Max(P)}] \in S /\ Max(P) \in 1..n
      BY <2>1, <3>1
    <3>4. \A e \in S, i \in 1..n : step[<<e, i>>] = Packed(e, atoms[i])
      BY DEF step
    <3> QED BY <3>2, <3>3, <3>4
  <2>3. it[{}] = none
    BY <2>1 DEF FoldsInto
  <2>4. C(it)
    BY <1>3, <2>1, <2>2, <2>3
  <2> HIDE DEF C
  <2> QED BY <2>4
<1>11. C(c)
  <2> HIDE DEF C
  <2> QED BY <1>10
<1> HIDE DEF c
<1>12. c[1..0] = none
  <2>1. c[{}] = none
    BY <1>3, <1>11
  <2>2. 1..0 = {}
    OBVIOUS
  <2> QED BY <2>1, <2>2
<1>13. ASSUME NEW k \in 1..n PROVE c[1..k] = Packed(c[1..(k - 1)], atoms[k])
  <2>1. /\ 1..k \in SUBSET (1..n) /\ 1..k # {} /\ Max(1..k) = k
        /\ (1..k) \ {k} = 1..(k - 1)
    BY <1>3, LastOfFirst
  <2>2. c[1..k] = Packed(c[(1..k) \ {Max(1..k)}], atoms[Max(1..k)])
    BY <1>3, <1>11, <2>1
  <2> QED BY <2>1, <2>2
<1> HIDE DEF C, step
<1>14. PICK r \in [0..n -> Seq(W)] : Unrolls(r, n, words)
  BY <1>3, <1>8, FlattenUnrolls, Zenon
<1> DEFINE Opened(k) == \A x : k # 0 /\ OpensWith(atoms, x) => OpensWith(Closed(c[1..k]), x)
           T == {k \in Nat : k <= n => /\ c[1..k] \in S /\ AllWords(Closed(c[1..k])) = r[k]
                                       /\ Opened(k)}
<1>15. 0 \in T
  <2>1. r[0] = <<>>
    BY <1>14 DEF Unrolls
  <2>2. AllWords(<<>>) = <<>>
    <3>1. <<>> \in Seq(Seq(W))
      OBVIOUS
    <3> QED BY <3>1, AllWordsAdd
  <2> QED BY <1>6, <1>12, <2>1, <2>2
<1>16. ASSUME NEW k \in Nat, k \in T PROVE k + 1 \in T
  <2> SUFFICES ASSUME k + 1 <= n
               PROVE  /\ c[1..(k + 1)] \in S /\ AllWords(Closed(c[1..(k + 1)])) = r[k + 1]
                      /\ Opened(k + 1)
    <3> HIDE DEF Opened
    <3>1. k + 1 \in Nat
      OBVIOUS
    <3> QED BY <3>1
  <2> DEFINE acc == c[1..k]
             next == c[1..(k + 1)]
             atom == atoms[k + 1]
  <2>1. /\ k + 1 \in 1..n /\ (k + 1) - 1 = k /\ acc \in S /\ AllWords(Closed(acc)) = r[k]
        /\ Opened(k) /\ atom \in Seq(W)
    <3> HIDE DEF Opened
    <3> QED BY <1>3, <1>16
  <2>2. next = Packed(acc, atom)
    BY <1>13, <2>1
  <2>3. r[k + 1] = r[k] \o words[k + 1] /\ words[k + 1] = Words(atom)
    BY <1>8, <1>14, <2>1 DEF Unrolls
  <2>4. PackedWell(W, acc, atom, next)
    BY <1>4, <2>1, <2>2
  <2>5. next \in S /\ AllWords(Closed(next)) = r[k + 1]
    BY <2>1, <2>3, <2>4 DEF PackedWell, S
  <2>6. Opened(k + 1)
    <3> SUFFICES ASSUME NEW x, OpensWith(atoms, x) PROVE OpensWith(Closed(next), x)
      OBVIOUS
    <3>1. CASE k # 0
      <4>1. OpensWith(Closed(acc), x)
        BY <2>1, <3>1
      <4> HIDE DEF acc, next, atom
      <4> QED BY <2>4, <4>1 DEF PackedWell
    <3>2. CASE k = 0
      <4>1. Closed(acc) = <<>> /\ atom = atoms[1]
        BY <1>6, <1>12, <3>2
      <4> HIDE DEF acc, next
      <4>2. atom # <<>> /\ atom[1] = x
        BY <4>1 DEF OpensWith
      <4> HIDE DEF atom
      <4> QED BY <2>4, <4>1, <4>2 DEF PackedWell
    <3> QED BY <3>1, <3>2
  <2> HIDE DEF Opened
  <2> QED BY <2>5, <2>6
<1>17. n \in T
  <2> HIDE DEF T
  <2> QED BY <1>3, <1>15, <1>16, Induction
<1> DEFINE acc == c[1..n]
<1>18. acc \in S /\ AllWords(Closed(acc)) = r[n] /\ Opened(n)
  <2> HIDE DEF Opened
  <2> QED BY <1>3, <1>17
<1>19. Pack(t) = Closed(acc)
  BY <1>1, <1>3
<1>20. r[n] = Words(t)
  BY <1>2, <1>9, <1>14 DEF Unrolls
<1>21. t # <<>> /\ t[1] # "/" => OpensWith(Closed(acc), t[1])
  <2> SUFFICES ASSUME t # <<>>, t[1] # "/" PROVE OpensWith(Closed(acc), t[1])
    OBVIOUS
  <2>1. OpensWith(atoms, t[1])
    BY <1>2
  <2>2. n # 0
    BY <2>1, <1>3 DEF OpensWith, n
  <2> HIDE DEF acc
  <2> QED BY <1>18, <2>1, <2>2 DEF acc
<1> HIDE DEF acc
<1>22. Closed(acc) \in Seq(Short(W))
  BY <1>18, ClosedIsShort DEF S
<1> QED BY <1>18, <1>19, <1>20, <1>21, <1>22 DEF IsPieces

LEMMA PackLongKeepsWords ==
  ASSUME NEW W, "/" \in W, NEW t \in Seq(W), ClausesAssumption
  PROVE  IsPieces(W, PackLong(t), t)
<1>1. CASE Len(t) > MaxClauseChars
  BY <1>1, PackKeepsWords DEF PackLong
<1>2. CASE ~ (Len(t) > MaxClauseChars)
  <2> DEFINE ps == <<t>>
  <2>1. t \in Short(W)
    BY <1>2 DEF Short, ClausesAssumption
  <2>2. ps \in Seq(Short(W)) /\ Len(ps) = 1 /\ ps[1] = t
    BY <2>1
  <2>3. AllWords(ps) = Words(t)
    BY AllWordsJoin
  <2> HIDE DEF ps
  <2>4. PackLong(t) = ps
    BY <1>2 DEF PackLong, ps
  <2>5. t # <<>> => OpensWith(ps, t[1])
    BY <2>2 DEF OpensWith
  <2> QED BY <2>2, <2>3, <2>4, <2>5 DEF IsPieces
<1> QED BY <1>1, <1>2

\* Headings are positions of the text.
LEMMA HeadingsAreIn ==
  ASSUME NEW W, NEW t \in Seq(W)
  PROVE  /\ Numbered(t) \in SUBSET Nat /\ Named(t) \in SUBSET Nat
         /\ Numbered(t) \subseteq 1..Len(t)
<1>1. LineStarts(t) \subseteq DOMAIN t
  BY Zenon DEF LineStarts
<1>2. DOMAIN t = 1..Len(t) /\ 1..Len(t) \subseteq Nat
  OBVIOUS
<1>3. Numbered(t) \subseteq LineStarts(t)
  BY Zenon DEF Numbered
<1>4. Named(t) \subseteq LineStarts(t)
  BY Zenon DEF Named
<1> QED BY <1>1, <1>2, <1>3, <1>4
\* The parts of a text, each taken to pieces.
LEMMA PiecesOfParts ==
  ASSUME NEW W, NEW parts \in Seq(Seq(W)), NEW ss \in [1..Len(parts) -> Seq(Short(W))],
         \A k \in 1..Len(parts) : IsPieces(W, ss[k], parts[k])
  PROVE  /\ FlattenSeq(ss) \in Seq(Short(W)) /\ AllWords(FlattenSeq(ss)) = AllWords(parts)
         /\ \A x : OpensWith(parts, x) /\ x # "/" => OpensWith(FlattenSeq(ss), x)
<1> DEFINE n == Len(parts)
           S == Short(W)
<1>1. n \in Nat /\ \A k \in 1..n : parts[k] \in Seq(W) /\ ss[k] \in Seq(S)
  <2>1. ss \in [1..n -> Seq(S)]
    OBVIOUS
  <2>2. n \in Nat /\ \A k \in 1..n : parts[k] \in Seq(W)
    OBVIOUS
  <2> HIDE DEF n, S
  <2> QED BY <2>1, <2>2
<1>2. \A k \in 1..n : ss[k] \in Seq(Seq(W)) /\ AllWords(ss[k]) = Words(parts[k])
  BY <1>1, ShortAreTexts DEF IsPieces
<1>3. ss \in [1..n -> Seq(S)] /\ ss \in [1..n -> Seq(Seq(W))]
  BY <1>2
<1>4. FlattenSeq(ss) \in Seq(S)
  <2> HIDE DEF n, S
  <2> QED BY <1>1, <1>3, FlattenIsSeq
<1>5. AllWords(FlattenSeq(ss)) = AllWords(parts)
  BY <1>2, <1>3, SameWords
<1>6. ASSUME NEW x, OpensWith(parts, x), x # "/" PROVE OpensWith(FlattenSeq(ss), x)
  <2>1. n \in Nat \ {0} /\ 1 \in 1..n /\ parts[1] # <<>> /\ parts[1][1] = x
    BY <1>1, <1>6 DEF OpensWith
  <2>2. OpensWith(ss[1], x)
    BY <1>6, <2>1 DEF IsPieces
  <2> HIDE DEF n
  <2> QED BY <1>3, <2>1, <2>2, FlattenOpens
<1> QED BY <1>4, <1>5, <1>6

LEMMA GuardSplitKeepsWords ==
  ASSUME NEW W, "/" \in W, NEW t \in Seq(W), ClausesAssumption
  PROVE  IsPieces(W, GuardSplit(t), t)
<1> DEFINE P == Named(t)
           parts == Cut(t, P)
           ss == [k \in DOMAIN parts |-> PackLong(parts[k])]
<1>1. CASE ~ (Len(t) > MaxClauseChars /\ Splits(t, P))
  <2>1. GuardSplit(t) = PackLong(t)
    BY <1>1 DEF GuardSplit
  <2> QED BY <2>1, PackLongKeepsWords
<1>2. CASE Len(t) > MaxClauseChars /\ Splits(t, P)
  <2>1. GuardSplit(t) = FlattenSeq(ss)
    BY <1>2 DEF GuardSplit, Joined
  <2>2. P \in SUBSET Nat
    BY HeadingsAreIn
  <2> HIDE DEF P
  <2>3. /\ parts \in Seq(Seq(W)) /\ AllWords(parts) = Words(t)
        /\ t # <<>> /\ t[1] # "/" => OpensWith(parts, t[1])
    BY <2>2, CutIsTexts, CutKeepsWords, CutOpens
  <2> HIDE DEF parts
  <2>4. DOMAIN parts = 1..Len(parts) /\ \A k \in 1..Len(parts) : parts[k] \in Seq(W)
    BY <2>3
  <2>5. \A k \in 1..Len(parts) : IsPieces(W, PackLong(parts[k]), parts[k])
    BY <2>4, PackLongKeepsWords
  <2>6. /\ ss \in [1..Len(parts) -> Seq(Short(W))]
        /\ \A k \in 1..Len(parts) : IsPieces(W, ss[k], parts[k])
    BY <2>4, <2>5 DEF IsPieces
  <2> HIDE DEF ss
  <2>7. /\ FlattenSeq(ss) \in Seq(Short(W)) /\ AllWords(FlattenSeq(ss)) = AllWords(parts)
        /\ \A x : OpensWith(parts, x) /\ x # "/" => OpensWith(FlattenSeq(ss), x)
    BY <2>3, <2>6, PiecesOfParts
  <2> QED BY <2>1, <2>3, <2>7 DEF IsPieces
<1> QED BY <1>1, <1>2

\* Where the parts of a contract begin, ...
Breaks(t) ==
  IF ~Splits(t, Numbered(t)) /\ Splits(t, Named(t)) THEN Named(t) ELSE Numbered(t)

\* ... and the pieces of each.
Guarded(t) == [k \in DOMAIN Cut(t, Breaks(t)) |-> GuardSplit(Cut(t, Breaks(t))[k])]

LEMMA PiecesKeepWords ==
  ASSUME NEW W, "/" \in W, NEW t \in Seq(W), ClausesAssumption
  PROVE  /\ Pieces(t) \in Seq(Short(W)) /\ AllWords(Pieces(t)) = Words(t)
         /\ Pieces(t) = FlattenSeq(Guarded(t)) /\ Breaks(t) \in SUBSET Nat
         /\ Cut(t, Breaks(t)) \in Seq(Seq(W))
         /\ Guarded(t) \in [1..Len(Cut(t, Breaks(t))) -> Seq(Short(W))]
         /\ \A k \in 1..Len(Cut(t, Breaks(t))) :
              IsPieces(W, Guarded(t)[k], Cut(t, Breaks(t))[k])
<1> DEFINE P == Breaks(t)
           parts == Cut(t, P)
           ss == Guarded(t)
<1>1. Pieces(t) = FlattenSeq(ss)
  BY DEF Pieces, Joined, Guarded, Breaks
<1>2. P \in SUBSET Nat
  BY HeadingsAreIn DEF Breaks
<1>3. ss = [k \in DOMAIN parts |-> GuardSplit(parts[k])]
  BY DEF Guarded
<1> HIDE DEF P, ss
<1>4. parts \in Seq(Seq(W)) /\ AllWords(parts) = Words(t)
  BY <1>2, CutIsTexts, CutKeepsWords
<1> HIDE DEF parts
<1>5. DOMAIN parts = 1..Len(parts) /\ \A k \in 1..Len(parts) : parts[k] \in Seq(W)
  BY <1>4
<1>6. \A k \in 1..Len(parts) : IsPieces(W, GuardSplit(parts[k]), parts[k])
  BY <1>5, GuardSplitKeepsWords
<1>7. /\ ss \in [1..Len(parts) -> Seq(Short(W))]
      /\ \A k \in 1..Len(parts) : IsPieces(W, ss[k], parts[k])
  BY <1>3, <1>5, <1>6 DEF IsPieces
<1>8. FlattenSeq(ss) \in Seq(Short(W)) /\ AllWords(FlattenSeq(ss)) = AllWords(parts)
  BY <1>4, <1>7, PiecesOfParts
<1> QED BY <1>1, <1>2, <1>4, <1>7, <1>8 DEF P, parts, ss

\* A clause has the words of its piece.
LEMMA ClauseKeepsWords ==
  ASSUME NEW W, NEW p \in Seq(W), NEW index
  PROVE  LET c == ClauseOf(p, index)
         IN  Words(p) \in {Words(c.text), Words(c.heading) \o Words(c.text)} /\ c.index = index
<1> DEFINE n == Len(p)
           P == {j \in DOMAIN p : p[j] = "/"}
           e == EndOf(P, 0, n)
           after == AfterFirstLine(p)
           heading == SubSeq(p, 1, e)
           c == ClauseOf(p, index)
<1>1. n \in Nat /\ P \in SUBSET Nat /\ \A j \in P : j > 0 /\ p[j] = "/"
  OBVIOUS
<1>2. LineEnd(p) - 1 = e
  <2>1. {j \in P : j > 0} = P
    BY <1>1
  <2>2. LineEnd(p) - 1 = Min(P \cup {n + 1}) - 1
    BY DEF LineEnd
  <2> HIDE DEF P
  <2> QED BY <2>1, <2>2 DEF EndOf
<1>3. LineEnd(p) \in Nat
  <2>1. LineEnd(p) = Min({j \in P : j > 0} \cup {n + 1})
    <3>1. {j \in P : j > 0} = P
      BY <1>1
    <3>2. LineEnd(p) = Min(P \cup {n + 1})
      BY DEF LineEnd
    <3> HIDE DEF P
    <3> QED BY <3>1, <3>2
  <2>2. 0 \in 0..n
    BY <1>1
  <2> HIDE DEF P, n
  <2> QED BY <1>1, <2>1, <2>2, NextIsBehind
<1>4. e \in 0..n /\ (e = n \/ e + 1 \in P)
  <2>1. 0 \in 0..n
    BY <1>1
  <2> HIDE DEF n, P
  <2> QED BY <1>1, <2>1, EndIsNext
<1> HIDE DEF P, e
<1>5. LineEnd(p) = e + 1
  BY <1>2, <1>3
<1>6. after = SubSeq(p, e + 2, n)
  <2>1. (e + 1) + 1 = e + 2
    BY <1>4
  <2> QED BY <1>5, <2>1 DEF AfterFirstLine
<1>7. /\ c.index = index /\ c.heading = heading
      /\ c.text = IF Strip(after) = <<>> THEN p ELSE Strip(after)
  BY <1>2 DEF ClauseOf
<1> HIDE DEF c, n
<1>8. CASE Strip(after) = <<>>
  BY <1>7, <1>8 DEF c
<1>9. CASE Strip(after) # <<>>
  <2>1. after \in Seq(W)
    BY AfterFirstLineIsText
  <2>2. Words(c.text) = Words(after)
    BY <1>7, <1>9, <2>1, StripKeepsWords
  <2>3. e # n
    <3> SUFFICES ASSUME e = n PROVE FALSE
      OBVIOUS
    <3>1. after = <<>>
      <4>1. e + 2 \in Int /\ n \in Int /\ n < e + 2
        BY <1>1
      <4> QED BY <1>6, <4>1, SubSeqEmpty
    <3>2. Strip(<<>>) = <<>>
      <4>1. {i \in DOMAIN <<>> : <<>>[i] # "/"} = {}
        OBVIOUS
      <4> QED BY <4>1 DEF Strip
    <3> QED BY <1>9, <3>1, <3>2
  <2>4. e + 1 \in 1..n /\ p[e + 1] = "/" /\ (e + 1) - 1 = e /\ (e + 1) + 1 = e + 2
    BY <1>1, <1>4, <2>3
  <2>5. Words(SubSeq(p, 1, n)) = Words(SubSeq(p, 1, e)) \o Words(SubSeq(p, e + 1, n))
    <3>1. 1 \in 1..(n + 1) /\ e \in (1 - 1)..n /\ n \in e..n
      BY <1>1, <1>4
    <3> QED BY <3>1, WordsSplit DEF n
  <2>6. Words(SubSeq(p, e + 1, n)) = Words(SubSeq(p, e + 1, e + 1)) \o Words(SubSeq(p, (e + 1) + 1, n))
    <3>1. e + 1 \in 1..(n + 1) /\ e + 1 \in ((e + 1) - 1)..n /\ n \in (e + 1)..n
      BY <1>1, <1>4, <2>4
    <3> QED BY <3>1, WordsSplit DEF n
  <2>7. Words(SubSeq(p, e + 1, e + 1)) = <<>>
    <3>1. SubSeq(p, e + 1, e + 1) = <<p[e + 1]>>
      BY <2>4, OneIsSlice DEF n
    <3>2. p[e + 1] \in W
      BY <2>4 DEF n
    <3>3. Words(<<p[e + 1]>>) = <<>>
      BY <2>4, <3>2, WordsJoin
    <3> QED BY <3>1, <3>3
  <2>8. Words(SubSeq(p, e + 1, n)) = Words(after)
    <3>1. Words(after) \in Seq(W)
      BY <2>1, WordsAdd
    <3> DEFINE w == Words(after)
    <3> HIDE DEF w
    <3>2. <<>> \o w = w
      BY <3>1, ConcatEmptySeq DEF w
    <3> QED BY <1>6, <2>4, <2>6, <2>7, <3>2 DEF w
  <2>9. SubSeq(p, 1, n) = p
    BY SubSeqFull DEF n
  <2>10. Words(p) = Words(heading) \o Words(after)
    BY <2>5, <2>8, <2>9
  <2> HIDE DEF heading, after
  <2> QED BY <1>7, <2>2, <2>10 DEF c
<1> QED BY <1>8, <1>9

-----------------------------------------------------------------------------
(* Where the members of sequences come when these are put together. *)

Places(at, n, ss, flat) ==
  /\ at \in [0..n -> Nat] /\ at[0] = 0 /\ at[n] = Len(flat)
  /\ \A k \in 1..n : at[k] = at[k - 1] + Len(ss[k])
  /\ \A k, m \in 0..n : k <= m => at[k] <= at[m]
  /\ \A k \in 1..n : \A c \in 1..Len(ss[k]) :
       at[k - 1] + c \in 1..Len(flat) /\ flat[at[k - 1] + c] = ss[k][c]
  /\ \A i \in 1..Len(flat) : \E k \in 1..n : \E c \in 1..Len(ss[k]) : i = at[k - 1] + c

LEMMA FlatHasPlaces ==
  ASSUME NEW A, NEW n \in Nat, NEW ss \in [1..n -> Seq(A)]
  PROVE  \E at : Places(at, n, ss, FlattenSeq(ss))
<1>1. PICK r \in [0..n -> Seq(A)] : Unrolls(r, n, ss)
  BY FlattenUnrolls, Zenon
<1> DEFINE at == [k \in 0..n |-> Len(r[k])]
<1>2. at \in [0..n -> Nat] /\ \A k \in 0..n : at[k] = Len(r[k]) /\ r[k] \in Seq(A)
  OBVIOUS
<1> HIDE DEF at
<1>3. /\ at[0] = 0 /\ at[n] = Len(FlattenSeq(ss)) /\ r[n] = FlattenSeq(ss)
      /\ 0 \in 0..n /\ n \in 0..n
  BY <1>1, <1>2 DEF Unrolls
<1>4. ASSUME NEW k \in 1..n
      PROVE  /\ k - 1 \in 0..n /\ k \in 0..n /\ ss[k] \in Seq(A) /\ Len(ss[k]) \in Nat
             /\ at[k] = at[k - 1] + Len(ss[k]) /\ at[k - 1] \in Nat /\ at[k] \in Nat
             /\ \A i \in 1..at[k] :
                  r[k][i] = IF i <= at[k - 1] THEN r[k - 1][i] ELSE ss[k][i - at[k - 1]]
  <2>1. k - 1 \in 0..n /\ k \in 0..n /\ ss[k] \in Seq(A) /\ Len(ss[k]) \in Nat
    OBVIOUS
  <2>2. r[k] = r[k - 1] \o ss[k]
    BY <1>1 DEF Unrolls
  <2> DEFINE x == r[k - 1]
             y == ss[k]
             z == r[k]
  <2>3. z = x \o y /\ x \in Seq(A) /\ y \in Seq(A) /\ at[k - 1] = Len(x) /\ at[k] = Len(z)
    BY <1>2, <2>1, <2>2
  <2> HIDE DEF x, y, z
  <2>4. /\ Len(x \o y) = Len(x) + Len(y) /\ Len(x) \in Nat /\ Len(y) \in Nat
        /\ \A i \in 1..(Len(x) + Len(y)) : (x \o y)[i] = IF i <= Len(x) THEN x[i] ELSE y[i - Len(x)]
    BY <2>3, ConcatProperties
  <2>5. at[k] = at[k - 1] + Len(y) /\ at[k - 1] \in Nat /\ at[k] \in Nat
    BY <2>3, <2>4
  <2>6. ASSUME NEW i \in 1..at[k]
        PROVE  z[i] = IF i <= at[k - 1] THEN x[i] ELSE y[i - at[k - 1]]
    BY <2>3, <2>4, <2>5
  <2> QED BY <2>1, <2>5, <2>6 DEF x, y, z
<1> HIDE DEF at
\* Nothing moves when more is put behind.
<1> DEFINE Stays(k, m) ==
             at[k] <= at[m] /\ \A i \in 1..at[k] : r[m][i] = r[k][i]
<1>5. ASSUME NEW k \in 0..n, NEW m \in k..n PROVE Stays(k, m)
  <2> DEFINE T == {d \in Nat : k + d <= n => Stays(k, k + d)}
  <2>1. 0 \in T
    <3>1. k + 0 = k /\ at[k] \in Nat
      BY <1>2
    <3> QED BY <3>1
  <2>2. ASSUME NEW d \in Nat, d \in T PROVE d + 1 \in T
    <3> SUFFICES ASSUME k + (d + 1) <= n PROVE Stays(k, k + (d + 1))
      <4>1. d + 1 \in Nat
        OBVIOUS
      <4> HIDE DEF Stays
      <4> QED BY <4>1
    <3> DEFINE j == k + (d + 1)
    <3>1. j \in 1..n /\ j - 1 = k + d /\ k + d <= n /\ k + d \in 0..n
      OBVIOUS
    <3> HIDE DEF j
    <3>2. at[k] <= at[j - 1] /\ \A i \in 1..at[k] : r[j - 1][i] = r[k][i]
      BY <2>2, <3>1
    <3>3. at[k] \in Nat /\ at[j - 1] \in Nat /\ at[j] \in Nat /\ at[j - 1] <= at[j]
      BY <1>2, <1>4, <3>1
    <3>4. \A i \in 1..at[j] : r[j][i] = IF i <= at[j - 1] THEN r[j - 1][i] ELSE ss[j][i - at[j - 1]]
      BY <1>4, <3>1
    <3> DEFINE a == at[k]
               b == at[j - 1]
               e == at[j]
    <3>5. /\ a \in Nat /\ b \in Nat /\ e \in Nat /\ a <= b /\ b <= e
          /\ \A i \in 1..a : r[j - 1][i] = r[k][i]
          /\ \A i \in 1..e : i <= b => r[j][i] = r[j - 1][i]
      BY <3>2, <3>3, <3>4
    <3> HIDE DEF a, b, e
    <3>6. a <= e /\ \A i \in 1..a : i \in 1..e /\ i <= b
      BY <3>5
    <3>7. a <= e /\ \A i \in 1..a : r[j][i] = r[k][i]
      BY <3>5, <3>6
    <3>8. Stays(k, j)
      BY <3>7 DEF a, b, e
    <3> QED BY <3>8 DEF j
  <2>3. m - k \in Nat /\ k + (m - k) = m
    OBVIOUS
  <2>4. m - k \in T
    <3> HIDE DEF T
    <3> QED BY <2>1, <2>2, <2>3, Induction
  <2> HIDE DEF Stays
  <2> QED BY <2>3, <2>4
<1>6. \A k, m \in 0..n : k <= m => at[k] <= at[m]
  BY <1>5
<1>7. ASSUME NEW k \in 1..n, NEW c \in 1..Len(ss[k])
      PROVE  at[k - 1] + c \in 1..Len(FlattenSeq(ss)) /\ FlattenSeq(ss)[at[k - 1] + c] = ss[k][c]
  <2> DEFINE i == at[k - 1] + c
  <2>1. /\ k \in 0..n /\ at[k] = at[k - 1] + Len(ss[k]) /\ at[k - 1] \in Nat
        /\ at[k] \in Nat /\ Len(ss[k]) \in Nat
    BY <1>4
  <2>2. i \in 1..at[k] /\ ~(i <= at[k - 1]) /\ i - at[k - 1] = c
    BY <2>1
  <2> HIDE DEF i
  <2>3. r[k][i] = ss[k][c]
    BY <1>4, <2>2
  <2>4. Stays(k, n)
    <3>1. n \in k..n
      BY <2>1
    <3> HIDE DEF Stays
    <3> QED BY <1>5, <2>1, <3>1
  <2>5. at[k] <= at[n] /\ r[n][i] = r[k][i] /\ at[n] \in Nat
    BY <1>2, <1>3, <2>2, <2>4
  <2>6. i \in 1..at[n]
    BY <2>1, <2>2, <2>5
  <2> QED BY <1>3, <2>3, <2>5, <2>6 DEF i
<1>8. ASSUME NEW i \in 1..Len(FlattenSeq(ss))
      PROVE  \E k \in 1..n : \E c \in 1..Len(ss[k]) : i = at[k - 1] + c
  <2> DEFINE T == {m \in 0..n : i <= at[m]}
  <2>1. T \in SUBSET Nat /\ n \in T
    BY <1>3
  <2>2. PICK k \in T : \A m \in T : k <= m
    <3> HIDE DEF T
    <3> QED BY <2>1, LeastNatural
  <2>3. k # 0 /\ k \in 1..n
    BY <1>3, <2>2
  <2>4. /\ at[k] = at[k - 1] + Len(ss[k]) /\ at[k - 1] \in Nat /\ Len(ss[k]) \in Nat
        /\ k - 1 \in 0..n /\ i <= at[k]
    BY <1>4, <2>2, <2>3
  <2>5. ~ (i <= at[k - 1])
    BY <2>2, <2>3, <2>4
  <2>6. i \in Nat
    OBVIOUS
  <2>7. i - at[k - 1] \in 1..Len(ss[k]) /\ i = at[k - 1] + (i - at[k - 1])
    BY <2>4, <2>5, <2>6
  <2> QED BY <2>3, <2>7
<1>9. Places(at, n, ss, FlattenSeq(ss))
  BY <1>2, <1>3, <1>4, <1>6, <1>7, <1>8 DEF Places
<1> QED BY <1>9

\* f takes each member of K to a place of its own.
EachItsOwn(f, K, n) ==
  f \in [K -> 1..n] /\ \A x, y \in K : f[x] = f[y] => x = y

\* f takes them to sequences that are not empty, and g to where these start.
Filled(f, K, n, ss) == EachItsOwn(f, K, n) /\ \A x \in K : Len(ss[f[x]]) >= 1
Starts(g, f, K, ss, flat) ==
  EachItsOwn(g, K, Len(flat)) /\ \A x \in K : flat[g[x]] = ss[f[x]][1]

LEMMA StartsAreApart ==
  ASSUME NEW A, NEW n \in Nat, NEW ss \in [1..n -> Seq(A)], NEW K, NEW f, Filled(f, K, n, ss)
  PROVE  \E g : Starts(g, f, K, ss, FlattenSeq(ss))
<1>0. EachItsOwn(f, K, n) /\ \A x \in K : Len(ss[f[x]]) >= 1
  BY DEF Filled
<1> DEFINE flat == FlattenSeq(ss)
<1>1. PICK at : Places(at, n, ss, flat)
  BY FlatHasPlaces
<1> HIDE DEF flat
<1> DEFINE g == [x \in K |-> at[f[x] - 1] + 1]
<1>2. ASSUME NEW x \in K
      PROVE  /\ f[x] \in 1..n /\ f[x] - 1 \in 0..n /\ f[x] \in 0..n
             /\ Len(ss[f[x]]) \in Nat /\ Len(ss[f[x]]) >= 1
             /\ at[f[x] - 1] \in Nat /\ at[f[x]] \in Nat /\ at[f[x]] >= at[f[x] - 1] + 1
             /\ at[f[x] - 1] + 1 \in 1..Len(flat)
             /\ flat[at[f[x] - 1] + 1] = ss[f[x]][1]
  <2> DEFINE k == f[x]
  <2>1. k \in 1..n
    BY <1>0 DEF EachItsOwn
  <2>2. Len(ss[k]) >= 1
    BY <1>0
  <2> HIDE DEF k
  <2>3. k - 1 \in 0..n /\ k \in 0..n /\ Len(ss[k]) \in Nat
    BY <2>1
  <2>4. at[k - 1] \in Nat /\ at[k] \in Nat /\ at[k] = at[k - 1] + Len(ss[k])
    BY <1>1, <2>1, <2>3 DEF Places
  <2>5. 1 \in 1..Len(ss[k])
    BY <2>2, <2>3
  <2>6. at[k - 1] + 1 \in 1..Len(flat) /\ flat[at[k - 1] + 1] = ss[k][1]
    BY <1>1, <2>1, <2>5 DEF Places
  <2>7. at[k] >= at[k - 1] + 1
    BY <2>2, <2>3, <2>4
  <2> QED BY <2>1, <2>2, <2>3, <2>4, <2>6, <2>7 DEF k
<1>3. ASSUME NEW x \in K, NEW y \in K, f[x] < f[y] PROVE at[f[x] - 1] + 1 # at[f[y] - 1] + 1
  <2>1. f[x] <= f[y] - 1
    BY <1>2, <1>3
  <2>2. at[f[x]] <= at[f[y] - 1]
    <3>1. \A k, m \in 0..n : k <= m => at[k] <= at[m]
      BY <1>1 DEF Places
    <3> QED BY <1>2, <2>1, <3>1
  <2>3. at[f[x] - 1] \in Nat /\ at[f[x]] \in Nat /\ at[f[x]] >= at[f[x] - 1] + 1
    BY <1>2
  <2>4. at[f[y] - 1] \in Nat
    BY <1>2
  <2> QED BY <2>2, <2>3, <2>4
<1>4. ASSUME NEW x \in K, NEW y \in K, g[x] = g[y] PROVE x = y
  <2>1. ~ (f[x] < f[y]) /\ ~ (f[y] < f[x])
    BY <1>3, <1>4
  <2>2. f[x] \in Int /\ f[y] \in Int
    BY <1>2
  <2>3. f[x] = f[y]
    BY <2>1, <2>2
  <2> QED BY <1>0, <2>3 DEF EachItsOwn
<1>5. g \in [K -> 1..Len(flat)] /\ \A x \in K : flat[g[x]] = ss[f[x]][1]
  BY <1>2
<1> HIDE DEF g
<1>6. EachItsOwn(g, K, Len(flat))
  BY <1>4, <1>5 DEF EachItsOwn
<1> QED BY <1>5, <1>6 DEF flat, Starts

LEMMA AtLeastAsMany ==
  ASSUME NEW K, NEW n \in Nat, NEW g, EachItsOwn(g, K, n),
         NEW Q \in SUBSET (1..n), \A x \in K : g[x] \in Q
  PROVE  IsFiniteSet(K) /\ Cardinality(K) <= Cardinality(Q)
<1>1. g \in Injection(K, Q)
  BY DEF EachItsOwn, Injection, IsInjective
<1>2. IsFiniteSet(Q)
  <2>1. IsFiniteSet(1..n)
    BY FS_Interval
  <2> QED BY <2>1, FS_Subset
<1> QED BY <1>1, <1>2, FS_Injection

\* Each numbered heading of a contract opens one of its parts.
LEMMA HeadingsOpenParts ==
  ASSUME NEW W, NEW t \in Seq(W)
  PROVE  \E f : /\ EachItsOwn(f, Numbered(t), Len(t))
                /\ \A j \in Numbered(t) : OpensWith(Parts(t, Breaks(t))[f[j]], "Nr")
<1> DEFINE n == Len(t)
           K == Numbered(t)
           P == Breaks(t)
           q == Parts(t, P)
<1>1. n \in Nat /\ DOMAIN t = 1..n
  OBVIOUS
<1>2. K \subseteq 1..n /\ P \in SUBSET Nat /\ \A j \in K : t[j] = "Nr"
  BY HeadingsAreIn DEF Breaks, Numbered
<1>3. \A i \in 1..n : q[i] = Part(t, P, i)
  BY DEF Parts
<1>4. CASE P = K
  <2> DEFINE f == [j \in K |-> j]
  <2>1. ASSUME NEW j \in K PROVE OpensWith(q[j], "Nr")
    <3>1. j \in 1..n /\ j \in P /\ t[j] = "Nr" /\ t[j] # "/"
      BY <1>2, <1>4
    <3>2. EndOf(P, j, n) \in j..n
      <4>1. j \in 0..n
        BY <1>1, <3>1
      <4> HIDE DEF n, P, K
      <4> QED BY <1>1, <1>2, <4>1, EndIsNext
    <3>3. j \in j..EndOf(P, j, n) /\ \A m \in j..(j - 1) : t[m] = "/"
      BY <1>1, <3>1, <3>2
    <3> HIDE DEF P, K, q
    <3>4. OpensWith(Part(t, P, j), t[j])
      BY <1>2, <3>1, <3>3, PartOpens DEF n
    <3> QED BY <1>3, <3>1, <3>4
  <2>2. EachItsOwn(f, K, n)
    BY <1>2 DEF EachItsOwn
  <2>3. \A j \in K : OpensWith(q[f[j]], "Nr")
    BY <2>1
  <2> QED BY <2>2, <2>3
<1>5. CASE P # K
  \* Before the only one there is nothing.
  <2>1. ~ Splits(t, K)
    BY <1>5 DEF Breaks
  <2>2. ASSUME NEW j \in K, NEW m \in 1..(j - 1) PROVE t[m] = "/"
    <3>1. Words(SubSeq(t, 1, j - 1)) = <<>>
      BY <2>1 DEF Splits
    <3>2. j \in 1..n
      BY <1>2
    <3> HIDE DEF n, K
    <3>3. 1 \in Nat \ {0} /\ j - 1 \in Nat /\ j - 1 <= Len(t)
      BY <1>1, <3>2 DEF n
    <3>4. SubSeq(t, 1, j - 1) \in Seq(W)
      BY <3>3, SliceIsText
    <3>5. /\ Len(SubSeq(t, 1, j - 1)) = j - 1
          /\ \A i \in 1..(j - 1) : SubSeq(t, 1, j - 1)[i] = t[i]
      <4>1. 1 <= j - 1
        BY <3>2
      <4>2. 1 \in Int /\ j - 1 \in Int /\ \A i \in 1..(j - 1) : t[i] \in W
        BY <1>1, <3>2 DEF n
      <4>3. /\ Len(SubSeq(t, 1, j - 1)) = (j - 1) - 1 + 1
            /\ \A i \in 1..((j - 1) - 1 + 1) : SubSeq(t, 1, j - 1)[i] = t[1 + i - 1]
        BY <4>1, <4>2, SubSeqProperties
      <4>4. (j - 1) - 1 + 1 = j - 1 /\ \A i \in 1..(j - 1) : 1 + i - 1 = i
        BY <3>2
      <4> QED BY <4>3, <4>4
    <3> DEFINE s == SubSeq(t, 1, j - 1)
    <3> HIDE DEF s
    <3>6. s \in Seq(W) /\ Words(s) = <<>> /\ Len(s) = j - 1 /\ \A i \in 1..(j - 1) : s[i] = t[i]
      BY <3>1, <3>4, <3>5 DEF s
    <3>7. \A i \in 1..Len(s) : s[i] = "/"
      BY <3>6, BlankHasNoWords
    <3> QED BY <3>6, <3>7
  <2>3. ASSUME NEW i \in K, NEW j \in K PROVE i = j
    <3>1. i \in 1..n /\ j \in 1..n /\ t[i] # "/" /\ t[j] # "/"
      BY <1>2
    <3>2. ~ (i < j)
      <4> SUFFICES ASSUME i < j PROVE FALSE
        OBVIOUS
      <4>1. i \in 1..(j - 1)
        BY <3>1
      <4> QED BY <2>2, <3>1, <4>1
    <3>3. ~ (j < i)
      <4> SUFFICES ASSUME j < i PROVE FALSE
        OBVIOUS
      <4>1. j \in 1..(i - 1)
        BY <3>1
      <4> QED BY <2>2, <3>1, <4>1
    <3> QED BY <3>1, <3>2, <3>3
  <2>4. ASSUME NEW j \in K PROVE \E i \in 1..n : OpensWith(q[i], "Nr")
    <3> DEFINE Q == {1} \cup {p \in P : 1 <= p /\ p <= j}
               i == Max(Q)
               e == EndOf(P, i, n)
    <3>1. j \in 1..n /\ t[j] = "Nr" /\ t[j] # "/"
      BY <1>2
    <3> HIDE DEF n, K, P
    <3>2. /\ Q \in SUBSET (1..j) /\ 1 \in Q /\ j \in Nat
          /\ \A p \in P : 1 <= p /\ p <= j => p \in Q
          /\ \A p \in Q : p = 1 \/ p \in P
      <4>1. j \in Nat /\ 1 <= j /\ \A p \in P : p \in Nat
        BY <1>1, <1>2, <3>1
      <4>2. \A p \in Q : p = 1 \/ p \in P
        OBVIOUS
      <4>3. \A p \in Q : p \in 1..j
        BY <4>1
      <4>4. 1 \in Q /\ \A p \in P : 1 <= p /\ p <= j => p \in Q
        OBVIOUS
      <4> QED BY <4>1, <4>2, <4>3, <4>4
    <3> HIDE DEF Q
    <3>3. i \in Q /\ \A p \in Q : i >= p
      BY <3>2, LastIsIn
    <3> HIDE DEF i
    <3>4. i \in 1..n /\ i \in 0..n /\ i <= j /\ (i = 1 \/ i \in P)
      BY <1>1, <3>1, <3>2, <3>3
    <3>5. e \in i..n /\ (e = n \/ e + 1 \in P)
      BY <1>1, <1>2, <3>4, EndIsNext
    <3> HIDE DEF e
    <3>6. ~ (e < j)
      <4> SUFFICES ASSUME e < j PROVE FALSE
        OBVIOUS
      <4>1. e + 1 \in P /\ 1 <= e + 1 /\ e + 1 <= j
        BY <1>1, <3>1, <3>4, <3>5
      <4>2. i >= e + 1
        BY <3>2, <3>3, <4>1
      <4> QED BY <1>1, <3>4, <3>5, <4>2
    <3>7. j \in i..e /\ \A m \in i..(j - 1) : m \in 1..(j - 1)
      BY <1>1, <3>1, <3>4, <3>5, <3>6
    <3>8. \A m \in i..(j - 1) : t[m] = "/"
      BY <2>2, <3>7
    <3> HIDE DEF q
    <3>9. OpensWith(Part(t, P, i), t[j])
      BY <1>2, <3>1, <3>4, <3>7, <3>8, PartOpens DEF n, e
    <3> QED BY <1>3, <3>1, <3>4, <3>9
  <2> DEFINE Opens(i) == OpensWith(q[i], "Nr")
  <2> HIDE DEF K, n, Opens
  <2>5. \A j \in K : \E i \in 1..n : Opens(i)
    BY <2>4 DEF Opens
  <2> DEFINE f == [j \in K |-> CHOOSE i \in 1..n : Opens(i)]
  <2>6. f \in [K -> 1..n] /\ \A j \in K : Opens(f[j])
    BY <2>5
  <2> HIDE DEF f
  <2>7. EachItsOwn(f, K, n)
    BY <2>3, <2>6 DEF EachItsOwn
  <2> QED BY <2>6, <2>7 DEF Opens, K, n
<1> QED BY <1>4, <1>5

\* And one of its pieces.
LEMMA HeadingsOpenPieces ==
  ASSUME NEW W, "/" \in W, NEW t \in Seq(W), ClausesAssumption
  PROVE  Cardinality({k \in DOMAIN Pieces(t) : Head(Pieces(t)[k]) = "Nr"})
           >= Cardinality(Numbered(t))
<1> DEFINE n == Len(t)
           K == Numbered(t)
           P == Breaks(t)
           q == Parts(t, P)
           parts == Cut(t, P)
           guarded == Guarded(t)
           pieces == Pieces(t)
           D == Seq(W)
           S == Short(W)
           Q == {k \in DOMAIN pieces : Head(pieces[k]) = "Nr"}
<1>1. PICK f : EachItsOwn(f, K, n) /\ \A j \in K : OpensWith(q[f[j]], "Nr")
  BY HeadingsOpenParts
<1>2. /\ pieces \in Seq(S) /\ pieces = FlattenSeq(guarded) /\ P \in SUBSET Nat
      /\ parts \in Seq(D) /\ guarded \in [1..Len(parts) -> Seq(S)]
      /\ \A k \in 1..Len(parts) : IsPieces(W, guarded[k], parts[k])
  BY PiecesKeepWords
<1>3. parts = FlattenSeq(q) /\ q \in [1..n -> Seq(D)] /\ n \in Nat
  BY <1>2, CutIsParts
<1> HIDE DEF n, K, P, q, parts, guarded, D, S
<1>4. PICK g : /\ EachItsOwn(g, K, Len(parts))
               /\ \A j \in K : parts[g[j]] = q[f[j]][1]
  <2>1. Filled(f, K, n, q)
    BY <1>1 DEF Filled, OpensWith
  <2>2. \E g : Starts(g, f, K, q, FlattenSeq(q))
    BY <1>3, <2>1, StartsAreApart, Zenon
  <2> QED BY <1>3, <2>2 DEF Starts
<1>5. Len(parts) \in Nat /\ \A k \in 1..Len(parts) : parts[k] \in D
  BY <1>2
<1>6. ASSUME NEW j \in K PROVE g[j] \in 1..Len(parts) /\ OpensWith(guarded[g[j]], "Nr")
  <2>1. g[j] \in 1..Len(parts)
    BY <1>4 DEF EachItsOwn
  <2>2. parts[g[j]] # <<>> /\ parts[g[j]][1] = "Nr"
    BY <1>1, <1>4 DEF OpensWith
  <2> DEFINE p == parts[g[j]]
             ps == guarded[g[j]]
  <2>3. IsPieces(W, ps, p)
    BY <1>2, <2>1
  <2> HIDE DEF p, ps
  <2>4. p # <<>> /\ p[1] = "Nr" /\ p[1] # "/"
    BY <2>2 DEF p
  <2>5. OpensWith(ps, "Nr")
    BY <2>3, <2>4 DEF IsPieces
  <2> QED BY <2>1, <2>5 DEF ps
<1>7. PICK h : /\ EachItsOwn(h, K, Len(FlattenSeq(guarded)))
               /\ \A j \in K : FlattenSeq(guarded)[h[j]] = guarded[g[j]][1]
  <2>1. Filled(g, K, Len(parts), guarded)
    BY <1>4, <1>6 DEF Filled, OpensWith
  <2>2. \E h : Starts(h, g, K, guarded, FlattenSeq(guarded))
    BY <1>2, <1>5, <2>1, StartsAreApart, Zenon
  <2> QED BY <2>2 DEF Starts
<1> HIDE DEF pieces
<1>8. /\ EachItsOwn(h, K, Len(pieces)) /\ Len(pieces) \in Nat /\ DOMAIN pieces = 1..Len(pieces)
      /\ \A j \in K : pieces[h[j]] = guarded[g[j]][1]
  BY <1>2, <1>7
<1>9. ASSUME NEW j \in K PROVE h[j] \in Q
  <2>1. h[j] \in 1..Len(pieces)
    BY <1>8 DEF EachItsOwn
  <2>2. pieces[h[j]] # <<>> /\ pieces[h[j]][1] = "Nr"
    BY <1>6, <1>8 DEF OpensWith
  <2>3. Head(pieces[h[j]]) = pieces[h[j]][1]
    <3> DEFINE p == pieces[h[j]]
    <3>1. p \in S
      BY <1>2, <2>1
    <3> HIDE DEF p
    <3>2. p \in Seq(W)
      BY <3>1 DEF S, Short
    <3>3. Head(p) = p[1]
      BY <3>2
    <3> QED BY <3>3 DEF p
  <2> QED BY <1>8, <2>1, <2>2, <2>3
<1>10. Q \in SUBSET (1..Len(pieces))
  BY <1>8
<1> HIDE DEF Q
<1>11. IsFiniteSet(K) /\ Cardinality(K) <= Cardinality(Q)
  BY <1>8, <1>9, <1>10, AtLeastAsMany
<1>12. Cardinality(K) \in Nat /\ Cardinality(Q) \in Nat
  <2>1. IsFiniteSet(1..Len(pieces))
    BY <1>8, FS_Interval
  <2>2. IsFiniteSet(Q)
    BY <1>10, <2>1, FS_Subset
  <2> QED BY <1>11, <2>2, FS_CardinalityType
<1> QED BY <1>11, <1>12 DEF K, Q, pieces

\* The whole of a contract.
LEMMA ContractIsWhole ==
  ASSUME NEW W, "/" \in W, NEW t \in Seq(W), ClausesAssumption
  PROVE  ContractWhole(t, Pieces(t))
<1> DEFINE pieces == Pieces(t)
           S == Short(W)
<1>1. pieces \in Seq(S) /\ AllWords(pieces) = Words(t)
  BY PiecesKeepWords
<1>2. Joined(Words, pieces) = Words(t)
  BY <1>1 DEF AllWords
<1>3. Cardinality({k \in DOMAIN pieces : Head(pieces[k]) = "Nr"}) >= Cardinality(Numbered(t))
  BY HeadingsOpenPieces
<1> HIDE DEF pieces, S
<1>4. ASSUME NEW k \in DOMAIN pieces
      PROVE  \E c \in {SegmentClauses(pieces)[k]} :
               /\ Words(pieces[k]) \in {Words(c.text), Words(c.heading) \o Words(c.text)}
               /\ c.index = k - 1 /\ Len(pieces[k]) <= MaxClauseChars
  <2> DEFINE p == pieces[k]
             c == ClauseOf(p, k - 1)
  <2>1. p \in S
    BY <1>1
  <2>2. SegmentClauses(pieces)[k] = c
    BY DEF SegmentClauses
  <2> HIDE DEF p
  <2>3. p \in Seq(W) /\ Len(p) <= MaxClauseChars
    BY <2>1 DEF S, Short
  <2>4. Words(p) \in {Words(c.text), Words(c.heading) \o Words(c.text)} /\ c.index = k - 1
    BY <2>3, ClauseKeepsWords
  <2> HIDE DEF c
  <2> QED BY <2>2, <2>3, <2>4 DEF p
<1> QED BY <1>2, <1>3, <1>4 DEF ContractWhole, pieces

-----------------------------------------------------------------------------
(* The sections of a decision, in windows and their children. *)

LEMMA SliceIsWithin ==
  ASSUME NEW W, NEW t \in Seq(W), NEW a \in 1..Len(t), NEW b \in a..Len(t)
  PROVE  /\ Within(SubSeq(t, a, b), t) /\ SubSeq(t, a, b) \in Seq(W)
         /\ Len(SubSeq(t, a, b)) = b - a + 1
<1> DEFINE n == Len(t)
           s == SubSeq(t, a, b)
<1>1. n \in Nat /\ a \in 1..n /\ b \in a..n /\ \A i \in a..b : t[i] \in W
  OBVIOUS
<1> HIDE DEF n
<1>2. a \in Int /\ b \in Int /\ a <= b
  BY <1>1
<1>3. s \in Seq(W) /\ Len(s) = b - a + 1
  BY <1>1, <1>2, SubSeqProperties
<1>4. s = SubSeq(t, (a - 1) + 1, (a - 1) + Len(s))
  <2>1. (a - 1) + 1 = a /\ (a - 1) + (b - a + 1) = b
    BY <1>2
  <2> QED BY <1>3, <2>1
<1>5. a - 1 \in 0..(n - Len(s))
  BY <1>1, <1>3
<1> HIDE DEF s
<1>6. Within(s, t)
  BY <1>4, <1>5 DEF Within, n
<1> QED BY <1>3, <1>6 DEF s

\* What NonBlank leaves of a slice of w is the part of it from a to b, or nothing.
StripsTo(w, i, j, a, b) ==
  /\ a \in i..j /\ b \in a..j /\ NonBlank(SubSeq(w, i, j)) = <<SubSeq(w, a, b)>>
  /\ w[a] # "/" /\ \A k \in i..j : k < a \/ k > b => w[k] = "/"

LEMMA StrippedIsPart ==
  ASSUME NEW W, NEW w \in Seq(W), NEW i \in 1..Len(w), NEW j \in i..Len(w)
  PROVE  \/ NonBlank(SubSeq(w, i, j)) = <<>> /\ \A k \in i..j : w[k] = "/"
         \/ \E a \in 1..Len(w), b \in 1..Len(w) : StripsTo(w, i, j, a, b)
<1> DEFINE s == SubSeq(w, i, j)
           n == Len(w)
<1>1. s \in Seq(W) /\ Len(s) = j - i + 1
  BY SliceIsWithin
<1>2. n \in Nat /\ i \in 1..n /\ j \in 1..n /\ j \in i..n
  BY DEF n
<1>3. ASSUME NEW k \in i..j PROVE k - i + 1 \in 1..Len(s) /\ s[k - i + 1] = w[k]
  <2> DEFINE l == k - i + 1
  <2>1. l \in 1..(j - i + 1) /\ i + l - 1 = k
    BY <1>2
  <2> HIDE DEF l
  <2>2. SubSeq(w, i, j)[l] = w[i + l - 1]
    BY <1>2, <2>1, SubSeqProperties DEF n
  <2> QED BY <1>1, <2>1, <2>2 DEF l
<1>4. CASE \A k \in 1..Len(s) : s[k] = "/"
  <2>1. Words(s) = <<>>
    <3> HIDE DEF s
    <3> QED BY <1>1, <1>4, BlankHasNoWords
  <2>2. NonBlank(s) = <<>>
    BY <2>1 DEF NonBlank
  <2>3. \A k \in i..j : w[k] = "/"
    <3> HIDE DEF s
    <3> QED BY <1>3, <1>4
  <2> QED BY <2>2, <2>3
<1>5. CASE ~ (\A k \in 1..Len(s) : s[k] = "/")
  <2>1. Words(s) # <<>>
    <3> HIDE DEF s
    <3> QED BY <1>1, <1>5, BlankHasNoWords
  <2>2. NonBlank(s) = <<Strip(s)>>
    BY <2>1 DEF NonBlank
  <2>3. PICK c, d \in 1..Len(s) : IsStrip(s, c, d)
    <3> HIDE DEF s
    <3> QED BY <1>1, <1>5, StripIsWithin
  <2>4. /\ c \in 1..Len(s) /\ d \in c..Len(s) /\ Strip(s) = SubSeq(s, c, d) /\ s[c] # "/"
        /\ \A k \in 1..Len(s) : k < c \/ k > d => s[k] = "/"
    BY <2>3 DEF IsStrip
  <2> HIDE DEF n
  <2>5. c \in 1..(j - i + 1) /\ d \in 1..(j - i + 1) /\ c <= d
    BY <1>1, <1>2, <2>4
  <2> DEFINE a == i + c - 1
             b == i + d - 1
  <2>6. SubSeq(SubSeq(w, i, j), c, d) = SubSeq(w, a, b)
    BY <1>2, <2>5, SubSeqOfSubSeq DEF n
  <2>7. a \in i..j /\ b \in a..j /\ a - i + 1 = c /\ a \in 1..n /\ b \in 1..n
    BY <1>2, <2>5
  <2> HIDE DEF a, b
  <2>8. NonBlank(s) = <<SubSeq(w, a, b)>>
    BY <2>2, <2>4, <2>6 DEF s
  <2>9. w[a] # "/"
    <3> HIDE DEF s
    <3> QED BY <1>3, <2>4, <2>7
  <2>10. ASSUME NEW k \in i..j, k < a \/ k > b PROVE w[k] = "/"
    <3> HIDE DEF s
    <3>1. k - i + 1 \in 1..Len(s) /\ s[k - i + 1] = w[k]
      BY <1>3
    <3>2. k - i + 1 < c \/ k - i + 1 > d
      BY <1>2, <2>5, <2>10 DEF a, b
    <3> QED BY <2>4, <3>1, <3>2
  <2>11. StripsTo(w, i, j, a, b)
    BY <2>7, <2>8, <2>9, <2>10 DEF StripsTo, s
  <2> QED BY <2>7, <2>11 DEF n
<1> QED BY <1>4, <1>5

\* The texts kids lie in w at the places at: in their order, sharing no more than
\* the overlap, with no word between them.
CoverAt(at, kids, w) ==
  /\ at \in [1..Len(kids) -> 0..Len(w)]
  /\ \A k \in 1..Len(kids) :
       /\ at[k] + Len(kids[k]) <= Len(w)
       /\ SubSeq(w, at[k] + 1, at[k] + Len(kids[k])) = kids[k]
  /\ \A k, l \in 1..Len(kids) :
       k < l => at[k] <= at[l] /\ at[k] + Len(kids[k]) <= at[l] + ChildOverlap
  /\ \A i \in 1..Len(w) :
       w[i] = "/" \/ \E k \in 1..Len(kids) : i \in (at[k] + 1)..(at[k] + Len(kids[k]))

\* The k-th window of w: from a to b without its blank ends, or all blank.
WindowAt(w, k, a, b) ==
  /\ WindowOpens(w, k) /\ a \in WindowFrom(k)..WindowTo(w, k) /\ b \in a..WindowTo(w, k)
  /\ Bits(w)[k] = <<SubSeq(w, a, b)>> /\ w[a] # "/"
  /\ \A i \in WindowFrom(k)..WindowTo(w, k) : i < a \/ i > b => w[i] = "/"

LEMMA WindowsArePlaced ==
  ASSUME NEW W, NEW w \in Seq(W), ClausesAssumption, NEW k \in 1..Len(w)
  PROVE  /\ Bits(w)[k] # <<>> => \E a \in 1..Len(w), b \in 1..Len(w) : WindowAt(w, k, a, b)
         /\ Bits(w)[k] = <<>> /\ WindowOpens(w, k) => \A i \in WindowFrom(k)..WindowTo(w, k) : w[i] = "/"
<1> DEFINE i == WindowFrom(k)
           j == WindowTo(w, k)
<1>1. Bits(w)[k] = IF WindowOpens(w, k) THEN NonBlank(SubSeq(w, i, j)) ELSE <<>>
  BY DEF Bits
<1>2. CASE ~ WindowOpens(w, k)
  BY <1>1, <1>2
<1>3. CASE WindowOpens(w, k)
  <2>1. i \in 1..Len(w) /\ j \in i..Len(w)
    BY <1>3, WindowsReach
  <2> HIDE DEF i, j
  <2>2. \/ NonBlank(SubSeq(w, i, j)) = <<>> /\ \A x \in i..j : w[x] = "/"
        \/ \E a \in 1..Len(w), b \in 1..Len(w) : StripsTo(w, i, j, a, b)
    BY <2>1, StrippedIsPart
  <2>3. CASE NonBlank(SubSeq(w, i, j)) = <<>> /\ \A x \in i..j : w[x] = "/"
    BY <1>1, <1>3, <2>3 DEF i, j
  <2>4. CASE \E a \in 1..Len(w), b \in 1..Len(w) : StripsTo(w, i, j, a, b)
    <3>1. PICK a \in 1..Len(w), b \in 1..Len(w) : StripsTo(w, i, j, a, b)
      BY <2>4
    <3>2. WindowAt(w, k, a, b)
      BY <1>1, <1>3, <3>1 DEF StripsTo, WindowAt, i, j
    <3>3. <<SubSeq(w, a, b)>> # <<>>
      OBVIOUS
    <3>4. Bits(w)[k] # <<>>
      BY <3>2, <3>3 DEF WindowAt
    <3> QED BY <3>2, <3>4
  <2> QED BY <2>2, <2>3, <2>4
<1> QED BY <1>2, <1>3

LEMMA ChildTextsCover ==
  ASSUME NEW W, NEW w \in Seq(W), ClausesAssumption
  PROVE  \E at : CoverAt(at, ChildTexts(w), w)
<1> DEFINE n == Len(w)
           bits == Bits(w)
           kids == ChildTexts(w)
           m == Len(kids)
           K == {k \in 1..n : bits[k] # <<>>}
           place == [k \in K |-> CHOOSE p \in (1..n) \X (1..n) : WindowAt(w, k, p[1], p[2])]
<1>1. n \in Nat /\ ChildOverlap \in Nat
  BY DEF ClausesAssumption
<1>2. /\ kids = FlattenSeq(bits) /\ kids \in Seq(Seq(W)) /\ m \in Nat
      /\ bits \in [1..n -> Seq(Seq(W))]
  BY ChildTextsAreTexts
<1> HIDE DEF bits, kids
<1>3. PICK pl : Places(pl, n, bits, kids)
  BY <1>1, <1>2, FlatHasPlaces
<1>4. ASSUME NEW k \in K
      PROVE  /\ place[k][1] \in 1..n /\ place[k][2] \in 1..n
             /\ WindowAt(w, k, place[k][1], place[k][2])
  <2>1. PICK a \in 1..n, b \in 1..n : WindowAt(w, k, a, b)
    BY WindowsArePlaced DEF bits
  <2>2. <<a, b>> \in (1..n) \X (1..n) /\ <<a, b>>[1] = a /\ <<a, b>>[2] = b
    OBVIOUS
  <2>3. \E p \in (1..n) \X (1..n) : WindowAt(w, k, p[1], p[2])
    BY <2>1, <2>2
  <2> DEFINE q == CHOOSE p \in (1..n) \X (1..n) : WindowAt(w, k, p[1], p[2])
  <2>4. q \in (1..n) \X (1..n) /\ WindowAt(w, k, q[1], q[2])
    BY <2>3, Zenon
  <2>5. place[k] = q
    OBVIOUS
  <2> HIDE DEF q
  <2> QED BY <2>4, <2>5
<1> HIDE DEF place, m
<1>5. ASSUME NEW k \in K
      PROVE  Len(bits[k]) = 1 /\ bits[k][1] = SubSeq(w, place[k][1], place[k][2])
  <2> DEFINE x == SubSeq(w, place[k][1], place[k][2])
  <2>1. bits[k] = <<x>>
    BY <1>4 DEF WindowAt, bits
  <2> HIDE DEF x
  <2>2. Len(<<x>>) = 1 /\ <<x>>[1] = x
    OBVIOUS
  <2>3. Len(bits[k]) = 1 /\ bits[k][1] = x
    BY <2>1, <2>2
  <2> QED BY <2>3 DEF x
<1> DEFINE Is(i, k) == k \in K /\ i = pl[k - 1] + 1 /\ i = pl[k]
                       /\ kids[i] = SubSeq(w, place[k][1], place[k][2])
<1>6. ASSUME NEW i \in 1..m PROVE \E k \in K : Is(i, k)
  <2>1. PICK k \in 1..n : \E c \in 1..Len(bits[k]) : i = pl[k - 1] + c
    BY <1>3 DEF Places, m
  <2>2. PICK c \in 1..Len(bits[k]) : i = pl[k - 1] + c
    BY <2>1
  <2>3. k \in K
    <3>1. CASE bits[k] = <<>>
      <4>1. Len(bits[k]) = 0
        BY <3>1
      <4> QED BY <2>2, <4>1
    <3> QED BY <3>1
  <2>6. Len(bits[k]) = 1 /\ bits[k][1] = SubSeq(w, place[k][1], place[k][2])
    BY <1>5, <2>3
  <2>4. c = 1
    BY <2>2, <2>6
  <2>5. pl[k] = pl[k - 1] + Len(bits[k]) /\ kids[pl[k - 1] + c] = bits[k][c]
    BY <1>3, <2>2 DEF Places
  <2> QED BY <2>2, <2>3, <2>4, <2>5, <2>6
<1>7. ASSUME NEW k \in K PROVE \E i \in 1..m : Is(i, k)
  <2>1. Len(bits[k]) = 1 /\ k \in 1..n /\ 1 \in 1..Len(bits[k])
    BY <1>5
  <2>2. /\ pl[k] = pl[k - 1] + Len(bits[k])
        /\ pl[k - 1] + 1 \in 1..m /\ kids[pl[k - 1] + 1] = bits[k][1]
    BY <1>3, <2>1 DEF Places, m
  <2> QED BY <1>5, <2>1, <2>2
<1> DEFINE src == [i \in 1..m |-> CHOOSE k \in K : Is(i, k)]
<1>8. ASSUME NEW i \in 1..m PROVE src[i] \in K /\ Is(i, src[i])
  <2> HIDE DEF Is, K
  <2> QED BY <1>6
<1> HIDE DEF src
<1> DEFINE a(i) == place[src[i]][1]
           b(i) == place[src[i]][2]
           at == [i \in 1..m |-> a(i) - 1]
<1>9. ASSUME NEW i \in 1..m
      PROVE  /\ a(i) \in 1..n /\ b(i) \in 1..n /\ a(i) <= b(i)
             /\ at[i] \in 0..n /\ at[i] + 1 = a(i) /\ at[i] + Len(kids[i]) = b(i)
             /\ kids[i] = SubSeq(w, a(i), b(i))
             /\ WindowAt(w, src[i], a(i), b(i))
  <2>1. src[i] \in K /\ kids[i] = SubSeq(w, a(i), b(i))
    BY <1>8
  <2>2. a(i) \in 1..n /\ b(i) \in 1..n /\ WindowAt(w, src[i], a(i), b(i))
    BY <1>4, <2>1
  <2>3. b(i) \in a(i)..WindowTo(w, src[i])
    BY <2>2 DEF WindowAt
  <2> DEFINE x == a(i)
             y == b(i)
  <2>4. at[i] = x - 1
    OBVIOUS
  <2>5. x \in 1..n /\ y \in 1..n /\ x <= y
    BY <2>2, <2>3
  <2> HIDE DEF x, y, at
  <2>6. y \in x..n
    BY <1>1, <2>5
  <2>7. Len(SubSeq(w, x, y)) = y - x + 1
    BY <2>5, <2>6, SliceIsWithin
  <2>8. /\ at[i] \in 0..n /\ at[i] + 1 = x /\ at[i] + Len(SubSeq(w, x, y)) = y
    BY <1>1, <2>4, <2>5, <2>7
  <2> QED BY <2>1, <2>2, <2>5, <2>8 DEF x, y
<1>10. ASSUME NEW i \in 1..m, NEW j \in 1..m, i < j
       PROVE  a(i) <= a(j) /\ b(i) < a(j) + ChildOverlap
  <2> DEFINE k == src[i]
             l == src[j]
  <2>1. k \in 1..n /\ l \in 1..n /\ i = pl[k] /\ j = pl[l - 1] + 1
    BY <1>8
  <2> HIDE DEF k, l
  <2>2. k < l
    <3>1. CASE l <= k
      <4>1. l - 1 \in 0..n /\ k \in 0..n /\ l \in 0..n /\ l - 1 <= k
        BY <1>1, <2>1, <3>1
      <4>2. pl[l] <= pl[k] /\ pl[l] \in Nat /\ pl[k] \in Nat
        BY <1>3, <3>1, <4>1 DEF Places
      <4>3. j = pl[l]
        BY <1>8 DEF l
      <4>4. i \in Nat /\ j \in Nat /\ i < j
        BY <1>2, <1>10
      <4> DEFINE x == pl[k]
                 y == pl[l]
      <4>5. y <= x /\ i = x /\ j = y
        BY <2>1, <4>2, <4>3
      <4> HIDE DEF x, y
      <4> QED BY <4>4, <4>5
    <3> QED BY <1>1, <2>1, <3>1
  <2>3. WindowAt(w, k, a(i), b(i)) /\ WindowAt(w, l, a(j), b(j))
    BY <1>9 DEF k, l
  <2> DEFINE ai == a(i)
             bi == b(i)
             aj == a(j)
  <2>4. ai \in 1..n /\ bi \in 1..n /\ aj \in 1..n
    BY <1>9
  <2> HIDE DEF ai, bi, aj
  <2>5. /\ WindowOpens(w, k) /\ WindowOpens(w, l) /\ bi \in ai..WindowTo(w, k) /\ ai \in WindowFrom(k)..WindowTo(w, k)
        /\ aj \in WindowFrom(l)..WindowTo(w, l) /\ w[aj] # "/"
        /\ \A x \in WindowFrom(k)..WindowTo(w, k) : x < ai \/ x > bi => w[x] = "/"
    BY <2>3 DEF WindowAt, ai, bi, aj
  <2>6. /\ WindowFrom(k) \in 1..n /\ WindowFrom(l) \in 1..n /\ WindowTo(w, k) \in WindowFrom(k)..n
        /\ WindowTo(w, l) \in WindowFrom(l)..n /\ WindowFrom(k) <= WindowFrom(l) /\ WindowTo(w, k) < WindowFrom(l) + ChildOverlap
    BY <2>1, <2>2, <2>5, WindowsReach
  <2> DEFINE fk == WindowFrom(k)
             fl == WindowFrom(l)
             ek == WindowTo(w, k)
             el == WindowTo(w, l)
  <2>7. /\ fk \in 1..n /\ fl \in 1..n /\ ek \in fk..n /\ fk <= fl /\ ek < fl + ChildOverlap
        /\ bi \in ai..ek /\ aj \in fl..el /\ el \in fl..n
        /\ \A x \in fk..ek : x < ai \/ x > bi => w[x] = "/"
    BY <2>5, <2>6
  <2> HIDE DEF fk, fl, ek, el
  <2>8. /\ n \in Nat /\ ai \in Nat /\ bi \in Nat /\ aj \in Nat
         /\ fk \in Nat /\ fl \in Nat /\ ek \in Nat
         /\ fk <= fl /\ ek < fl + ChildOverlap /\ bi <= ek /\ fl <= aj /\ ai <= bi
    <3>1. n \in Nat
      BY <1>1
    <3> HIDE DEF n
    <3> QED BY <2>4, <2>7, <3>1
  <2>9. bi < aj + ChildOverlap
    BY <1>1, <2>8
  <2>10. ai <= aj
    <3>1. CASE aj < ai
      <4>1. aj \in fk..ek
        BY <2>8, <3>1
      <4> QED BY <2>5, <2>7, <3>1, <4>1
    <3> QED BY <2>8, <3>1
  <2> QED BY <2>9, <2>10 DEF ai, bi, aj
<1>11. ASSUME NEW x \in 1..n, w[x] # "/"
       PROVE  \E i \in 1..m : x \in a(i)..b(i)
  <2>1. PICK k \in 1..n : WindowOpens(w, k) /\ x \in WindowFrom(k)..WindowTo(w, k)
    BY WindowsReach
  <2>2. k \in K
    BY <1>11, <2>1, WindowsArePlaced DEF bits
  <2>3. PICK i \in 1..m : Is(i, k)
    BY <1>7, <2>2
  <2> DEFINE l == src[i]
  <2>4. l \in 1..n /\ i = pl[l] /\ i = pl[l - 1] + 1 /\ i = pl[k] /\ i = pl[k - 1] + 1 /\ i \in Nat
    BY <1>8, <2>3
  <2> HIDE DEF l
  <2>5. l = k
    <3>1. \A y, z \in 0..n : y <= z => pl[y] <= pl[z]
      BY <1>3 DEF Places
    <3>2. k - 1 \in 0..n /\ k \in 0..n /\ l - 1 \in 0..n /\ l \in 0..n
      BY <1>1, <2>4
    <3>3. pl[k - 1] \in Nat /\ pl[l - 1] \in Nat
      BY <1>3, <3>2 DEF Places
    <3>4. ~ (l <= k - 1)
      <4> DEFINE y == pl[l]
                 z == pl[k - 1]
      <4>1. l <= k - 1 => y <= z
        BY <3>1, <3>2
      <4>2. i = y /\ i = z + 1 /\ z \in Nat
        BY <2>4, <3>3
      <4> HIDE DEF y, z
      <4> QED BY <4>1, <4>2
    <3>5. ~ (k <= l - 1)
      <4> DEFINE y == pl[k]
                 z == pl[l - 1]
      <4>1. k <= l - 1 => y <= z
        BY <3>1, <3>2
      <4>2. i = y /\ i = z + 1 /\ z \in Nat
        BY <2>4, <3>3
      <4> HIDE DEF y, z
      <4> QED BY <4>1, <4>2
    <3>6. k \in Int /\ l \in Int
      BY <2>4
    <3> QED BY <3>4, <3>5, <3>6
  <2>6. WindowAt(w, k, a(i), b(i))
    BY <1>9, <2>5 DEF l
  <2>7. a(i) \in 1..n /\ b(i) \in 1..n
    BY <1>9
  <2>8. ~ (x < a(i) \/ x > b(i))
    BY <1>11, <2>1, <2>6 DEF WindowAt
  <2> DEFINE ai == a(i)
             bi == b(i)
  <2>9. ai \in 1..n /\ bi \in 1..n /\ ~ (x < ai \/ x > bi)
    BY <2>7, <2>8
  <2> HIDE DEF ai, bi
  <2>10. x \in ai..bi
    BY <1>1, <2>9
  <2> QED BY <2>10 DEF ai, bi
<1>12. CoverAt(at, kids, w)
  <2>1. at \in [1..m -> 0..n]
    BY <1>9
  <2>2. ASSUME NEW i \in 1..m
        PROVE  /\ at[i] + Len(kids[i]) <= n
               /\ SubSeq(w, at[i] + 1, at[i] + Len(kids[i])) = kids[i]
    <3> DEFINE ai == a(i)
               bi == b(i)
    <3>1. /\ bi \in 1..n /\ at[i] + 1 = ai /\ at[i] + Len(kids[i]) = bi
          /\ kids[i] = SubSeq(w, ai, bi)
      BY <1>9
    <3> HIDE DEF ai, bi, at
    <3>2. bi <= n
      BY <1>1, <3>1
    <3> QED BY <3>1, <3>2
  <2>3. ASSUME NEW i \in 1..m, NEW j \in 1..m, i < j
        PROVE  at[i] <= at[j] /\ at[i] + Len(kids[i]) <= at[j] + ChildOverlap
    <3> DEFINE ai == a(i)
               bi == b(i)
               aj == a(j)
    <3>1. ai <= aj /\ bi < aj + ChildOverlap
      BY <1>10, <2>3
    <3>2. /\ ai \in 1..n /\ bi \in 1..n /\ aj \in 1..n
          /\ at[i] + 1 = ai /\ at[j] + 1 = aj /\ at[i] + Len(kids[i]) = bi
          /\ at[i] \in 0..n /\ at[j] \in 0..n
      BY <1>9
    <3> DEFINE y == Len(kids[i])
    <3> HIDE DEF ai, bi, aj, at, y
    <3>3. at[i] + y = bi
      BY <3>2 DEF y
    <3> DEFINE p == at[i]
               q == at[j]
    <3>5. p \in 0..n /\ q \in 0..n /\ p + 1 = ai /\ q + 1 = aj
      BY <3>2
    <3> HIDE DEF p, q
    <3>6. bi \in 1..n
      BY <3>2
    <3> HIDE DEF n
    <3>4. p <= q /\ bi <= q + ChildOverlap
      BY <1>1, <3>1, <3>5, <3>6
    <3> QED BY <3>3, <3>4 DEF y, p, q
  <2>4. ASSUME NEW x \in 1..n, w[x] # "/"
        PROVE  \E i \in 1..m : x \in (at[i] + 1)..(at[i] + Len(kids[i]))
    <3>1. PICK i \in 1..m : x \in a(i)..b(i)
      BY <1>11, <2>4
    <3>2. at[i] + 1 = a(i) /\ at[i] + Len(kids[i]) = b(i)
      BY <1>9
    <3> QED BY <3>1, <3>2
  <2> HIDE DEF at, a, b
  <2> QED BY <2>1, <2>2, <2>3, <2>4 DEF CoverAt, m
<1> QED BY <1>12 DEF kids

\* What Hierarchy makes of the window w, and all its windows.
UnitOf(w) ==
  IF ChildTexts(w) = <<>> THEN <<>> ELSE <<[text |-> w, children |-> ChildTexts(w)]>>
Windows(t) == FlattenSeq([k \in DOMAIN SplitByHeading(t) |-> Sliced(SplitByHeading(t)[k], ParentTokens)])

LEMMA WindowsKeepWords ==
  ASSUME NEW W, NEW t \in Seq(W), ClausesAssumption
  PROVE  Windows(t) \in Seq(Seq(W)) /\ AllWords(Windows(t)) = AllWords(SplitByHeading(t))
<1> DEFINE sections == SplitByHeading(t)
           cuts == [k \in DOMAIN sections |-> Sliced(sections[k], ParentTokens)]
<1>1. ParentTokens \in Nat \ {0}
  BY DEF ClausesAssumption
<1>2. sections \in Seq(Seq(W))
  BY SectionsAreTexts
<1>3. Windows(t) = FlattenSeq(cuts)
  BY DEF Windows
<1> HIDE DEF sections
<1>4. DOMAIN sections = 1..Len(sections) /\ \A k \in 1..Len(sections) : sections[k] \in Seq(W)
  BY <1>2
<1>5. ASSUME NEW k \in 1..Len(sections)
      PROVE  /\ Sliced(sections[k], ParentTokens) \in Seq(Seq(W))
             /\ AllWords(Sliced(sections[k], ParentTokens)) = Words(sections[k])
  BY <1>1, <1>4, SlicedIsTexts, SlicesKeepWords
<1>6. /\ cuts \in [1..Len(sections) -> Seq(Seq(W))]
      /\ \A k \in 1..Len(sections) : AllWords(cuts[k]) = Words(sections[k])
  BY <1>4, <1>5
<1> HIDE DEF cuts
<1>7. AllWords(FlattenSeq(cuts)) = AllWords(sections) /\ FlattenSeq(cuts) \in Seq(Seq(W))
  BY <1>2, <1>6, SameWords
<1> QED BY <1>3, <1>7 DEF sections

\* Units whose children cover them.
CoveredUnits(W) == {u \in Units(W) : \E at : CoverAt(at, u.children, u.text)}

LEMMA UnitKeepsWords ==
  ASSUME NEW W, NEW w \in Seq(W), ClausesAssumption
  PROVE  /\ UnitOf(w) \in Seq(CoveredUnits(W))
         /\ UnitOf(w) = <<>> => Words(w) = <<>>
         /\ UnitOf(w) # <<>> => \E u \in CoveredUnits(W) : UnitOf(w) = <<u>> /\ u.text = w
<1> DEFINE kids == ChildTexts(w)
           u == [text |-> w, children |-> kids]
<1>1. PICK at : CoverAt(at, kids, w)
  BY ChildTextsCover
<1>2. kids \in Seq(Seq(W))
  BY ChildTextsAreTexts
<1>3. UnitOf(w) = IF kids = <<>> THEN <<>> ELSE <<u>>
  BY DEF UnitOf
<1> HIDE DEF kids
<1>4. u \in Units(W) /\ u.children = kids /\ u.text = w
  BY <1>2 DEF Units
<1> HIDE DEF u
<1>5. u \in CoveredUnits(W)
  BY <1>1, <1>4 DEF CoveredUnits
<1>6. CASE kids = <<>>
  <2>1. Len(kids) = 0
    BY <1>6
  <2>2. \A i \in 1..Len(w) : w[i] = "/"
    BY <1>1, <2>1 DEF CoverAt
  <2>3. Words(w) = <<>>
    BY <2>2, BlankHasNoWords
  <2>4. <<>> \in Seq(CoveredUnits(W))
    OBVIOUS
  <2> QED BY <1>3, <1>6, <2>3, <2>4
<1>7. CASE kids # <<>>
  <2>1. <<u>> \in Seq(CoveredUnits(W)) /\ <<u>> # <<>>
    BY <1>5
  <2> QED BY <1>3, <1>4, <1>5, <1>7, <2>1
<1> QED BY <1>6, <1>7

LEMMA HierarchyKeepsWords ==
  ASSUME NEW W, NEW t \in Seq(W), ClausesAssumption
  PROVE  /\ Hierarchy(t) \in Seq(CoveredUnits(W))
         /\ FlattenSeq([k \in DOMAIN Hierarchy(t) |-> Words(Hierarchy(t)[k].text)])
              = AllWords(SplitByHeading(t))
<1> DEFINE wins == Windows(t)
           n == Len(wins)
           us == [k \in DOMAIN wins |-> UnitOf(wins[k])]
           units == Hierarchy(t)
           tt == [k \in DOMAIN wins |-> Words(wins[k])]
           U == CoveredUnits(W)
           f == [u \in U |-> Words(u.text)]
           h == [s \in Seq(U) |-> FlatMap(f, s)]
<1>1. units = FlattenSeq(us)
  BY DEF Hierarchy, Windows, UnitOf, Joined
<1>2. wins \in Seq(Seq(W)) /\ AllWords(wins) = AllWords(SplitByHeading(t))
  BY WindowsKeepWords
<1> HIDE DEF wins
<1>3. n \in Nat /\ DOMAIN wins = 1..n /\ \A k \in 1..n : wins[k] \in Seq(W)
  BY <1>2
<1>4. f \in [U -> Seq(W)] /\ \A u \in U : f[u] = Words(u.text)
  <2> SUFFICES ASSUME NEW u \in U PROVE Words(u.text) \in Seq(W)
    OBVIOUS
  <2>1. u.text \in Seq(W)
    BY DEF CoveredUnits, Units
  <2> QED BY <2>1, WordsAdd
<1> HIDE DEF U, f
<1>5. Joins(h, U, W) /\ \A x \in U : FlatMap(f, <<x>>) = f[x]
  <2> HIDE DEF h
  <2>1. /\ Joins([s \in Seq(U) |-> FlatMap(f, s)], U, W)
        /\ \A x \in U : FlatMap(f, <<x>>) = f[x]
    BY <1>4, FlatMapJoins, Zenon
  <2> QED BY <2>1 DEF h
<1>6. \A s \in Seq(U) : h[s] = FlatMap(f, s)
  OBVIOUS
<1> HIDE DEF h
<1>7. ASSUME NEW k \in 1..n
      PROVE  us[k] \in Seq(U) /\ tt[k] \in Seq(W) /\ tt[k] = h[us[k]]
  <2> DEFINE w == wins[k]
  <2>1. w \in Seq(W) /\ us[k] = UnitOf(w) /\ tt[k] = Words(w)
    BY <1>3
  <2> HIDE DEF w
  <2>2. /\ UnitOf(w) \in Seq(U)
        /\ UnitOf(w) = <<>> => Words(w) = <<>>
        /\ UnitOf(w) # <<>> => \E u \in U : UnitOf(w) = <<u>> /\ u.text = w
    BY <2>1, UnitKeepsWords DEF U
  <2>3. Words(w) \in Seq(W)
    BY <2>1, WordsAdd
  <2> HIDE DEF us, tt
  <2>4. CASE UnitOf(w) = <<>>
    BY <1>5, <2>1, <2>2, <2>3, <2>4 DEF Joins
  <2>5. CASE UnitOf(w) # <<>>
    <3>1. PICK u \in U : UnitOf(w) = <<u>> /\ u.text = w
      BY <2>2, <2>5
    <3>2. h[<<u>>] = f[u]
      <4>1. <<u>> \in Seq(U)
        OBVIOUS
      <4> QED BY <1>5, <1>6, <4>1
    <3>3. f[u] = Words(w)
      BY <1>4, <3>1
    <3> QED BY <2>1, <2>2, <2>3, <3>1, <3>2, <3>3
  <2> QED BY <2>4, <2>5
<1>8. us \in [1..n -> Seq(U)] /\ tt \in [1..n -> Seq(W)]
  BY <1>3, <1>7
<1>9. FlattenSeq(tt) = AllWords(wins)
  BY DEF AllWords, Joined
<1> HIDE DEF us, tt, n
<1>10. h[FlattenSeq(us)] = FlattenSeq(tt)
  <2>1. MakesOf(h, U, W, n, us, tt)
    BY <1>5, <1>7, <1>8 DEF MakesOf
  <2> QED BY <1>3, <2>1, FlattenCommutes, Zenon
<1>11. units \in Seq(U)
  BY <1>1, <1>3, <1>8, FlattenIsSeq
<1> HIDE DEF units
<1>12. h[units] = FlattenSeq([k \in DOMAIN units |-> Words(units[k].text)])
  <2>1. DOMAIN units = 1..Len(units) /\ \A k \in DOMAIN units : units[k] \in U
    BY <1>11
  <2>2. Mapped(f, units) = [k \in DOMAIN units |-> Words(units[k].text)]
    BY <1>4, <2>1 DEF Mapped
  <2> QED BY <1>6, <1>11, <2>2 DEF FlatMap
<1> QED BY <1>1, <1>2, <1>9, <1>10, <1>11, <1>12 DEF units, U

\* The rows of the children of unit u, the k-th.
RowsOfUnit(u, k) ==
  [c \in DOMAIN u.children |->
     [chunk |-> <<k - 1, c - 1>>, parent |-> k - 1, text |-> <<>> \o u.children[c]]]

LEMMA RowsAreChildren ==
  ASSUME NEW W, NEW u \in Units(W), NEW k \in Nat \ {0}
  PROVE  /\ RowsOfUnit(u, k) \in Seq(Children(W, <<>>))
         /\ Len(RowsOfUnit(u, k)) = Len(u.children)
         /\ \A c \in 1..Len(u.children) :
              /\ RowsOfUnit(u, k)[c].text = u.children[c]
              /\ RowsOfUnit(u, k)[c].chunk = <<k - 1, c - 1>>
              /\ RowsOfUnit(u, k)[c].parent = k - 1
<1> DEFINE kids == u.children
           n == Len(kids)
           child(c) == [chunk |-> <<k - 1, c - 1>>, parent |-> k - 1, text |-> <<>> \o kids[c]]
           rows == [c \in 1..n |-> child(c)]
<1>1. kids \in Seq(Seq(W))
  BY DEF Units
<1> HIDE DEF kids
<1>2. n \in Nat /\ DOMAIN kids = 1..n /\ \A c \in 1..n : kids[c] \in Seq(W)
  BY <1>1
<1>3. RowsOfUnit(u, k) = rows
  BY <1>2 DEF RowsOfUnit, kids
<1> HIDE DEF n
<1>4. ASSUME NEW c \in 1..n
      PROVE  /\ child(c) \in Children(W, <<>>) /\ child(c).text = kids[c]
             /\ child(c).chunk = <<k - 1, c - 1>> /\ child(c).parent = k - 1
  <2>1. k - 1 \in Nat /\ c - 1 \in Nat /\ kids[c] \in Seq(W)
    BY <1>2
  <2> DEFINE x == kids[c]
  <2> HIDE DEF x
  <2>2. <<>> \o x = x /\ x \in Seq(W)
    BY <2>1, ConcatEmptySeq DEF x
  <2>3. child(c) \in Children(W, <<>>)
    BY <2>1, <2>2 DEF Children, x
  <2> QED BY <2>2, <2>3 DEF x
<1> HIDE DEF child
<1>5. /\ rows \in Seq(Children(W, <<>>)) /\ Len(rows) = n
      /\ \A c \in 1..n : rows[c] = child(c)
  BY <1>2, <1>4
<1> HIDE DEF rows
<1> QED BY <1>3, <1>4, <1>5 DEF n, kids

\* kids are the m rows that carry the texts, numbered as they come.
Carries(kids, row, m, k, texts) ==
  /\ m \in Nat /\ Len(texts) = m /\ kids = {row[c] : c \in 1..m}
  /\ \A c \in 1..m : row[c].text = texts[c] /\ row[c].chunk = <<k, c - 1>>

LEMMA RowsCover ==
  ASSUME NEW W, ClausesAssumption, NEW p, p.text \in Seq(W),
         NEW kids, NEW row, NEW m, NEW k, NEW texts, Carries(kids, row, m, k, texts),
         NEW at0, CoverAt(at0, texts, p.text)
  PROVE  CoveredBy(p, kids)
<1> DEFINE at == [x \in kids |-> at0[x.chunk[2] + 1]]
           n == Len(p.text)
           end(x) == at[x] + Len(x.text)
<1>1. /\ m \in Nat /\ Len(texts) = m /\ kids = {row[c] : c \in 1..m}
      /\ \A c \in 1..m : row[c].text = texts[c] /\ row[c].chunk = <<k, c - 1>>
  BY DEF Carries
<1>2. ASSUME NEW c \in 1..m
      PROVE  /\ row[c] \in kids /\ row[c].chunk[2] = c - 1 /\ row[c].text = texts[c]
             /\ at[row[c]] = at0[c] /\ at0[c] \in 0..n
  <2>1. row[c].chunk = <<k, c - 1>> /\ row[c].text = texts[c] /\ row[c] \in kids
    BY <1>1
  <2>2. row[c].chunk[2] = c - 1
    BY <2>1
  <2>3. row[c].chunk[2] + 1 = c
    BY <2>2
  <2>4. at[row[c]] = at0[c]
    BY <2>1, <2>3
  <2> QED BY <1>1, <2>1, <2>2, <2>4 DEF CoverAt
<1>3. \A x \in kids : \E c \in 1..m : x = row[c]
  BY <1>1
<1>4. DOMAIN at = kids /\ at \in [kids -> 0..n]
  <2> SUFFICES ASSUME NEW x \in kids PROVE at[x] \in 0..n
    OBVIOUS
  <2> HIDE DEF at, n
  <2>1. PICK c \in 1..m : x = row[c]
    BY <1>3
  <2>2. at[row[c]] = at0[c] /\ at0[c] \in 0..n
    BY <1>2
  <2> QED BY <2>1, <2>2
<1> HIDE DEF at
<1>5. ASSUME NEW x \in kids
      PROVE  end(x) <= Len(p.text) /\ SubSeq(p.text, at[x] + 1, end(x)) = x.text
  <2>1. PICK c \in 1..m : x = row[c]
    BY <1>3
  <2>2. at[x] = at0[c] /\ x.text = texts[c]
    BY <1>2, <2>1
  <2> QED BY <1>1, <2>2 DEF CoverAt
<1>6. ASSUME NEW x \in kids, NEW y \in kids, x.chunk[2] < y.chunk[2]
      PROVE  at[x] <= at[y] /\ end(x) <= at[y] + ChildOverlap
  <2>1. PICK c \in 1..m : x = row[c]
    BY <1>3
  <2>2. PICK d \in 1..m : y = row[d]
    BY <1>3
  <2>3. /\ at[x] = at0[c] /\ x.text = texts[c] /\ at[y] = at0[d]
        /\ x.chunk[2] = c - 1 /\ y.chunk[2] = d - 1
    BY <1>2, <2>1, <2>2
  <2>4. c < d
    BY <1>6, <2>3
  <2> QED BY <1>1, <2>3, <2>4 DEF CoverAt
<1>7. ASSUME NEW i \in DOMAIN p.text, p.text[i] # "/"
      PROVE  \E x \in kids : i \in (at[x] + 1)..end(x)
  <2>1. i \in 1..Len(p.text)
    OBVIOUS
  <2>2. PICK c \in 1..m : i \in (at0[c] + 1)..(at0[c] + Len(texts[c]))
    BY <1>1, <1>7, <2>1 DEF CoverAt
  <2> QED BY <1>2, <2>2
<1> QED BY <1>4, <1>5, <1>6, <1>7 DEF CoveredBy, n

\* The whole of a decision.
LEMMA DecisionIsWhole ==
  ASSUME NEW W, NEW t \in Seq(W), ClausesAssumption
  PROVE  DecisionWhole(t, DecisionToChunks(t, <<>>))
<1> DEFINE units == Hierarchy(t)
           n == Len(units)
           rows == DecisionToChunks(t, <<>>)
           ch == rows.children
           ps == rows.parents
           ss == [k \in DOMAIN units |-> RowsOfUnit(units[k], k)]
           C == Children(W, <<>>)
           P(k) == [parent |-> k - 1, text |-> units[k].text]
<1>1. ch = FlattenSeq(ss) /\ ps = [k \in DOMAIN units |-> P(k)]
  BY DEF DecisionToChunks, RowsOfUnit
<1>2. /\ units \in Seq(CoveredUnits(W))
      /\ FlattenSeq([k \in DOMAIN units |-> Words(units[k].text)]) = AllWords(SplitByHeading(t))
  BY HierarchyKeepsWords
<1> HIDE DEF units, rows
<1>3. n \in Nat /\ DOMAIN units = 1..n /\ \A k \in 1..n : units[k] \in CoveredUnits(W)
  BY <1>2
<1>4. ASSUME NEW k \in 1..n
      PROVE  /\ k \in Nat \ {0} /\ units[k].text \in Seq(W)
             /\ ss[k] \in Seq(C) /\ Len(ss[k]) = Len(units[k].children)
             /\ \A c \in 1..Len(ss[k]) :
                  /\ ss[k][c].text = units[k].children[c]
                  /\ ss[k][c].chunk = <<k - 1, c - 1>> /\ ss[k][c].parent = k - 1
             /\ \E at : CoverAt(at, units[k].children, units[k].text)
  <2> DEFINE u == units[k]
             r == RowsOfUnit(u, k)
  <2>1. u \in CoveredUnits(W) /\ ss[k] = r /\ k \in Nat \ {0}
    BY <1>3
  <2> HIDE DEF u, ss
  <2>2. u \in Units(W) /\ u.text \in Seq(W) /\ \E at : CoverAt(at, u.children, u.text)
    BY <2>1 DEF CoveredUnits, Units
  <2>3. /\ r \in Seq(Children(W, <<>>)) /\ Len(r) = Len(u.children)
        /\ \A c \in 1..Len(u.children) :
             /\ r[c].text = u.children[c]
             /\ r[c].chunk = <<k - 1, c - 1>> /\ r[c].parent = k - 1
    BY <2>1, <2>2, RowsAreChildren
  <2> HIDE DEF r
  <2> QED BY <2>1, <2>2, <2>3 DEF u
<1>5. ss \in [1..n -> Seq(C)]
  BY <1>3, <1>4
<1> HIDE DEF ss, n, C
<1>6. ch \in Seq(C)
  BY <1>1, <1>3, <1>5, FlattenIsSeq
<1> HIDE DEF ch
<1>7. PICK at : Places(at, n, ss, ch)
  BY <1>1, <1>3, <1>5, FlatHasPlaces
<1>8. ASSUME NEW i \in 1..Len(ch)
      PROVE  \E k \in 1..n : \E c \in 1..Len(ss[k]) : i = at[k - 1] + c /\ ch[i] = ss[k][c]
  <2>1. PICK k \in 1..n : \E c \in 1..Len(ss[k]) : i = at[k - 1] + c
    BY <1>7 DEF Places
  <2>2. PICK c \in 1..Len(ss[k]) : i = at[k - 1] + c
    BY <2>1
  <2>3. ch[at[k - 1] + c] = ss[k][c]
    BY <1>7 DEF Places
  <2> QED BY <2>2, <2>3
<1>9. Len(ch) \in Nat /\ DOMAIN ch = 1..Len(ch) /\ ToSet(ch) = {ch[i] : i \in 1..Len(ch)}
  BY <1>6 DEF ToSet
<1>10. ASSUME NEW k \in 1..n, NEW c \in 1..Len(ss[k]) PROVE ss[k][c] \in ToSet(ch)
  <2>1. at[k - 1] + c \in 1..Len(ch) /\ ch[at[k - 1] + c] = ss[k][c]
    BY <1>7 DEF Places
  <2> QED BY <1>9, <2>1
<1>11. /\ DOMAIN ps = 1..n /\ ToSet(ps) = {P(k) : k \in 1..n}
       /\ \A k \in 1..n : ps[k] = P(k) /\ P(k).parent = k - 1 /\ P(k).text = units[k].text
  BY <1>1, <1>3 DEF ToSet
<1> HIDE DEF ps, P
<1>12. FlattenSeq([k \in DOMAIN ps |-> Words(ps[k].text)]) = AllWords(SplitByHeading(t))
  <2>1. [k \in DOMAIN ps |-> Words(ps[k].text)] = [k \in DOMAIN units |-> Words(units[k].text)]
    BY <1>3, <1>11
  <2> QED BY <1>2, <2>1
<1>13. ASSUME NEW p \in ToSet(ps)
       PROVE  CoveredBy(p, {c \in ToSet(ch) : c.parent = p.parent})
  <2>1. PICK k \in 1..n : p = P(k)
    BY <1>11
  <2> DEFINE row == ss[k]
             m == Len(row)
  <2>2. /\ DOMAIN row = 1..m /\ m \in Nat /\ m = Len(units[k].children)
        /\ \A c \in 1..m : row[c].text = units[k].children[c] /\ row[c].chunk = <<k - 1, c - 1>>
                           /\ row[c].parent = k - 1 /\ row[c] \in ToSet(ch)
    BY <1>4, <1>10
  <2>3. {c \in ToSet(ch) : c.parent = p.parent} = {row[c] : c \in 1..m}
    <3>1. ASSUME NEW x \in ToSet(ch), x.parent = p.parent PROVE \E c \in 1..m : x = row[c]
      <4>1. PICK i \in 1..Len(ch) : x = ch[i]
        BY <1>9
      <4>2. PICK l \in 1..n : \E c \in 1..Len(ss[l]) : ch[i] = ss[l][c]
        BY <1>8
      <4>3. PICK c \in 1..Len(ss[l]) : ch[i] = ss[l][c]
        BY <4>2
      <4>4. x.parent = l - 1
        BY <1>4, <4>1, <4>3
      <4>5. p.parent = k - 1
        BY <1>11, <2>1
      <4>6. l \in Nat /\ k \in Nat /\ l - 1 = k - 1
        <5>1. l - 1 = k - 1
          BY <3>1, <4>4, <4>5
        <5> QED BY <1>4, <5>1
      <4>7. l = k
        BY <4>6
      <4> QED BY <4>1, <4>3, <4>7
    <3>2. \A c \in 1..m : row[c].parent = p.parent
      BY <1>11, <2>1, <2>2
    <3> HIDE DEF row, m
    <3> QED BY <2>2, <3>1, <3>2
  <2>4. PICK at0 : CoverAt(at0, units[k].children, units[k].text)
    BY <1>4
  <2>5. p.text = units[k].text /\ p.text \in Seq(W)
    BY <1>4, <1>11, <2>1
  <2>6. CoverAt(at0, units[k].children, p.text)
    BY <2>4, <2>5
  <2> DEFINE kids == {c \in ToSet(ch) : c.parent = p.parent}
             texts == units[k].children
             j == k - 1
  <2>7. Carries(kids, row, m, j, texts) /\ CoverAt(at0, texts, p.text)
    BY <2>2, <2>3, <2>6 DEF Carries
  <2> HIDE DEF row, m, kids, texts, j
  <2>8. CoveredBy(p, kids)
    BY <2>5, <2>7, RowsCover
  <2> QED BY <2>8 DEF kids
<1>14. ASSUME NEW c \in ToSet(ch)
       PROVE  Cardinality({p \in ToSet(ps) : p.parent = c.parent}) = 1
  <2>1. PICK i \in 1..Len(ch) : c = ch[i]
    BY <1>9
  <2>2. PICK k \in 1..n : \E j \in 1..Len(ss[k]) : ch[i] = ss[k][j]
    BY <1>8
  <2>3. c.parent = k - 1
    BY <1>4, <2>1, <2>2
  <2>4. ASSUME NEW p \in ToSet(ps), p.parent = c.parent PROVE p = P(k)
    <3>1. PICK l \in 1..n : p = P(l)
      BY <1>11
    <3>2. l - 1 = k - 1
      BY <1>11, <2>3, <2>4, <3>1
    <3>3. l = k
      BY <1>4, <3>2
    <3> QED BY <3>1, <3>3
  <2>5. P(k) \in ToSet(ps) /\ P(k).parent = c.parent
    BY <1>11, <2>3
  <2>6. {p \in ToSet(ps) : p.parent = c.parent} = {P(k)}
    BY <2>4, <2>5
  <2> QED BY <2>6, FS_Singleton
<1>15. ASSUME NEW i \in 1..Len(ch), NEW j \in 1..Len(ch), ch[i].chunk = ch[j].chunk
       PROVE  i = j
  <2>1. PICK k \in 1..n : \E c \in 1..Len(ss[k]) : i = at[k - 1] + c /\ ch[i] = ss[k][c]
    BY <1>8
  <2>2. PICK c \in 1..Len(ss[k]) : i = at[k - 1] + c /\ ch[i] = ss[k][c]
    BY <2>1
  <2>3. PICK l \in 1..n : \E d \in 1..Len(ss[l]) : j = at[l - 1] + d /\ ch[j] = ss[l][d]
    BY <1>8
  <2>4. PICK d \in 1..Len(ss[l]) : j = at[l - 1] + d /\ ch[j] = ss[l][d]
    BY <2>3
  <2>5. <<k - 1, c - 1>> = <<l - 1, d - 1>>
    <3>1. ss[k][c].chunk = <<k - 1, c - 1>>
      BY <1>4
    <3>2. ss[l][d].chunk = <<l - 1, d - 1>>
      BY <1>4
    <3> QED BY <1>15, <2>2, <2>4, <3>1, <3>2
  <2>6. k - 1 = l - 1 /\ c - 1 = d - 1
    BY <2>5
  <2>7. c \in Int /\ d \in Int
    OBVIOUS
  <2>8. c = d
    BY <2>6, <2>7
  <2> QED BY <2>2, <2>4, <2>6, <2>8
<1>16. Cardinality({c.chunk : c \in ToSet(ch)}) = Len(ch)
  <2> DEFINE T == {c.chunk : c \in ToSet(ch)}
             f == [i \in 1..Len(ch) |-> ch[i].chunk]
  <2>1. T = {ch[i].chunk : i \in 1..Len(ch)}
    BY <1>9
  <2>2. f \in Injection(1..Len(ch), T)
    BY <1>15, <2>1 DEF Injection, IsInjective
  <2>3. f \in Surjection(1..Len(ch), T)
    BY <2>1 DEF Surjection
  <2> HIDE DEF f, T
  <2>4. ExistsBijection(1..Len(ch), T)
    BY <2>2, <2>3 DEF ExistsBijection, Bijection
  <2>5. IsFiniteSet(1..Len(ch)) /\ Cardinality(1..Len(ch)) = Len(ch)
    <3> DEFINE m == Len(ch)
    <3>1. m \in Nat
      BY <1>9
    <3> HIDE DEF m
    <3>2. 1 \in Int /\ m \in Int /\ (IF 1 > m THEN 0 ELSE m - 1 + 1) = m
      BY <3>1
    <3>3. IsFiniteSet(1..m) /\ Cardinality(1..m) = m
      BY <3>2, FS_Interval
    <3> QED BY <3>3 DEF m
  <2>6. Cardinality(T) = Cardinality(1..Len(ch))
    BY <2>4, <2>5, FS_Bijection
  <2> QED BY <2>5, <2>6 DEF T
<1>17. Joined(LAMBDA p : Words(p.text), ps) = Joined(Words, SplitByHeading(t))
  BY <1>12 DEF Joined, AllWords
<1> QED BY <1>13, <1>14, <1>16, <1>17 DEF DecisionWhole, ch, ps, rows

-----------------------------------------------------------------------------
(* The page of a source. *)

LEMMA WithinStays ==
  ASSUME NEW W, NEW s \in Seq(W), NEW u \in Seq(W), NEW t \in Seq(W)
  PROVE  /\ Within(t, s) => Within(t, s \o u)
         /\ Within(t, s \o t) /\ Within(<<>>, s)
<1> DEFINE m == Len(s)
           n == Len(u)
           l == Len(t)
<1>1. m \in Nat /\ n \in Nat /\ l \in Nat
  OBVIOUS
<1>2. Len(s \o u) = m + n /\ Len(s \o t) = m + l
  BY ConcatProperties
<1> HIDE DEF m, n, l
<1>3. ASSUME NEW r \in Seq(W), NEW i \in Nat, NEW j \in Nat, j = 0
      PROVE  SubSeq(r, i + 1, i + j) = <<>>
  <2>1. i + 1 \in Int /\ i + j \in Int /\ i + j < i + 1
    BY <1>3
  <2> QED BY <2>1, SubSeqEmpty
<1>4. ASSUME Within(t, s) PROVE Within(t, s \o u)
  <2>1. PICK i \in 0..(m - l) : SubSeq(s, i + 1, i + l) = t
    BY <1>4 DEF Within, m, l
  <2>2. i \in 0..((m + n) - l) /\ i \in Nat
    BY <1>1
  <2>3. SubSeq(s \o u, i + 1, i + l) = t
    <3>1. CASE l = 0
      <4>1. s \o u \in Seq(W)
        BY ConcatProperties
      <4> DEFINE r == s \o u
      <4> HIDE DEF r
      <4>2. SubSeq(r, i + 1, i + l) = <<>> /\ SubSeq(s, i + 1, i + l) = <<>>
        BY <1>1, <1>3, <2>2, <3>1, <4>1 DEF r
      <4> QED BY <2>1, <4>2 DEF r
    <3>2. CASE l # 0
      <4>1. i + 1 \in 1..m /\ i + l \in 1..m
        BY <1>1, <3>2
      <4> QED BY <2>1, <4>1, SubSeqOfConcat1 DEF m
    <3> QED BY <3>1, <3>2
  <2> QED BY <1>2, <2>2, <2>3 DEF Within, l
<1>5. Within(t, s \o t)
  <2>1. m \in 0..((m + l) - l)
    BY <1>1
  <2>2. SubSeq(s \o t, m + 1, m + l) = t
    <3>1. CASE l = 0
      <4>1. s \o t \in Seq(W)
        BY ConcatProperties
      <4> DEFINE r == s \o t
      <4> HIDE DEF r
      <4>2. SubSeq(r, m + 1, m + l) = <<>>
        BY <1>1, <1>3, <3>1, <4>1 DEF r
      <4>3. t = <<>>
        BY <3>1 DEF l
      <4> QED BY <4>2, <4>3 DEF r
    <3>2. CASE l # 0
      <4>1. m + 1 \in (m + 1)..(m + l) /\ m + l \in (m + 1)..(m + l)
        BY <1>1, <3>2
      <4>2. SubSeq(s \o t, m + 1, m + l) = SubSeq(t, (m + 1) - m, (m + l) - m)
        BY <4>1, SubSeqOfConcat2 DEF m, l
      <4>3. (m + 1) - m = 1 /\ (m + l) - m = l
        BY <1>1
      <4>4. SubSeq(t, 1, l) = t
        BY SubSeqFull DEF l
      <4> QED BY <4>2, <4>3, <4>4
    <3> QED BY <3>1, <3>2
  <2> QED BY <1>2, <2>1, <2>2 DEF Within, l
<1>6. Within(<<>>, s)
  <2>1. Len(<<>>) = 0 /\ 0 \in Nat
    OBVIOUS
  <2>2. SubSeq(s, 0 + 1, 0 + 0) = <<>>
    BY <1>3, <2>1
  <2>3. 0 \in 0..(m - 0)
    BY <1>1
  <2> QED BY <2>1, <2>2, <2>3 DEF Within, m
<1> QED BY <1>4, <1>5, <1>6

\* What is shown of one chunk.
LEMMA ShownAdd ==
  ASSUME NEW W, "break" \in W, NEW bs \in Seq(Seq(W)), NEW x \in Seq(W)
  PROVE  /\ Append(bs, x) \in Seq(Seq(W))
         /\ Shown(Append(bs, x)) = Shown(bs) \o (<<"break">> \o x) /\ Shown(bs) \in Seq(W)
         /\ CharsOf(Append(bs, x)) = CharsOf(bs) + Len(x) /\ CharsOf(bs) \in Nat
<1> DEFINE D == Seq(W)
           f == [y \in D |-> <<"break">> \o y]
           h == [s \in Seq(D) |-> FlatMap(f, s)]
           one == <<x>>
<1>1. f \in [D -> Seq(W)] /\ \A y \in D : f[y] = <<"break">> \o y
  <2>1. \A y \in D : <<"break">> \o y \in Seq(W)
    <3> SUFFICES ASSUME NEW y \in D PROVE <<"break">> \o y \in Seq(W)
      OBVIOUS
    <3>1. <<"break">> \in Seq(W) /\ y \in Seq(W)
      OBVIOUS
    <3> QED BY <3>1, ConcatProperties
  <2> QED BY <2>1
<1>2. bs \in Seq(D) /\ x \in D /\ one \in Seq(D) /\ <<>> \in Seq(D)
  OBVIOUS
<1> HIDE DEF D, f
<1>3. ASSUME NEW s \in Seq(D) PROVE Shown(s) = FlatMap(f, s)
  <2>1. DOMAIN s = 1..Len(s) /\ \A i \in 1..Len(s) : s[i] \in D
    OBVIOUS
  <2>2. [i \in 1..Len(s) |-> <<"break">> \o s[i]] = Mapped(f, s)
    BY <1>1, <2>1 DEF Mapped
  <2> QED BY <2>2 DEF Shown, FlatMap
<1>4. Joins(h, D, W) /\ \A y \in D : FlatMap(f, <<y>>) = f[y]
  <2> HIDE DEF h
  <2>1. /\ Joins([s \in Seq(D) |-> FlatMap(f, s)], D, W)
        /\ \A y \in D : FlatMap(f, <<y>>) = f[y]
    BY <1>1, FlatMapJoins, Zenon
  <2> QED BY <2>1 DEF h
<1>5. \A s \in Seq(D) : h[s] = Shown(s)
  BY <1>3
<1> HIDE DEF h
<1>6. Append(bs, x) = bs \o one /\ bs \o one \in Seq(D)
  BY <1>2
<1> HIDE DEF one
<1>7. h[bs \o one] = h[bs] \o h[one] /\ h[bs] \in Seq(W)
  BY <1>2, <1>4 DEF Joins
<1>8. h[one] = <<"break">> \o x
  BY <1>1, <1>2, <1>3, <1>4, <1>5 DEF one
<1>9. FlattenSeq(bs \o one) = FlattenSeq(bs) \o x
  <2>1. FlattenSeq(bs \o one) = FlattenSeq(bs) \o FlattenSeq(one)
    BY <1>2, FlattenJoins DEF D
  <2>2. FlattenSeq(one) = x
    BY FlattenOne DEF one
  <2> QED BY <2>1, <2>2
<1>10. FlattenSeq(bs) \in Seq(W)
  <2>1. Len(bs) \in Nat /\ bs \in [1..Len(bs) -> Seq(W)]
    OBVIOUS
  <2> QED BY <2>1, FlattenIsSeq
<1> DEFINE flat == FlattenSeq(bs)
<1> HIDE DEF flat
<1>11. Len(flat \o x) = Len(flat) + Len(x) /\ Len(flat) \in Nat
  BY <1>10, ConcatProperties DEF flat
<1>12. CharsOf(Append(bs, x)) = CharsOf(bs) + Len(x) /\ CharsOf(bs) \in Nat
  BY <1>6, <1>9, <1>11 DEF CharsOf, flat
<1> QED BY <1>2, <1>5, <1>6, <1>7, <1>8, <1>12 DEF D

\* A page so far, and one chunk more.
PagesOf(W) == {bs \in Seq(Seq(W)) : CharsOf(bs) <= SourceMaxChars}
OnPage(t, bs) == Within(t, Shown(bs)) \/ CharsOf(bs) = SourceMaxChars

LEMMA WithChunkKeeps ==
  ASSUME NEW W, "break" \in W, SourceMaxChars \in Nat, NEW bs \in PagesOf(W), NEW text \in Seq(W)
  PROVE  /\ WithChunk(bs, text) \in PagesOf(W) /\ OnPage(text, WithChunk(bs, text))
         /\ \A r \in Seq(W) : OnPage(r, bs) => OnPage(r, WithChunk(bs, text))
<1> DEFINE next == WithChunk(bs, text)
           room == SourceMaxChars - CharsOf(bs)
           x == Take(text, room)
<1>1. bs \in Seq(Seq(W)) /\ CharsOf(bs) <= SourceMaxChars
  BY DEF PagesOf
<1>2. /\ Append(bs, text) \in Seq(Seq(W))
      /\ Shown(Append(bs, text)) = Shown(bs) \o (<<"break">> \o text) /\ Shown(bs) \in Seq(W)
      /\ CharsOf(Append(bs, text)) = CharsOf(bs) + Len(text) /\ CharsOf(bs) \in Nat
  BY <1>1, ShownAdd
<1>3. CASE CharsOf(bs) >= SourceMaxChars \/ Repeated(text, bs)
  <2>1. next = bs
    BY <1>3 DEF WithChunk
  <2>2. OnPage(text, bs)
    <3>1. CASE CharsOf(bs) >= SourceMaxChars
      <4>1. CharsOf(bs) = SourceMaxChars
        BY <1>1, <1>2, <3>1
      <4> QED BY <4>1 DEF OnPage
    <3>2. CASE text = <<>>
      <4>1. Within(<<>>, Shown(bs))
        BY <1>2, WithinStays
      <4> QED BY <3>2, <4>1 DEF OnPage
    <3>3. CASE Within(text, Shown(bs))
      BY <3>3 DEF OnPage
    <3> QED BY <1>3, <3>1, <3>2, <3>3 DEF Repeated
  <2> HIDE DEF next
  <2> QED BY <2>1, <2>2 DEF next
<1>4. CASE ~ (CharsOf(bs) >= SourceMaxChars \/ Repeated(text, bs))
  <2>1. next = Append(bs, x)
    BY <1>4 DEF WithChunk
  <2> HIDE DEF next
  <2>2. room \in Nat \ {0}
    BY <1>2, <1>4
  <2> HIDE DEF room
  <2>3. /\ x \in Seq(W) /\ Len(x) <= room /\ Len(x) \in Nat
        /\ x = text \/ Len(x) = room
    <3> DEFINE l == Len(text)
               m == SmallerOf(room, l)
    <3>1. l \in Nat
      OBVIOUS
    <3> HIDE DEF l
    <3>2. m \in 0..l /\ m <= room /\ (m = l \/ m = room) /\ m \in Nat
      BY <2>2, <3>1 DEF SmallerOf
    <3>3. x = SubSeq(text, 1, m)
      BY DEF Take, l
    <3> HIDE DEF m, x
    <3>4. 1 \in Int /\ m \in Int /\ \A i \in 1..m : text[i] \in W
      BY <3>1, <3>2 DEF l
    <3>5. x \in Seq(W) /\ Len(x) = IF 1 <= m THEN m - 1 + 1 ELSE 0
      BY <3>3, <3>4, SubSeqProperties
    <3>6. Len(x) = m
      BY <3>2, <3>5
    <3>7. m = l => x = text
      BY <3>3, SubSeqFull DEF l
    <3> QED BY <3>2, <3>5, <3>6, <3>7
  <2> HIDE DEF x
  <2>4. /\ next \in Seq(Seq(W)) /\ Shown(next) = Shown(bs) \o (<<"break">> \o x)
        /\ CharsOf(next) = CharsOf(bs) + Len(x)
    BY <1>1, <2>1, <2>3, ShownAdd
  <2>5. next \in PagesOf(W) /\ (Len(x) = room => CharsOf(next) = SourceMaxChars)
    <3>1. CharsOf(next) <= SourceMaxChars /\ (Len(x) = room => CharsOf(next) = SourceMaxChars)
      BY <1>2, <2>2, <2>3, <2>4 DEF room
    <3> QED BY <2>4, <3>1 DEF PagesOf
  <2> DEFINE shown == Shown(bs)
             mark == <<"break">>
  <2>6. shown \in Seq(W) /\ mark \in Seq(W)
    BY <1>2
  <2> HIDE DEF shown, mark
  <2>7. mark \o x \in Seq(W) /\ shown \o mark \in Seq(W)
    BY <2>3, <2>6, ConcatProperties
  <2>8. Shown(next) = shown \o (mark \o x) /\ Shown(next) = (shown \o mark) \o x
    <3>1. shown \o (mark \o x) = (shown \o mark) \o x
      BY <2>3, <2>6, ConcatAssociative
    <3> QED BY <2>4, <3>1 DEF shown, mark
  <2>9. Within(x, Shown(next))
    BY <2>3, <2>7, <2>8, WithinStays
  <2>10. OnPage(text, next)
    BY <2>3, <2>5, <2>9 DEF OnPage
  <2>11. ASSUME NEW r \in Seq(W), OnPage(r, bs) PROVE OnPage(r, next)
    <3>1. CASE Within(r, shown)
      <4> DEFINE u == mark \o x
      <4>1. u \in Seq(W)
        BY <2>7
      <4> HIDE DEF u
      <4>2. Within(r, shown \o u)
        BY <2>6, <3>1, <4>1, WithinStays
      <4> QED BY <2>8, <4>2 DEF OnPage, u
    <3>2. CASE CharsOf(bs) = SourceMaxChars
      BY <1>4, <1>2, <3>2
    <3> QED BY <2>11, <3>1, <3>2 DEF OnPage, shown
  <2> QED BY <2>5, <2>10, <2>11 DEF next
<1> QED BY <1>3, <1>4

\* Every chunk of a source is on its page or beyond its length.
LEMMA PageIsWhole ==
  ASSUME NEW W, "break" \in W, SourceMaxChars \in Nat, NEW rows \in Seq(Seq(W))
  PROVE  /\ CharsOf(FoldLeft(WithChunk, <<>>, rows)) <= SourceMaxChars
         /\ \A i \in DOMAIN rows : OnPage(rows[i], FoldLeft(WithChunk, <<>>, rows))
<1> DEFINE n == Len(rows)
           none == <<>>
           C(it) == it = [P \in SUBSET DOMAIN rows |->
                            IF P = {} THEN none ELSE WithChunk(it[P \ {Max(P)}], rows[Max(P)])]
           c == CHOOSE it : C(it)
           S == PagesOf(W)
           step == [p \in S \X (1..n) |-> WithChunk(p[1], rows[p[2]])]
<1>1. FoldLeft(WithChunk, <<>>, rows) = c[DOMAIN rows]
  BY DEF FoldLeft, MapThenFoldSet
<1>2. n \in Nat /\ DOMAIN rows = 1..n /\ \A k \in 1..n : rows[k] \in Seq(W)
  OBVIOUS
<1>3. none \in S
  <2>1. none \in Seq(Seq(W)) /\ <<>> \in Seq(W)
    OBVIOUS
  <2>2. FlattenSeq(none) = <<>>
    BY <2>1, FlattenOne
  <2>3. CharsOf(none) = 0
    BY <2>2 DEF CharsOf
  <2> QED BY <2>1, <2>3 DEF PagesOf
<1>4. \A bs \in S, k \in 1..n :
        /\ WithChunk(bs, rows[k]) \in S /\ OnPage(rows[k], WithChunk(bs, rows[k]))
        /\ \A j \in 1..n : OnPage(rows[j], bs) => OnPage(rows[j], WithChunk(bs, rows[k]))
  BY <1>2, WithChunkKeeps
<1> HIDE DEF none, S, n
<1>5. step \in [S \X (1..n) -> S]
  BY <1>4
<1>6. \E it : C(it)
  <2>1. PICK it \in [SUBSET (1..n) -> S] : FoldsInto(it, none, n, step)
    <3> HIDE DEF step
    <3> QED BY <1>2, <1>3, <1>5, FoldExists
  <2>2. ASSUME NEW P \in SUBSET (1..n), P # {}
        PROVE  it[P] = WithChunk(it[P \ {Max(P)}], rows[Max(P)])
    <3> HIDE DEF step
    <3>1. Max(P) \in P
      BY <1>2, <2>2, LastIsIn
    <3>2. it[P] = step[<<it[P \ {Max(P)}], Max(P)>>]
      BY <2>1, <2>2 DEF FoldsInto
    <3>3. it[P \ {Max(P)}] \in S /\ Max(P) \in 1..n
      BY <2>1, <3>1
    <3>4. \A e \in S, i \in 1..n : step[<<e, i>>] = WithChunk(e, rows[i])
      BY DEF step
    <3> QED BY <3>2, <3>3, <3>4
  <2>3. it[{}] = none
    BY <2>1 DEF FoldsInto
  <2>4. C(it)
    BY <1>2, <2>1, <2>2, <2>3
  <2> HIDE DEF C
  <2> QED BY <2>4
<1>7. C(c)
  <2> HIDE DEF C
  <2> QED BY <1>6
<1> HIDE DEF c
<1>8. c[1..0] = none
  <2>1. c[{}] = none
    BY <1>2, <1>7
  <2>2. 1..0 = {}
    OBVIOUS
  <2> QED BY <2>1, <2>2
<1>9. ASSUME NEW k \in 1..n PROVE c[1..k] = WithChunk(c[1..(k - 1)], rows[k])
  <2>1. /\ 1..k \in SUBSET (1..n) /\ 1..k # {} /\ Max(1..k) = k
        /\ (1..k) \ {k} = 1..(k - 1)
    BY <1>2, LastOfFirst
  <2>2. c[1..k] = WithChunk(c[(1..k) \ {Max(1..k)}], rows[Max(1..k)])
    BY <1>2, <1>7, <2>1
  <2> QED BY <2>1, <2>2
<1> HIDE DEF C, step
<1> DEFINE T == {k \in Nat : k <= n => c[1..k] \in S /\ \A j \in 1..k : OnPage(rows[j], c[1..k])}
<1>10. 0 \in T
  BY <1>3, <1>8
<1>11. ASSUME NEW k \in Nat, k \in T PROVE k + 1 \in T
  <2> SUFFICES ASSUME k + 1 <= n
               PROVE  c[1..(k + 1)] \in S /\ \A j \in 1..(k + 1) : OnPage(rows[j], c[1..(k + 1)])
    <3>1. k + 1 \in Nat
      OBVIOUS
    <3> QED BY <3>1
  <2> DEFINE bs == c[1..k]
             next == c[1..(k + 1)]
  <2>1. /\ k + 1 \in 1..n /\ (k + 1) - 1 = k /\ bs \in S
        /\ \A j \in 1..k : j \in 1..n /\ OnPage(rows[j], bs)
    BY <1>2, <1>11
  <2>2. next = WithChunk(bs, rows[k + 1])
    BY <1>9, <2>1
  <2> HIDE DEF bs, next
  <2>3. next \in S /\ OnPage(rows[k + 1], next) /\ \A j \in 1..k : OnPage(rows[j], next)
    BY <1>4, <2>1, <2>2
  <2>4. \A j \in 1..(k + 1) : j \in 1..k \/ j = k + 1
    OBVIOUS
  <2>5. next \in S /\ \A j \in 1..(k + 1) : OnPage(rows[j], next)
    BY <2>3, <2>4
  <2> QED BY <2>5 DEF next
<1>12. n \in T
  <2> HIDE DEF T
  <2> QED BY <1>2, <1>10, <1>11, Induction
<1>13. c[1..n] \in S /\ \A j \in 1..n : OnPage(rows[j], c[1..n])
  BY <1>2, <1>12
<1> QED BY <1>1, <1>2, <1>13 DEF S, PagesOf

\* The clauses of a contract carry every word of it, short enough to review and
\* each numbered heading opening one; the parents of a decision carry every word
\* of its sections once and in order, and the children of each cover it, sharing
\* no more than the overlap; a chunk of a source that is not on its page is
\* beyond the page's length: for any texts, lengths and overlaps below the length.
THEOREM NothingIsLost == Spec => []NothingLost
<1> DEFINE Computed ==
             /\ input.kind = "contract" => input.text \in Contracts /\ input.pieces = Pieces(input.text)
             /\ input.kind = "decision" =>
                  input.text \in Decisions /\ input.rows = DecisionToChunks(input.text, <<>>)
           Shows ==
             page.at = "shown" =>
               page.rows \in SourceRows /\ page.blocks = FoldLeft(WithChunk, <<>>, page.rows)
<1>1. Init => Computed /\ Shows
  BY DEF Init, Idle, SearchInit
<1>2. Computed /\ [Next]_vars => Computed'
  <2> SUFFICES ASSUME Computed, [Next]_vars PROVE Computed'
    OBVIOUS
  <2>1. CASE UNCHANGED input
    BY <2>1
  <2>2. CASE Calculate
    BY <2>2 DEF Calculate
  <2>3. CASE Ingest
    BY <2>3 DEF Ingest
  <2> QED BY <2>1, <2>2, <2>3 DEF Next, Rest, vars
<1>3. Shows /\ [Next]_vars => Shows'
  <2> SUFFICES ASSUME Shows, [Next]_vars PROVE Shows'
    OBVIOUS
  <2>1. CASE UNCHANGED page
    BY <2>1
  <2>2. CASE SearchNext
    <3>1. CASE GetSource
      BY <3>1 DEF GetSource
    <3>2. CASE StartSearch \/ ExpandQueries \/ FetchCandidates \/ Rerank \/ ExpandParents \/ KeepHits
      <4>1. UNCHANGED page
        BY <3>2 DEF StartSearch, ExpandQueries, FetchCandidates, Rerank, ExpandParents, KeepHits
      <4> QED BY <2>1, <4>1
    <3> QED BY <2>2, <3>1, <3>2 DEF SearchNext
  <2> QED BY <2>1, <2>2 DEF Next, Calculate, Ingest, Rest, vars, searchVars
<1>4. ASSUME NEW t \in Contracts PROVE ContractWhole(t, Pieces(t))
  <2> DEFINE W == ToSet(t) \cup {"/"}
  <2>1. t \in Seq(W) /\ "/" \in W
    <3>1. t \in Seq(ToSet(t)) /\ ToSet(t) \subseteq W
      BY TextsAssumption DEF TextsAssumption
    <3> HIDE DEF W
    <3>2. t \in Seq(W)
      BY <3>1, SeqMonotonic
    <3> QED BY <3>2 DEF W
  <2> HIDE DEF W
  <2> QED BY <2>1, ClausesAssumption, ContractIsWhole
<1>5. ASSUME NEW t \in Decisions PROVE DecisionWhole(t, DecisionToChunks(t, <<>>))
  <2>1. t \in Seq(ToSet(t))
    BY TextsAssumption DEF TextsAssumption
  <2> QED BY <2>1, ClausesAssumption, DecisionIsWhole
<1>6. ASSUME NEW rows \in SourceRows
      PROVE  /\ CharsOf(FoldLeft(WithChunk, <<>>, rows)) <= SourceMaxChars
             /\ \A i \in DOMAIN rows : OnPage(rows[i], FoldLeft(WithChunk, <<>>, rows))
  <2> DEFINE W == {"break"} \cup UNION {ToSet(r) : r \in ToSet(rows)}
             D == Seq(W)
  <2>1. rows \in Seq(ToSet(rows)) /\ \A r \in ToSet(rows) : r \in Seq(ToSet(r))
    BY SourceAssumption DEF SourceAssumption
  <2>2. "break" \in W /\ \A r \in ToSet(rows) : ToSet(r) \subseteq W
    OBVIOUS
  <2> HIDE DEF W
  <2>3. \A r \in ToSet(rows) : r \in Seq(W)
    BY <2>1, <2>2, SeqMonotonic
  <2>4. ToSet(rows) \subseteq D
    BY <2>3
  <2> HIDE DEF D
  <2>5. rows \in Seq(D)
    BY <2>1, <2>4, SeqMonotonic
  <2>6. rows \in Seq(Seq(W))
    BY <2>5 DEF D
  <2>7. SourceMaxChars \in Nat
    BY SourceAssumption DEF SourceAssumption
  <2> QED BY <2>2, <2>6, <2>7, PageIsWhole
<1>7. Computed /\ Shows => NothingLost
  <2> SUFFICES ASSUME Computed, Shows PROVE NothingLost
    OBVIOUS
  <2>1. input.kind = "contract" => ContractWhole(input.text, input.pieces)
    BY <1>4
  <2>2. input.kind = "decision" => DecisionWhole(input.text, input.rows)
    BY <1>5
  <2>3. SourceWhole
    <3> SUFFICES ASSUME page.at = "shown"
                 PROVE  /\ CharsOf(page.blocks) <= SourceMaxChars
                        /\ \A i \in DOMAIN page.rows : OnPage(page.rows[i], page.blocks)
      BY DEF SourceWhole, OnPage
    <3> QED BY <1>6
  <2> QED BY <2>1, <2>2, <2>3 DEF NothingLost
<1> QED BY <1>1, <1>2, <1>3, <1>7, PTL DEF Spec

=============================================================================
