---------------------------- MODULE AppServer_proofs ----------------------------
(***************************************************************************)
(* Requests that deactivate accounts do not overlap: then the service      *)
(* always has an active administrator, for any number of requests, users   *)
(* and restarts.  The argument: a request that deactivates an account is   *)
(* itself made by an active administrator, who stays one until it is over, *)
(* as no other such request is in flight and none may name its own user.   *)
(*                                                                         *)
(* No document or deadline outlives its case, and the evaluation runs once *)
(* at a time, whatever overlaps.  A saved conversation is its user's own   *)
(* when turns of the free chat do not overlap.                             *)
(***************************************************************************)
EXTENDS AppServer, FiniteSetTheorems, TLAPS

\* The routes of a step are not changed by it, and only a request in flight
\* takes one.
Frame(r) ==
  /\ InFlight(r)
  /\ UNCHANGED <<users, tokens, up, who, call>>
  /\ DOMAIN pc' = DOMAIN pc
  /\ \A q \in Request : q # r => pc'[q] = pc[q]

Deactivating(r) == InFlight(r) /\ call[r].op = "users_set_active"

\* The inductive invariant.
AdminInv ==
  /\ users \in [Name -> Row \cup {None}]
  /\ tokens \subseteq Name /\ calls \subseteq Name \X Call
  /\ up \in BOOLEAN
  /\ DOMAIN pc = Request
  /\ who \in [Request -> Name \cup {None}]
  /\ call \in [Request -> Call \cup {NoCall}]
  /\ \A r \in Request : InFlight(r) => up /\ who[r] \in Name /\ call[r] \in Call
  /\ (~up /\ users[Predefined] = None) \/ \E u \in Name : ActiveAdmin(u)
  /\ \A r \in Request : Deactivating(r) => ActiveAdmin(who[r])
  /\ \A r, q \in Request : Deactivating(r) /\ Deactivating(q) => r = q

\* The two ways a handler moves on.
LEMMA Moves ==
  ASSUME NEW r \in Request, DOMAIN pc = Request, NEW l,
         Goto(r, l) \/ Answer(r, l)
  PROVE  /\ UNCHANGED <<who, call>> /\ DOMAIN pc' = DOMAIN pc
         /\ \A q \in Request : q # r => pc'[q] = pc[q]
BY DEF Goto, Answer

\* No route of the case files touches the accounts.
LEMMA CaseFrame ==
  ASSUME NEW r \in Request, DOMAIN pc = Request, CaseStep(r)
  PROVE  Frame(r)
<1> USE Moves DEF Frame, InFlight, At, quiet, accountVars, processVars
<1>1. CASE CasesList(r)
  BY <1>1 DEF CasesList
<1>2. CASE CasesCreate(r)
  BY <1>2 DEF CasesCreate
<1>3. CASE CasesDelete(r)
  BY <1>3 DEF CasesDelete
<1>4. CASE RequireCase(r)
  BY <1>4 DEF RequireCase
<1>5. CASE CasesGet(r)
  BY <1>5 DEF CasesGet
<1>6. CASE UploadRefused(r)
  BY <1>6 DEF UploadRefused
<1>7. CASE UploadText(r)
  BY <1>7 DEF UploadText
<1>8. CASE UploadInsert(r)
  BY <1>8 DEF UploadInsert, AddDocument, Proceed
<1>9. CASE DocumentsDelete(r)
  BY <1>9 DEF DocumentsDelete
<1>10. CASE RequireDocument(r)
  BY <1>10 DEF RequireDocument
<1>11. CASE ReviewClause(r)
  BY <1>11 DEF ReviewClause, requestVars
<1>12. CASE ReviewSummary(r)
  BY <1>12 DEF ReviewSummary
<1>13. CASE ReviewStore(r)
  BY <1>13 DEF ReviewStore
<1>14. CASE ResumeDocument(r)
  BY <1>14 DEF ResumeDocument
<1>15. CASE ToolWrite(r)
  BY <1>15 DEF ToolWrite, AddDocument, AddDeadline, Proceed
<1>16. CASE ContextBlock(r)
  BY <1>16 DEF ContextBlock
<1>17. CASE AgentFinal(r)
  BY <1>17 DEF AgentFinal
<1>18. CASE StreamEnds(r)
  BY <1>18 DEF StreamEnds
<1>19. CASE DeadlinesCreate(r)
  BY <1>19 DEF DeadlinesCreate, AddDeadline, Proceed
<1>20. CASE DeadlinesChange(r)
  BY <1>20 DEF DeadlinesChange
<1> QED BY <1>1, <1>2, <1>3, <1>4, <1>5, <1>6, <1>7, <1>8, <1>9, <1>10, <1>11, <1>12, <1>13, <1>14, <1>15, <1>16, <1>17, <1>18, <1>19, <1>20 DEF CaseStep

\* No route of the saved conversations does.
LEMMA ChatFrame ==
  ASSUME NEW r \in Request, DOMAIN pc = Request, ChatStep(r)
  PROVE  Frame(r)
<1> USE Moves DEF Frame, InFlight, At, quiet, accountVars, processVars
<1>1. CASE ChatClaim(r)
  BY <1>1 DEF ChatClaim
<1>2. CASE TouchThread(r)
  BY <1>2 DEF TouchThread
<1>3. CASE ChatTurn(r)
  BY <1>3 DEF ChatTurn
<1>4. CASE OwnsThread(r)
  BY <1>4 DEF OwnsThread
<1>5. CASE ThreadMessages(r)
  BY <1>5 DEF ThreadMessages
<1>6. CASE RenameThread(r)
  BY <1>6 DEF RenameThread
<1>7. CASE ListThreads(r)
  BY <1>7 DEF ListThreads
<1>8. CASE DeleteThread(r)
  BY <1>8 DEF DeleteThread
<1> QED BY <1>1, <1>2, <1>3, <1>4, <1>5, <1>6, <1>7, <1>8 DEF ChatStep

-----------------------------------------------------------------------------
\* A step that is not about accounts keeps the invariant: it leaves the
\* accounts alone, and no request comes into flight.
LEMMA FrameKeeps ==
  ASSUME AdminInv, UNCHANGED calls, NEW r \in Request, Frame(r)
  PROVE  AdminInv'
<1>1. \A q \in Request : InFlight(q)' => InFlight(q)
  BY DEF Frame, InFlight
<1>2. \A q \in Request : Deactivating(q)' => Deactivating(q)
  BY <1>1 DEF Frame, Deactivating
<1>3. \A u : ActiveAdmin(u)' = ActiveAdmin(u)
  BY DEF Frame, ActiveAdmin, IsAdmin
<1> QED BY <1>1, <1>2, <1>3 DEF AdminInv, Frame

\* The requests that deactivate are among those before, when a step takes
\* request r to its end and changes no other.
LEMMA EndedKeeps ==
  ASSUME AdminInv, UNCHANGED <<tokens, calls, up>>,
         NEW r \in Request, InFlight(r), NEW code, Answer(r, code),
         users' \in [Name -> Row \cup {None}],
         \E u \in Name : ActiveAdmin(u)',
         \A q \in Request : Deactivating(q) /\ q # r => ActiveAdmin(who[q])'
  PROVE  AdminInv'
<1>1. /\ \A q \in Request : InFlight(q)' => InFlight(q) /\ q # r
      /\ DOMAIN pc' = Request /\ UNCHANGED <<who, call>>
  BY DEF AdminInv, InFlight, Answer
<1>2. \A q \in Request : Deactivating(q)' => Deactivating(q) /\ q # r
  BY <1>1 DEF Deactivating
<1> QED BY <1>1, <1>2 DEF AdminInv

\* Whoever is an active administrator stays one when an account is added.
LEMMA InsertKeepsAdmins ==
  ASSUME AdminInv, NEW r \in Request, call[r].op = "users_create", call[r] \in Call,
         users' = Inserted(r)
  PROVE  /\ users' \in [Name -> Row \cup {None}]
         /\ \A u \in Name : ActiveAdmin(u) => ActiveAdmin(u)'
<1>1. call[r].name \in Name /\ NewRow(r) \in Row
  BY CallAssumption DEF NewRow, Row
<1> QED BY <1>1 DEF Inserted, AdminInv, ActiveAdmin, IsAdmin

\* A request that deactivates another account leaves its own user as an
\* active administrator.
LEMMA SetActiveKeepsAdmin ==
  ASSUME AdminInv, NEW r \in Request, SetActive(r)
  PROVE  /\ users' \in [Name -> Row \cup {None}]
         /\ ActiveAdmin(who[r])'
<1>1. Deactivating(r) /\ who[r] \in Name /\ ActiveAdmin(who[r])
      /\ call[r].name \in Name /\ call[r].active \in BOOLEAN
  BY CallAssumption DEF SetActive, At, Deactivating, InFlight, AdminInv
<1>2. UNCHANGED who
  BY DEF SetActive, Answer
<1>3. CASE UNCHANGED users
  BY <1>1, <1>2, <1>3 DEF AdminInv, ActiveAdmin, IsAdmin
<1>4. CASE /\ ~OwnAccount(r) /\ users[call[r].name] # None
           /\ users' = [users EXCEPT ![call[r].name].active = call[r].active]
  <2>1. users[call[r].name] \in Row
    BY <1>1, <1>4 DEF AdminInv
  <2>2. [users[call[r].name] EXCEPT !.active = call[r].active] \in Row
    BY <1>1, <2>1 DEF Row
  <2>3. users' \in [Name -> Row \cup {None}]
    BY <1>1, <1>4, <2>2 DEF AdminInv
  <2>4. CASE call[r].name # who[r]
    BY <1>1, <1>2, <1>4, <2>3, <2>4 DEF AdminInv, ActiveAdmin, IsAdmin
  <2>5. CASE call[r].name = who[r]
    <3>1. call[r].active = TRUE
      BY <1>1, <1>4, <2>5 DEF OwnAccount
    <3>2. users'[who[r]] = [users[who[r]] EXCEPT !.active = TRUE]
      BY <1>1, <1>4, <2>5, <3>1 DEF AdminInv
    <3>3. users[who[r]] \in Row
      BY <2>1, <2>5
    <3>4. users'[who[r]].role = users[who[r]].role /\ users'[who[r]].active = TRUE
      BY <3>2, <3>3 DEF Row
    <3>5. [users[who[r]] EXCEPT !.active = TRUE] \in Row
      BY <3>3 DEF Row
    <3>6. users'[who[r]] # None
      BY <3>2, <3>5, RowAssumption
    <3> QED BY <1>1, <1>2, <2>3, <3>4, <3>6 DEF ActiveAdmin, IsAdmin
  <2> QED BY <2>3, <2>4, <2>5
<1> QED BY <1>3, <1>4 DEF SetActive

-----------------------------------------------------------------------------
LEMMA AccountsKeep ==
  ASSUME "users_set_active" \in Serial, AdminInv, UNCHANGED calls,
         NEW r \in Request, AccountStep(r)
  PROVE  AdminInv'
<1> USE DEF quiet, accountVars, processVars
<1>1. CASE LookupName(r)
  <2>1. Frame(r)
    BY <1>1, Moves DEF LookupName, Frame, InFlight, At, AdminInv
  <2> QED BY <2>1, FrameKeeps
<1>2. CASE InsertUser(r)
  <2>1. /\ InFlight(r) /\ up /\ call[r].op = "users_create" /\ call[r] \in Call
        /\ users' = Inserted(r) /\ UNCHANGED <<tokens, up, who>>
    BY <1>2 DEF InsertUser, At, InFlight, AdminInv, Answer
  <2>2. /\ users' \in [Name -> Row \cup {None}]
        /\ \A u \in Name : ActiveAdmin(u) => ActiveAdmin(u)'
    BY <2>1, InsertKeepsAdmins
  <2>3. \E u \in Name : ActiveAdmin(u)'
    BY <2>1, <2>2 DEF AdminInv
  <2>4. \A q \in Request : Deactivating(q) /\ q # r => ActiveAdmin(who[q])'
    BY <2>1, <2>2 DEF AdminInv, Deactivating, ActiveAdmin, IsAdmin
  <2>5. PICK code : Answer(r, code)
    BY <1>2 DEF InsertUser
  <2> QED BY <2>1, <2>2, <2>3, <2>4, <2>5, EndedKeeps
<1>3. CASE SetActive(r)
  <2>1. Deactivating(r) /\ InFlight(r) /\ UNCHANGED <<tokens, up, who>>
    BY <1>3 DEF SetActive, At, Deactivating, InFlight, Answer
  <2>2. users' \in [Name -> Row \cup {None}] /\ ActiveAdmin(who[r])'
    BY <1>3, SetActiveKeepsAdmin
  <2>3. \A q \in Request : Deactivating(q) => q = r
    BY <2>1 DEF AdminInv
  <2>4. \E u \in Name : ActiveAdmin(u)'
    BY <2>1, <2>2 DEF AdminInv, ActiveAdmin, IsAdmin
  <2>5. PICK code : Answer(r, code)
    BY <1>3 DEF SetActive
  <2> QED BY <2>1, <2>2, <2>3, <2>4, <2>5, EndedKeeps
<1>4. CASE EvalRun(r)
  <2>1. Frame(r)
    BY <1>4, Moves DEF EvalRun, Frame, InFlight, At, AdminInv
  <2> QED BY <2>1, FrameKeeps
<1>5. CASE PollStatus(r) \/ PollResults(r)
  <2>1. Frame(r)
    BY <1>5, Moves DEF PollStatus, PollResults, Frame, InFlight, At, AdminInv
  <2> QED BY <2>1, FrameKeeps
<1>6. CASE EvalResult(r) \/ EvalStatus(r)
  BY <1>6 DEF EvalResult, EvalStatus, requestVars, AdminInv, InFlight,
              Deactivating, ActiveAdmin, IsAdmin
<1> QED BY <1>1, <1>2, <1>3, <1>4, <1>5, <1>6 DEF AccountStep

\* A request that is let in to deactivate an account comes from an active
\* administrator, and no other such request is in flight.
LEMMA ArrivalsKeep ==
  ASSUME "users_set_active" \in Serial, AdminInv, UNCHANGED calls,
         NEW r \in Request, NEW m \in calls, Arrive(r, m[1], m[2])
  PROVE  AdminInv'
<1>1. /\ m[1] \in Name /\ m[2] \in Call
      /\ UNCHANGED <<users, tokens, up>> /\ up
  BY DEF AdminInv, Arrive, quiet, accountVars, processVars
<1>2. /\ who' = [who EXCEPT ![r] = m[1]] /\ call' = [call EXCEPT ![r] = m[2]]
      /\ DOMAIN pc' = Request
      /\ \A q \in Request : q # r => pc'[q] = pc[q] /\ who'[q] = who[q] /\ call'[q] = call[q]
      /\ who'[r] = m[1] /\ call'[r] = m[2]
  BY DEF Arrive, AdminInv
<1>3. \A u : ActiveAdmin(u)' = ActiveAdmin(u)
  BY <1>1 DEF ActiveAdmin, IsAdmin
<1>4. \A q \in Request : q # r => (InFlight(q)' <=> InFlight(q)) /\ (Deactivating(q)' <=> Deactivating(q))
  BY <1>2 DEF InFlight, Deactivating
<1>5. ASSUME Deactivating(r)'
      PROVE  ActiveAdmin(m[1]) /\ \A q \in Request : ~Deactivating(q)
  <2>1. m[2].op = "users_set_active" /\ pc'[r] # "ended"
    BY <1>2, <1>5 DEF Deactivating, InFlight
  <2>2. Refusal(m[1], m[2].op) = 200
    BY <2>1 DEF Arrive, AdminInv
  <2>3. ActiveAdmin(m[1])
    BY <2>1, <2>2 DEF Refusal, AdminRoutes, ActiveAdmin, IsAdmin
  <2> QED BY <2>1, <2>3 DEF Arrive, Deactivating
<1>6. /\ \A q \in Request : InFlight(q)' => up' /\ who'[q] \in Name /\ call'[q] \in Call
      /\ \A q \in Request : Deactivating(q)' => ActiveAdmin(who'[q])
      /\ \A q, p \in Request : Deactivating(q)' /\ Deactivating(p)' => q = p
  BY <1>1, <1>2, <1>4, <1>5 DEF AdminInv
<1> QED BY <1>1, <1>2, <1>3, <1>6 DEF AdminInv

\* A restart gives the predefined administrator back where there is none.
LEMMA RestartsKeep ==
  ASSUME AdminInv, UNCHANGED calls, Start \/ Crash
  PROVE  AdminInv'
<1>1. CASE Start
  <2>1. /\ ~up /\ up' = TRUE /\ UNCHANGED <<tokens, pc, who, call>>
        /\ \A q \in Request : ~InFlight(q) /\ ~InFlight(q)'
    BY <1>1 DEF Start, requestVars, AdminInv, InFlight
  <2>2. CASE users[Predefined] = None
    <3>1. /\ users' \in [Name -> Row \cup {None}]
          /\ users'[Predefined] = [role |-> "admin", active |-> TRUE, by |-> None]
          /\ [role |-> "admin", active |-> TRUE, by |-> None] \in Row
      BY <1>1, <2>2, SessionsAssumption DEF Start, AdminInv, Row
    <3>2. users'[Predefined] # None
      BY <3>1, RowAssumption
    <3>3. users'[Predefined].role = "admin" /\ users'[Predefined].active = TRUE
      BY <3>1
    <3>4. ActiveAdmin(Predefined)'
      BY <3>2, <3>3 DEF ActiveAdmin, IsAdmin
    <3> QED BY <2>1, <3>1, <3>4, SessionsAssumption DEF AdminInv, Deactivating
  <2>3. CASE users[Predefined] # None
    BY <1>1, <2>1, <2>3 DEF Start, AdminInv, Deactivating, ActiveAdmin, IsAdmin
  <2> QED BY <2>2, <2>3
<1>2. CASE Crash
  <2>1. /\ up' = FALSE /\ UNCHANGED <<users, tokens, who, call>> /\ DOMAIN pc' = Request
        /\ \A q \in Request : ~InFlight(q)'
    BY <1>2 DEF Crash, accountVars, InFlight
  <2>2. up
    BY <1>2 DEF Crash
  <2> QED BY <2>1, <2>2 DEF AdminInv, Deactivating, ActiveAdmin, IsAdmin
<1> QED BY <1>1, <1>2

\* The inductive invariant.
THEOREM AdminInvariant ==
  ASSUME "users_set_active" \in Serial
  PROVE  Spec => []AdminInv
<1>1. Init => AdminInv
  <2> SUFFICES ASSUME Init PROVE AdminInv
    OBVIOUS
  <2>1. PICK s \in Scenario : users = s.users /\ tokens = s.tokens /\ calls = s.calls
    BY DEF Init
  <2>2. /\ users \in [Name -> Row \cup {None}]
        /\ users[Predefined] = None \/ \E u \in Name : users[u] # None /\
             users[u].role = "admin" /\ users[u].active
        /\ tokens \subseteq Name /\ calls \subseteq Name \X Call
    BY <2>1, ScenarioAssumption DEF Consistent
  <2>3. /\ up = FALSE /\ pc = [r \in Request |-> "new"]
        /\ who = [r \in Request |-> None] /\ call = [r \in Request |-> NoCall]
    BY DEF Init, SessionsInit
  <2>4. \A r \in Request : ~InFlight(r)
    BY <2>3 DEF InFlight
  <2> QED BY <2>2, <2>3, <2>4 DEF AdminInv, Deactivating, ActiveAdmin, IsAdmin
<1>2. AdminInv /\ [Next]_vars => AdminInv'
  <2> SUFFICES ASSUME AdminInv, [Next]_vars PROVE AdminInv'
    OBVIOUS
  <2>1. CASE UNCHANGED vars
    BY <2>1 DEF vars, sessionVars, accountVars, requestVars, processVars, AdminInv,
                InFlight, Deactivating, ActiveAdmin, IsAdmin
  <2>2. CASE (Start \/ Crash) /\ UNCHANGED calls
    BY <2>2, RestartsKeep
  <2>3. ASSUME NEW r \in Request, NEW m \in calls, Arrive(r, m[1], m[2]), UNCHANGED calls
        PROVE  AdminInv'
    BY <2>3, ArrivalsKeep
  <2>4. ASSUME NEW r \in Request, NEW m \in calls, NEW right \in BOOLEAN,
               Login(r, m[1], right), UNCHANGED calls
        PROVE  AdminInv'
    <3>1. m[1] \in Name
      BY DEF AdminInv
    <3>2. /\ UNCHANGED <<users, up, who, call>> /\ DOMAIN pc' = Request
          /\ tokens' \subseteq Name
          /\ \A q \in Request : InFlight(q)' => InFlight(q)
      BY <2>4, <3>1 DEF Login, AdminInv, InFlight, processVars
    <3> QED BY <2>4, <3>2 DEF AdminInv, Deactivating, ActiveAdmin, IsAdmin
  <2>5. ASSUME NEW r \in Request, AccountStep(r), UNCHANGED calls PROVE AdminInv'
    BY <2>5, AccountsKeep
  <2>6. ASSUME NEW r \in Request, CaseStep(r), UNCHANGED calls PROVE AdminInv'
    BY <2>6, CaseFrame, FrameKeeps DEF AdminInv
  <2>7. ASSUME NEW r \in Request, ChatStep(r), UNCHANGED calls PROVE AdminInv'
    BY <2>7, ChatFrame, FrameKeeps DEF AdminInv
  <2>8. CASE Quiescent
    BY <2>1, <2>8 DEF Quiescent
  <2> QED BY <2>1, <2>2, <2>3, <2>4, <2>5, <2>6, <2>7, <2>8 DEF Next
<1> QED BY <1>1, <1>2, PTL DEF Spec

\* The service never runs without an active administrator, as long as
\* accounts are deactivated one at a time.
THEOREM AnAdminRemains ==
  ASSUME "users_set_active" \in Serial
  PROVE  Spec => []AdminRemains
<1>1. AdminInv => AdminRemains
  BY DEF AdminInv, AdminRemains
<1> QED BY <1>1, AdminInvariant, PTL

-----------------------------------------------------------------------------
\* No orphans: the rows of the three tables as far as the foreign keys see them.
RowInv ==
  /\ DOMAIN cases = Case /\ DOMAIN docs = Doc /\ DOMAIN deadlines = Deadline
  /\ \A d \in Doc : Live(docs[d]) =>
       DOMAIN docs[d] = DocumentColumns /\ docs[d].case \in Case
  /\ \A f \in Deadline : Live(deadlines[f]) =>
       DOMAIN deadlines[f] = DeadlineColumns /\ deadlines[f].case \in Case
  /\ NoOrphans

LEMMA RowsUnchanged ==
  ASSUME RowInv, UNCHANGED rowVars
  PROVE  RowInv'
BY DEF RowInv, rowVars, NoOrphans, Live

\* An analysis that is stored leaves the document in its case.
LEMMA AnalysedKeeps ==
  ASSUME RowInv, UNCHANGED <<cases, deadlines>>, NEW d, NEW a,
         docs' = Analysed(d, a)
  PROVE  RowInv'
<1>1. CASE ~Live(docs[d])
  BY <1>1, RowsUnchanged DEF Analysed, rowVars
<1>2. CASE Live(docs[d]) /\ d \notin Doc
  <2>1. DOMAIN docs' = Doc /\ \A e \in Doc : docs'[e] = docs[e]
    BY <1>2 DEF Analysed, RowInv
  <2> QED BY <2>1 DEF RowInv, NoOrphans, Live
<1>3. CASE Live(docs[d]) /\ d \in Doc
  <2>1. /\ DOMAIN docs' = Doc /\ \A e \in Doc : e # d => docs'[e] = docs[e]
        /\ docs'[d] = [docs[d] EXCEPT !.analysis = a]
    BY <1>3 DEF Analysed, RowInv
  <2>2. DOMAIN docs[d] = DocumentColumns
    BY <1>3 DEF RowInv
  <2>3. DOMAIN docs'[d] = DocumentColumns /\ docs'[d].case = docs[d].case
    BY <2>1, <2>2 DEF DocumentColumns
  <2>4. \A e \in Doc : Live(docs'[e]) =>
          Live(docs[e]) /\ DOMAIN docs'[e] = DocumentColumns /\ docs'[e].case = docs[e].case
    BY <1>3, <2>1, <2>3 DEF RowInv
  <2> QED BY <2>1, <2>4 DEF RowInv, NoOrphans
<1> QED BY <1>1, <1>2, <1>3

\* An insert whose foreign key fails inserts nothing.
LEMMA DocumentAdded ==
  ASSUME RowInv, UNCHANGED <<cases, deadlines>>, NEW r \in Request,
         NEW kind, NEW clauses, NEW code, AddDocument(r, kind, clauses, code),
         Refers(call[r].case) => call[r].case \in Case
  PROVE  RowInv'
<1>1. CASE UNCHANGED docs
  BY <1>1, RowsUnchanged DEF rowVars
<1>2. CASE docs' # docs
  <2> DEFINE row == [case |-> call[r].case, kind |-> kind, clauses |-> clauses,
                     analysis |-> None, by |-> r]
  <2>1. Refers(call[r].case)
    BY <1>2 DEF AddDocument
  <2>2. PICK d \in Doc : docs' = [docs EXCEPT ![d] = row]
    BY <2>1 DEF AddDocument
  <2>3. DOMAIN row = DocumentColumns /\ row.case = call[r].case
    BY DEF DocumentColumns
  <2> HIDE DEF row
  <2> QED BY <2>1, <2>2, <2>3 DEF RowInv, NoOrphans, Refers
<1> QED BY <1>1, <1>2

LEMMA DeadlineAdded ==
  ASSUME RowInv, UNCHANGED <<cases, docs>>, NEW r \in Request,
         NEW due, NEW code, AddDeadline(r, due, code),
         Refers(call[r].case) => call[r].case \in Case
  PROVE  RowInv'
<1>1. CASE UNCHANGED deadlines
  BY <1>1, RowsUnchanged DEF rowVars
<1>2. CASE deadlines' # deadlines
  <2> DEFINE row == [case |-> call[r].case, due |-> due, status |-> "open", by |-> r]
  <2>1. Refers(call[r].case)
    BY <1>2 DEF AddDeadline
  <2>2. PICK f \in Deadline : deadlines' = [deadlines EXCEPT ![f] = row]
    BY <2>1 DEF AddDeadline
  <2>3. DOMAIN row = DeadlineColumns /\ row.case = call[r].case
    BY DEF DeadlineColumns
  <2> HIDE DEF row
  <2> QED BY <2>1, <2>2, <2>3 DEF RowInv, NoOrphans, Refers
<1> QED BY <1>1, <1>2

\* A case is only created where there has been none, and its rows go with it.
LEMMA CasesKeep ==
  ASSUME RowInv, NEW r \in Request, CasesCreate(r) \/ CasesDelete(r)
  PROVE  RowInv'
<1>1. CASE UNCHANGED rowVars
  BY <1>1, RowsUnchanged
<1>2. CASE CasesCreate(r) /\ ~UNCHANGED rowVars
  <2>1. PICK c \in Case : IsNext(cases, c) /\ cases' = [cases EXCEPT ![c] = who[r]]
    BY <1>2 DEF CasesCreate, rowVars
  <2>2. UNCHANGED <<docs, deadlines>> /\ ~Live(cases[c])
    BY <1>2, <2>1 DEF CasesCreate, IsNext, Live
  <2>3. \A e \in Case : Live(cases[e]) => Live(cases'[e])
    BY <2>1, <2>2 DEF RowInv
  <2> QED BY <2>1, <2>2, <2>3 DEF RowInv, NoOrphans, Live
<1>3. CASE CasesDelete(r) /\ ~UNCHANGED rowVars
  <2> DEFINE c == call[r].case
  <2>1. /\ cases' = [cases EXCEPT ![c] = Gone] /\ docs' = DocsAfter(c)
        /\ deadlines' = [f \in Deadline |-> IF DeadlineOf(c, f)
                           THEN Gone ELSE deadlines[f]]
    BY <1>3 DEF CasesDelete, rowVars
  <2>2. \A d \in Doc : Live(docs'[d]) => docs'[d] = docs[d] /\ docs[d].case # c
    BY <2>1 DEF DocsAfter, DocOf, Live
  <2>3. \A f \in Deadline : Live(deadlines'[f]) => deadlines'[f] = deadlines[f] /\ deadlines[f].case # c
    BY <2>1 DEF DeadlineOf, Live
  <2>4. \A e \in Case : e # c => cases'[e] = cases[e]
    BY <2>1 DEF RowInv
  <2>5. DOMAIN docs' = Doc /\ DOMAIN deadlines' = Deadline /\ DOMAIN cases' = Case
    BY <2>1 DEF DocsAfter, RowInv
  <2> HIDE DEF c
  <2> QED BY <2>2, <2>3, <2>4, <2>5 DEF RowInv, NoOrphans, Live
<1> QED BY <1>1, <1>2, <1>3

LEMMA DeadlinesKeep ==
  ASSUME RowInv, NEW r \in Request, DeadlinesChange(r)
  PROVE  RowInv'
<1> DEFINE f == call[r].deadline
<1>1. CASE UNCHANGED rowVars
  BY <1>1, RowsUnchanged
<1>2. CASE deadlines' = [deadlines EXCEPT ![f] = Gone]
  <2>1. UNCHANGED <<cases, docs>>
    BY DEF DeadlinesChange
  <2>2. DOMAIN deadlines' = Deadline
    BY <1>2 DEF RowInv
  <2>3. \A g \in Deadline : Live(deadlines'[g]) => deadlines'[g] = deadlines[g]
    BY <1>2 DEF RowInv, Live
  <2> QED BY <2>1, <2>2, <2>3 DEF RowInv, NoOrphans
<1>3. CASE /\ DeadlineOf(call[r].case, f)
           /\ deadlines' = [deadlines EXCEPT ![f].status = call[r].status]
  <2>1. UNCHANGED <<cases, docs>>
    BY DEF DeadlinesChange
  <2>2. DOMAIN deadlines' = Deadline
    BY <1>3 DEF RowInv
  <2>3. f \in Deadline => /\ DOMAIN deadlines[f] = DeadlineColumns
                          /\ deadlines'[f] = [deadlines[f] EXCEPT !.status = call[r].status]
    BY <1>3 DEF RowInv, DeadlineOf
  <2>4. f \in Deadline => /\ DOMAIN deadlines'[f] = DeadlineColumns
                          /\ deadlines'[f].case = deadlines[f].case
    BY <2>3 DEF DeadlineColumns
  <2>5. \A g \in Deadline : g # f => deadlines'[g] = deadlines[g]
    BY <1>3 DEF RowInv
  <2>6. \A g \in Deadline : Live(deadlines'[g]) =>
          Live(deadlines[g]) /\ DOMAIN deadlines'[g] = DeadlineColumns
          /\ deadlines'[g].case = deadlines[g].case
    BY <1>3, <2>4, <2>5 DEF RowInv, DeadlineOf
  <2> QED BY <2>1, <2>2, <2>6 DEF RowInv, NoOrphans
<1> QED BY <1>1, <1>2, <1>3 DEF DeadlinesChange, rowVars

\* The step of a handler: most leave the rows alone.
LEMMA CaseStepKeeps ==
  ASSUME RowInv, call \in [Request -> Call \cup {NoCall}], NEW r \in Request, CaseStep(r)
  PROVE  RowInv'
<1>1. CASE \/ CasesList(r) \/ RequireCase(r) \/ CasesGet(r) \/ UploadRefused(r)
           \/ UploadText(r) \/ RequireDocument(r) \/ ReviewClause(r)
           \/ ReviewSummary(r) \/ ResumeDocument(r) \/ ContextBlock(r) \/ StreamEnds(r)
  <2>1. UNCHANGED rowVars
    BY <1>1 DEF CasesList, RequireCase, CasesGet, UploadRefused, UploadText,
                RequireDocument, ReviewClause, ReviewSummary, ResumeDocument,
                ContextBlock, StreamEnds, caseVars, rowVars
  <2> QED BY <2>1, RowsUnchanged
<1>2. CASE CasesCreate(r) \/ CasesDelete(r)
  BY <1>2, CasesKeep
<1>3. ASSUME call[r].op \in Scoped PROVE call[r].case \in Case
  <2>1. call[r] \in Call
    BY <1>3 DEF NoCall, Scoped
  <2> QED BY <1>3, <2>1, CallAssumption
<1>4. CASE UploadInsert(r)
  BY <1>3, <1>4, DocumentAdded DEF UploadInsert, At, Scoped
<1>5. CASE ToolWrite(r)
  BY <1>3, <1>5, DocumentAdded, DeadlineAdded DEF ToolWrite, At, Scoped
<1>6. CASE DeadlinesCreate(r)
  <2>1. CASE UNCHANGED deadlines
    BY <1>6, <2>1, RowsUnchanged DEF DeadlinesCreate, rowVars
  <2>2. CASE AddDeadline(r, call[r].due, 201)
    BY <1>3, <1>6, <2>2, DeadlineAdded DEF DeadlinesCreate, At, Scoped
  <2> QED BY <1>6, <2>1, <2>2 DEF DeadlinesCreate
<1>7. CASE DocumentsDelete(r)
  <2> DEFINE d == call[r].doc
  <2>1. UNCHANGED <<cases, deadlines>> /\ (UNCHANGED docs \/ docs' = [docs EXCEPT ![d] = Gone])
    BY <1>7 DEF DocumentsDelete
  <2>2. CASE UNCHANGED docs
    BY <2>1, <2>2, RowsUnchanged DEF rowVars
  <2>3. CASE docs' = [docs EXCEPT ![d] = Gone]
    <3>1. DOMAIN docs' = Doc /\ \A e \in Doc : Live(docs'[e]) => docs'[e] = docs[e]
      BY <2>3 DEF RowInv, Live
    <3> QED BY <2>1, <3>1 DEF RowInv, NoOrphans
  <2> QED BY <2>1, <2>2, <2>3
<1>8. CASE ReviewStore(r) \/ AgentFinal(r)
  <2>1. /\ UNCHANGED <<cases, deadlines>>
        /\ UNCHANGED docs \/ \E d, a : docs' = Analysed(d, a)
    BY <1>8 DEF ReviewStore, AgentFinal
  <2> QED BY <2>1, AnalysedKeeps, RowsUnchanged DEF rowVars
<1>9. CASE DeadlinesChange(r)
  BY <1>9, DeadlinesKeep
<1> QED BY <1>1, <1>2, <1>4, <1>5, <1>6, <1>7, <1>8, <1>9 DEF CaseStep

LEMMA CallsTyped ==
  ASSUME NEW r \in Request, NEW m \in calls, calls \subseteq Name \X Call,
         call \in [Request -> Call \cup {NoCall}],
         Arrive(r, m[1], m[2])
  PROVE  call' \in [Request -> Call \cup {NoCall}]
BY DEF Arrive

\* No document or deadline outlives its case: neither a delete nor an insert
\* of a request that has checked the case before it was deleted leaves one.
THEOREM NoRowIsOrphaned == Spec => []NoOrphans
<1> DEFINE Inv == RowInv /\ calls \subseteq Name \X Call
                  /\ call \in [Request -> Call \cup {NoCall}]
<1>1. Init => Inv
  <2> SUFFICES ASSUME Init PROVE Inv
    OBVIOUS
  <2>1. PICK s \in Scenario : cases = s.cases /\ docs = s.docs
               /\ deadlines = s.deadlines /\ calls = s.calls
    BY DEF Init
  <2>2. RowInv /\ calls \subseteq Name \X Call
    BY <2>1, ScenarioAssumption DEF Consistent, RowInv, NoOrphans
  <2> QED BY <2>2 DEF Init, SessionsInit
<1>2. Inv /\ [Next]_vars => Inv'
  <2> SUFFICES ASSUME Inv, [Next]_vars PROVE Inv'
    OBVIOUS
  <2>1. CASE UNCHANGED caseVars /\ UNCHANGED <<calls, call>>
    BY <2>1, RowsUnchanged DEF caseVars, rowVars
  <2>2. CASE UNCHANGED vars
    BY <2>1, <2>2 DEF vars, sessionVars, requestVars, caseVars
  <2>3. CASE (Start \/ Crash) /\ UNCHANGED <<caseVars, chatVars, calls>>
    BY <2>1, <2>3 DEF Start, Crash, requestVars
  <2>4. ASSUME NEW r \in Request, NEW m \in calls, Arrive(r, m[1], m[2]),
               UNCHANGED <<caseVars, chatVars, calls>>
        PROVE  Inv'
    BY <2>4, RowsUnchanged, CallsTyped DEF caseVars, rowVars
  <2>5. ASSUME NEW r \in Request, NEW m \in calls, NEW right \in BOOLEAN,
               Login(r, m[1], right), UNCHANGED <<caseVars, chatVars, calls>>
        PROVE  Inv'
    BY <2>1, <2>5 DEF Login
  <2>6. ASSUME NEW r \in Request, AccountStep(r),
               UNCHANGED <<caseVars, chatVars, calls>>
        PROVE  Inv'
    BY <2>1, <2>6 DEF AccountStep, LookupName, InsertUser, SetActive, EvalRun,
         EvalResult, EvalStatus, PollStatus, PollResults, Goto, Answer, requestVars
  <2>7. ASSUME NEW r \in Request, CaseStep(r), UNCHANGED <<chatVars, calls>>
        PROVE  Inv'
    <3>1. RowInv'
      BY <2>7, CaseStepKeeps
    <3>2. UNCHANGED call
      BY <2>7 DEF CaseStep, CasesList, CasesCreate, CasesDelete, RequireCase,
           CasesGet, UploadRefused, UploadText, UploadInsert, DocumentsDelete,
           RequireDocument, ReviewClause, ReviewSummary, ReviewStore,
           ResumeDocument, ToolWrite, ContextBlock, AgentFinal, StreamEnds,
           DeadlinesCreate, DeadlinesChange, AddDocument, AddDeadline, Proceed,
           Goto, Answer, requestVars
    <3> QED BY <2>7, <3>1, <3>2
  <2>8. ASSUME NEW r \in Request, ChatStep(r), UNCHANGED <<caseVars, calls>>
        PROVE  Inv'
    BY <2>1, <2>8 DEF ChatStep, ChatClaim, TouchThread, ChatTurn, OwnsThread,
         ThreadMessages, RenameThread, ListThreads, DeleteThread, Goto, Answer
  <2>9. CASE Quiescent
    BY <2>2, <2>9 DEF Quiescent
  <2> QED BY <2>2, <2>3, <2>4, <2>5, <2>6, <2>7, <2>8, <2>9 DEF Next
<1>3. Inv => NoOrphans
  BY DEF RowInv
<1> QED BY <1>1, <1>2, <1>3, PTL DEF Spec

-----------------------------------------------------------------------------
\* The evaluation job: start() takes the lock, run() does not.  The status is
\* "running" from the start of a thread to its last assignment, so no second
\* one starts, and results are there before a status that promises them.
JobInv ==
  /\ DOMAIN pc = Request /\ DOMAIN ans = Request /\ DOMAIN poll = Request
  /\ DOMAIN worker = Request /\ DOMAIN job = {"status", "results", "error"}
  /\ \A r, q \in Request : worker[r] # "none" /\ worker[q] # "none" => r = q
  /\ \A r \in Request : worker[r] # "none" => job.status = "running"
  /\ \A r \in Request : worker[r] = "succeeded" => job.results # None
  /\ job.status = "done" => job.results # None
  /\ \A r \in Request :
       /\ pc[r] # "ended" => ans[r] = 0
       /\ pc[r] \notin {"polled", "ended"} => poll[r] = None
       /\ pc[r] = "polled" => /\ DOMAIN poll[r] = {"status", "results"}
                              /\ poll[r].status = "done" => job.results # None
       /\ ans[r] = 200 /\ poll[r] # None /\ poll[r].status = "done"
            => poll[r].results # None

\* A step of request r that is not about the job.
JobFrame(r) ==
  /\ UNCHANGED jobVars /\ DOMAIN pc' = Request /\ DOMAIN ans' = Request
  /\ \A q \in Request : q # r => pc'[q] = pc[q] /\ ans'[q] = ans[q]
  /\ pc[r] \notin {"polled", "ended"} /\ pc'[r] # "polled"
  /\ pc'[r] = "ended" \/ ans'[r] = ans[r]

LEMMA JobFrameKeeps ==
  ASSUME JobInv, NEW r \in Request, JobFrame(r)
  PROVE  JobInv'
BY DEF JobInv, JobFrame, jobVars

\* The two ways a handler moves on, with what it was answered.
LEMMA AnswerFrame ==
  ASSUME NEW r \in Request, JobInv, UNCHANGED jobVars,
         pc[r] \notin {"polled", "ended"}, NEW l,
         Answer(r, l) \/ (Goto(r, l) /\ l # "polled")
  PROVE  JobFrame(r)
BY DEF Goto, Answer, JobInv, JobFrame

LEMMA CaseJobFrame ==
  ASSUME NEW r \in Request, JobInv, CaseStep(r)
  PROVE  JobFrame(r)
<1> USE AnswerFrame DEF At, quiet
<1>1. CASE CasesList(r) \/ CasesCreate(r) \/ CasesDelete(r)
  BY <1>1 DEF CasesList, CasesCreate, CasesDelete
<1>2. CASE RequireCase(r) \/ CasesGet(r)
  BY <1>2 DEF RequireCase, CasesGet
<1>3. CASE UploadRefused(r) \/ UploadText(r) \/ DocumentsDelete(r)
  BY <1>3 DEF UploadRefused, UploadText, DocumentsDelete
<1>4. CASE UploadInsert(r) \/ ToolWrite(r) \/ DeadlinesCreate(r)
  BY <1>4 DEF UploadInsert, ToolWrite, DeadlinesCreate, AddDocument, AddDeadline, Proceed
<1>5. CASE RequireDocument(r)
  BY <1>5 DEF RequireDocument
<1>6. CASE ReviewClause(r)
  BY <1>6 DEF ReviewClause, requestVars, JobInv, JobFrame
<1>7. CASE ReviewSummary(r) \/ ReviewStore(r) \/ ResumeDocument(r) \/ ContextBlock(r)
  BY <1>7 DEF ReviewSummary, ReviewStore, ResumeDocument, ContextBlock
<1>8. CASE AgentFinal(r) \/ StreamEnds(r) \/ DeadlinesChange(r)
  BY <1>8 DEF AgentFinal, StreamEnds, DeadlinesChange
<1> QED BY <1>1, <1>2, <1>3, <1>4, <1>5, <1>6, <1>7, <1>8 DEF CaseStep

LEMMA ChatJobFrame ==
  ASSUME NEW r \in Request, JobInv, ChatStep(r)
  PROVE  JobFrame(r)
BY AnswerFrame DEF At, quiet, ChatStep, ChatClaim, TouchThread, ChatTurn,
   OwnsThread, ThreadMessages, RenameThread, ListThreads, DeleteThread

LEMMA AccountsKeepJob ==
  ASSUME JobInv, NEW r \in Request, AccountStep(r)
  PROVE  JobInv'
<1> USE DEF At, quiet
<1>1. CASE LookupName(r) \/ InsertUser(r) \/ SetActive(r)
  <2>1. JobFrame(r)
    BY <1>1, AnswerFrame DEF LookupName, InsertUser, SetActive
  <2> QED BY <2>1, JobFrameKeeps
<1>2. CASE EvalRun(r)
  <2>1. CASE UNCHANGED <<job, worker>>
    <3>1. JobFrame(r)
      BY <1>2, <2>1, AnswerFrame DEF EvalRun, jobVars
    <3> QED BY <3>1, JobFrameKeeps
  <2>2. CASE ~Busy /\ job' = [job EXCEPT !.status = "running", !.error = FALSE]
                   /\ worker' = [worker EXCEPT ![r] = "computing"]
    <3>1. \A q \in Request : worker[q] = "none"
      BY <2>2 DEF JobInv, Busy
    <3> QED BY <1>2, <2>2, <3>1 DEF EvalRun, JobInv, Answer
  <2> QED BY <1>2, <2>1, <2>2 DEF EvalRun
<1>3. CASE EvalResult(r)
  <2>1. UNCHANGED <<pc, ans, poll>> /\ worker[r] = "computing"
    BY <1>3 DEF EvalResult, requestVars
  <2>2. CASE job' = [job EXCEPT !.results = r] /\ worker' = [worker EXCEPT ![r] = "succeeded"]
    BY <2>1, <2>2, SessionsAssumption DEF JobInv
  <2>3. CASE job' = [job EXCEPT !.error = TRUE] /\ worker' = [worker EXCEPT ![r] = "failed"]
    BY <2>1, <2>3 DEF JobInv
  <2> QED BY <1>3, <2>2, <2>3 DEF EvalResult
<1>4. CASE EvalStatus(r)
  <2>1. UNCHANGED <<pc, ans, poll>> /\ worker' = [worker EXCEPT ![r] = "none"]
    BY <1>4 DEF EvalStatus, requestVars
  <2>2. \A q \in Request : worker'[q] = "none"
    BY <1>4, <2>1 DEF EvalStatus, JobInv
  <2> QED BY <1>4, <2>1, <2>2 DEF EvalStatus, JobInv
<1>5. CASE PollStatus(r)
  BY <1>5 DEF PollStatus, Goto, JobInv
<1>6. CASE PollResults(r)
  BY <1>6 DEF PollResults, Answer, JobInv
<1> QED BY <1>1, <1>2, <1>3, <1>4, <1>5, <1>6 DEF AccountStep

\* At most one evaluation runs, and a poll that says "done" has its results.
THEOREM JobIsHonest == Spec => []JobHonest
<1>1. Init => JobInv
  BY DEF Init, SessionsInit, Idle, JobInv
<1>2. JobInv /\ [Next]_vars => JobInv'
  <2> SUFFICES ASSUME JobInv, [Next]_vars PROVE JobInv'
    OBVIOUS
  <2>1. CASE UNCHANGED vars
    BY <2>1 DEF vars, sessionVars, requestVars, jobVars, JobInv
  <2>2. CASE Start
    BY <2>2 DEF Start, requestVars, jobVars, JobInv
  <2>3. CASE Crash
    BY <2>3 DEF Crash, InFlight, Idle, JobInv
  <2>4. ASSUME NEW r \in Request, NEW m \in calls, Arrive(r, m[1], m[2])
        PROVE  JobInv'
    <3>1. JobFrame(r)
      BY <2>4 DEF Arrive, quiet, JobFrame, JobInv
    <3> QED BY <3>1, JobFrameKeeps
  <2>5. ASSUME NEW r \in Request, NEW m \in calls, NEW right \in BOOLEAN,
               Login(r, m[1], right)
        PROVE  JobInv'
    <3>1. JobFrame(r)
      BY <2>5 DEF Login, JobFrame, JobInv
    <3> QED BY <3>1, JobFrameKeeps
  <2>6. ASSUME NEW r \in Request, AccountStep(r) PROVE JobInv'
    BY <2>6, AccountsKeepJob
  <2>7. ASSUME NEW r \in Request, CaseStep(r) PROVE JobInv'
    BY <2>7, CaseJobFrame, JobFrameKeeps
  <2>8. ASSUME NEW r \in Request, ChatStep(r) PROVE JobInv'
    BY <2>8, ChatJobFrame, JobFrameKeeps
  <2>9. CASE Quiescent
    BY <2>1, <2>9 DEF Quiescent
  <2> QED BY <2>1, <2>2, <2>3, <2>4, <2>5, <2>6, <2>7, <2>8, <2>9 DEF Next
<1>3. JobInv => JobHonest
  <2> SUFFICES ASSUME JobInv PROVE JobHonest
    OBVIOUS
  <2> DEFINE S == {r \in Request : worker[r] # "none"}
  <2>1. CASE S = {}
    BY <2>1, FS_EmptySet DEF JobInv, JobHonest
  <2>2. CASE S # {}
    <3>1. PICK x : x \in S
      BY <2>2
    <3>2. S = {x}
      BY <3>1 DEF JobInv
    <3>3. Cardinality(S) = 1
      BY <3>2, FS_Singleton
    <3> QED BY <3>3 DEF JobInv, JobHonest
  <2> QED BY <2>1, <2>2
<1> QED BY <1>1, <1>2, <1>3, PTL DEF Spec

-----------------------------------------------------------------------------
(* Turns of the free chat do not overlap: then a saved conversation shows  *)
(* nobody else's words, for any number of users, threads, requests and     *)
(* restarts, except on a thread that has lost its row.  The argument: a    *)
(* thread is in one list at most; whoever's words it has is the user in    *)
(* whose list it is; and what claimed_by_other has found is still true     *)
(* when the turn that asked writes, as no other turn is in flight.         *)

\* A turn in flight, and one that has claimed its thread.
Chatting(r) == InFlight(r) /\ call[r].op = "chat"

Claimed(r) == call[r].op = "chat" /\ pc[r] \in {"touch", "turn"}

Reading(r) == call[r].op = "chat_messages" /\ pc[r] = "history"

\* Nobody but u lists thread t.
OnlyOf(u, t) == \A v \in Name : index[v][t] => v = u

\* The inductive invariant.
HistoryTyped ==
  /\ index \in [Name -> [Thread -> BOOLEAN]]
  /\ spoken \in [Thread -> SUBSET Name]
  /\ DOMAIN shown = Request /\ DOMAIN pc = Request
  /\ calls \subseteq Name \X Call
  /\ who \in [Request -> Name \cup {None}]
  /\ call \in [Request -> Call \cup {NoCall}]

HistoryInv ==
  /\ HistoryTyped
  /\ \A t \in Thread : \A u \in Name : index[u][t] => OnlyOf(u, t)
  /\ \A t \in Thread \ orphaned : \A u \in spoken[t] : index[u][t]
  /\ \A r, q \in Request : Chatting(r) /\ Chatting(q) => r = q
  /\ \A r \in Request :
       /\ InFlight(r) => who[r] \in Name /\ call[r] \in Call
       /\ Claimed(r) => OnlyOf(who[r], call[r].thread)
       /\ Reading(r) => index[who[r]][call[r].thread] \/ call[r].thread \in orphaned
       /\ pc[r] = "new" => shown[r] = {}
  /\ HistoryOwn

\* A step that leaves the conversations alone: no turn comes into flight, and
\* no request comes behind the checks of a conversation.
LEMMA CalmHistory ==
  ASSUME HistoryInv, UNCHANGED <<chatVars, calls, who, call>>,
         DOMAIN pc' = Request,
         \A q \in Request :
           \/ pc'[q] = pc[q] \/ pc'[q] = "ended"
           \/ InFlight(q) /\ pc'[q] # "new" /\ call[q].op \notin OnThread
  PROVE  HistoryInv'
<1>1. HistoryTyped' /\ UNCHANGED <<index, spoken, orphaned, shown>>
  BY DEF HistoryInv, HistoryTyped, chatVars
<1>2. \A q \in Request : /\ InFlight(q)' => InFlight(q)
                         /\ Chatting(q)' => Chatting(q)
                         /\ Claimed(q)' => Claimed(q)
                         /\ Reading(q)' => Reading(q)
                         /\ pc'[q] = "new" => pc[q] = "new"
  BY DEF InFlight, Chatting, Claimed, Reading, OnThread
<1> QED BY <1>1, <1>2 DEF HistoryInv, OnlyOf, HistoryOwn

\* Handlers of other routes do that.
LEMMA OtherRoute ==
  ASSUME NEW r \in Request, DOMAIN pc = Request, CaseStep(r) \/ AccountStep(r)
  PROVE  /\ UNCHANGED <<who, call>> /\ DOMAIN pc' = Request
         /\ \A q \in Request : q # r => pc'[q] = pc[q]
         /\ \/ pc'[r] = pc[r] \/ pc'[r] = "ended"
            \/ InFlight(r) /\ pc'[r] # "new" /\ call[r].op \notin OnThread
<1> USE DEF InFlight, At, OnThread, Answer, Goto
<1>1. CASE CasesList(r) \/ CasesCreate(r) \/ CasesDelete(r)
  BY <1>1 DEF CasesList, CasesCreate, CasesDelete
<1>2. CASE RequireCase(r) \/ CasesGet(r)
  BY <1>2 DEF RequireCase, CasesGet, Scoped
<1>3. CASE UploadRefused(r) \/ UploadText(r) \/ DocumentsDelete(r)
  BY <1>3 DEF UploadRefused, UploadText, DocumentsDelete
<1>4. CASE UploadInsert(r) \/ ToolWrite(r) \/ DeadlinesCreate(r)
  BY <1>4 DEF UploadInsert, ToolWrite, DeadlinesCreate, AddDocument, AddDeadline, Proceed
<1>5. CASE RequireDocument(r)
  BY <1>5 DEF RequireDocument, OnDocument
<1>6. CASE ReviewClause(r)
  BY <1>6 DEF ReviewClause, requestVars
<1>7. CASE ReviewSummary(r) \/ ReviewStore(r) \/ ResumeDocument(r) \/ ContextBlock(r)
  BY <1>7 DEF ReviewSummary, ReviewStore, ResumeDocument, ContextBlock
<1>8. CASE AgentFinal(r) \/ StreamEnds(r) \/ DeadlinesChange(r)
  BY <1>8 DEF AgentFinal, StreamEnds, DeadlinesChange
<1>9. CASE AccountStep(r)
  BY <1>9 DEF AccountStep, LookupName, InsertUser, SetActive, EvalRun, EvalResult,
              EvalStatus, PollStatus, PollResults, requestVars
<1> QED BY <1>1, <1>2, <1>3, <1>4, <1>5, <1>6, <1>7, <1>8, <1>9 DEF CaseStep

LEMMA ThreadOfCall ==
  ASSUME HistoryInv, NEW r \in Request, InFlight(r), call[r].op \in OnThread
  PROVE  call[r].thread \in Thread /\ who[r] \in Name
BY CallAssumption DEF HistoryInv

\* A handler of a conversation that changes the place of r only.
LEMMA PlaceHistory ==
  ASSUME HistoryInv, UNCHANGED <<chatVars, calls, who, call>>,
         NEW r \in Request, InFlight(r), DOMAIN pc' = Request, pc'[r] # "new",
         \A q \in Request : q # r => pc'[q] = pc[q],
         Claimed(r)' => OnlyOf(who[r], call[r].thread),
         Reading(r)' => index[who[r]][call[r].thread] \/ call[r].thread \in orphaned
  PROVE  HistoryInv'
<1>1. HistoryTyped' /\ UNCHANGED <<index, spoken, orphaned, shown>>
  BY DEF HistoryInv, HistoryTyped, chatVars
<1>2. \A q \in Request : /\ InFlight(q)' => InFlight(q)
                         /\ Chatting(q)' => Chatting(q)
                         /\ q # r /\ Claimed(q)' => Claimed(q)
                         /\ q # r /\ Reading(q)' => Reading(q)
                         /\ pc'[q] = "new" => pc[q] = "new"
  BY DEF InFlight, Chatting, Claimed, Reading
<1> QED BY <1>1, <1>2 DEF HistoryInv, OnlyOf, HistoryOwn

LEMMA TouchKeeps ==
  ASSUME HistoryInv, UNCHANGED calls, NEW r \in Request, TouchThread(r)
  PROVE  HistoryInv'
<1> DEFINE t == call[r].thread  u == who[r]
<1>1. /\ InFlight(r) /\ call[r].op = "chat" /\ Claimed(r) /\ Chatting(r)
      /\ UNCHANGED <<who, call, spoken, orphaned, shown>>
      /\ DOMAIN pc' = Request /\ pc'[r] = "turn"
      /\ \A q \in Request : q # r => pc'[q] = pc[q]
  BY DEF TouchThread, At, InFlight, Claimed, Chatting, Goto, HistoryInv, HistoryTyped
<1>2. t \in Thread /\ u \in Name /\ OnlyOf(u, t)
  BY <1>1, ThreadOfCall DEF OnThread, HistoryInv
<1>3. CASE UNCHANGED index
  BY <1>1, <1>2, <1>3, PlaceHistory DEF chatVars, Reading
<1>4. CASE index' = [index EXCEPT ![u][t] = TRUE]
  <2>1. /\ index' \in [Name -> [Thread -> BOOLEAN]]
        /\ \A v \in Name, s \in Thread : index'[v][s] <=> index[v][s] \/ (v = u /\ s = t)
    BY <1>2, <1>4 DEF HistoryInv, HistoryTyped
  <2>2. \A s \in Thread : \A v \in Name : index'[v][s] => \A w \in Name : index'[w][s] => w = v
    BY <1>2, <2>1 DEF HistoryInv, OnlyOf
  <2>3. \A q \in Request : Chatting(q)' => q = r
    BY <1>1 DEF HistoryInv, Chatting, InFlight
  <2>4. \A q \in Request : Claimed(q)' => q = r
    BY <2>3 DEF Claimed, Chatting, InFlight
  <2>5. \A q \in Request : Reading(q)' => q # r /\ Reading(q)
    BY <1>1 DEF Reading
  <2>6. \A q \in Request : Reading(q)' => index'[who[q]][call[q].thread] \/ call[q].thread \in orphaned
    <3> SUFFICES ASSUME NEW q \in Request, Reading(q)'
                 PROVE  index'[who[q]][call[q].thread] \/ call[q].thread \in orphaned
      OBVIOUS
    <3>1. Reading(q) /\ InFlight(q)
      BY <2>5 DEF Reading, InFlight
    <3>2. call[q].thread \in Thread /\ who[q] \in Name
      BY <3>1, ThreadOfCall DEF Reading, OnThread
    <3> QED BY <2>1, <3>1, <3>2 DEF HistoryInv
  <2>7. \A s \in Thread \ orphaned : \A v \in spoken[s] : index'[v][s]
    BY <2>1 DEF HistoryInv, HistoryTyped
  <2>8. \A v \in Name : index'[v][t] => v = u
    BY <1>2, <2>1 DEF OnlyOf
  <2>9. HistoryTyped' /\ HistoryOwn'
    BY <1>1, <2>1 DEF HistoryInv, HistoryTyped, HistoryOwn
  <2>10. \A q \in Request : InFlight(q)' => who'[q] \in Name /\ call'[q] \in Call
    BY <1>1 DEF HistoryInv, InFlight
  <2>11. \A q \in Request : pc'[q] = "new" => shown'[q] = {}
    BY <1>1 DEF HistoryInv
  <2>12. \A q \in Request : Claimed(q)' => \A v \in Name : index'[v][call[q].thread] => v = who[q]
    BY <2>4, <2>8
  <2> QED BY <1>1, <2>2, <2>3, <2>6, <2>7, <2>9, <2>10, <2>11, <2>12 DEF HistoryInv, OnlyOf
<1> QED BY <1>3, <1>4 DEF TouchThread

LEMMA TurnKeeps ==
  ASSUME HistoryInv, UNCHANGED calls, NEW r \in Request, ChatTurn(r)
  PROVE  HistoryInv'
<1> DEFINE t == call[r].thread  u == who[r]
<1>1. /\ pc[r] = "turn" /\ InFlight(r) /\ UNCHANGED <<who, call, index, shown>>
      /\ DOMAIN pc' = Request /\ pc'[r] = "ended"
      /\ \A q \in Request : q # r => pc'[q] = pc[q]
      /\ orphaned' = orphaned \cup Unlisted(index, spoken')
  BY DEF ChatTurn, InFlight, Answer, HistoryInv, HistoryTyped
<1>2. /\ spoken' \in [Thread -> SUBSET Name]
      /\ \A s \in Thread : \A v \in spoken'[s] :
           v \in spoken[s] \/ (s = t /\ v = u /\ OnlyOf(u, t))
  <2>1. CASE UNCHANGED spoken
    BY <2>1 DEF HistoryInv, HistoryTyped
  <2>2. CASE call[r].op = "chat" /\ spoken' = [spoken EXCEPT ![t] = @ \cup {u}]
    <3>1. t \in Thread /\ u \in Name /\ OnlyOf(u, t)
      BY <1>1, <2>2, ThreadOfCall DEF OnThread, HistoryInv, Claimed
    <3> QED BY <2>2, <3>1 DEF HistoryInv, HistoryTyped
  <2> QED BY <2>1, <2>2 DEF ChatTurn
<1>3. \A s \in Thread \ orphaned' : \A v \in spoken'[s] : index'[v][s]
  <2> SUFFICES ASSUME NEW s \in Thread, s \notin orphaned', NEW v \in spoken'[s]
               PROVE  index'[v][s]
    OBVIOUS
  <2>1. PICK w \in Name : index[w][s]
    BY <1>1 DEF Unlisted
  <2>2. CASE v \in spoken[s]
    BY <1>1, <2>2 DEF HistoryInv
  <2>3. CASE s = t /\ v = u /\ OnlyOf(u, t)
    BY <1>1, <2>1, <2>3 DEF OnlyOf
  <2> QED BY <1>2, <2>2, <2>3
<1>4. \A q \in Request : /\ InFlight(q)' => InFlight(q)
                         /\ Chatting(q)' => Chatting(q)
                         /\ Claimed(q)' => Claimed(q)
                         /\ Reading(q)' => Reading(q)
                         /\ pc'[q] = "new" => pc[q] = "new"
  BY <1>1 DEF InFlight, Chatting, Claimed, Reading
<1>5. HistoryOwn'
  BY <1>1 DEF HistoryInv, HistoryOwn
<1>6. HistoryTyped'
  BY <1>1, <1>2 DEF HistoryInv, HistoryTyped
<1> QED BY <1>1, <1>3, <1>4, <1>5, <1>6 DEF HistoryInv, OnlyOf

\* get_thread_messages shows what the thread has, which is the user's own or
\* of a thread that has lost its row since owns_thread.
LEMMA MessagesKeep ==
  ASSUME HistoryInv, UNCHANGED calls, NEW r \in Request, ThreadMessages(r)
  PROVE  HistoryInv'
<1> DEFINE t == call[r].thread  u == who[r]
<1>1. /\ Reading(r) /\ InFlight(r) /\ UNCHANGED <<who, call, index, spoken, orphaned>>
      /\ DOMAIN pc' = Request /\ pc'[r] = "ended"
      /\ \A q \in Request : q # r => pc'[q] = pc[q]
      /\ shown' = [shown EXCEPT ![r] = spoken[t]]
  BY DEF ThreadMessages, At, InFlight, Reading, Answer, HistoryInv, HistoryTyped
<1>2. t \in Thread /\ u \in Name /\ (index[u][t] \/ t \in orphaned)
  BY <1>1, ThreadOfCall DEF Reading, OnThread, HistoryInv
<1>3. spoken[t] \subseteq {u} \/ t \in orphaned
  BY <1>2 DEF HistoryInv, HistoryTyped, OnlyOf
<1>4. \A q \in Request : /\ InFlight(q)' => InFlight(q)
                         /\ Chatting(q)' => Chatting(q)
                         /\ Claimed(q)' => Claimed(q)
                         /\ Reading(q)' => Reading(q)
                         /\ pc'[q] = "new" => pc[q] = "new" /\ q # r
  BY <1>1 DEF InFlight, Chatting, Claimed, Reading
<1>5. HistoryTyped' /\ HistoryOwn'
  BY <1>1, <1>3 DEF HistoryInv, HistoryTyped, HistoryOwn
<1>6. \A q \in Request : pc'[q] = "new" => shown'[q] = {}
  BY <1>1, <1>4 DEF HistoryInv, HistoryTyped
<1> QED BY <1>1, <1>4, <1>5, <1>6 DEF HistoryInv, OnlyOf

LEMMA DeleteKeeps ==
  ASSUME HistoryInv, UNCHANGED calls, NEW r \in Request, DeleteThread(r)
  PROVE  HistoryInv'
<1> DEFINE t == call[r].thread  u == who[r]
<1>1. /\ InFlight(r) /\ call[r].op = "chat_delete" /\ UNCHANGED <<who, call, spoken, shown>>
      /\ DOMAIN pc' = Request /\ pc'[r] = "ended"
      /\ \A q \in Request : q # r => pc'[q] = pc[q]
      /\ index' = [index EXCEPT ![u][t] = FALSE]
      /\ orphaned' = IF index[u][t] /\ \A v \in Name : ~index'[v][t]
                     THEN orphaned \cup {t} ELSE orphaned
  BY DEF DeleteThread, At, InFlight, Answer, HistoryInv, HistoryTyped
<1>2. t \in Thread /\ u \in Name
  BY <1>1, ThreadOfCall DEF OnThread
<1>3. /\ index' \in [Name -> [Thread -> BOOLEAN]]
      /\ \A v \in Name, s \in Thread : index'[v][s] <=> index[v][s] /\ ~(v = u /\ s = t)
  BY <1>1, <1>2 DEF HistoryInv, HistoryTyped
<1>4. orphaned \subseteq orphaned' /\ (index[u][t] => t \in orphaned')
  BY <1>1, <1>2, <1>3 DEF HistoryInv, OnlyOf
<1>5. \A s \in Thread \ orphaned' : \A v \in Name : index'[v][s] <=> index[v][s]
  BY <1>3, <1>4
<1>6. \A s \in Thread \ orphaned' : \A v \in spoken[s] : index'[v][s]
  BY <1>4, <1>5 DEF HistoryInv, HistoryTyped
<1>7. \A q \in Request : /\ InFlight(q)' => InFlight(q)
                         /\ Chatting(q)' => Chatting(q)
                         /\ Claimed(q)' => Claimed(q)
                         /\ Reading(q)' => Reading(q)
                         /\ pc'[q] = "new" => pc[q] = "new"
  BY <1>1 DEF InFlight, Chatting, Claimed, Reading
<1>8. HistoryTyped' /\ HistoryOwn'
  BY <1>1, <1>3, <1>4 DEF HistoryInv, HistoryTyped, HistoryOwn
<1>9. \A s \in Thread : \A v \in Name : index'[v][s] => \A w \in Name : index'[w][s] => w = v
  BY <1>3 DEF HistoryInv, OnlyOf
<1>10. \A q \in Request : Claimed(q)' => \A v \in Name : index'[v][call[q].thread] => v = who[q]
  <2> SUFFICES ASSUME NEW q \in Request, Claimed(q), NEW v \in Name, index'[v][call[q].thread]
               PROVE  v = who[q]
    BY <1>7
  <2>1. call[q].thread \in Thread
    BY ThreadOfCall DEF Claimed, OnThread, InFlight
  <2> QED BY <1>3, <2>1 DEF HistoryInv, OnlyOf
<1>11. \A q \in Request : Reading(q)' => index'[who[q]][call[q].thread] \/ call[q].thread \in orphaned'
  <2> SUFFICES ASSUME NEW q \in Request, Reading(q), call[q].thread \notin orphaned'
               PROVE  index'[who[q]][call[q].thread]
    BY <1>7
  <2>1. call[q].thread \in Thread /\ who[q] \in Name
    BY ThreadOfCall DEF Reading, OnThread, InFlight
  <2> QED BY <1>4, <1>5, <2>1 DEF HistoryInv
<1> QED BY <1>1, <1>6, <1>7, <1>8, <1>9, <1>10, <1>11 DEF HistoryInv, OnlyOf

LEMMA ChatKeeps ==
  ASSUME HistoryInv, UNCHANGED calls, NEW r \in Request, ChatStep(r)
  PROVE  HistoryInv'
<1>0. DOMAIN pc = Request
  BY DEF HistoryInv, HistoryTyped
<1>1. CASE ChatClaim(r)
  <2>1. /\ InFlight(r) /\ call[r].op \in OnThread /\ UNCHANGED <<chatVars, who, call>>
        /\ DOMAIN pc' = Request /\ pc'[r] # "new" /\ pc'[r] # "history"
        /\ \A q \in Request : q # r => pc'[q] = pc[q]
        /\ pc'[r] = "ended" \/ ~ClaimedByOther(who[r], call[r].thread)
    BY <1>0, <1>1 DEF ChatClaim, InFlight, OnThread, Answer, Goto
  <2>2. Claimed(r)' => OnlyOf(who[r], call[r].thread)
    BY <2>1 DEF Claimed, ClaimedByOther, OnlyOf
  <2> QED BY <2>1, <2>2, PlaceHistory DEF Reading
<1>2. CASE TouchThread(r)
  BY <1>2, TouchKeeps
<1>3. CASE ChatTurn(r)
  BY <1>3, TurnKeeps
<1>4. CASE OwnsThread(r)
  <2>1. /\ InFlight(r) /\ UNCHANGED <<chatVars, who, call>>
        /\ DOMAIN pc' = Request /\ pc'[r] \in {"history", "ended"}
        /\ \A q \in Request : q # r => pc'[q] = pc[q]
        /\ pc'[r] = "history" => index[who[r]][call[r].thread]
    BY <1>0, <1>4 DEF OwnsThread, At, InFlight, Answer, Goto
  <2> QED BY <2>1, PlaceHistory DEF Claimed, Reading
<1>5. CASE ThreadMessages(r)
  BY <1>5, MessagesKeep
<1>6. CASE RenameThread(r) \/ ListThreads(r)
  <2>1. /\ InFlight(r) /\ UNCHANGED <<chatVars, who, call>>
        /\ DOMAIN pc' = Request /\ pc'[r] = "ended"
        /\ \A q \in Request : q # r => pc'[q] = pc[q]
    BY <1>0, <1>6 DEF RenameThread, ListThreads, At, InFlight, Answer
  <2> QED BY <2>1, PlaceHistory DEF Claimed, Reading
<1>7. CASE DeleteThread(r)
  BY <1>7, DeleteKeeps
<1> QED BY <1>1, <1>2, <1>3, <1>4, <1>5, <1>6, <1>7 DEF ChatStep

\* A request that arrives has been shown nothing, and a turn arrives alone.
LEMMA ArrivalKeepsHistory ==
  ASSUME "chat" \in Serial, HistoryInv, UNCHANGED <<chatVars, calls>>,
         NEW r \in Request, NEW m \in calls, Arrive(r, m[1], m[2])
  PROVE  HistoryInv'
<1>1. /\ m[1] \in Name /\ m[2] \in Call /\ pc[r] = "new" /\ shown[r] = {}
      /\ who' = [who EXCEPT ![r] = m[1]] /\ call' = [call EXCEPT ![r] = m[2]]
      /\ DOMAIN pc' = Request /\ pc'[r] \in {"open", "ended"}
      /\ \A q \in Request : q # r => pc'[q] = pc[q]
      /\ UNCHANGED <<index, spoken, orphaned, shown>>
      /\ m[2].op = "chat" => \A q \in Request : ~Chatting(q)
  BY DEF HistoryInv, HistoryTyped, Arrive, chatVars, Chatting
<1>2. /\ who'[r] = m[1] /\ call'[r] = m[2]
      /\ \A q \in Request : q # r => who'[q] = who[q] /\ call'[q] = call[q]
  BY <1>1 DEF HistoryInv, HistoryTyped
<1>3. HistoryTyped'
  BY <1>1 DEF HistoryInv, HistoryTyped
<1>4. \A q \in Request : /\ q # r /\ InFlight(q)' => InFlight(q)
                         /\ q # r /\ Chatting(q)' => Chatting(q)
                         /\ Claimed(q)' => q # r /\ Claimed(q)
                         /\ Reading(q)' => q # r /\ Reading(q)
                         /\ pc'[q] = "new" => pc[q] = "new"
  BY <1>1, <1>2 DEF InFlight, Chatting, Claimed, Reading
<1>5. \A q, p \in Request : Chatting(q)' /\ Chatting(p)' => q = p
  <2>1. Chatting(r)' => \A q \in Request : ~Chatting(q)
    BY <1>1, <1>2 DEF Chatting
  <2> QED BY <1>4, <2>1 DEF HistoryInv
<1>6. HistoryOwn'
  BY <1>1, <1>2 DEF HistoryInv, HistoryOwn
<1> QED BY <1>1, <1>2, <1>3, <1>4, <1>5, <1>6 DEF HistoryInv, OnlyOf

\* The inductive invariant.
THEOREM HistoryInvariant ==
  ASSUME "chat" \in Serial
  PROVE  Spec => []HistoryInv
<1>1. Init => HistoryInv
  <2> SUFFICES ASSUME Init PROVE HistoryInv
    OBVIOUS
  <2>1. calls \subseteq Name \X Call
    BY ScenarioAssumption DEF Init, Consistent
  <2> QED BY <2>1 DEF Init, SessionsInit, ChatInit, HistoryInv, HistoryTyped, HistoryOwn,
             InFlight, Chatting, Claimed, Reading
<1>2. HistoryInv /\ [Next]_vars => HistoryInv'
  <2> SUFFICES ASSUME HistoryInv, [Next]_vars PROVE HistoryInv'
    OBVIOUS
  <2>0. DOMAIN pc = Request
    BY DEF HistoryInv, HistoryTyped
  <2>1. CASE UNCHANGED vars
    BY <2>0, <2>1, CalmHistory DEF vars, sessionVars, requestVars
  <2>2. CASE (Start \/ Crash) /\ UNCHANGED <<caseVars, chatVars, calls>>
    BY <2>0, <2>2, CalmHistory DEF Start, Crash, requestVars
  <2>3. ASSUME NEW r \in Request, NEW m \in calls, Arrive(r, m[1], m[2]),
               UNCHANGED <<caseVars, chatVars, calls>>
        PROVE  HistoryInv'
    BY <2>3, ArrivalKeepsHistory
  <2>4. ASSUME NEW r \in Request, NEW m \in calls, NEW right \in BOOLEAN,
               Login(r, m[1], right), UNCHANGED <<caseVars, chatVars, calls>>
        PROVE  HistoryInv'
    BY <2>0, <2>4, CalmHistory DEF Login
  <2>5. ASSUME NEW r \in Request, CaseStep(r) \/ AccountStep(r),
               UNCHANGED <<chatVars, calls>>
        PROVE  HistoryInv'
    BY <2>0, <2>5, OtherRoute, CalmHistory
  <2>6. ASSUME NEW r \in Request, ChatStep(r), UNCHANGED <<caseVars, calls>>
        PROVE  HistoryInv'
    BY <2>6, ChatKeeps
  <2>7. CASE Quiescent
    BY <2>1, <2>7 DEF Quiescent
  <2> QED BY <2>1, <2>2, <2>3, <2>4, <2>5, <2>6, <2>7 DEF Next
<1> QED BY <1>1, <1>2, PTL DEF Spec

\* A saved conversation shows a user nobody else's words, as long as turns of
\* the free chat do not overlap and the thread has never lost its row.
THEOREM HistoryIsOwn ==
  ASSUME "chat" \in Serial
  PROVE  Spec => []HistoryOwn
<1>1. HistoryInv => HistoryOwn
  BY DEF HistoryInv
<1> QED BY <1>1, HistoryInvariant, PTL
=============================================================================
