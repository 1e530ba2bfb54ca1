-------------------------------- MODULE AppServer --------------------------------
(***************************************************************************)
(* The web service: the requests of all users, one database, one process.  *)
(* Sessions, CaseFile and ChatIndex share the accounts and the requests.   *)
(* A scenario is a database that earlier requests have left, the tokens    *)
(* still valid and the calls the clients make from there.                  *)
(***************************************************************************)
EXTENDS CaseFile, ChatIndex

CONSTANTS Scenario, Call

\* The bodies the routes accept (schemas.py, documents_upload) and the ids in
\* their paths; document_id of a resumed run may be missing.
ASSUME CallAssumption ==
  \A c \in Call :
    /\ c.op \in {"users_create", "users_set_active"} => c.name \in Name
    /\ c.op = "users_create" => c.role \in {"user", "admin"}
    /\ c.op = "users_set_active" => c.active \in BOOLEAN
    /\ c.op \in Scoped => c.case \in Case
    /\ c.op \in OnThread => c.thread \in Thread
    /\ c.op \in OnDocument \cup {"documents_delete"} => c.doc \in Doc
    /\ c.op = "case_resume" =>
         /\ c.doc \in Doc \cup {None}
         /\ c.tool = "create_deadline" => c.due \in Nat
    /\ c.op = "documents_upload" =>
         c.kind \in {"letter", "contract"} /\ c.clauses \in Seq(BOOLEAN)
    /\ c.op = "deadlines_create" => c.due \in Nat
    /\ c.op = "deadlines_set_status" => c.status \in {"open", "done", "missed"}

VARIABLES calls    \* the calls of this behaviour: pairs of a user and a call

vars == <<sessionVars, caseVars, chatVars, calls>>

DocumentColumns == {"case", "kind", "clauses", "analysis", "by"}

DeadlineColumns == {"case", "due", "status", "by"}

\* What the database holds is consistent: rows belong to cases there are.
Consistent(s) ==
  /\ s.users \in [Name -> Row \cup {None}]
  /\ s.users[Predefined] = None \/ \E u \in Name : s.users[u] # None /\
       s.users[u].role = "admin" /\ s.users[u].active
  /\ s.tokens \subseteq Name
  /\ s.cases \in [Case -> Name \cup {None, Gone}]
  /\ DOMAIN s.docs = Doc /\ DOMAIN s.deadlines = Deadline
  /\ \A d \in Doc : Live(s.docs[d]) =>
       /\ DOMAIN s.docs[d] = DocumentColumns
       /\ s.docs[d].case \in Case /\ Live(s.cases[s.docs[d].case])
       /\ s.docs[d].by = None /\ s.docs[d].analysis = None
       /\ s.docs[d].kind \in {"letter", "contract", "draft"}
       /\ s.docs[d].clauses \in Seq(BOOLEAN)
  /\ \A f \in Deadline : Live(s.deadlines[f]) =>
       /\ DOMAIN s.deadlines[f] = DeadlineColumns
       /\ s.deadlines[f].case \in Case /\ Live(s.cases[s.deadlines[f].case])
       /\ s.deadlines[f].by = None
       /\ s.deadlines[f].due \in Nat
       /\ s.deadlines[f].status \in {"open", "done", "missed"}
  /\ s.calls \subseteq Name \X Call

ASSUME ScenarioAssumption == \A s \in Scenario : Consistent(s)

Init ==
  /\ SessionsInit /\ ChatInit
  /\ \E s \in Scenario :
       /\ users = s.users /\ tokens = s.tokens
       /\ cases = s.cases /\ docs = s.docs /\ deadlines = s.deadlines
       /\ calls = s.calls
  /\ facts = [u \in Name |-> None]
  /\ work = [r \in Request |-> NoWork]
  /\ keep = [r \in Request |-> None]
  /\ seen = [r \in Request |-> {}]

\* Nothing is in flight, and no request is left.
Quiescent == /\ \A r \in Request : pc[r] = "ended" /\ worker[r] = "none"
             /\ up /\ UNCHANGED vars

Next ==
  \/ (Start \/ Crash) /\ UNCHANGED <<caseVars, chatVars, calls>>
  \/ \E r \in Request, m \in calls :
       /\ m[2].op # "login" /\ Arrive(r, m[1], m[2])
       /\ UNCHANGED <<caseVars, chatVars, calls>>
  \/ \E r \in Request, m \in calls, right \in BOOLEAN :
       /\ m[2].op = "login" /\ Login(r, m[1], right)
       /\ UNCHANGED <<caseVars, chatVars, calls>>
  \/ \E r \in Request : AccountStep(r) /\ UNCHANGED <<caseVars, chatVars, calls>>
  \/ \E r \in Request : CaseStep(r) /\ UNCHANGED <<chatVars, calls>>
  \/ \E r \in Request : ChatStep(r) /\ UNCHANGED <<caseVars, calls>>
  \/ Quiescent

Spec == Init /\ [][Next]_vars
-----------------------------------------------------------------------------
(* Properties. *)

Labels == {"new", "open", "ended", "insert", "polled", "owned",
           "documents_listed", "running", "reviewing", "summary", "tool",
           "block", "block_documents", "touch", "turn", "history"}

DocumentOK(row) ==
  /\ DOMAIN row = DocumentColumns
  /\ row.case \in Case /\ row.kind \in {"letter", "contract", "draft"}
  /\ row.clauses \in Seq(BOOLEAN) /\ row.by \in Request \cup {None}
  /\ row.analysis # None => row.analysis.by \in Request

DeadlineOK(row) ==
  /\ DOMAIN row = DeadlineColumns
  /\ row.case \in Case /\ row.due \in Nat /\ row.by \in Request \cup {None}
  /\ row.status \in {"open", "done", "missed"}

\* Every variable has the type of the table, the request field or the
\* process state it stands for.
TypeOK ==
  /\ users \in [Name -> Row \cup {None}] /\ tokens \subseteq Name
  /\ up \in BOOLEAN /\ restarts \in 0..MaxRestarts
  /\ pc \in [Request -> Labels] /\ who \in [Request -> Name \cup {None}]
  /\ call \in [Request -> Call \cup {NoCall}] /\ ans \in [Request -> Nat]
  /\ job \in [status : {"idle", "running", "done", "error"},
              results : Request \cup {None}, error : BOOLEAN]
  /\ worker \in [Request -> {"none", "computing", "succeeded", "failed"}]
  /\ cases \in [Case -> Name \cup {None, Gone}]
  /\ DOMAIN docs = Doc /\ DOMAIN deadlines = Deadline
  /\ \A d \in Doc : Live(docs[d]) => DocumentOK(docs[d])
  /\ \A f \in Deadline : Live(deadlines[f]) => DeadlineOK(deadlines[f])
  /\ facts \in [Name -> Request \cup {None}]
  /\ keep \in [Request -> Doc \cup {None}]
  /\ seen \in [Request -> SUBSET Case]
  /\ index \in [Name -> [Thread -> BOOLEAN]]
  /\ spoken \in [Thread -> SUBSET Name] /\ orphaned \subseteq Thread
  /\ shown \in [Request -> SUBSET Name]

\* The ownership gate (cases/store.py:6): every document, deadline and analysis
\* in a case was written by a request of the case's owner, the tenancy facts
\* of a user come from an upload of that user, and no request was shown rows
\* of a case of somebody else, although the statements after get_case take
\* raw ids and other requests delete cases and documents in between.
Isolation ==
  /\ \A d \in Doc : Live(docs[d]) =>
       /\ docs[d].by # None => cases[docs[d].case] = who[docs[d].by]
       /\ docs[d].analysis # None =>
            cases[docs[d].case] = who[docs[d].analysis.by]
  /\ \A f \in Deadline : Live(deadlines[f]) /\ deadlines[f].by # None =>
       cases[deadlines[f].case] = who[deadlines[f].by]
  /\ \A u \in Name : facts[u] # None => who[facts[u]] = u
  /\ \A r \in Request : \A c \in seen[r] : cases[c] \in {who[r], Gone}

\* No document or deadline outlives its case, and none is added to a case
\* that was deleted after its owner was checked (the schema in db.py).
NoOrphans ==
  /\ \A d \in Doc : Live(docs[d]) => Live(cases[docs[d].case])
  /\ \A f \in Deadline : Live(deadlines[f]) => Live(cases[deadlines[f].case])

\* A stored review (cases.py:224) has one finding for each risky clause, in
\* the order of the contract and the failed ones included; its summary counts
\* them all; it belongs to a contract, and a letter's analysis is a text.
ReviewComplete ==
  \A d \in Doc : Live(docs[d]) /\ docs[d].analysis # None =>
    LET a == docs[d].analysis
    IN IF docs[d].kind = "contract"
       THEN /\ [i \in DOMAIN a.findings |-> a.findings[i].clause]
                 = RiskyOf(docs[d].clauses)
            /\ a.summary["wirksam"] + a.summary["bedenklich"]
                 + a.summary["unwirksam"] = Len(RiskyOf(docs[d].clauses))
            /\ a.total = Len(docs[d].clauses)
       ELSE docs[d].kind = "letter" /\ a.summary = "text"

\* What a request was told has happened: an analysis or a review that is
\* announced as done is found when the document is opened again, unless the
\* document is gone (cases.py:211, :270; a failure to store it apart), and of
\* two requests that create one account (auth.py:131) only the one whose row
\* it is has been told 201.
AnswersHold ==
  \A r \in Request :
    /\ ans[r] = 200 /\ keep[r] # None =>
         docs[keep[r]] = Gone \/ docs[keep[r]].analysis # None
    /\ ans[r] = 200 /\ work[r].findings # <<>> =>
         docs[call[r].doc] = Gone \/ docs[call[r].doc].analysis # None
    /\ ans[r] = 201 /\ call[r].op = "users_create" =>
         users[call[r].name] # None /\ users[call[r].name].by = r

\* The context block of a case (cases/store.py:256) names as many of the open
\* deadlines as it may, and none that it leaves out is due before one it names.
SoonestShown ==
  \A c \in Case :
    LET open == OpenOf(Listed(deadlines, c))
        named == BlockDue(c)
    IN /\ named \subseteq open
       /\ Cardinality(named) = IF Cardinality(open) < BlockDeadlines
                               THEN Cardinality(open) ELSE BlockDeadlines
       /\ \A f \in named, g \in open \ named : deadlines[f].due <= deadlines[g].due

\* As long as accounts are deactivated one at a time, the service never runs
\* without an active administrator, whatever is created, whoever is
\* deactivated and however often it is restarted.
AdminRemains == up => \E u \in Name : ActiveAdmin(u)

\* The evaluation runs once at a time, and a poll that says "done" carries
\* results (deps.py:130), although run() does not take the lock.
JobHonest ==
  /\ Cardinality({r \in Request : worker[r] # "none"}) <= 1
  /\ \A r \in Request : ans[r] = 200 /\ poll[r] # None /\ poll[r].status = "done"
       => poll[r].results # None

\* As long as a thread is claimed by one turn at a time, a saved conversation
\* shows a user nobody else's words, unless the thread was for some time in
\* nobody's list (its row deleted, or never written).
HistoryOwn ==
  \A r \in Request : shown[r] \subseteq {who[r]} \/ call[r].thread \in orphaned
=============================================================================
