-------------------------------- MODULE CaseFile --------------------------------
(***************************************************************************)
(* The case files: the tables cases, case_documents and deadlines          *)
(* (src/cases/store.py, the schema in src/db.py) and the routes of         *)
(* src/api/routers/cases.py, with the turns and the resumed turns of a     *)
(* case chat (src/api/routers/chat.py) as far as they touch these tables.  *)
(*                                                                         *)
(* Ids are given out in increasing order and never again, so that the      *)
(* order of ids is the order of created_at.  A row that was deleted is     *)
(* Gone.  A document's text is the sequence of its clauses, each of which  *)
(* is risky or not (Clauses has the segmentation).                         *)
(***************************************************************************)
EXTENDS Sessions, SequencesExt

CONSTANTS
  Case, Doc, Deadline,  \* the ids there are: finite sets of naturals
  BlockDocs,            \* _BLOCK_MAX_DOCS
  BlockDeadlines,       \* _BLOCK_MAX_DEADLINES
  Verdict,              \* the verdicts the model may return
  Gone

\* What _VERDICT_RE can find in an answer.
Verdicts == {"wirksam", "bedenklich", "unwirksam"}

ASSUME CaseFileAssumption ==
  /\ Case \subseteq Nat /\ Doc \subseteq Nat /\ Deadline \subseteq Nat
  /\ IsFiniteSet(Case) /\ IsFiniteSet(Doc) /\ IsFiniteSet(Deadline)
  /\ BlockDocs \in Nat /\ BlockDeadlines \in Nat
  /\ Verdict \subseteq Verdicts
  /\ Gone \notin Name /\ Gone # None

VARIABLES
  cases,      \* cases[c]: the owner of case c, None before, Gone after
  docs,       \* docs[d]: a row of case_documents
  deadlines,  \* deadlines[f]: a row of deadlines
  facts,      \* facts[u]: the upload the tenancy facts of u come from
  work,       \* work[r]: the clauses of a review, the next one, the findings
  keep,       \* keep[r]: the document whose analysis the run of r will be
  seen        \* seen[r]: the cases whose rows r has been shown

rowVars == <<cases, docs, deadlines>>
caseVars == <<cases, docs, deadlines, facts, work, keep, seen>>

Live(row) == row # None /\ row # Gone

NoWork == [clauses |-> <<>>, next |-> 1, findings |-> <<>>]

Scoped == {"cases_get", "documents_upload", "documents_get",
           "documents_delete", "documents_analyse", "documents_review",
           "deadlines_create", "deadlines_set_status", "deadlines_delete",
           "case_turn", "case_resume"}

Metered == {"documents_analyse", "documents_review", "case_turn", "case_resume"}

OnDocument == {"documents_get", "documents_analyse", "documents_review"}

\* Mutant of Owns: the case is looked up by its id alone.
OwnsAnything(u, c) == Live(cases[c])

\* get_case: THE ownership gate.
Owns(u, c) == cases[c] = u

\* get_document, delete_document: by the id and the case.
DocOf(c, d) == Live(docs[d]) /\ docs[d].case = c

DeadlineOf(c, f) == Live(deadlines[f]) /\ deadlines[f].case = c

\* The id the next row of a table gets.
IsNext(table, i) ==
  table[i] = None /\ \A j \in DOMAIN table : table[j] = None => i <= j

\* list_documents, list_deadlines: the rows of a case.
Listed(table, c) == {i \in DOMAIN table : Live(table[i]) /\ table[i].case = c}

CasesOf(table, ids) == {table[i].case : i \in ids}

-----------------------------------------------------------------------------
(* Cases. *)

CasesList(r) ==
  /\ At(r, "open", "cases_list")
  /\ seen' = [seen EXCEPT ![r] = {c \in Case : cases[c] = who[r]}]
  /\ Answer(r, 200)
  /\ UNCHANGED <<rowVars, facts, work, keep, quiet>>

\* cases_create: the owner is looked up and the row inserted in one statement.
CasesCreate(r) ==
  /\ At(r, "open", "cases_create")
  /\ \/ Answer(r, 422) /\ UNCHANGED cases
     \/ /\ \E c \in Case : /\ IsNext(cases, c)
                          /\ cases' = [cases EXCEPT ![c] = who[r]]
        /\ Answer(r, 201)
  /\ UNCHANGED <<docs, deadlines, facts, work, keep, seen, quiet>>

\* Mutant of DocsAfter: ON DELETE SET NULL.
DocsAfterNull(c) ==
  [d \in Doc |-> IF DocOf(c, d) THEN [docs[d] EXCEPT !.case = None] ELSE docs[d]]

\* case_documents.case_id REFERENCES cases ON DELETE CASCADE
DocsAfter(c) == [d \in Doc |-> IF DocOf(c, d) THEN Gone ELSE docs[d]]

\* deadlines.case_id REFERENCES cases ON DELETE CASCADE
CasesDelete(r) ==
  LET c == call[r].case
  IN /\ At(r, "open", "cases_delete")
     /\ IF Owns(who[r], c)
        THEN /\ cases' = [cases EXCEPT ![c] = Gone]
             /\ docs' = DocsAfter(c)
             /\ deadlines' = [f \in Deadline |-> IF DeadlineOf(c, f)
                                THEN Gone ELSE deadlines[f]]
             /\ Answer(r, 204)
        ELSE Answer(r, 404) /\ UNCHANGED rowVars
     /\ UNCHANGED <<facts, work, keep, seen, quiet>>

\* check_rate_limit and _require_case, which every other route begins with.
RequireCase(r) ==
  LET c == call[r].case
  IN /\ pc[r] = "open" /\ call[r].op \in Scoped
     /\ \/ call[r].op \in Metered /\ Answer(r, 429) /\ UNCHANGED seen
        \/ /\ ~Owns(who[r], c)
           /\ Answer(r, 404)
           /\ UNCHANGED seen
        \/ /\ Owns(who[r], c)
           /\ Goto(r, "owned")
           /\ seen' = [seen EXCEPT ![r] = {c}]
     /\ UNCHANGED <<rowVars, facts, work, keep, quiet>>

\* cases_get: two more reads.
CasesGet(r) ==
  /\ call[r].op = "cases_get"
  /\ \/ /\ pc[r] = "owned"
        /\ seen' = [seen EXCEPT ![r] =
                      @ \cup CasesOf(docs, Listed(docs, call[r].case))]
        /\ Goto(r, "documents_listed")
     \/ /\ pc[r] = "documents_listed"
        /\ seen' = [seen EXCEPT ![r] =
                      @ \cup CasesOf(deadlines, Listed(deadlines, call[r].case))]
        /\ Answer(r, 200)
  /\ UNCHANGED <<rowVars, facts, work, keep, quiet>>

-----------------------------------------------------------------------------
(* Documents. *)

\* Code 0 stands for a run that goes on.
Proceed(r, code) == IF code = 0 THEN Goto(r, "running") ELSE Answer(r, code)

\* Mutant of Refers: the row is inserted whatever became of its case.
RefersAnywhere(c) == TRUE

\* The foreign key case_id of both tables: an insert fails when the case is gone.
Refers(c) == Live(cases[c])

\* add_document
AddDocument(r, kind, clauses, code) ==
  LET c == call[r].case
      row == [case |-> c, kind |-> kind, clauses |-> clauses,
              analysis |-> None, by |-> r]
  IN IF Refers(c)
     THEN /\ \E d \in Doc : IsNext(docs, d) /\ docs' = [docs EXCEPT ![d] = row]
          /\ Proceed(r, code)
     ELSE Answer(r, 500) /\ UNCHANGED docs

\* add_deadline
AddDeadline(r, due, code) ==
  LET c == call[r].case
      row == [case |-> c, due |-> due, status |-> "open", by |-> r]
  IN IF Refers(c)
     THEN /\ \E f \in Deadline : IsNext(deadlines, f) /\ deadlines' = [deadlines EXCEPT ![f] = row]
          /\ Proceed(r, code)
     ELSE Answer(r, 500) /\ UNCHANGED deadlines

\* documents_upload: wrong kind, too large, unreadable or an OCR tool missing.
UploadRefused(r) ==
  /\ At(r, "owned", "documents_upload")
  /\ \E code \in {413, 415, 422, 503} : Answer(r, code)
  /\ UNCHANGED <<caseVars, quiet>>

\* The facts found in a contract are stored before the document is; a
\* failure to store them is logged.
UploadText(r) ==
  /\ At(r, "owned", "documents_upload")
  /\ \/ UNCHANGED facts
     \/ /\ call[r].kind = "contract"
        /\ facts' = [facts EXCEPT ![who[r]] = r]
  /\ Goto(r, "insert")
  /\ UNCHANGED <<rowVars, work, keep, seen, quiet>>

UploadInsert(r) ==
  /\ At(r, "insert", "documents_upload")
  /\ AddDocument(r, call[r].kind, call[r].clauses, 201)
  /\ UNCHANGED <<cases, deadlines, facts, work, keep, seen, quiet>>

DocumentsDelete(r) ==
  LET d == call[r].doc
  IN /\ At(r, "owned", "documents_delete")
     /\ IF DocOf(call[r].case, d)
        THEN /\ docs' = [docs EXCEPT ![d] = Gone]
             /\ Answer(r, 204)
        ELSE Answer(r, 404) /\ UNCHANGED docs
     /\ UNCHANGED <<cases, deadlines, facts, work, keep, seen, quiet>>

\* _require_document, then the check of the kind.
RequireDocument(r) ==
  LET d == call[r].doc
      op == call[r].op
      isLetter == docs[d].kind = "letter"
      isContract == docs[d].kind = "contract"
  IN /\ pc[r] = "owned" /\ op \in OnDocument
     /\ \/ ~DocOf(call[r].case, d) /\ Answer(r, 404) /\ UNCHANGED <<work, keep, seen>>
        \/ /\ DocOf(call[r].case, d)
           /\ seen' = [seen EXCEPT ![r] = @ \cup {docs[d].case}]
           /\ \/ /\ op = "documents_get"
                 /\ Answer(r, 200)
                 /\ UNCHANGED <<work, keep>>
              \/ /\ \/ op = "documents_analyse" /\ ~isLetter
                    \/ op = "documents_review" /\ ~isContract
                 /\ Answer(r, 422)
                 /\ UNCHANGED <<work, keep>>
              \/ /\ op = "documents_analyse" /\ isLetter
                 /\ keep' = [keep EXCEPT ![r] = d]
                 /\ Goto(r, "running")
                 /\ UNCHANGED work
              \/ /\ op = "documents_review" /\ isContract
                 /\ work' = [work EXCEPT ![r].clauses = docs[d].clauses]
                 /\ Goto(r, "reviewing")
                 /\ UNCHANGED keep
     /\ UNCHANGED <<rowVars, facts, quiet>>

\* Mutant of Analysed: the update is never committed.
AnalysedUncommitted(d, analysis) == docs

\* set_document_analysis: by the id alone; nothing is updated when it is gone.
Analysed(d, analysis) ==
  IF Live(docs[d]) THEN [docs EXCEPT ![d].analysis = analysis] ELSE docs

-----------------------------------------------------------------------------
(* The review of a contract, clause by clause. *)

\* The places of the risky clauses in the contract, in its order: the k-th has
\* k - 1 before it.
RiskyOf(clauses) ==
  LET risky == {i \in DOMAIN clauses : clauses[i]}
  IN  [k \in 1 .. Cardinality(risky) |->
         CHOOSE i \in risky : Cardinality({j \in risky : j < i}) = k - 1]

\* Mutant of FindingOfFailure: a clause that fails is left out.
FindingOfFailureSkipped(findings, clause) == findings

\* A clause whose review fails counts as doubtful.
FindingOfFailure(findings, clause) ==
  Append(findings, [clause |-> clause, verdict |-> "bedenklich"])

\* _contract_review_events: one risky clause after the other.
ReviewClause(r) ==
  LET risky == RiskyOf(work[r].clauses)
      clause == risky[work[r].next]
  IN /\ At(r, "reviewing", "documents_review")
     /\ work[r].next <= Len(risky)
     /\ \/ \E v \in Verdict : work' = [work EXCEPT ![r].next = @ + 1,
             ![r].findings = Append(@, [clause |-> clause, verdict |-> v])]
        \/ work' = [work EXCEPT ![r].next = @ + 1,
             ![r].findings = FindingOfFailure(@, clause)]
     /\ UNCHANGED <<requestVars, rowVars, facts, keep, seen, quiet>>

\* A contract without risky clauses ends with a summary; nothing is stored.
\* Otherwise the summary frame is sent first ...
ReviewSummary(r) ==
  /\ At(r, "reviewing", "documents_review")
  /\ work[r].next > Len(RiskyOf(work[r].clauses))
  /\ IF RiskyOf(work[r].clauses) = <<>> THEN Answer(r, 200) ELSE Goto(r, "summary")
  /\ UNCHANGED <<caseVars, quiet>>

Count(findings, v) ==
  Cardinality({i \in DOMAIN findings : findings[i].verdict = v})

Review(r) ==
  [findings |-> work[r].findings,
   summary |-> [v \in Verdicts |-> Count(work[r].findings, v)],
   total |-> Len(work[r].clauses),
   by |-> r]

\* ... and the review stored after it; a failure is logged.  299 stands for
\* a stream that ended well although its result was not stored.
ReviewStore(r) ==
  /\ At(r, "summary", "documents_review")
  /\ \/ docs' = Analysed(call[r].doc, Review(r)) /\ Answer(r, 200)
     \/ UNCHANGED docs /\ Answer(r, 299)
  /\ UNCHANGED <<cases, deadlines, facts, work, keep, seen, quiet>>

-----------------------------------------------------------------------------
(* The runs of the agent on the thread of a case. *)

\* chat_resume: the document whose analysis was paused, if it is still there;
\* an approved tool call is carried out first.
ResumeDocument(r) ==
  LET d == call[r].doc
  IN /\ At(r, "owned", "case_resume")
     /\ IF d # None /\ DocOf(call[r].case, d)
        THEN keep' = [keep EXCEPT ![r] = d] ELSE UNCHANGED keep
     /\ Goto(r, IF call[r].tool = None THEN "running" ELSE "tool")
     /\ UNCHANGED <<rowVars, facts, work, seen, quiet>>

\* The approved tool writes by the case id of the context; the run goes on,
\* or ends with an error when the case is gone.
ToolWrite(r) ==
  /\ At(r, "tool", "case_resume")
  /\ \/ /\ call[r].tool = "create_deadline"
        /\ AddDeadline(r, call[r].due, 0)
        /\ UNCHANGED docs
     \/ /\ call[r].tool = "save_draft"
        /\ AddDocument(r, "draft", <<>>, 0)
        /\ UNCHANGED deadlines
  /\ UNCHANGED <<cases, facts, work, keep, seen, quiet>>

\* Those of the rows ids that have fewer than n before them.
FirstOf(ids, n, Before(_, _)) ==
  {i \in ids : Cardinality({j \in ids : Before(j, i)}) < n}

\* documents[:_BLOCK_MAX_DOCS], oldest first.
BlockDocuments(c) == FirstOf(Listed(docs, c), BlockDocs, <)

Sooner(f, g) == \/ deadlines[f].due < deadlines[g].due
                \/ deadlines[f].due = deadlines[g].due /\ f < g

OpenOf(ids) == {f \in ids : deadlines[f].status = "open"}

\* Mutant of BlockDue: the list is cut before the settled ones are left out.
BlockDueCut(c) == OpenOf(FirstOf(Listed(deadlines, c), BlockDeadlines, Sooner))

\* build_context_block: the open deadlines, soonest first, then cut.
BlockDue(c) == FirstOf(OpenOf(Listed(deadlines, c)), BlockDeadlines, Sooner)

\* case_context_block, which the agent's prompt is built from: the gate again
\* and two lists.  Every agent step reads it; it is modelled for a turn.
ContextBlock(r) ==
  LET c == call[r].case
  IN /\ call[r].op = "case_turn"
     /\ \/ /\ pc[r] = "owned"
           /\ Goto(r, IF Owns(who[r], c) THEN "block" ELSE "running")
           /\ UNCHANGED seen
        \/ /\ pc[r] = "block"
           /\ seen' = [seen EXCEPT ![r] =
                         @ \cup CasesOf(docs, BlockDocuments(c))]
           /\ Goto(r, "block_documents")
        \/ /\ pc[r] = "block_documents"
           /\ seen' = [seen EXCEPT ![r] =
                         @ \cup CasesOf(deadlines, BlockDue(c))]
           /\ Goto(r, "running")
     /\ UNCHANGED <<rowVars, facts, work, keep, quiet>>

\* agent_sse_events: the final answer is handed to on_final, which stores it
\* as the analysis of the document; a failure to store it is logged.
AgentFinal(r) ==
  /\ pc[r] = "running"
  /\ IF keep[r] = None
     THEN Answer(r, 200) /\ UNCHANGED docs
     ELSE \/ /\ docs' = Analysed(keep[r], [summary |-> "text", by |-> r])
             /\ Answer(r, 200)
          \/ Answer(r, 299) /\ UNCHANGED docs
  /\ UNCHANGED <<cases, deadlines, facts, work, keep, seen, quiet>>

\* The run is paused or fails, or the client leaves between two frames.
StreamEnds(r) ==
  /\ pc[r] \in {"running", "reviewing", "summary"}
  /\ Answer(r, 298)
  /\ UNCHANGED <<caseVars, quiet>>

-----------------------------------------------------------------------------
(* Deadlines. *)

DeadlinesCreate(r) ==
  /\ At(r, "owned", "deadlines_create")
  /\ \/ Answer(r, 422) /\ UNCHANGED deadlines
     \/ AddDeadline(r, call[r].due, 201)
  /\ UNCHANGED <<cases, docs, facts, work, keep, seen, quiet>>

\* set_deadline_status, delete_deadline: by the id and the case.
DeadlinesChange(r) ==
  LET f == call[r].deadline
  IN /\ pc[r] = "owned"
     /\ call[r].op \in {"deadlines_set_status", "deadlines_delete"}
     /\ \/ ~DeadlineOf(call[r].case, f) /\ Answer(r, 404) /\ UNCHANGED deadlines
        \/ /\ DeadlineOf(call[r].case, f) /\ call[r].op = "deadlines_delete"
           /\ deadlines' = [deadlines EXCEPT ![f] = Gone]
           /\ Answer(r, 204)
        \/ /\ DeadlineOf(call[r].case, f) /\ call[r].op = "deadlines_set_status"
           /\ deadlines' = [deadlines EXCEPT ![f].status = call[r].status]
           /\ Answer(r, 200)
     /\ UNCHANGED <<cases, docs, facts, work, keep, seen, quiet>>

CaseStep(r) ==
  \/ CasesList(r) \/ CasesCreate(r) \/ CasesDelete(r) \/ RequireCase(r)
  \/ CasesGet(r) \/ UploadRefused(r) \/ UploadText(r) \/ UploadInsert(r)
  \/ DocumentsDelete(r) \/ RequireDocument(r)
  \/ ReviewClause(r) \/ ReviewSummary(r) \/ ReviewStore(r)
  \/ ResumeDocument(r) \/ ToolWrite(r) \/ ContextBlock(r)
  \/ AgentFinal(r) \/ StreamEnds(r)
  \/ DeadlinesCreate(r) \/ DeadlinesChange(r)
=============================================================================
