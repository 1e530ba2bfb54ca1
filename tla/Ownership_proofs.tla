---------------------------- MODULE Ownership_proofs ----------------------------
(***************************************************************************)
(* The ownership gate holds for all routes of the case files, for any      *)
(* users, cases, rows and requests, overlapping in any way.                *)
(*                                                                         *)
(* The argument: a case changes hands never, it can only be deleted, and   *)
(* its id is not given out again.  So what get_case has found stays true   *)
(* or becomes harmless while a handler goes on with the raw id, and so do  *)
(* the ids of the documents it holds on to.                                *)
(*                                                                         *)
(* On this rest the other invariants of the service, each built on the one *)
(* before: what a request was told stays true, every variable has its      *)
(* type, the block names the soonest deadlines, stored reviews are whole.  *)
(***************************************************************************)
EXTENDS AppServer_proofs, SequenceTheorems

\* Case c belongs to the user of request r, or did when it was deleted.
Mine(r, c) == c \in Case /\ who[r] \in Name /\ cases[c] \in {who[r], Gone}

\* Document d is gone, or in a case of the user of r.
Holds(r, d) ==
  d \in Doc => docs[d] # None /\ (Live(docs[d]) => Mine(r, docs[d].case))

\* A row of case c that request r has written.
Written(r, c) == r \in Request /\ Mine(r, c)

\* What request r has been let through to.
Gate(r) ==
  /\ pc[r] = "new" => who[r] = None
  /\ InFlight(r) => who[r] \in Name /\ call[r] \in Call
  /\ \A c \in seen[r] : Mine(r, c)
  /\ InFlight(r) /\ pc[r] # "open" /\ call[r].op \in Scoped => Mine(r, call[r].case)
  /\ keep[r] # None => Holds(r, keep[r])
  /\ pc[r] \in {"reviewing", "summary"} => Holds(r, call[r].doc)

DocumentOwn(d) ==
  /\ docs[d].by # None => Written(docs[d].by, docs[d].case)
  /\ docs[d].analysis # None => Written(docs[d].analysis.by, docs[d].case)

DeadlineOwn(f) ==
  deadlines[f].by # None => Written(deadlines[f].by, deadlines[f].case)

Typed ==
  /\ calls \subseteq Name \X Call
  /\ call \in [Request -> Call \cup {NoCall}]
  /\ who \in [Request -> Name \cup {None}]
  /\ cases \in [Case -> Name \cup {None, Gone}]
  /\ DOMAIN pc = Request /\ DOMAIN seen = Request
  /\ DOMAIN keep = Request /\ DOMAIN facts = Name

\* The inductive invariant.
OwnInv ==
  /\ Typed /\ RowInv
  /\ \A r \in Request : Gate(r)
  /\ \A d \in Doc : Live(docs[d]) => DocumentOwn(d)
  /\ \A f \in Deadline : Live(deadlines[f]) => DeadlineOwn(f)
  /\ \A u \in Name : facts[u] # None => facts[u] \in Request /\ who[facts[u]] = u

-----------------------------------------------------------------------------
\* What a step may do to the tables: a case is created or deleted ...
CasesMove == \A c \in Case : cases'[c] # cases[c] => cases[c] = None \/ cases'[c] = Gone

\* ... and a document stays in its case or is deleted.
DocsMove ==
  \A d \in Doc : docs[d] # None =>
    /\ docs'[d] # None
    /\ Live(docs'[d]) => Live(docs[d]) /\ docs'[d].case = docs[d].case

LEMMA NamesAreNot == \A u \in Name : u # None /\ u # Gone
BY SessionsAssumption, CaseFileAssumption

\* Mine and Holds after the step.
MineThen(r, c) == c \in Case /\ who'[r] \in Name /\ cases'[c] \in {who'[r], Gone}

HoldsThen(r, d) ==
  d \in Doc => docs'[d] # None /\ (Live(docs'[d]) => MineThen(r, docs'[d].case))

\* What is the user's stays the user's.
LEMMA MineStays ==
  ASSUME CasesMove, NEW r, NEW c, Mine(r, c), who'[r] = who[r]
  PROVE  MineThen(r, c)
BY NamesAreNot, CaseFileAssumption DEF CasesMove, Mine, MineThen

LEMMA HoldsStays ==
  ASSUME CasesMove, DocsMove, NEW r, NEW d, Holds(r, d), who'[r] = who[r]
  PROVE  HoldsThen(r, d)
<1>1. ASSUME d \in Doc, Live(docs'[d]) PROVE MineThen(r, docs'[d].case)
  <2>1. Live(docs[d]) /\ docs'[d].case = docs[d].case
    BY <1>1 DEF Holds, DocsMove
  <2> QED BY <1>1, <2>1, MineStays DEF Holds
<1>2. d \in Doc => docs'[d] # None
  BY DEF Holds, DocsMove
<1> QED BY <1>1, <1>2 DEF HoldsThen

\* The gate of a request, read in the tables after the step.
LEMMA GateThen ==
  ASSUME NEW q \in Request,
         pc'[q] = "new" => who'[q] = None,
         pc'[q] \notin {"new", "ended"} => who'[q] \in Name /\ call'[q] \in Call,
         \A c \in seen'[q] : MineThen(q, c),
         pc'[q] \notin {"new", "ended", "open"} /\ call'[q].op \in Scoped
           => MineThen(q, call'[q].case),
         keep'[q] # None => HoldsThen(q, keep'[q]),
         pc'[q] \in {"reviewing", "summary"} => HoldsThen(q, call'[q].doc)
  PROVE  Gate(q)'
BY DEF Gate, InFlight, MineThen, HoldsThen, Mine, Holds, Live

\* A request that does not move keeps its gate.
LEMMA OthersKeepGate ==
  ASSUME CasesMove, DocsMove, NEW q \in Request, Gate(q),
         pc'[q] = pc[q], who'[q] = who[q], call'[q] = call[q],
         seen'[q] = seen[q], keep'[q] = keep[q]
  PROVE  Gate(q)'
<1>1. \A c \in seen'[q] : MineThen(q, c)
  BY MineStays DEF Gate
<1>2. keep'[q] # None => HoldsThen(q, keep'[q])
  BY HoldsStays DEF Gate
<1>3. pc'[q] \in {"reviewing", "summary"} => HoldsThen(q, call'[q].doc)
  BY HoldsStays DEF Gate
<1>4. pc'[q] \notin {"new", "ended", "open"} /\ call'[q].op \in Scoped
        => MineThen(q, call'[q].case)
  BY MineStays DEF Gate, InFlight
<1>5. pc'[q] = "new" => who'[q] = None
  BY DEF Gate
<1>6. pc'[q] \notin {"new", "ended"} => who'[q] \in Name /\ call'[q] \in Call
  BY DEF Gate, InFlight
<1> QED BY <1>1, <1>2, <1>3, <1>4, <1>5, <1>6, GateThen

\* A handler that goes on, with what it reads and holds on to.
LEMMA HandlerKeepsGate ==
  ASSUME CasesMove, DocsMove, NEW r \in Request, Gate(r), InFlight(r),
         who'[r] = who[r], call'[r] = call[r], pc'[r] # "new",
         \A c \in seen'[r] : c \in seen[r] \/ Mine(r, c),
         pc'[r] \notin {"open", "ended"} /\ call[r].op \in Scoped
           => Mine(r, call[r].case),
         keep'[r] = keep[r] \/ Holds(r, keep'[r]),
         pc'[r] \in {"reviewing", "summary"} => Holds(r, call[r].doc)
  PROVE  Gate(r)'
<1>1. \A c \in seen'[r] : MineThen(r, c)
  BY MineStays DEF Gate
<1>2. keep'[r] # None => HoldsThen(r, keep'[r])
  BY HoldsStays DEF Gate
<1>3. pc'[r] \in {"reviewing", "summary"} => HoldsThen(r, call'[r].doc)
  BY HoldsStays
<1>4. pc'[r] \notin {"new", "ended", "open"} /\ call'[r].op \in Scoped
        => MineThen(r, call'[r].case)
  BY MineStays
<1>5. who'[r] \in Name /\ call'[r] \in Call
  BY DEF Gate
<1> QED BY <1>1, <1>2, <1>3, <1>4, <1>5, GateThen

-----------------------------------------------------------------------------
\* The step of handler r, as far as its gate is concerned.
Advance(r) ==
  /\ pc'[r] # "new"
  /\ \A c \in seen'[r] : c \in seen[r] \/ Mine(r, c)
  /\ pc'[r] \notin {"open", "ended"} /\ call[r].op \in Scoped => Mine(r, call[r].case)
  /\ keep'[r] = keep[r] \/ Holds(r, keep'[r])
  /\ pc'[r] \in {"reviewing", "summary"} => Holds(r, call[r].doc)
  /\ DOMAIN seen' = DOMAIN seen /\ DOMAIN keep' = DOMAIN keep
  /\ \A q \in Request \ {r} : seen'[q] = seen[q] /\ keep'[q] = keep[q]

\* A handler that ends, or goes on behind the gate with what it has.
LEMMA GoesOn ==
  ASSUME NEW r \in Request, Gate(r), DOMAIN pc = Request, InFlight(r),
         UNCHANGED <<seen, keep>>, NEW l, Answer(r, l) \/ Goto(r, l),
         \/ Answer(r, l)
         \/ l \notin {"new", "reviewing", "summary"} /\ pc[r] # "open"
  PROVE  Advance(r)
BY DEF Advance, Answer, Goto, Gate

LEMMA CaseOfDocument ==
  ASSUME NEW r \in Request, NEW d, Mine(r, call[r].case), DocOf(call[r].case, d)
  PROVE  Holds(r, d) /\ docs[d].case = call[r].case
BY DEF Holds, DocOf, Live

\* Every step of a case route.
LEMMA CaseAdvance ==
  ASSUME OwnInv, NEW r \in Request, CaseStep(r)
  PROVE  Advance(r)
<1> USE DEF At, InFlight
<1>0. Gate(r) /\ DOMAIN pc = Request /\ DOMAIN seen = Request /\ DOMAIN keep = Request
  BY DEF OwnInv, Typed
<1>1. CASE CasesList(r)
  <2>1. /\ who[r] \in Name /\ pc'[r] = "ended" /\ UNCHANGED keep
        /\ seen' = [seen EXCEPT ![r] = {c \in Case : cases[c] = who[r]}]
    BY <1>0, <1>1 DEF CasesList, Answer, Gate
  <2> QED BY <1>0, <2>1 DEF Advance, Mine
<1>2. CASE CasesCreate(r) \/ CasesDelete(r)
  BY <1>0, <1>2, GoesOn DEF CasesCreate, CasesDelete
<1>4. CASE RequireCase(r)
  <2>1. call[r] \in Call /\ call[r].op \in Scoped /\ call[r].case \in Case /\ who[r] \in Name
    BY <1>0, <1>4, CallAssumption DEF RequireCase, Gate
  <2>2. CASE pc'[r] = "ended" /\ UNCHANGED <<seen, keep>>
    BY <1>0, <2>2 DEF Advance
  <2>3. CASE /\ Owns(who[r], call[r].case) /\ pc'[r] = "owned" /\ UNCHANGED keep
             /\ seen' = [seen EXCEPT ![r] = {call[r].case}]
    BY <1>0, <2>1, <2>3 DEF Advance, Owns, Mine
  <2> QED BY <1>0, <1>4, <2>2, <2>3 DEF RequireCase, Answer, Goto
<1>5. CASE CasesGet(r)
  <2>1. Mine(r, call[r].case)
    BY <1>0, <1>5 DEF CasesGet, Gate, Scoped
  <2>2. pc'[r] \in {"documents_listed", "ended"} /\ UNCHANGED keep
    BY <1>0, <1>5 DEF CasesGet, Goto, Answer
  <2>3. PICK table \in {docs, deadlines} :
          seen' = [seen EXCEPT ![r] = @ \cup CasesOf(table, Listed(table, call[r].case))]
    BY <1>5 DEF CasesGet
  <2>4. \A c \in seen'[r] : c \in seen[r] \/ c = call[r].case
    BY <1>0, <2>3 DEF CasesOf, Listed
  <2> QED BY <1>0, <2>1, <2>2, <2>3, <2>4 DEF Advance
<1>6. CASE UploadRefused(r) \/ UploadText(r) \/ DocumentsDelete(r)
  BY <1>0, <1>6, GoesOn DEF UploadRefused, UploadText, DocumentsDelete, caseVars
<1>7. CASE UploadInsert(r) \/ ToolWrite(r) \/ DeadlinesCreate(r)
  BY <1>0, <1>7, GoesOn DEF UploadInsert, ToolWrite, DeadlinesCreate,
     AddDocument, AddDeadline, Proceed
<1>8. CASE RequireDocument(r)
  <2> DEFINE d == call[r].doc
  <2>1. Mine(r, call[r].case)
    BY <1>0, <1>8 DEF RequireDocument, Gate, OnDocument, Scoped
  <2>2. CASE pc'[r] = "ended" /\ UNCHANGED <<seen, keep>>
    BY <1>0, <2>2 DEF Advance
  <2>3. CASE /\ DocOf(call[r].case, d)
             /\ seen' = [seen EXCEPT ![r] = @ \cup {docs[d].case}]
             /\ \/ pc'[r] = "ended" /\ UNCHANGED keep
                \/ pc'[r] = "running" /\ keep' = [keep EXCEPT ![r] = d]
                \/ pc'[r] = "reviewing" /\ UNCHANGED keep
    <3>1. Holds(r, d) /\ docs[d].case = call[r].case
      BY <2>1, <2>3, CaseOfDocument
    <3> QED BY <1>0, <2>1, <2>3, <3>1 DEF Advance
  <2> QED BY <1>0, <1>8, <2>2, <2>3 DEF RequireDocument, Answer, Goto
<1>9. CASE ReviewClause(r)
  BY <1>0, <1>9 DEF ReviewClause, requestVars, Advance, Gate, Scoped
<1>10. CASE ReviewSummary(r)
  <2>1. pc'[r] \in {"ended", "summary"} /\ UNCHANGED <<seen, keep>> /\ pc[r] = "reviewing"
    BY <1>0, <1>10 DEF ReviewSummary, Answer, Goto, caseVars
  <2> QED BY <1>0, <2>1 DEF Advance, Gate
<1>11. CASE ReviewStore(r) \/ AgentFinal(r) \/ StreamEnds(r) \/ DeadlinesChange(r)
  BY <1>0, <1>11, GoesOn DEF ReviewStore, AgentFinal, StreamEnds, DeadlinesChange, caseVars
<1>12. CASE ResumeDocument(r)
  <2> DEFINE d == call[r].doc
  <2>1. Mine(r, call[r].case)
    BY <1>0, <1>12 DEF ResumeDocument, Gate, Scoped
  <2>2. DocOf(call[r].case, d) => Holds(r, d)
    BY <2>1, CaseOfDocument
  <2>3. /\ pc'[r] \in {"running", "tool"} /\ UNCHANGED seen
        /\ \/ UNCHANGED keep
           \/ DocOf(call[r].case, d) /\ keep' = [keep EXCEPT ![r] = d]
    BY <1>0, <1>12 DEF ResumeDocument, Goto
  <2> QED BY <1>0, <2>1, <2>2, <2>3 DEF Advance
<1>13. CASE ContextBlock(r)
  <2>1. Mine(r, call[r].case)
    BY <1>0, <1>13 DEF ContextBlock, Gate, Scoped
  <2>2. pc'[r] \in {"block", "running", "block_documents"} /\ UNCHANGED keep
    BY <1>0, <1>13 DEF ContextBlock, Goto
  <2>3. CASE UNCHANGED seen
    BY <1>0, <2>1, <2>2, <2>3 DEF Advance, Gate
  <2>4. CASE seen' = [seen EXCEPT ![r] = @ \cup CasesOf(docs, BlockDocuments(call[r].case))]
    <3>1. \A c \in seen'[r] : c \in seen[r] \/ c = call[r].case
      BY <1>0, <2>4 DEF CasesOf, BlockDocuments, FirstOf, Listed
    <3> QED BY <1>0, <2>1, <2>2, <2>4, <3>1 DEF Advance, Gate
  <2>5. CASE seen' = [seen EXCEPT ![r] = @ \cup CasesOf(deadlines, BlockDue(call[r].case))]
    <3>1. \A c \in seen'[r] : c \in seen[r] \/ c = call[r].case
      BY <1>0, <2>5 DEF CasesOf, BlockDue, FirstOf, OpenOf, Listed
    <3> QED BY <1>0, <2>1, <2>2, <2>5, <3>1 DEF Advance, Gate
  <2> QED BY <1>13, <2>3, <2>4, <2>5 DEF ContextBlock
<1> QED BY <1>1, <1>2, <1>4, <1>5, <1>6, <1>7, <1>8, <1>9, <1>10, <1>11, <1>12, <1>13 DEF CaseStep

-----------------------------------------------------------------------------
\* What the handler of r may do to the documents: leave, delete or analyse
\* one, or insert one of its own.
DocumentsBy(r) ==
  \A d \in Doc :
    \/ docs'[d] = docs[d]
    \/ docs[d] # None /\ docs'[d] = Gone
    \/ /\ Live(docs[d]) /\ Mine(r, docs[d].case) /\ docs'[d] # None
       /\ docs'[d].case = docs[d].case /\ docs'[d].by = docs[d].by
       /\ docs'[d].analysis.by = r
    \/ /\ docs[d] = None /\ Mine(r, docs'[d].case)
       /\ docs'[d].by = r /\ docs'[d].analysis = None

DeadlinesBy(r) ==
  \A f \in Deadline : Live(deadlines'[f]) =>
    \/ /\ Live(deadlines[f])
       /\ deadlines'[f].case = deadlines[f].case /\ deadlines'[f].by = deadlines[f].by
    \/ Mine(r, deadlines'[f].case) /\ deadlines'[f].by = r

TablesBy(r) ==
  /\ cases' \in [Case -> Name \cup {None, Gone}]
  /\ CasesMove /\ DocumentsBy(r) /\ DeadlinesBy(r)

\* None is not a row.
NoneIsNoRow == DOMAIN None # DocumentColumns

LEMMA AnalysedBy ==
  ASSUME NoneIsNoRow, OwnInv, NEW r \in Request, NEW d, Holds(r, d),
         NEW a, a.by = r, docs' = Analysed(d, a)
  PROVE  DocumentsBy(r)
<1>1. DOMAIN docs = Doc
  BY DEF OwnInv, RowInv
<1>2. CASE d \notin Doc \/ ~Live(docs[d])
  BY <1>1, <1>2 DEF Analysed, DocumentsBy
<1>3. CASE d \in Doc /\ Live(docs[d])
  <2>1. DOMAIN docs[d] = DocumentColumns
    BY <1>3 DEF OwnInv, RowInv
  <2>2. docs'[d] = [docs[d] EXCEPT !.analysis = a]
    BY <1>1, <1>3 DEF Analysed
  <2>3. docs'[d].case = docs[d].case /\ docs'[d].by = docs[d].by /\ docs'[d].analysis = a
    BY <2>1, <2>2 DEF DocumentColumns
  <2>4. \A e \in Doc : e # d => docs'[e] = docs[e]
    BY <1>1, <1>3 DEF Analysed
  <2>5. DOMAIN docs'[d] = DocumentColumns
    BY <2>1, <2>2
  <2>6. docs'[d] # None
    BY <2>5 DEF NoneIsNoRow
  <2>7. Mine(r, docs[d].case)
    BY <1>3 DEF Holds
  <2> QED BY <1>3, <2>3, <2>4, <2>6, <2>7 DEF DocumentsBy
<1> QED BY <1>2, <1>3

LEMMA DocumentInserted ==
  ASSUME OwnInv, NEW r \in Request, Mine(r, call[r].case),
         NEW kind, NEW clauses, NEW code, AddDocument(r, kind, clauses, code)
  PROVE  DocumentsBy(r)
<1> DEFINE row == [case |-> call[r].case, kind |-> kind, clauses |-> clauses,
                   analysis |-> None, by |-> r]
<1>1. CASE UNCHANGED docs
  BY <1>1 DEF DocumentsBy
<1>2. CASE \E d \in Doc : IsNext(docs, d) /\ docs' = [docs EXCEPT ![d] = row]
  <2>1. row.case = call[r].case /\ row.by = r /\ row.analysis = None
    OBVIOUS
  <2> HIDE DEF row
  <2> QED BY <1>2, <2>1 DEF DocumentsBy, IsNext, OwnInv, RowInv
<1> QED BY <1>1, <1>2 DEF AddDocument

LEMMA DeadlineInserted ==
  ASSUME OwnInv, NEW r \in Request, Mine(r, call[r].case),
         NEW due, NEW code, AddDeadline(r, due, code)
  PROVE  DeadlinesBy(r)
<1> DEFINE row == [case |-> call[r].case, due |-> due, status |-> "open", by |-> r]
<1>1. CASE UNCHANGED deadlines
  BY <1>1 DEF DeadlinesBy
<1>2. CASE \E f \in Deadline : IsNext(deadlines, f) /\ deadlines' = [deadlines EXCEPT ![f] = row]
  <2>1. row.case = call[r].case /\ row.by = r
    OBVIOUS
  <2> HIDE DEF row
  <2> QED BY <1>2, <2>1 DEF DeadlinesBy, OwnInv, RowInv, Live
<1> QED BY <1>1, <1>2 DEF AddDeadline

\* What a table that is left alone amounts to.
LEMMA TableLeft ==
  ASSUME OwnInv, NEW r \in Request
  PROVE  /\ UNCHANGED cases => CasesMove /\ cases' \in [Case -> Name \cup {None, Gone}]
         /\ UNCHANGED docs => DocumentsBy(r)
         /\ UNCHANGED deadlines => DeadlinesBy(r)
BY DEF OwnInv, Typed, CasesMove, DocumentsBy, DeadlinesBy, Live

LEMMA CasesBy ==
  ASSUME OwnInv, NEW r \in Request, CasesCreate(r) \/ CasesDelete(r)
  PROVE  TablesBy(r)
<1>1. CASE UNCHANGED rowVars
  BY <1>1, TableLeft DEF rowVars, TablesBy
<1>2. CASE CasesCreate(r) /\ ~UNCHANGED rowVars
  <2>1. PICK c \in Case : IsNext(cases, c) /\ cases' = [cases EXCEPT ![c] = who[r]]
    BY <1>2 DEF CasesCreate, rowVars
  <2>2. who[r] \in Name /\ UNCHANGED <<docs, deadlines>>
    BY <1>2 DEF CasesCreate, OwnInv, Gate, InFlight, At
  <2>3. CasesMove /\ cases' \in [Case -> Name \cup {None, Gone}]
    BY <2>1, <2>2 DEF CasesMove, IsNext, OwnInv, Typed
  <2> QED BY <2>2, <2>3, TableLeft DEF TablesBy
<1>3. CASE CasesDelete(r) /\ ~UNCHANGED rowVars
  <2> DEFINE c == call[r].case
  <2>1. /\ cases' = [cases EXCEPT ![c] = Gone] /\ docs' = DocsAfter(c)
        /\ deadlines' = [f \in Deadline |-> IF DeadlineOf(c, f)
                           THEN Gone ELSE deadlines[f]]
    BY <1>3 DEF CasesDelete, rowVars
  <2>2. CasesMove /\ cases' \in [Case -> Name \cup {None, Gone}]
    BY <2>1 DEF CasesMove, OwnInv, Typed
  <2>3. DocumentsBy(r)
    BY <2>1 DEF DocumentsBy, DocsAfter, DocOf, Live
  <2>4. DeadlinesBy(r)
    BY <2>1 DEF DeadlinesBy, Live
  <2> QED BY <2>2, <2>3, <2>4 DEF TablesBy
<1> QED BY <1>1, <1>2, <1>3

LEMMA DeadlinesChangeBy ==
  ASSUME OwnInv, NEW r \in Request, DeadlinesChange(r)
  PROVE  DeadlinesBy(r)
<1> DEFINE f == call[r].deadline
<1>1. CASE UNCHANGED deadlines
  BY <1>1, TableLeft
<1>2. CASE deadlines' = [deadlines EXCEPT ![f] = Gone]
  BY <1>2 DEF DeadlinesBy, OwnInv, RowInv, Live
<1>3. CASE /\ DeadlineOf(call[r].case, f)
           /\ deadlines' = [deadlines EXCEPT ![f].status = call[r].status]
  <2>1. f \in Deadline => /\ DOMAIN deadlines[f] = DeadlineColumns
                          /\ deadlines'[f] = [deadlines[f] EXCEPT !.status = call[r].status]
    BY <1>3 DEF OwnInv, RowInv, DeadlineOf
  <2>2. f \in Deadline => /\ deadlines'[f].case = deadlines[f].case
                          /\ deadlines'[f].by = deadlines[f].by
    BY <2>1 DEF DeadlineColumns
  <2>3. \A g \in Deadline : g # f => deadlines'[g] = deadlines[g]
    BY <1>3 DEF OwnInv, RowInv
  <2> QED BY <1>3, <2>2, <2>3 DEF DeadlinesBy, DeadlineOf, Live
<1> QED BY <1>1, <1>2, <1>3 DEF DeadlinesChange

\* Every step of a case route.
LEMMA CaseTables ==
  ASSUME NoneIsNoRow, OwnInv, NEW r \in Request, CaseStep(r)
  PROVE  TablesBy(r)
<1> USE TableLeft DEF TablesBy, At
<1>0. Gate(r)
  BY DEF OwnInv
<1>1. CASE \/ CasesList(r) \/ RequireCase(r) \/ CasesGet(r) \/ UploadRefused(r)
           \/ UploadText(r) \/ RequireDocument(r) \/ ReviewClause(r)
           \/ ReviewSummary(r) \/ ResumeDocument(r) \/ ContextBlock(r) \/ StreamEnds(r)
  <2>1. UNCHANGED rowVars
    BY <1>1 DEF CasesList, RequireCase, CasesGet, UploadRefused, UploadText,
                RequireDocument, ReviewClause, ReviewSummary, ResumeDocument,
                ContextBlock, StreamEnds, caseVars, rowVars
  <2> QED BY <2>1 DEF rowVars
<1>2. CASE CasesCreate(r) \/ CasesDelete(r)
  BY <1>2, CasesBy
<1>3. ASSUME pc[r] \notin {"new", "open", "ended"}, call[r].op \in Scoped
      PROVE  Mine(r, call[r].case)
  BY <1>0, <1>3 DEF Gate, InFlight
<1>4. CASE UploadInsert(r)
  BY <1>3, <1>4, DocumentInserted DEF UploadInsert, Scoped
<1>5. CASE ToolWrite(r)
  BY <1>3, <1>5, DocumentInserted, DeadlineInserted DEF ToolWrite, Scoped
<1>6. CASE DeadlinesCreate(r)
  BY <1>3, <1>6, DeadlineInserted DEF DeadlinesCreate, Scoped
<1>7. CASE DocumentsDelete(r)
  <2>1. \/ UNCHANGED docs
        \/ DocOf(call[r].case, call[r].doc) /\ docs' = [docs EXCEPT ![call[r].doc] = Gone]
    BY <1>7 DEF DocumentsDelete
  <2>2. DocumentsBy(r)
    BY <2>1 DEF DocumentsBy, DocOf, Live, OwnInv, RowInv
  <2> QED BY <1>7, <2>2 DEF DocumentsDelete
<1>8. CASE ReviewStore(r)
  <2>1. Holds(r, call[r].doc) /\ Review(r).by = r
    BY <1>0, <1>8 DEF ReviewStore, Gate, Review
  <2>2. DocumentsBy(r)
    BY <1>8, <2>1, AnalysedBy DEF ReviewStore
  <2> QED BY <1>8, <2>2 DEF ReviewStore
<1>9. CASE AgentFinal(r)
  <2>1. DocumentsBy(r)
    <3>1. CASE UNCHANGED docs
      BY <3>1
    <3>2. CASE keep[r] # None /\ docs' = Analysed(keep[r], [summary |-> "text", by |-> r])
      BY <1>0, <3>2, AnalysedBy DEF Gate
    <3> QED BY <1>9, <3>1, <3>2 DEF AgentFinal
  <2> QED BY <1>9, <2>1 DEF AgentFinal
<1>10. CASE DeadlinesChange(r)
  BY <1>10, DeadlinesChangeBy DEF DeadlinesChange
<1> QED BY <1>1, <1>2, <1>4, <1>5, <1>6, <1>7, <1>8, <1>9, <1>10 DEF CaseStep

-----------------------------------------------------------------------------
\* What the handler of r does to the tables, in the terms of the gate.
LEMMA DocumentsMove ==
  ASSUME NEW r \in Request, DocumentsBy(r)
  PROVE  DocsMove
BY CaseFileAssumption DEF DocumentsBy, DocsMove, Live

\* The rows of both tables stay written by requests of the owner.
LEMMA DocumentsStayOwn ==
  ASSUME OwnInv, NEW r \in Request, TablesBy(r), UNCHANGED who,
         NEW d \in Doc, Live(docs'[d])
  PROVE  DocumentOwn(d)'
<1>1. ASSUME NEW q \in Request, NEW c, Mine(q, c) PROVE MineThen(q, c)
  BY <1>1, MineStays DEF TablesBy
<1>2. /\ docs'[d].by # None =>
           docs'[d].by \in Request /\ MineThen(docs'[d].by, docs'[d].case)
      /\ docs'[d].analysis # None =>
           docs'[d].analysis.by \in Request /\ MineThen(docs'[d].analysis.by, docs'[d].case)
  <2>1. Live(docs[d]) => DocumentOwn(d)
    BY DEF OwnInv
  <2>2. CASE docs'[d] = docs[d]
    <3>1. Live(docs[d])
      BY <2>2
    <3> QED BY <1>1, <2>1, <2>2, <3>1 DEF DocumentOwn, Written
  <2>3. CASE docs[d] # None /\ docs'[d] = Gone
    BY <2>3 DEF Live
  <2>4. CASE /\ Live(docs[d]) /\ Mine(r, docs[d].case) /\ docs'[d] # None
             /\ docs'[d].case = docs[d].case /\ docs'[d].by = docs[d].by
             /\ docs'[d].analysis.by = r
    BY <1>1, <2>1, <2>4 DEF DocumentOwn, Written
  <2>5. CASE /\ docs[d] = None /\ Mine(r, docs'[d].case)
             /\ docs'[d].by = r /\ docs'[d].analysis = None
    BY <2>5, MineStays DEF TablesBy
  <2> QED BY <2>2, <2>3, <2>4, <2>5 DEF TablesBy, DocumentsBy
<1> QED BY <1>2 DEF DocumentOwn, Written, Mine, MineThen

LEMMA DeadlinesStayOwn ==
  ASSUME OwnInv, NEW r \in Request, TablesBy(r), UNCHANGED who,
         NEW f \in Deadline, Live(deadlines'[f])
  PROVE  DeadlineOwn(f)'
<1>1. ASSUME NEW q \in Request, NEW c, Mine(q, c) PROVE MineThen(q, c)
  BY <1>1, MineStays DEF TablesBy
<1>2. deadlines'[f].by # None =>
        deadlines'[f].by \in Request /\ MineThen(deadlines'[f].by, deadlines'[f].case)
  <2>1. Live(deadlines[f]) => DeadlineOwn(f)
    BY DEF OwnInv
  <2>2. CASE /\ Live(deadlines[f])
             /\ deadlines'[f].case = deadlines[f].case /\ deadlines'[f].by = deadlines[f].by
    BY <1>1, <2>1, <2>2 DEF DeadlineOwn, Written
  <2>3. CASE Mine(r, deadlines'[f].case) /\ deadlines'[f].by = r
    BY <2>3, MineStays DEF TablesBy
  <2> QED BY <2>2, <2>3 DEF TablesBy, DeadlinesBy
<1> QED BY <1>2 DEF DeadlineOwn, Written, Mine, MineThen

\* The facts of a user only ever come from an upload of that user.
LEMMA FactsBy ==
  ASSUME OwnInv, NEW r \in Request, CaseStep(r)
  PROVE  /\ DOMAIN facts' = Name
         /\ \A u \in Name : facts'[u] = facts[u] \/ (facts'[u] = r /\ who[r] = u)
<1>0. DOMAIN facts = Name
  BY DEF OwnInv, Typed
<1>1. CASE UNCHANGED facts
  BY <1>0, <1>1
<1>2. CASE facts' = [facts EXCEPT ![who[r]] = r]
  BY <1>0, <1>2
<1>3. UNCHANGED facts \/ facts' = [facts EXCEPT ![who[r]] = r]
  BY DEF CaseStep, CasesList, CasesCreate, CasesDelete, RequireCase, CasesGet,
     UploadRefused, UploadText, UploadInsert, DocumentsDelete, RequireDocument,
     ReviewClause, ReviewSummary, ReviewStore, ResumeDocument, ToolWrite,
     ContextBlock, AgentFinal, StreamEnds, DeadlinesCreate, DeadlinesChange,
     caseVars
<1> QED BY <1>1, <1>2, <1>3

LEMMA CaseKeepsOwn ==
  ASSUME NoneIsNoRow, OwnInv, NEW r \in Request, CaseStep(r), UNCHANGED calls
  PROVE  OwnInv'
<1>1. Frame(r) /\ RowInv'
  BY CaseFrame, CaseStepKeeps DEF OwnInv, Typed
<1>2. Advance(r) /\ TablesBy(r)
  BY CaseAdvance, CaseTables
<1>3. CasesMove /\ DocsMove
  BY <1>2, DocumentsMove DEF TablesBy
<1>4. ASSUME NEW q \in Request PROVE Gate(q)'
  <2>1. Gate(q)
    BY DEF OwnInv
  <2>2. CASE q = r
    BY <1>1, <1>2, <1>3, <2>1, <2>2, HandlerKeepsGate DEF Frame, Advance
  <2>3. CASE q # r
    BY <1>1, <1>2, <1>3, <2>1, <2>3, OthersKeepGate DEF Frame, Advance
  <2> QED BY <2>2, <2>3
<1>5. Typed'
  BY <1>1, <1>2, FactsBy DEF OwnInv, Typed, Frame, Advance, TablesBy
<1>6. \A d \in Doc : Live(docs[d])' => DocumentOwn(d)'
  BY <1>1, <1>2, DocumentsStayOwn DEF Frame, Live
<1>7. \A f \in Deadline : Live(deadlines[f])' => DeadlineOwn(f)'
  BY <1>1, <1>2, DeadlinesStayOwn DEF Frame, Live
<1>8. \A u \in Name : facts'[u] # None => facts'[u] \in Request /\ who'[facts'[u]] = u
  BY <1>1, FactsBy DEF OwnInv, Frame
<1> QED BY <1>1, <1>4, <1>5, <1>6, <1>7, <1>8 DEF OwnInv

-----------------------------------------------------------------------------
\* The rows' part of the invariant, where the tables are left alone and no
\* request that has a user gets another one.
LEMMA RowsLeft ==
  ASSUME OwnInv, UNCHANGED <<caseVars, calls>>,
         \A q \in Request : who[q] \in Name => who'[q] = who[q]
  PROVE  /\ RowInv' /\ CasesMove /\ DocsMove
         /\ \A d \in Doc : Live(docs[d])' => DocumentOwn(d)'
         /\ \A f \in Deadline : Live(deadlines[f])' => DeadlineOwn(f)'
         /\ \A u \in Name : facts'[u] # None => facts'[u] \in Request /\ who'[facts'[u]] = u
<1>1. UNCHANGED <<cases, docs, deadlines, facts>>
  BY DEF caseVars, rowVars
<1>2. RowInv' /\ CasesMove /\ DocsMove
  BY <1>1, RowsUnchanged DEF OwnInv, rowVars, CasesMove, DocsMove
<1>3. ASSUME NEW x, NEW c, Written(x, c) PROVE x \in Request /\ MineThen(x, c)
  BY <1>1, <1>3 DEF Written, Mine, MineThen
<1>4. \A d \in Doc : Live(docs[d])' => DocumentOwn(d)'
  <2> SUFFICES ASSUME NEW d \in Doc, Live(docs[d]) PROVE DocumentOwn(d)'
    BY <1>1 DEF Live
  <2>1. /\ docs[d].by # None => docs[d].by \in Request /\ MineThen(docs[d].by, docs[d].case)
        /\ docs[d].analysis # None =>
             docs[d].analysis.by \in Request /\ MineThen(docs[d].analysis.by, docs[d].case)
    BY <1>3 DEF OwnInv, DocumentOwn
  <2> QED BY <1>1, <2>1 DEF DocumentOwn, Written, Mine, MineThen
<1>5. \A f \in Deadline : Live(deadlines[f])' => DeadlineOwn(f)'
  <2> SUFFICES ASSUME NEW f \in Deadline, Live(deadlines[f]) PROVE DeadlineOwn(f)'
    BY <1>1 DEF Live
  <2>1. deadlines[f].by # None =>
          deadlines[f].by \in Request /\ MineThen(deadlines[f].by, deadlines[f].case)
    BY <1>3 DEF OwnInv, DeadlineOwn
  <2> QED BY <1>1, <2>1 DEF DeadlineOwn, Written, Mine, MineThen
<1>6. \A u \in Name : facts'[u] # None => facts'[u] \in Request /\ who'[facts'[u]] = u
  BY <1>1 DEF OwnInv
<1> QED BY <1>2, <1>4, <1>5, <1>6

\* A step that is not about cases: requests on other routes move, or end.
LEMMA CalmKeeps ==
  ASSUME OwnInv, UNCHANGED <<caseVars, calls, who, call>>, DOMAIN pc' = Request,
         \A q \in Request :
           \/ pc'[q] = pc[q] \/ pc'[q] = "ended"
           \/ /\ InFlight(q) /\ call[q].op \notin Scoped
              /\ pc'[q] \notin {"new", "reviewing", "summary"}
  PROVE  OwnInv'
<1>1. /\ RowInv' /\ CasesMove /\ DocsMove
      /\ \A d \in Doc : Live(docs[d])' => DocumentOwn(d)'
      /\ \A f \in Deadline : Live(deadlines[f])' => DeadlineOwn(f)'
      /\ \A u \in Name : facts'[u] # None => facts'[u] \in Request /\ who'[facts'[u]] = u
  BY RowsLeft
<1>2. Typed'
  BY DEF OwnInv, Typed, caseVars, rowVars
<1>3. ASSUME NEW q \in Request PROVE Gate(q)'
  <2>1. Gate(q) /\ UNCHANGED <<seen, keep>>
    BY DEF OwnInv, caseVars
  <2>2. CASE pc'[q] = pc[q]
    BY <1>1, <2>1, <2>2, OthersKeepGate
  <2>3. CASE pc'[q] = "ended"
    <3>1. \A c \in seen'[q] : MineThen(q, c)
      BY <1>1, <2>1, MineStays DEF Gate
    <3>2. keep'[q] # None => HoldsThen(q, keep'[q])
      BY <1>1, <2>1, HoldsStays DEF Gate
    <3> QED BY <2>3, <3>1, <3>2, GateThen
  <2>4. CASE /\ InFlight(q) /\ call[q].op \notin Scoped
             /\ pc'[q] \notin {"new", "reviewing", "summary"}
    BY <1>1, <2>1, <2>4, HandlerKeepsGate
  <2> QED BY <2>2, <2>3, <2>4
<1> QED BY <1>1, <1>2, <1>3 DEF OwnInv

\* A request that arrives has seen nothing, holds nothing and has written
\* nothing: it has had no user.
LEMMA ArrivalKeepsOwn ==
  ASSUME OwnInv, NEW r \in Request, NEW m \in calls, Arrive(r, m[1], m[2]),
         UNCHANGED <<caseVars, chatVars, calls>>
  PROVE  OwnInv'
<1>1. /\ m[1] \in Name /\ m[2] \in Call /\ Gate(r)
      /\ who' = [who EXCEPT ![r] = m[1]] /\ call' = [call EXCEPT ![r] = m[2]]
      /\ pc[r] = "new" /\ who[r] = None /\ UNCHANGED <<seen, keep>>
      /\ DOMAIN pc' = Request /\ pc'[r] \in {"open", "ended"}
      /\ \A q \in Request : q # r => pc'[q] = pc[q]
  BY DEF OwnInv, Typed, Arrive, Gate, caseVars
<1>2. who[r] \notin Name
  BY <1>1, NamesAreNot
<1>3. \A q \in Request : q # r => who'[q] = who[q] /\ call'[q] = call[q]
  BY <1>1 DEF OwnInv, Typed
<1>4. /\ RowInv' /\ CasesMove /\ DocsMove
      /\ \A d \in Doc : Live(docs[d])' => DocumentOwn(d)'
      /\ \A f \in Deadline : Live(deadlines[f])' => DeadlineOwn(f)'
      /\ \A u \in Name : facts'[u] # None => facts'[u] \in Request /\ who'[facts'[u]] = u
  BY <1>2, <1>3, RowsLeft
<1>5. Typed'
  BY <1>1 DEF OwnInv, Typed, caseVars, rowVars
<1>6. ASSUME NEW q \in Request PROVE Gate(q)'
  <2>1. CASE q # r
    BY <1>1, <1>3, <1>4, <2>1, OthersKeepGate DEF OwnInv
  <2>2. CASE q = r
    <3>1. \A c \in seen'[r] : MineThen(r, c)
      BY <1>1, <1>2 DEF Gate, Mine
    <3>2. keep'[r] # None => HoldsThen(r, keep'[r])
      BY <1>1, <1>2 DEF Gate, Holds, Mine, HoldsThen, Live, caseVars, rowVars
    <3>3. who'[r] \in Name /\ call'[r] \in Call
      BY <1>1 DEF OwnInv, Typed
    <3> QED BY <1>1, <2>2, <3>1, <3>2, <3>3, GateThen
  <2> QED BY <2>1, <2>2
<1> QED BY <1>4, <1>5, <1>6 DEF OwnInv

\* A handler of another route: it moves, ends or leaves its place.
LEMMA OtherRoutesKeepOwn ==
  ASSUME OwnInv, NEW r \in Request, AccountStep(r) \/ ChatStep(r),
         UNCHANGED <<caseVars, calls>>
  PROVE  OwnInv'
<1> USE DEF InFlight, At, Scoped
<1>0. DOMAIN pc = Request
  BY DEF OwnInv, Typed
<1>1. CASE /\ UNCHANGED <<who, call>> /\ DOMAIN pc' = Request
           /\ \A q \in Request : q # r => pc'[q] = pc[q]
           /\ \/ pc'[r] = pc[r] \/ pc'[r] = "ended"
              \/ /\ InFlight(r) /\ call[r].op \notin Scoped
                 /\ pc'[r] \notin {"new", "reviewing", "summary"}
  BY <1>1, CalmKeeps
<1>2. CASE AccountStep(r)
  <2>1. CASE LookupName(r) \/ InsertUser(r) \/ SetActive(r) \/ EvalRun(r)
    BY <1>0, <1>1, <2>1 DEF LookupName, InsertUser, SetActive, EvalRun, Answer, Goto
  <2>2. CASE EvalResult(r) \/ EvalStatus(r)
    BY <1>0, <1>1, <2>2 DEF EvalResult, EvalStatus, requestVars
  <2>3. CASE PollStatus(r) \/ PollResults(r)
    BY <1>0, <1>1, <2>3 DEF PollStatus, PollResults, Answer, Goto
  <2> QED BY <1>2, <2>1, <2>2, <2>3 DEF AccountStep
<1>3. CASE ChatStep(r)
  BY <1>0, <1>1, <1>3 DEF ChatStep, ChatClaim, TouchThread, ChatTurn, OwnsThread,
     ThreadMessages, RenameThread, ListThreads, DeleteThread, Answer, Goto
<1> QED BY <1>2, <1>3

LEMMA OwnInit == Init => OwnInv
<1> SUFFICES ASSUME Init PROVE OwnInv
  OBVIOUS
<1>1. PICK s \in Scenario : cases = s.cases /\ docs = s.docs
             /\ deadlines = s.deadlines /\ calls = s.calls
  BY DEF Init
<1>2. /\ cases \in [Case -> Name \cup {None, Gone}]
      /\ RowInv /\ calls \subseteq Name \X Call
      /\ \A d \in Doc : Live(docs[d]) => docs[d].by = None /\ docs[d].analysis = None
      /\ \A f \in Deadline : Live(deadlines[f]) => deadlines[f].by = None
  BY <1>1, ScenarioAssumption DEF Consistent, RowInv, NoOrphans
<1>3. /\ pc = [r \in Request |-> "new"] /\ who = [r \in Request |-> None]
      /\ call = [r \in Request |-> NoCall] /\ facts = [u \in Name |-> None]
      /\ keep = [r \in Request |-> None] /\ seen = [r \in Request |-> {}]
  BY DEF Init, SessionsInit
<1>4. \A r \in Request : Gate(r)
  BY <1>3 DEF Gate, InFlight
<1> QED BY <1>2, <1>3, <1>4 DEF OwnInv, Typed, DocumentOwn, DeadlineOwn

\* The inductive invariant.
THEOREM OwnInvariant ==
  ASSUME NoneIsNoRow
  PROVE  Spec => []OwnInv
<1>1. OwnInv /\ [Next]_vars => OwnInv'
  <2> SUFFICES ASSUME OwnInv, [Next]_vars PROVE OwnInv'
    OBVIOUS
  <2>0. DOMAIN pc = Request
    BY DEF OwnInv, Typed
  <2>1. CASE UNCHANGED vars
    BY <2>0, <2>1, CalmKeeps DEF vars, sessionVars, requestVars
  <2>2. CASE (Start \/ Crash) /\ UNCHANGED <<caseVars, chatVars, calls>>
    BY <2>0, <2>2, CalmKeeps DEF Start, Crash, requestVars
  <2>3. ASSUME NEW r \in Request, NEW m \in calls, Arrive(r, m[1], m[2]),
               UNCHANGED <<caseVars, chatVars, calls>>
        PROVE  OwnInv'
    BY <2>3, ArrivalKeepsOwn
  <2>4. ASSUME NEW r \in Request, NEW m \in calls, NEW right \in BOOLEAN,
               Login(r, m[1], right), UNCHANGED <<caseVars, chatVars, calls>>
        PROVE  OwnInv'
    BY <2>0, <2>4, CalmKeeps DEF Login
  <2>5. ASSUME NEW r \in Request, AccountStep(r) \/ ChatStep(r),
               UNCHANGED <<caseVars, calls>>
        PROVE  OwnInv'
    BY <2>5, OtherRoutesKeepOwn
  <2>6. ASSUME NEW r \in Request, CaseStep(r), UNCHANGED <<chatVars, calls>>
        PROVE  OwnInv'
    BY <2>6, CaseKeepsOwn
  <2>7. CASE Quiescent
    BY <2>1, <2>7 DEF Quiescent
  <2> QED BY <2>1, <2>2, <2>3, <2>4, <2>5, <2>6, <2>7 DEF Next
<1> QED BY <1>1, OwnInit, PTL DEF Spec

\* What the invariant says of two tables at once: the owner of a case with
\* rows is the user of every request that has written one of them.
LEMMA OwnIsIsolation == OwnInv => Isolation
<1> SUFFICES ASSUME OwnInv PROVE Isolation
  OBVIOUS
<1>1. ASSUME NEW r, NEW c, Written(r, c), Live(cases[c]) PROVE cases[c] = who[r]
  BY <1>1 DEF Written, Mine, Live
<1>2. ASSUME NEW d \in Doc, Live(docs[d])
      PROVE  /\ docs[d].by # None => cases[docs[d].case] = who[docs[d].by]
             /\ docs[d].analysis # None => cases[docs[d].case] = who[docs[d].analysis.by]
  BY <1>1, <1>2 DEF OwnInv, RowInv, NoOrphans, DocumentOwn
<1>3. ASSUME NEW f \in Deadline, Live(deadlines[f]), deadlines[f].by # None
      PROVE  cases[deadlines[f].case] = who[deadlines[f].by]
  BY <1>1, <1>3 DEF OwnInv, RowInv, NoOrphans, DeadlineOwn
<1>4. \A r \in Request : \A c \in seen[r] : cases[c] \in {who[r], Gone}
  BY DEF OwnInv, Gate, Mine
<1> QED BY <1>2, <1>3, <1>4 DEF Isolation, OwnInv

\* Every row is written by a request of the owner of its case, and read by
\* none of anybody else, whatever is deleted between two statements.
THEOREM OwnershipHolds ==
  ASSUME NoneIsNoRow
  PROVE  Spec => []Isolation
BY OwnInvariant, OwnIsIsolation, PTL

-----------------------------------------------------------------------------
(* What a request was told stays true: an analysis announced as done is     *)
(* found unless its document is gone, and an account is of the request that *)
(* was told it had created it.                                              *)

\* Document d has an analysis, or has been deleted.
Done(d) ==
  /\ d \in Doc /\ docs[d] # None
  /\ docs[d] # Gone => docs[d].analysis # None

\* A run holds on to a letter from the start, and nothing else answers 200.
Kept(r) ==
  keep[r] # None =>
    /\ keep[r] \in Doc /\ pc[r] \in {"running", "tool", "ended"}
    /\ ans[r] = 200 => Done(keep[r])

\* Findings are those of a review, which ends well when they are stored.
Found(r) ==
  /\ pc[r] \in {"reviewing", "summary"} =>
       call[r].op = "documents_review" /\ call[r].doc \in Doc
  /\ DOMAIN work[r] = {"clauses", "next", "findings"}
  /\ work[r].next \in Nat \ {0}
  /\ work[r].findings # <<>> =>
       /\ pc[r] \in {"reviewing", "summary", "ended"}
       /\ RiskyOf(work[r].clauses) # <<>>
       /\ ans[r] = 200 => Done(call[r].doc)

Made(r) ==
  ans[r] = 201 /\ call[r].op = "users_create" =>
    /\ call[r].name \in Name /\ users[call[r].name] # None
    /\ users[call[r].name].by = r

Told(r) == (pc[r] # "ended" => ans[r] = 0) /\ Kept(r) /\ Found(r) /\ Made(r)

AnswerInv ==
  /\ users \in [Name -> Row \cup {None}]
  /\ DOMAIN ans = Request /\ DOMAIN work = Request
  /\ \A r \in Request : Told(r)

\* What is done stays done, and an account keeps the request that made it.
AnalysesStay == \A d \in Doc : Done(d) => Done(d)'

AccountsStay ==
  \A u \in Name : users[u] # None =>
    users'[u] # None /\ users'[u].by = users[u].by

\* None is no analysis either.
NoneIsNoAnalysis ==
  DOMAIN None \notin {{"summary", "by"}, {"findings", "summary", "total", "by"}}

\* A request that does not move keeps what it was told, and so does one that
\* is cut off.
LEMMA OthersStayTold ==
  ASSUME NEW q \in Request, Told(q), AnalysesStay, AccountsStay,
         pc'[q] = pc[q] \/ pc'[q] = "ended",
         UNCHANGED <<call[q], ans[q], keep[q], work[q]>>
  PROVE  Told(q)'
<1>1. (pc'[q] # "ended" => ans'[q] = 0)
  BY DEF Told
<1>2. Kept(q)'
  BY DEF Told, Kept, AnalysesStay
<1>3. Found(q)'
  BY DEF Told, Found, AnalysesStay, Done
<1>4. Made(q)'
  BY DEF Told, Made, AccountsStay
<1>. QED BY <1>1, <1>2, <1>3, <1>4 DEF Told

\* A handler that holds nothing and moves on: to a place where it holds
\* nothing either, or to its answer.
LEMMA EmptyHanded ==
  ASSUME OwnInv, AnswerInv, AnalysesStay, AccountsStay, NEW r \in Request,
         UNCHANGED <<keep, work>>, users' \in [Name -> Row \cup {None}],
         pc[r] \notin {"running", "tool", "reviewing", "summary", "ended"},
         NEW l,
         \/ Answer(r, l) /\ ~(l = 201 /\ call[r].op = "users_create")
         \/ Goto(r, l) /\ l \notin {"reviewing", "summary", "ended"}
  PROVE  AnswerInv'
<1>1. /\ DOMAIN pc = Request /\ DOMAIN ans = Request /\ DOMAIN work = Request
      /\ \A q \in Request : Told(q)
  BY DEF OwnInv, Typed, AnswerInv
<1>2. /\ UNCHANGED call /\ DOMAIN ans' = Request
      /\ \A q \in Request \ {r} : pc'[q] = pc[q] /\ ans'[q] = ans[q]
  BY <1>1 DEF Answer, Goto
<1>3. ASSUME NEW q \in Request \ {r} PROVE Told(q)'
  BY <1>1, <1>2, OthersStayTold
<1>4. Told(r)'
  <2>1. keep[r] = None /\ work[r].findings = <<>> /\ ans[r] = 0
    BY <1>1 DEF Told, Kept, Found
  <2>2. /\ pc'[r] \notin {"reviewing", "summary"}
        /\ pc'[r] # "ended" => ans'[r] = 0
        /\ ~(ans'[r] = 201 /\ call[r].op = "users_create")
    BY <1>1, <2>1 DEF Answer, Goto
  <2>3. Kept(r)' /\ Made(r)'
    BY <1>2, <2>1, <2>2 DEF Kept, Made
  <2>4. Found(r)'
    BY <1>1, <2>1, <2>2 DEF Told, Found
  <2>. QED BY <2>2, <2>3, <2>4 DEF Told
<1>. QED BY <1>1, <1>2, <1>3, <1>4 DEF AnswerInv

-----------------------------------------------------------------------------
\* What the steps do to the documents: an analysis is stored, never removed.
LEMMA AnalysedStays ==
  ASSUME NoneIsNoRow, OwnInv, NEW d, NEW a, a # None, docs' = Analysed(d, a)
  PROVE  AnalysesStay /\ (d \in Doc /\ docs[d] # None => Done(d)')
<1>1. DOMAIN docs = Doc
  BY DEF OwnInv, RowInv
<1>2. CASE d \notin Doc \/ ~Live(docs[d])
  <2>1. \A e \in Doc : docs'[e] = docs[e]
    BY <1>1, <1>2 DEF Analysed
  <2>2. AnalysesStay
    BY <2>1 DEF AnalysesStay, Done
  <2>3. d \in Doc /\ docs[d] # None => Done(d)'
    BY <1>2, <2>1 DEF Done, Live
  <2>. QED BY <2>2, <2>3
<1>3. CASE d \in Doc /\ Live(docs[d])
  <2>1. DOMAIN docs[d] = DocumentColumns
    BY <1>3 DEF OwnInv, RowInv
  <2>2. docs'[d] = [docs[d] EXCEPT !.analysis = a]
    BY <1>1, <1>3 DEF Analysed
  <2>3. docs'[d].analysis = a /\ DOMAIN docs'[d] = DocumentColumns
    BY <2>1, <2>2 DEF DocumentColumns
  <2>4. docs'[d] # None
    BY <2>3 DEF NoneIsNoRow
  <2>5. \A e \in Doc : e # d => docs'[e] = docs[e]
    BY <1>1, <1>3 DEF Analysed
  <2>6. Done(d)'
    BY <1>3, <2>3, <2>4 DEF Done
  <2>. QED BY <2>5, <2>6 DEF AnalysesStay, Done
<1>. QED BY <1>2, <1>3

LEMMA InsertedStays ==
  ASSUME OwnInv, NEW r \in Request, NEW kind, NEW clauses, NEW code,
         AddDocument(r, kind, clauses, code)
  PROVE  AnalysesStay
<1>1. CASE UNCHANGED docs
  BY <1>1 DEF AnalysesStay, Done
<1>2. CASE docs' # docs
  <2>1. PICK d \in Doc : docs[d] = None /\ \A e \in Doc : e # d => docs'[e] = docs[e]
    BY <1>2 DEF AddDocument, IsNext, OwnInv, RowInv
  <2>. QED BY <2>1 DEF AnalysesStay, Done
<1>. QED BY <1>1, <1>2

LEMMA DocsLeft ==
  ASSUME UNCHANGED docs
  PROVE  AnalysesStay
BY DEF AnalysesStay, Done

LEMMA AnalysesAreRecords ==
  ASSUME NoneIsNoAnalysis, NEW r
  PROVE  Review(r) # None /\ [summary |-> "text", by |-> r] # None
BY DEF NoneIsNoAnalysis, Review

\* No route of the case files removes an analysis from a document.
LEMMA CaseAnalysesStay ==
  ASSUME NoneIsNoRow, NoneIsNoAnalysis, OwnInv, NEW r \in Request, CaseStep(r)
  PROVE  AnalysesStay
<1>1. CASE UNCHANGED docs
  BY <1>1, DocsLeft
<1>2. CASE \/ CasesList(r) \/ CasesCreate(r) \/ RequireCase(r) \/ CasesGet(r)
           \/ UploadRefused(r) \/ UploadText(r) \/ RequireDocument(r)
           \/ ReviewClause(r) \/ ReviewSummary(r) \/ ResumeDocument(r)
           \/ ContextBlock(r) \/ StreamEnds(r) \/ DeadlinesCreate(r)
           \/ DeadlinesChange(r)
  <2>1. UNCHANGED docs
    BY <1>2 DEF CasesList, CasesCreate, RequireCase, CasesGet, UploadRefused,
                UploadText, RequireDocument, ReviewClause, ReviewSummary,
                ResumeDocument, ContextBlock, StreamEnds, DeadlinesCreate,
                DeadlinesChange, caseVars, rowVars
  <2>. QED BY <1>1, <2>1
<1>3. CASE CasesDelete(r)
  <2>1. UNCHANGED docs \/ docs' = DocsAfter(call[r].case)
    BY <1>3 DEF CasesDelete, rowVars
  <2>2. ASSUME docs' = DocsAfter(call[r].case) PROVE AnalysesStay
    BY <2>2, CaseFileAssumption DEF AnalysesStay, Done, DocsAfter
  <2>. QED BY <1>1, <2>1, <2>2
<1>4. CASE UploadInsert(r)
  BY <1>4, InsertedStays DEF UploadInsert
<1>5. CASE ToolWrite(r)
  BY <1>1, <1>5, InsertedStays DEF ToolWrite
<1>6. CASE DocumentsDelete(r)
  <2>1. UNCHANGED docs \/ docs' = [docs EXCEPT ![call[r].doc] = Gone]
    BY <1>6 DEF DocumentsDelete
  <2>2. ASSUME docs' = [docs EXCEPT ![call[r].doc] = Gone] PROVE AnalysesStay
    BY <2>2, CaseFileAssumption DEF AnalysesStay, Done, OwnInv, RowInv
  <2>. QED BY <1>1, <2>1, <2>2
<1>7. CASE ReviewStore(r)
  BY <1>1, <1>7, AnalysedStays, AnalysesAreRecords DEF ReviewStore
<1>8. CASE AgentFinal(r)
  BY <1>1, <1>8, AnalysedStays, AnalysesAreRecords DEF AgentFinal
<1>. QED BY <1>2, <1>3, <1>4, <1>5, <1>6, <1>7, <1>8 DEF CaseStep

-----------------------------------------------------------------------------
\* The steps of a case route that hold on to something.  Behind each is what
\* the request has got hold of and what it is answered.
Moved(r) ==
  /\ UNCHANGED <<users, call>>
  /\ DOMAIN ans' = Request /\ DOMAIN work' = Request
  /\ \A q \in Request \ {r} :
       UNCHANGED <<pc[q], ans[q], keep[q], work[q]>>

LEMMA MovedKeeps ==
  ASSUME AnswerInv, AnalysesStay, NEW r \in Request, Moved(r), Told(r)'
  PROVE  AnswerInv'
<1>1. ASSUME NEW q \in Request \ {r} PROVE Told(q)'
  <2>1. AccountsStay /\ Told(q) /\ UNCHANGED <<call[q], pc[q], ans[q], keep[q], work[q]>>
    BY DEF AccountsStay, Moved, AnswerInv
  <2>. QED BY <2>1, OthersStayTold
<1>2. \A q \in Request : Told(q)'
  BY <1>1
<1>. QED BY <1>2 DEF AnswerInv, Moved

LEMMA RequireDocumentTold ==
  ASSUME OwnInv, AnswerInv, AnalysesStay, NEW r \in Request, RequireDocument(r)
  PROVE  AnswerInv'
<1>1. /\ DOMAIN pc = Request /\ DOMAIN ans = Request /\ DOMAIN work = Request
      /\ DOMAIN keep = Request /\ Told(r) /\ pc[r] = "owned"
      /\ UNCHANGED users /\ users \in [Name -> Row \cup {None}]
  BY DEF OwnInv, Typed, AnswerInv, RequireDocument, quiet, accountVars
<1>2. call[r].op \in OnDocument /\ call[r].doc \in Doc
  BY <1>1, CallAssumption DEF RequireDocument, OwnInv, Gate, InFlight
<1>3. keep[r] = None /\ work[r].findings = <<>> /\ ans[r] = 0
  BY <1>1 DEF Told, Kept, Found
<1>4. CASE UNCHANGED <<keep, work>> /\ \E l : Answer(r, l) /\ l # 201
  BY <1>1, <1>4, EmptyHanded DEF AccountsStay
<1>5. CASE /\ keep' = [keep EXCEPT ![r] = call[r].doc]
           /\ Goto(r, "running") /\ UNCHANGED work
  <2>1. Moved(r) /\ pc'[r] = "running" /\ keep'[r] = call[r].doc /\ ans'[r] = 0
    BY <1>1, <1>3, <1>5 DEF Goto, Moved
  <2>2. Told(r)'
    BY <1>1, <1>2, <1>3, <1>5, <2>1 DEF Told, Kept, Found, Made
  <2>. QED BY <2>1, <2>2, MovedKeeps
<1>6. CASE /\ work' = [work EXCEPT ![r].clauses = docs[call[r].doc].clauses]
           /\ call[r].op = "documents_review"
           /\ Goto(r, "reviewing") /\ UNCHANGED keep
  <2>1. Moved(r) /\ pc'[r] = "reviewing" /\ keep'[r] = None /\ ans'[r] = 0
    BY <1>1, <1>3, <1>6 DEF Goto, Moved
  <2>2. /\ DOMAIN work'[r] = DOMAIN work[r] /\ work'[r].findings = <<>>
        /\ work'[r].next = work[r].next
    BY <1>1, <1>3, <1>6 DEF Told, Found
  <2>3. Told(r)'
    BY <1>1, <1>2, <1>6, <2>1, <2>2 DEF Told, Kept, Found, Made, Goto
  <2>. QED BY <2>1, <2>3, MovedKeeps
<1>. QED BY <1>4, <1>5, <1>6 DEF RequireDocument

LEMMA ReviewTold ==
  ASSUME NoneIsNoRow, NoneIsNoAnalysis, OwnInv, AnswerInv, AnalysesStay,
         NEW r \in Request,
         ReviewClause(r) \/ ReviewSummary(r) \/ ReviewStore(r)
  PROVE  AnswerInv'
<1>1. /\ DOMAIN pc = Request /\ DOMAIN ans = Request /\ DOMAIN work = Request
      /\ Told(r) /\ pc[r] \in {"reviewing", "summary"} /\ UNCHANGED <<users, keep>>
  BY DEF OwnInv, Typed, AnswerInv, ReviewClause, ReviewSummary, ReviewStore,
         quiet, accountVars, caseVars, At
<1>2. /\ keep[r] = None /\ ans[r] = 0 /\ call[r].op = "documents_review"
      /\ call[r].doc \in Doc
  BY <1>1 DEF Told, Kept, Found
<1>3. CASE ReviewClause(r)
  <2>1. UNCHANGED requestVars /\ pc[r] = "reviewing"
    BY <1>3 DEF ReviewClause, At
  <2>2. Moved(r)
    BY <1>1, <1>3, <2>1 DEF ReviewClause, Moved, requestVars
  <2>3. RiskyOf(work[r].clauses) # <<>>
    <3>1. work[r].next <= Len(RiskyOf(work[r].clauses)) /\ work[r].next \in Nat \ {0}
      BY <1>1, <1>3 DEF ReviewClause, Told, Found
    <3>2. Len(<<>>) = 0
      OBVIOUS
    <3>. QED BY <3>1, <3>2
  <2>4. /\ DOMAIN work'[r] = DOMAIN work[r] /\ work'[r].next = work[r].next + 1
        /\ work'[r].clauses = work[r].clauses
    BY <1>1, <1>3 DEF ReviewClause, Told, Found
  <2>5. Found(r)'
    BY <1>1, <1>2, <2>1, <2>3, <2>4 DEF Told, Found, requestVars
  <2>6. Told(r)'
    BY <1>1, <1>2, <2>1, <2>5 DEF Told, Kept, Made, requestVars
  <2>. QED BY <2>2, <2>6, MovedKeeps
<1>4. CASE ReviewSummary(r)
  <2>1. /\ UNCHANGED <<call, work, docs>> /\ pc[r] = "reviewing"
        /\ \/ RiskyOf(work[r].clauses) = <<>> /\ pc'[r] = "ended"
           \/ pc'[r] = "summary" /\ ans'[r] = 0
    BY <1>1, <1>2, <1>4 DEF ReviewSummary, caseVars, Answer, Goto, At
  <2>2. Moved(r)
    BY <1>1, <1>4, <2>1 DEF ReviewSummary, Moved, Answer, Goto
  <2>3. Told(r)'
    BY <1>1, <1>2, <2>1 DEF Told, Kept, Found, Made
  <2>. QED BY <2>2, <2>3, MovedKeeps
<1>5. CASE ReviewStore(r)
  <2>1. UNCHANGED <<call, work>> /\ pc'[r] = "ended"
    BY <1>1, <1>5 DEF ReviewStore, Answer
  <2>2. Moved(r)
    BY <1>1, <1>5, <2>1 DEF ReviewStore, Moved, Answer
  <2>3. docs[call[r].doc] # None
    BY <1>1, <1>2 DEF OwnInv, Gate, Holds
  <2>4. ans'[r] = 200 => Done(call[r].doc)'
    <3>1. CASE docs' = Analysed(call[r].doc, Review(r))
      <4>1. docs[call[r].doc] # None => Done(call[r].doc)'
        BY <1>2, <2>1, <3>1, AnalysedStays, AnalysesAreRecords DEF Done
      <4>. QED BY <2>3, <4>1
    <3>2. CASE Answer(r, 299)
      BY <1>1, <3>2 DEF Answer
    <3>. QED BY <1>5, <3>1, <3>2 DEF ReviewStore
  <2>5. Told(r)'
    BY <1>1, <1>2, <2>1, <2>4 DEF Told, Kept, Found, Made
  <2>. QED BY <2>2, <2>5, MovedKeeps
<1>. QED BY <1>3, <1>4, <1>5

LEMMA RunTold ==
  ASSUME NoneIsNoRow, NoneIsNoAnalysis, OwnInv, AnswerInv, AnalysesStay,
         NEW r \in Request,
         ResumeDocument(r) \/ ToolWrite(r) \/ AgentFinal(r) \/ StreamEnds(r)
  PROVE  AnswerInv'
<1>1. /\ DOMAIN pc = Request /\ DOMAIN ans = Request /\ DOMAIN work = Request
      /\ DOMAIN keep = Request /\ Told(r) /\ UNCHANGED <<users, work>>
      /\ pc[r] \notin {"new", "open", "ended"}
  BY DEF OwnInv, Typed, AnswerInv, ResumeDocument, ToolWrite, AgentFinal,
         StreamEnds, quiet, accountVars, caseVars, At
<1>2. ans[r] = 0
  BY <1>1 DEF Told
<1>3. CASE ResumeDocument(r)
  <2>1. /\ call[r].op = "case_resume" /\ call[r].doc \in Doc \cup {None}
        /\ pc[r] = "owned"
    BY <1>1, <1>3, CallAssumption DEF ResumeDocument, At, OwnInv, Gate, InFlight
  <2>2. work[r].findings = <<>> /\ keep[r] = None
    BY <1>1, <2>1 DEF Told, Found, Kept
  <2>3. /\ UNCHANGED <<ans, call>> /\ pc'[r] \in {"running", "tool"}
        /\ keep'[r] # None => keep'[r] \in Doc
    BY <1>1, <1>3, <2>1, <2>2 DEF ResumeDocument, Goto
  <2>4. Moved(r)
    BY <1>1, <1>3 DEF ResumeDocument, Moved, Goto
  <2>5. Told(r)'
    BY <1>1, <1>2, <2>2, <2>3 DEF Told, Kept, Found, Made
  <2>. QED BY <2>4, <2>5, MovedKeeps
<1>4. CASE ToolWrite(r)
  <2>1. /\ UNCHANGED <<keep, call>> /\ call[r].op = "case_resume" /\ pc[r] = "tool"
        /\ (Goto(r, "running") \/ Answer(r, 500))
    BY <1>4 DEF ToolWrite, AddDocument, AddDeadline, Proceed, At, Goto, Answer
  <2>2. work[r].findings = <<>>
    BY <1>1, <2>1 DEF Told, Found
  <2>3. /\ Moved(r)
        /\ \/ pc'[r] = "running" /\ ans'[r] = 0
           \/ pc'[r] = "ended" /\ ans'[r] = 500
    BY <1>1, <1>2, <2>1 DEF Moved, Goto, Answer
  <2>4. Told(r)'
    BY <1>1, <2>1, <2>2, <2>3 DEF Told, Kept, Found, Made
  <2>. QED BY <2>3, <2>4, MovedKeeps
<1>5. CASE AgentFinal(r)
  <2>1. /\ UNCHANGED <<keep, call>> /\ pc[r] = "running" /\ pc'[r] = "ended"
        /\ ans'[r] \in {200, 299} /\ Moved(r)
    BY <1>1, <1>5 DEF AgentFinal, Answer, Moved
  <2>2. work[r].findings = <<>> /\ (keep[r] # None => keep[r] \in Doc)
    BY <1>1, <2>1 DEF Told, Found, Kept
  <2>3. keep[r] # None /\ ans'[r] = 200 => Done(keep[r])'
    <3>1. CASE keep[r] # None /\ docs' = Analysed(keep[r], [summary |-> "text", by |-> r])
      <4>1. docs[keep[r]] # None
        BY <2>2, <3>1 DEF OwnInv, Gate, Holds
      <4>2. docs[keep[r]] # None => Done(keep[r])'
        <5>. DEFINE d == keep[r]
        <5>1. d \in Doc /\ docs' = Analysed(d, [summary |-> "text", by |-> r])
          BY <2>2, <3>1
        <5>2. d' = d
          BY <2>1
        <5>. HIDE DEF d
        <5>3. docs[d] # None => Done(d)'
          BY <5>1, <5>2, AnalysedStays, AnalysesAreRecords DEF Done
        <5>. QED BY <5>3 DEF d
      <4>. QED BY <4>1, <4>2
    <3>2. CASE keep[r] = None \/ Answer(r, 299)
      BY <1>1, <3>2 DEF Answer
    <3>. QED BY <1>5, <3>1, <3>2 DEF AgentFinal
  <2>4. Told(r)'
    BY <1>1, <2>1, <2>2, <2>3 DEF Told, Kept, Found, Made
  <2>. QED BY <2>1, <2>4, MovedKeeps
<1>6. CASE StreamEnds(r)
  <2>1. /\ UNCHANGED <<keep, call>> /\ pc'[r] = "ended" /\ ans'[r] = 298 /\ Moved(r)
    BY <1>1, <1>6 DEF StreamEnds, Answer, Moved, caseVars
  <2>2. Told(r)'
    BY <1>1, <2>1 DEF Told, Kept, Found, Made
  <2>. QED BY <2>1, <2>2, MovedKeeps
<1>. QED BY <1>3, <1>4, <1>5, <1>6

\* Every step of a case route.
LEMMA CaseTold ==
  ASSUME NoneIsNoRow, NoneIsNoAnalysis, OwnInv, AnswerInv,
         NEW r \in Request, CaseStep(r)
  PROVE  AnswerInv'
<1>1. /\ AnalysesStay /\ UNCHANGED users /\ AccountsStay
      /\ users' \in [Name -> Row \cup {None}]
  <2>1. UNCHANGED users
    BY CaseFrame DEF OwnInv, Typed, Frame
  <2>. QED BY <2>1, CaseAnalysesStay DEF AccountsStay, AnswerInv
<1>2. CASE CasesList(r) \/ CasesCreate(r) \/ CasesDelete(r) \/ RequireCase(r)
  <2>1. /\ pc[r] = "open" /\ UNCHANGED <<keep, work>>
        /\ call[r].op # "users_create"
    BY <1>2 DEF CasesList, CasesCreate, CasesDelete, RequireCase, At, Scoped
  <2>2. \E l : Answer(r, l) \/ (Goto(r, l) /\ l = "owned")
    BY <1>2 DEF CasesList, CasesCreate, CasesDelete, RequireCase
  <2>. QED BY <1>1, <2>1, <2>2, EmptyHanded
<1>3. CASE CasesGet(r) \/ ContextBlock(r)
  <2>1. /\ pc[r] \in {"owned", "documents_listed", "block", "block_documents"}
        /\ UNCHANGED <<keep, work>> /\ call[r].op # "users_create"
    BY <1>3 DEF CasesGet, ContextBlock
  <2>2. \E l : Answer(r, l) \/ (Goto(r, l) /\ l \notin {"reviewing", "summary", "ended"})
    BY <1>3 DEF CasesGet, ContextBlock
  <2>. QED BY <1>1, <2>1, <2>2, EmptyHanded
<1>4. CASE \/ UploadRefused(r) \/ UploadText(r) \/ UploadInsert(r)
           \/ DocumentsDelete(r) \/ DeadlinesCreate(r) \/ DeadlinesChange(r)
  <2>1. /\ pc[r] \in {"owned", "insert"} /\ UNCHANGED <<keep, work>>
        /\ call[r].op # "users_create"
    BY <1>4 DEF UploadRefused, UploadText, UploadInsert, DocumentsDelete,
                DeadlinesCreate, DeadlinesChange, At, caseVars
  <2>2. \E l : Answer(r, l) \/ (Goto(r, l) /\ l \in {"insert", "running"})
    BY <1>4 DEF UploadRefused, UploadText, UploadInsert, DocumentsDelete,
                DeadlinesCreate, DeadlinesChange, AddDocument, AddDeadline, Proceed
  <2>. QED BY <1>1, <2>1, <2>2, EmptyHanded
<1>. QED
  BY <1>1, <1>2, <1>3, <1>4, RequireDocumentTold, ReviewTold, RunTold
  DEF CaseStep

-----------------------------------------------------------------------------
\* The routes of accounts: only an insert answers 201 to users_create, and
\* only when the row is its own.
LEMMA InsertTold ==
  ASSUME OwnInv, AnswerInv, UNCHANGED caseVars, NEW r \in Request, InsertUser(r)
  PROVE  AnswerInv'
<1>1. /\ DOMAIN pc = Request /\ DOMAIN ans = Request /\ Told(r)
      /\ users \in [Name -> Row \cup {None}] /\ pc[r] = "insert"
      /\ UNCHANGED <<docs, keep, work, call>>
  BY DEF OwnInv, Typed, AnswerInv, InsertUser, At, Answer, caseVars
<1>2. /\ call[r].op = "users_create" /\ call[r].name \in Name
      /\ call[r].role \in {"user", "admin"}
  BY <1>1, CallAssumption DEF InsertUser, At, OwnInv, Gate, InFlight
<1>3. NewRow(r) \in Row /\ NewRow(r) # None /\ NewRow(r).by = r
  <2>1. NewRow(r) = [role |-> call[r].role, active |-> TRUE, by |-> r]
    BY DEF NewRow
  <2>2. NewRow(r) \in Row /\ NewRow(r).by = r
    BY <1>2, <2>1 DEF Row
  <2>. QED BY <2>2, RowAssumption
<1>4. /\ users' \in [Name -> Row \cup {None}] /\ AccountsStay
      /\ ans'[r] = 201 => users'[call[r].name] = NewRow(r)
  <2>. HIDE DEF NewRow
  <2>1. users' = Inserted(r)
    BY DEF InsertUser
  <2>2. users' \in [Name -> Row \cup {None}]
    BY <1>1, <1>2, <1>3, <2>1 DEF Inserted
  <2>3. AccountsStay
    BY <1>1, <1>2, <2>1 DEF Inserted, AccountsStay
  <2>4. ans'[r] = 201 => users'[call[r].name] = NewRow(r)
    BY <1>1, <2>1 DEF InsertUser, Answer
  <2>. QED BY <2>2, <2>3, <2>4
<1>5. /\ AnalysesStay /\ pc'[r] = "ended"
      /\ ans' = [ans EXCEPT ![r] = ans'[r]]
      /\ ans'[r] \in {201, 500}
      /\ \A q \in Request \ {r} : pc'[q] = pc[q] /\ ans'[q] = ans[q]
  BY <1>1, DocsLeft DEF InsertUser, Answer
<1>6. ASSUME NEW q \in Request \ {r} PROVE Told(q)'
  BY <1>1, <1>4, <1>5, <1>6, OthersStayTold DEF AnswerInv
<1>7. Told(r)'
  BY <1>1, <1>2, <1>3, <1>4, <1>5 DEF Told, Kept, Found, Made
<1>8. \A q \in Request : Told(q)'
  BY <1>6, <1>7
<1>. QED BY <1>1, <1>4, <1>5, <1>8 DEF AnswerInv

LEMMA AccountTold ==
  ASSUME OwnInv, AnswerInv, UNCHANGED caseVars, NEW r \in Request,
         AccountStep(r) \/ ChatStep(r)
  PROVE  AnswerInv'
<1>1. /\ DOMAIN pc = Request /\ UNCHANGED <<docs, keep, work>> /\ AnalysesStay
      /\ users \in [Name -> Row \cup {None}]
  BY DocsLeft DEF OwnInv, Typed, AnswerInv, caseVars
<1>2. CASE InsertUser(r)
  BY <1>2, InsertTold
<1>3. CASE LookupName(r) \/ EvalRun(r) \/ PollStatus(r) \/ PollResults(r)
  <2>1. UNCHANGED users /\ pc[r] \in {"open", "polled"}
    BY <1>3 DEF LookupName, EvalRun, PollStatus, PollResults, quiet,
                accountVars, At
  <2>2. \E l : (Answer(r, l) /\ l # 201) \/ (Goto(r, l) /\ l \in {"insert", "polled"})
    BY <1>3 DEF LookupName, EvalRun, PollStatus, PollResults
  <2>. QED BY <1>1, <2>1, <2>2, EmptyHanded DEF AccountsStay
<1>4. CASE SetActive(r)
  <2>1. pc[r] = "open" /\ \E l : Answer(r, l) /\ l # 201
    BY <1>4 DEF SetActive, At
  <2>2. /\ call[r].name \in Name /\ call[r].active \in BOOLEAN
    BY <1>4, <2>1, CallAssumption DEF SetActive, At, OwnInv, Gate, InFlight
  <2>3. users' \in [Name -> Row \cup {None}] /\ AccountsStay
    <3>1. CASE UNCHANGED users
      BY <1>1, <3>1 DEF AccountsStay
    <3>2. CASE /\ users[call[r].name] # None
               /\ users' = [users EXCEPT ![call[r].name].active = call[r].active]
      <4>1. users[call[r].name] \in Row
        BY <1>1, <2>2, <3>2
      <4>2. /\ users'[call[r].name] = [users[call[r].name] EXCEPT !.active = call[r].active]
            /\ \A u \in Name : u # call[r].name => users'[u] = users[u]
        BY <1>1, <2>2, <3>2
      <4>3. users'[call[r].name] \in Row /\ users'[call[r].name].by = users[call[r].name].by
        BY <2>2, <4>1, <4>2 DEF Row
      <4>4. users' \in [Name -> Row \cup {None}]
        BY <1>1, <2>2, <3>2, <4>2, <4>3
      <4>. QED BY <4>2, <4>3, <4>4, RowAssumption DEF AccountsStay
    <3>. QED BY <1>4, <3>1, <3>2 DEF SetActive
  <2>. QED BY <1>1, <2>1, <2>3, EmptyHanded
<1>5. CASE EvalResult(r) \/ EvalStatus(r)
  <2>1. UNCHANGED <<users, pc, ans, call>>
    BY <1>5 DEF EvalResult, EvalStatus, accountVars, requestVars
  <2>2. \A q \in Request : Told(q)'
    BY <1>1, <2>1, OthersStayTold DEF AccountsStay, AnswerInv
  <2>. QED BY <1>1, <2>1, <2>2 DEF AnswerInv
<1>6. CASE ChatStep(r)
  <2>1. UNCHANGED users /\ pc[r] \in {"open", "touch", "turn", "history"}
    BY <1>6 DEF ChatStep, ChatClaim, TouchThread, ChatTurn, OwnsThread,
                ThreadMessages, RenameThread, ListThreads, DeleteThread, quiet,
                accountVars, At
  <2>2. \E l : (Answer(r, l) /\ l # 201)
            \/ (Goto(r, l) /\ l \in {"touch", "turn", "history"})
    BY <1>6 DEF ChatStep, ChatClaim, TouchThread, ChatTurn, OwnsThread,
                ThreadMessages, RenameThread, ListThreads, DeleteThread
  <2>. QED BY <1>1, <2>1, <2>2, EmptyHanded DEF AccountsStay
<1>. QED BY <1>2, <1>3, <1>4, <1>5, <1>6 DEF AccountStep

\* A request that arrives or logs in has nothing in hand yet.
LEMMA ArrivalTold ==
  ASSUME OwnInv, AnswerInv, UNCHANGED caseVars, NEW r \in Request,
         \/ \E u, c : Arrive(r, u, c)
         \/ \E u, right : Login(r, u, right)
  PROVE  AnswerInv'
<1>1. /\ DOMAIN pc = Request /\ DOMAIN ans = Request /\ DOMAIN work = Request
      /\ DOMAIN call = Request /\ \A q \in Request : Told(q)
      /\ UNCHANGED <<docs, keep, work, users>> /\ AnalysesStay
      /\ users \in [Name -> Row \cup {None}] /\ pc[r] = "new"
  BY DocsLeft DEF OwnInv, Typed, AnswerInv, Arrive, Login, caseVars, quiet, accountVars
<1>2. /\ pc'[r] \in {"open", "ended"} /\ ans'[r] \in {0, 200, 401, 403, 429}
      /\ pc'[r] = "open" => ans'[r] = ans[r]
      /\ DOMAIN ans' = Request
      /\ \A q \in Request \ {r} : UNCHANGED <<pc[q], ans[q], call[q]>>
  <2>1. ans[r] = 0
    BY <1>1 DEF Told
  <2>2. ASSUME NEW u, NEW c, Arrive(r, u, c) PROVE <1>2
    BY <1>1, <2>1, <2>2 DEF Arrive, Refusal
  <2>3. ASSUME NEW u, NEW right, Login(r, u, right) PROVE <1>2
    BY <1>1, <2>3 DEF Login
  <2>. QED BY <2>2, <2>3
<1>3. ASSUME NEW q \in Request \ {r} PROVE Told(q)'
  BY <1>1, <1>2, OthersStayTold DEF AccountsStay
<1>4. Told(r)'
  <2>1. keep[r] = None /\ work[r].findings = <<>> /\ ans[r] = 0
    BY <1>1 DEF Told, Kept, Found
  <2>. QED BY <1>1, <1>2, <2>1 DEF Told, Kept, Found, Made
<1>5. \A q \in Request : Told(q)'
  BY <1>3, <1>4
<1>. QED BY <1>1, <1>2, <1>5 DEF AnswerInv

\* The predefined administrator is only ever added, and a crash answers
\* nothing.
LEMMA ProcessTold ==
  ASSUME OwnInv, AnswerInv, UNCHANGED caseVars, Start \/ Crash
  PROVE  AnswerInv'
<1>1. /\ DOMAIN pc = Request /\ UNCHANGED <<docs, keep, work, call, ans>>
      /\ AnalysesStay /\ users \in [Name -> Row \cup {None}]
      /\ \A q \in Request : pc'[q] = pc[q] \/ pc'[q] = "ended"
  BY DocsLeft DEF OwnInv, Typed, AnswerInv, Start, Crash, caseVars, requestVars
<1>2. users' \in [Name -> Row \cup {None}] /\ AccountsStay
  <2>1. CASE UNCHANGED users
    BY <1>1, <2>1 DEF AccountsStay
  <2>2. CASE /\ users[Predefined] = None
             /\ users' = [users EXCEPT ![Predefined] =
                            [role |-> "admin", active |-> TRUE, by |-> None]]
    <3>1. [role |-> "admin", active |-> TRUE, by |-> None] \in Row
      BY DEF Row
    <3>. QED BY <1>1, <2>2, <3>1 DEF AccountsStay
  <2>. QED BY <2>1, <2>2 DEF Start, Crash, accountVars
<1>3. \A q \in Request : Told(q)'
  BY <1>1, <1>2, OthersStayTold DEF AnswerInv
<1>. QED BY <1>1, <1>2, <1>3 DEF AnswerInv

LEMMA AnswerInit == Init => AnswerInv
<1>. SUFFICES ASSUME Init PROVE AnswerInv
  OBVIOUS
<1>1. users \in [Name -> Row \cup {None}]
  BY ScenarioAssumption DEF Init, Consistent
<1>2. ASSUME NEW r \in Request PROVE Told(r)
  BY DEF Told, Kept, Found, Made, Init, SessionsInit, NoWork
<1>. QED BY <1>1, <1>2 DEF AnswerInv, Init, SessionsInit

\* What a request holds and was told stays as the invariant says.
THEOREM AnswerInvariant ==
  ASSUME NoneIsNoRow, NoneIsNoAnalysis
  PROVE  Spec => [](OwnInv /\ AnswerInv)
<1>1. AnswerInv /\ OwnInv /\ [Next]_vars => AnswerInv'
  <2>. SUFFICES ASSUME AnswerInv, OwnInv, [Next]_vars PROVE AnswerInv'
    OBVIOUS
  <2>1. CASE (Start \/ Crash) /\ UNCHANGED <<caseVars, chatVars, calls>>
    BY <2>1, ProcessTold
  <2>2. CASE \E r \in Request, m \in calls :
               /\ m[2].op # "login" /\ Arrive(r, m[1], m[2])
               /\ UNCHANGED <<caseVars, chatVars, calls>>
    BY <2>2, ArrivalTold
  <2>3. CASE \E r \in Request, m \in calls, right \in BOOLEAN :
               /\ m[2].op = "login" /\ Login(r, m[1], right)
               /\ UNCHANGED <<caseVars, chatVars, calls>>
    BY <2>3, ArrivalTold
  <2>4. CASE \E r \in Request : AccountStep(r) /\ UNCHANGED <<caseVars, chatVars, calls>>
    BY <2>4, AccountTold
  <2>5. CASE \E r \in Request : CaseStep(r) /\ UNCHANGED <<chatVars, calls>>
    BY <2>5, CaseTold
  <2>6. CASE \E r \in Request : ChatStep(r) /\ UNCHANGED <<caseVars, calls>>
    BY <2>6, AccountTold
  <2>7. CASE UNCHANGED vars
    BY <2>7 DEF AnswerInv, Told, Kept, Found, Made, Done, vars, sessionVars,
                accountVars, requestVars, caseVars
  <2>. QED BY <2>1, <2>2, <2>3, <2>4, <2>5, <2>6, <2>7 DEF Next, Quiescent
<1>2. Spec => []OwnInv
  BY OwnInvariant
<1>3. Init => AnswerInv
  BY AnswerInit
<1>. QED BY <1>1, <1>2, <1>3, PTL DEF Spec

\* AnswersHold (the routes of documents and accounts): an analysis or a review
\* that a request was told is done is in the database as long as its document
\* is, and the account belongs to the request that was told it had made it.
THEOREM AnswersAreKept ==
  ASSUME NoneIsNoRow, NoneIsNoAnalysis
  PROVE  Spec => []AnswersHold
<1>1. AnswerInv => AnswersHold
  BY DEF AnswerInv, AnswersHold, Told, Kept, Found, Made, Done
<1>2. Spec => [](OwnInv /\ AnswerInv)
  BY AnswerInvariant
<1>. QED BY <1>1, <1>2, PTL

-----------------------------------------------------------------------------
(* What the columns of the tables hold. *)

Kinds == {"letter", "contract", "draft"}

Statuses == {"open", "done", "missed"}

\* What the handler of r may do to the papers: a document keeps its kind and
\* its text, gets a review or an answer of the agent for its analysis, or is
\* a new one.
PapersBy(r) ==
  \A d \in Doc : Live(docs'[d]) =>
    \/ /\ Live(docs[d])
       /\ docs'[d].kind = docs[d].kind /\ docs'[d].clauses = docs[d].clauses
       /\ \/ docs'[d].analysis = docs[d].analysis
          \/ /\ pc[r] = "summary" /\ d = call[r].doc
             /\ docs'[d].analysis = Review(r)
          \/ /\ pc[r] = "running" /\ keep[r] # None /\ d = keep[r]
             /\ docs'[d].analysis = [summary |-> "text", by |-> r]
    \/ /\ docs[d] = None /\ docs'[d].analysis = None
       /\ docs'[d].kind \in Kinds /\ docs'[d].clauses \in Seq(BOOLEAN)

DuesBy(r) ==
  \A f \in Deadline : Live(deadlines'[f]) =>
    \/ /\ Live(deadlines[f]) /\ deadlines'[f].due = deadlines[f].due
       /\ deadlines'[f].status \in {deadlines[f].status} \cup Statuses
    \/ deadlines'[f].due \in Nat /\ deadlines'[f].status \in Statuses

LEMMA PapersLeft ==
  ASSUME NEW r
  PROVE  /\ UNCHANGED docs => PapersBy(r)
         /\ UNCHANGED deadlines => DuesBy(r)
BY DEF PapersBy, DuesBy

LEMMA PaperInserted ==
  ASSUME OwnInv, NEW r \in Request, NEW kind \in Kinds,
         NEW clauses \in Seq(BOOLEAN), NEW code, AddDocument(r, kind, clauses, code)
  PROVE  PapersBy(r)
<1>. DEFINE row == [case |-> call[r].case, kind |-> kind, clauses |-> clauses,
                    analysis |-> None, by |-> r]
<1>1. CASE UNCHANGED docs
  BY <1>1, PapersLeft
<1>2. CASE \E d \in Doc : IsNext(docs, d) /\ docs' = [docs EXCEPT ![d] = row]
  <2>1. row.kind = kind /\ row.clauses = clauses /\ row.analysis = None
    OBVIOUS
  <2>. HIDE DEF row
  <2>. QED BY <1>2, <2>1 DEF PapersBy, IsNext, OwnInv, RowInv
<1>. QED BY <1>1, <1>2 DEF AddDocument

LEMMA DueInserted ==
  ASSUME OwnInv, NEW r \in Request, NEW due \in Nat, NEW code,
         AddDeadline(r, due, code)
  PROVE  DuesBy(r)
<1>. DEFINE row == [case |-> call[r].case, due |-> due, status |-> "open", by |-> r]
<1>1. CASE UNCHANGED deadlines
  BY <1>1, PapersLeft
<1>2. CASE \E f \in Deadline : IsNext(deadlines, f) /\ deadlines' = [deadlines EXCEPT ![f] = row]
  <2>1. row.due = due /\ row.status = "open"
    OBVIOUS
  <2>. HIDE DEF row
  <2>. QED BY <1>2, <2>1 DEF DuesBy, Statuses, OwnInv, RowInv
<1>. QED BY <1>1, <1>2 DEF AddDeadline

\* An analysis is the only column an update of a document sets.
LEMMA PaperAnalysed ==
  ASSUME OwnInv, NEW d, NEW a, docs' = Analysed(d, a)
  PROVE  \A e \in Doc : Live(docs'[e]) =>
           /\ Live(docs[e])
           /\ docs'[e].kind = docs[e].kind /\ docs'[e].clauses = docs[e].clauses
           /\ docs'[e].analysis = docs[e].analysis
              \/ (e = d /\ docs'[e].analysis = a)
<1>1. DOMAIN docs = Doc
  BY DEF OwnInv, RowInv
<1>2. CASE d \notin Doc \/ ~Live(docs[d])
  BY <1>1, <1>2 DEF Analysed
<1>3. CASE d \in Doc /\ Live(docs[d])
  <2>1. DOMAIN docs[d] = DocumentColumns
    BY <1>3 DEF OwnInv, RowInv
  <2>2. docs'[d] = [docs[d] EXCEPT !.analysis = a]
    BY <1>1, <1>3 DEF Analysed
  <2>3. /\ docs'[d].kind = docs[d].kind /\ docs'[d].clauses = docs[d].clauses
        /\ docs'[d].analysis = a
    BY <2>1, <2>2 DEF DocumentColumns
  <2>4. \A e \in Doc : e # d => docs'[e] = docs[e]
    BY <1>1, <1>3 DEF Analysed
  <2>. QED BY <1>3, <2>3, <2>4
<1>. QED BY <1>2, <1>3

LEMMA PapersDeleted ==
  ASSUME OwnInv, NEW r, CasesDelete(r) \/ DocumentsDelete(r)
  PROVE  PapersBy(r) /\ DuesBy(r)
<1>1. CASE CasesDelete(r)
  <2>1. \/ UNCHANGED <<docs, deadlines>>
        \/ /\ docs' = DocsAfter(call[r].case)
           /\ deadlines' = [f \in Deadline |-> IF DeadlineOf(call[r].case, f)
                              THEN Gone ELSE deadlines[f]]
    BY <1>1 DEF CasesDelete, rowVars
  <2>2. ASSUME docs' = DocsAfter(call[r].case) PROVE PapersBy(r)
    BY <2>2 DEF DocsAfter, PapersBy, Live
  <2>3. ASSUME deadlines' = [f \in Deadline |-> IF DeadlineOf(call[r].case, f)
                               THEN Gone ELSE deadlines[f]]
        PROVE  DuesBy(r)
    BY <2>3 DEF DuesBy, Live
  <2>. QED BY <2>1, <2>2, <2>3, PapersLeft
<1>2. CASE DocumentsDelete(r)
  <2>1. UNCHANGED docs \/ docs' = [docs EXCEPT ![call[r].doc] = Gone]
    BY <1>2 DEF DocumentsDelete
  <2>2. ASSUME docs' = [docs EXCEPT ![call[r].doc] = Gone] PROVE PapersBy(r)
    BY <2>2 DEF PapersBy, Live, OwnInv, RowInv
  <2>. QED BY <1>2, <2>1, <2>2, PapersLeft DEF DocumentsDelete
<1>. QED BY <1>1, <1>2

LEMMA DuesChanged ==
  ASSUME OwnInv, NEW r \in Request, DeadlinesChange(r)
  PROVE  DuesBy(r)
<1>. DEFINE f == call[r].deadline
<1>0. call[r] \in Call /\ DOMAIN deadlines = Deadline
  BY DEF DeadlinesChange, OwnInv, RowInv, Gate, InFlight
<1>1. CASE UNCHANGED deadlines
  BY <1>1, PapersLeft
<1>2. CASE deadlines' = [deadlines EXCEPT ![f] = Gone]
  BY <1>0, <1>2 DEF DuesBy, Live
<1>3. CASE /\ Live(deadlines[f]) /\ call[r].op = "deadlines_set_status"
           /\ deadlines' = [deadlines EXCEPT ![f].status = call[r].status]
  <2>1. call[r].status \in Statuses
    BY <1>0, <1>3, CallAssumption DEF Statuses
  <2>2. \A g \in Deadline : g # f => deadlines'[g] = deadlines[g]
    BY <1>0, <1>3
  <2>3. CASE f \notin Deadline
    BY <2>2, <2>3 DEF DuesBy
  <2>4. CASE f \in Deadline
    <3>1. DOMAIN deadlines[f] = DeadlineColumns
      BY <1>3, <2>4 DEF OwnInv, RowInv
    <3>2. deadlines'[f] = [deadlines[f] EXCEPT !.status = call[r].status]
      BY <1>0, <1>3, <2>4
    <3>3. deadlines'[f].due = deadlines[f].due /\ deadlines'[f].status = call[r].status
      BY <3>1, <3>2 DEF DeadlineColumns
    <3>. QED BY <1>3, <2>1, <2>2, <3>3 DEF DuesBy
  <2>. QED BY <2>3, <2>4
<1>. QED BY <1>1, <1>2, <1>3 DEF DeadlinesChange, DeadlineOf

\* Every route of the case files.
LEMMA CasePapers ==
  ASSUME OwnInv, NEW r \in Request, CaseStep(r)
  PROVE  PapersBy(r) /\ DuesBy(r)
<1>0. InFlight(r) => call[r] \in Call
  BY DEF OwnInv, Gate
<1>1. CASE \/ CasesList(r) \/ CasesCreate(r) \/ RequireCase(r) \/ CasesGet(r)
           \/ UploadRefused(r) \/ UploadText(r) \/ RequireDocument(r)
           \/ ReviewClause(r) \/ ReviewSummary(r) \/ ResumeDocument(r)
           \/ ContextBlock(r) \/ StreamEnds(r)
  <2>1. UNCHANGED <<docs, deadlines>>
    BY <1>1 DEF CasesList, CasesCreate, RequireCase, CasesGet, UploadRefused,
                UploadText, RequireDocument, ReviewClause, ReviewSummary,
                ResumeDocument, ContextBlock, StreamEnds, caseVars, rowVars
  <2>. QED BY <2>1, PapersLeft
<1>2. CASE CasesDelete(r) \/ DocumentsDelete(r)
  BY <1>2, PapersDeleted
<1>3. CASE UploadInsert(r)
  <2>1. call[r].kind \in Kinds /\ call[r].clauses \in Seq(BOOLEAN)
    BY <1>0, <1>3, CallAssumption DEF UploadInsert, At, InFlight, Kinds
  <2>. QED BY <1>3, <2>1, PaperInserted, PapersLeft DEF UploadInsert
<1>4. CASE ToolWrite(r)
  <2>1. CASE call[r].tool = "create_deadline"
    <3>1. call[r].due \in Nat
      BY <1>0, <1>4, <2>1, CallAssumption DEF ToolWrite, At, InFlight
    <3>. QED BY <1>4, <2>1, <3>1, DueInserted, PapersLeft DEF ToolWrite
  <2>2. CASE call[r].tool = "save_draft"
    <3>1. "draft" \in Kinds /\ <<>> \in Seq(BOOLEAN)
      BY DEF Kinds
    <3>. QED BY <1>4, <2>2, <3>1, PaperInserted, PapersLeft DEF ToolWrite
  <2>. QED BY <1>4, <2>1, <2>2 DEF ToolWrite
<1>5. CASE ReviewStore(r)
  <2>1. CASE docs' = Analysed(call[r].doc, Review(r))
    <3>. HIDE DEF Review
    <3>1. PapersBy(r)
      BY <1>5, <2>1, PaperAnalysed DEF PapersBy, ReviewStore, At
    <3>. QED BY <1>5, <3>1, PapersLeft DEF ReviewStore
  <2>. QED BY <1>5, <2>1, PapersLeft DEF ReviewStore
<1>6. CASE AgentFinal(r)
  <2>1. CASE keep[r] # None /\ docs' = Analysed(keep[r], [summary |-> "text", by |-> r])
    <3>1. PapersBy(r)
      BY <1>6, <2>1, PaperAnalysed DEF PapersBy, AgentFinal
    <3>. QED BY <1>6, <3>1, PapersLeft DEF AgentFinal
  <2>. QED BY <1>6, <2>1, PapersLeft DEF AgentFinal
<1>7. CASE DeadlinesCreate(r)
  <2>1. call[r].due \in Nat
    BY <1>0, <1>7, CallAssumption DEF DeadlinesCreate, At, InFlight
  <2>. QED BY <1>7, <2>1, DueInserted, PapersLeft DEF DeadlinesCreate
<1>8. CASE DeadlinesChange(r)
  BY <1>8, DuesChanged, PapersLeft DEF DeadlinesChange
<1>. QED BY <1>1, <1>2, <1>3, <1>4, <1>5, <1>6, <1>7, <1>8 DEF CaseStep

-----------------------------------------------------------------------------
(* Every variable has its type. *)

Jobs == [status : {"idle", "running", "done", "error"},
         results : Request \cup {None}, error : BOOLEAN]

Workers == [Request -> {"none", "computing", "succeeded", "failed"}]

\* The requests, the process and the evaluation.
Places == pc \in [Request -> Labels] /\ ans \in [Request -> Nat]

ControlOK ==
  /\ tokens \subseteq Name /\ up \in BOOLEAN /\ restarts \in 0 .. MaxRestarts
  /\ job \in Jobs /\ worker \in Workers

\* The maps of what the requests hold; OwnInv and AnswerInv bound the values.
HeldOK ==
  /\ facts = [u \in Name |-> facts[u]]
  /\ keep = [r \in Request |-> keep[r]]
  /\ seen = [r \in Request |-> seen[r]]

ColumnsOK ==
  /\ \A d \in Doc : Live(docs[d]) =>
       docs[d].kind \in Kinds /\ docs[d].clauses \in Seq(BOOLEAN)
  /\ \A f \in Deadline : Live(deadlines[f]) =>
       deadlines[f].due \in Nat /\ deadlines[f].status \in Statuses

ChatOK ==
  /\ index \in [Name -> [Thread -> BOOLEAN]]
  /\ spoken \in [Thread -> SUBSET Name] /\ orphaned \subseteq Thread
  /\ shown \in [Request -> SUBSET Name]

StateOK == Places /\ ControlOK /\ HeldOK /\ ColumnsOK /\ ChatOK

\* Wherever a handler goes.
Lands(r) ==
  \E l : \/ Goto(r, l) /\ l \in Labels
         \/ Answer(r, l) /\ l \in Nat

LEMMA LandsKeeps ==
  ASSUME Places, NEW r \in Request, Lands(r)
  PROVE  Places'
<1>1. PICK l : \/ Goto(r, l) /\ l \in Labels
               \/ Answer(r, l) /\ l \in Nat
  BY DEF Lands
<1>2. CASE Goto(r, l) /\ l \in Labels
  BY <1>2 DEF Places, Goto
<1>3. CASE Answer(r, l) /\ l \in Nat
  BY <1>3 DEF Places, Answer, Labels
<1>. QED BY <1>1, <1>2, <1>3

LEMMA CaseLands ==
  ASSUME NEW r \in Request, CaseStep(r)
  PROVE  Lands(r) \/ UNCHANGED <<pc, ans>>
<1>. USE DEF Labels
<1>1. CASE CasesList(r) \/ CasesCreate(r) \/ CasesDelete(r) \/ RequireCase(r)
  BY <1>1 DEF CasesList, CasesCreate, CasesDelete, RequireCase, Lands
<1>2. CASE CasesGet(r) \/ ContextBlock(r)
  BY <1>2 DEF CasesGet, ContextBlock, Lands
<1>3. CASE UploadRefused(r) \/ UploadText(r) \/ DocumentsDelete(r)
  BY <1>3 DEF UploadRefused, UploadText, DocumentsDelete, Lands
<1>4. CASE UploadInsert(r) \/ ToolWrite(r) \/ DeadlinesCreate(r)
  BY <1>4 DEF UploadInsert, ToolWrite, DeadlinesCreate, AddDocument, AddDeadline,
              Proceed, Lands
<1>5. CASE RequireDocument(r)
  BY <1>5 DEF RequireDocument, Lands
<1>6. CASE ReviewClause(r)
  BY <1>6 DEF ReviewClause, requestVars
<1>7. CASE ReviewSummary(r) \/ ReviewStore(r) \/ ResumeDocument(r)
  BY <1>7 DEF ReviewSummary, ReviewStore, ResumeDocument, Lands
<1>8. CASE AgentFinal(r) \/ StreamEnds(r) \/ DeadlinesChange(r)
  BY <1>8 DEF AgentFinal, StreamEnds, DeadlinesChange, Lands
<1>. QED BY <1>1, <1>2, <1>3, <1>4, <1>5, <1>6, <1>7, <1>8 DEF CaseStep

\* A step of a case route leaves the rest of the service alone.
LEMMA CaseQuiet ==
  ASSUME NEW r \in Request, CaseStep(r)
  PROVE  UNCHANGED <<tokens, up, restarts, job, worker>>
BY DEF CaseStep, CasesList, CasesCreate, CasesDelete, RequireCase, CasesGet,
       UploadRefused, UploadText, UploadInsert, DocumentsDelete, RequireDocument,
       ReviewClause, ReviewSummary, ReviewStore, ResumeDocument, ToolWrite,
       ContextBlock, AgentFinal, StreamEnds, DeadlinesCreate, DeadlinesChange,
       quiet, accountVars, jobVars, processVars

LEMMA CaseHeld ==
  ASSUME HeldOK, NEW r \in Request, CaseStep(r)
  PROVE  HeldOK'
<1>1. \/ UNCHANGED facts
      \/ facts' = [facts EXCEPT ![who[r]] = r]
  BY DEF CaseStep, CasesList, CasesCreate, CasesDelete, RequireCase, CasesGet,
         UploadRefused, UploadText, UploadInsert, DocumentsDelete, RequireDocument,
         ReviewClause, ReviewSummary, ReviewStore, ResumeDocument, ToolWrite,
         ContextBlock, AgentFinal, StreamEnds, DeadlinesCreate, DeadlinesChange,
         caseVars
<1>2. \/ UNCHANGED keep
      \/ keep' = [keep EXCEPT ![r] = call[r].doc]
  BY DEF CaseStep, CasesList, CasesCreate, CasesDelete, RequireCase, CasesGet,
         UploadRefused, UploadText, UploadInsert, DocumentsDelete, RequireDocument,
         ReviewClause, ReviewSummary, ReviewStore, ResumeDocument, ToolWrite,
         ContextBlock, AgentFinal, StreamEnds, DeadlinesCreate, DeadlinesChange,
         caseVars
<1>3. UNCHANGED seen \/ \E S : seen' = [seen EXCEPT ![r] = S]
  <2>1. CASE CasesList(r) \/ RequireCase(r)
    BY <2>1 DEF CasesList, RequireCase
  <2>2. CASE CasesGet(r) \/ ContextBlock(r)
    BY <2>2 DEF CasesGet, ContextBlock
  <2>3. CASE RequireDocument(r)
    BY <2>3 DEF RequireDocument
  <2>. QED
    BY <2>1, <2>2, <2>3
    DEF CaseStep, CasesCreate, CasesDelete, UploadRefused, UploadText,
        UploadInsert, DocumentsDelete, ReviewClause, ReviewSummary, ReviewStore,
        ResumeDocument, ToolWrite, AgentFinal, StreamEnds, DeadlinesCreate,
        DeadlinesChange, caseVars
<1>. QED BY <1>1, <1>2, <1>3 DEF HeldOK

LEMMA CaseStateOK ==
  ASSUME OwnInv, StateOK, UNCHANGED chatVars, NEW r \in Request, CaseStep(r)
  PROVE  StateOK'
<1>1. Places'
  BY CaseLands, LandsKeeps DEF StateOK, Places
<1>2. ControlOK'
  BY CaseQuiet DEF StateOK, ControlOK
<1>3. HeldOK'
  BY CaseHeld DEF StateOK
<1>4. ColumnsOK'
  BY CasePapers DEF StateOK, ColumnsOK, PapersBy, DuesBy, Statuses
<1>5. ChatOK'
  BY DEF StateOK, ChatOK, chatVars
<1>. QED BY <1>1, <1>2, <1>3, <1>4, <1>5 DEF StateOK

-----------------------------------------------------------------------------
LEMMA TablesLeft ==
  ASSUME StateOK, UNCHANGED caseVars
  PROVE  HeldOK' /\ ColumnsOK'
BY DEF StateOK, HeldOK, ColumnsOK, caseVars, Live

LEMMA AccountStateOK ==
  ASSUME StateOK, UNCHANGED <<caseVars, chatVars>>, NEW r \in Request,
         AccountStep(r)
  PROVE  StateOK'
<1>1. Places'
  <2>1. Lands(r) \/ UNCHANGED <<pc, ans>>
    BY DEF AccountStep, LookupName, InsertUser, SetActive, EvalRun, EvalResult,
           EvalStatus, PollStatus, PollResults, Lands, Labels, requestVars
  <2>. QED BY <2>1, LandsKeeps DEF StateOK, Places
<1>2. ControlOK'
  <2>1. UNCHANGED <<tokens, up, restarts>>
    BY DEF AccountStep, LookupName, InsertUser, SetActive, EvalRun, EvalResult,
           EvalStatus, PollStatus, PollResults, quiet, accountVars, processVars
  <2>2. job' \in Jobs /\ worker' \in Workers
    <3>0. job \in Jobs /\ worker \in Workers
      BY DEF StateOK, ControlOK
    <3>1. CASE UNCHANGED <<job, worker>>
      BY <3>0, <3>1
    <3>2. CASE EvalRun(r)
      BY <3>0, <3>2 DEF EvalRun, Jobs, Workers
    <3>3. CASE EvalResult(r)
      BY <3>0, <3>3 DEF EvalResult, Jobs, Workers
    <3>4. CASE EvalStatus(r)
      BY <3>0, <3>4 DEF EvalStatus, Jobs, Workers
    <3>. QED
      BY <3>1, <3>2, <3>3, <3>4
      DEF AccountStep, LookupName, InsertUser, SetActive, PollStatus, PollResults,
          quiet, jobVars
  <2>. QED BY <2>1, <2>2 DEF StateOK, ControlOK
<1>3. HeldOK' /\ ColumnsOK'
  BY TablesLeft
<1>4. ChatOK'
  BY DEF StateOK, ChatOK, chatVars
<1>. QED BY <1>1, <1>2, <1>3, <1>4 DEF StateOK

LEMMA ChatStateOK ==
  ASSUME OwnInv, StateOK, UNCHANGED caseVars, NEW r \in Request, ChatStep(r)
  PROVE  StateOK'
<1>1. Places'
  <2>1. Lands(r)
    BY DEF ChatStep, ChatClaim, TouchThread, ChatTurn, OwnsThread,
           ThreadMessages, RenameThread, ListThreads, DeleteThread, Lands, Labels
  <2>. QED BY <2>1, LandsKeeps DEF StateOK
<1>2. ControlOK'
  <2>1. UNCHANGED <<tokens, up, restarts, job, worker>>
    BY DEF ChatStep, ChatClaim, TouchThread, ChatTurn, OwnsThread,
           ThreadMessages, RenameThread, ListThreads, DeleteThread, quiet,
           accountVars, jobVars, processVars
  <2>. QED BY <2>1 DEF StateOK, ControlOK
<1>3. HeldOK' /\ ColumnsOK'
  BY TablesLeft
<1>4. ChatOK'
  <2>0. ChatOK /\ (InFlight(r) => who[r] \in Name /\ call[r] \in Call)
    BY DEF StateOK, OwnInv, Gate
  <2>1. CASE ChatClaim(r) \/ OwnsThread(r) \/ RenameThread(r) \/ ListThreads(r)
    BY <2>0, <2>1 DEF ChatClaim, OwnsThread, RenameThread, ListThreads, chatVars, ChatOK
  <2>2. CASE TouchThread(r)
    <3>1. who[r] \in Name /\ call[r].thread \in Thread
      BY <2>0, <2>2, CallAssumption DEF TouchThread, At, InFlight, OnThread
    <3>2. \/ UNCHANGED index
          \/ index' = [index EXCEPT ![who[r]][call[r].thread] = TRUE]
      BY <2>2 DEF TouchThread
    <3>3. CASE UNCHANGED index
      BY <2>0, <2>2, <3>3 DEF TouchThread, ChatOK
    <3>4. CASE index' = [index EXCEPT ![who[r]][call[r].thread] = TRUE]
      <4>1. index' \in [Name -> [Thread -> BOOLEAN]]
        BY <2>0, <3>1, <3>4 DEF ChatOK
      <4>. QED BY <2>0, <2>2, <4>1 DEF TouchThread, ChatOK
    <3>. QED BY <3>2, <3>3, <3>4
  <2>3. CASE ChatTurn(r)
    <3>1. who[r] \in Name
      BY <2>0, <2>3 DEF ChatTurn, InFlight
    <3>2. spoken' \in [Thread -> SUBSET Name]
      BY <2>0, <2>3, <3>1 DEF ChatTurn, ChatOK
    <3>. QED BY <2>0, <2>3, <3>2 DEF ChatTurn, ChatOK, Unlisted
  <2>4. CASE ThreadMessages(r)
    <3>1. call[r].thread \in Thread
      BY <2>0, <2>4, CallAssumption DEF ThreadMessages, At, InFlight, OnThread
    <3>. QED BY <2>0, <2>4, <3>1 DEF ThreadMessages, ChatOK
  <2>5. CASE DeleteThread(r)
    <3>1. call[r].thread \in Thread
      BY <2>0, <2>5, CallAssumption DEF DeleteThread, At, InFlight, OnThread
    <3>2. /\ UNCHANGED <<spoken, shown>>
          /\ index' = [index EXCEPT ![who[r]][call[r].thread] = FALSE]
          /\ orphaned' \in {orphaned, orphaned \cup {call[r].thread}}
      BY <2>5 DEF DeleteThread
    <3>3. index' \in [Name -> [Thread -> BOOLEAN]]
      BY <2>0, <3>1, <3>2 DEF ChatOK
    <3>4. orphaned' \subseteq Thread
      BY <2>0, <3>1, <3>2 DEF ChatOK
    <3>. QED BY <2>0, <3>2, <3>3, <3>4 DEF ChatOK
  <2>. QED BY <2>1, <2>2, <2>3, <2>4, <2>5 DEF ChatStep
<1>. QED BY <1>1, <1>2, <1>3, <1>4 DEF StateOK

LEMMA ProcessStateOK ==
  ASSUME StateOK, UNCHANGED <<caseVars, chatVars>>,
         \/ Start \/ Crash
         \/ \E r \in Request : \E u, c : u \in Name /\ Arrive(r, u, c)
         \/ \E r \in Request : \E u, right : u \in Name /\ Login(r, u, right)
  PROVE  StateOK'
<1>0. Places /\ ControlOK
  BY DEF StateOK
<1>1. Places' /\ ControlOK'
  <2>1. CASE Start
    BY <1>0, <2>1 DEF Start, Places, ControlOK, requestVars, jobVars
  <2>2. CASE Crash
    <3>1. Places'
      BY <1>0, <2>2 DEF Crash, Places, Labels
    <3>2. restarts' \in 0 .. MaxRestarts /\ up' \in BOOLEAN /\ UNCHANGED tokens
      <4>1. restarts \in 0 .. MaxRestarts /\ restarts < MaxRestarts
        BY <1>0, <2>2 DEF Crash, ControlOK
      <4>2. restarts' = restarts + 1 /\ up' = FALSE /\ UNCHANGED tokens
        BY <2>2 DEF Crash, accountVars
      <4>3. MaxRestarts \in Nat
        BY SessionsAssumption
      <4>4. restarts + 1 \in 0 .. MaxRestarts
        BY <4>1, <4>3
      <4>. QED BY <4>2, <4>4
    <3>3. job' \in Jobs /\ worker' \in Workers
      BY <2>2 DEF Crash, Idle, Jobs, Workers
    <3>. QED BY <1>0, <3>1, <3>2, <3>3 DEF ControlOK
  <2>3. ASSUME NEW r \in Request, NEW u \in Name, NEW c, Arrive(r, u, c)
        PROVE  Places' /\ ControlOK'
    <3>1. Refusal(u, c.op) \in Nat
      BY DEF Refusal
    <3>2. Places'
      BY <1>0, <2>3, <3>1 DEF Arrive, Places, Labels
    <3>3. ControlOK'
      BY <1>0, <2>3 DEF Arrive, ControlOK, quiet, accountVars, jobVars, processVars
    <3>. QED BY <3>2, <3>3
  <2>4. ASSUME NEW r \in Request, NEW u \in Name, NEW right, Login(r, u, right)
        PROVE  Places' /\ ControlOK'
    <3>1. Places'
      BY <1>0, <2>4 DEF Login, Places, Labels
    <3>2. ControlOK'
      BY <1>0, <2>4 DEF Login, ControlOK, jobVars, processVars
    <3>. QED BY <3>1, <3>2
  <2>. QED BY <2>1, <2>2, <2>3, <2>4
<1>2. ChatOK'
  BY DEF StateOK, ChatOK, chatVars
<1>3. HeldOK' /\ ColumnsOK'
  BY TablesLeft
<1>. QED BY <1>1, <1>2, <1>3 DEF StateOK

LEMMA StateInit == Init => StateOK
<1>. SUFFICES ASSUME Init PROVE StateOK
  OBVIOUS
<1>1. PICK s \in Scenario : /\ tokens = s.tokens /\ docs = s.docs
                           /\ deadlines = s.deadlines
  BY DEF Init
<1>2. ColumnsOK
  BY <1>1, ScenarioAssumption DEF Consistent, ColumnsOK, Kinds, Statuses
<1>3. Places /\ ControlOK
  <2>1. tokens \subseteq Name /\ up \in BOOLEAN
    BY DEF Init, SessionsInit
  <2>2. restarts \in 0 .. MaxRestarts
    BY SessionsAssumption DEF Init, SessionsInit
  <2>3. job \in Jobs /\ worker \in Workers
    BY DEF Init, SessionsInit, Idle, Jobs, Workers
  <2>4. Places
    BY DEF Init, SessionsInit, Places, Labels
  <2>. QED BY <2>1, <2>2, <2>3, <2>4 DEF ControlOK
<1>4. HeldOK
  BY DEF Init, HeldOK
<1>5. ChatOK
  BY DEF Init, ChatInit, ChatOK
<1>. QED BY <1>2, <1>3, <1>4, <1>5 DEF StateOK

\* What the gate and the answers bound, and what the columns hold, is TypeOK.
LEMMA StateIsTyped == OwnInv /\ AnswerInv /\ StateOK => TypeOK
<1>. SUFFICES ASSUME OwnInv, AnswerInv, StateOK PROVE TypeOK
  OBVIOUS
<1>1. /\ users \in [Name -> Row \cup {None}] /\ tokens \subseteq Name
      /\ up \in BOOLEAN /\ restarts \in 0 .. MaxRestarts
      /\ pc \in [Request -> Labels] /\ who \in [Request -> Name \cup {None}]
      /\ call \in [Request -> Call \cup {NoCall}] /\ ans \in [Request -> Nat]
  BY DEF AnswerInv, StateOK, ControlOK, Places, OwnInv, Typed
<1>2. /\ job \in [status : {"idle", "running", "done", "error"},
                  results : Request \cup {None}, error : BOOLEAN]
      /\ worker \in [Request -> {"none", "computing", "succeeded", "failed"}]
  BY DEF StateOK, ControlOK, Jobs, Workers
<1>3. /\ cases \in [Case -> Name \cup {None, Gone}]
      /\ DOMAIN docs = Doc /\ DOMAIN deadlines = Deadline
  BY DEF OwnInv, Typed, RowInv
<1>4. ASSUME NEW d \in Doc, Live(docs[d]) PROVE DocumentOK(docs[d])
  <2>1. DOMAIN docs[d] = DocumentColumns /\ docs[d].case \in Case
    BY <1>4 DEF OwnInv, RowInv
  <2>2. docs[d].kind \in Kinds /\ docs[d].clauses \in Seq(BOOLEAN)
    BY <1>4 DEF StateOK, ColumnsOK
  <2>3. /\ docs[d].by \in Request \cup {None}
        /\ docs[d].analysis # None => docs[d].analysis.by \in Request
    BY <1>4 DEF OwnInv, DocumentOwn, Written
  <2>. QED BY <2>1, <2>2, <2>3 DEF DocumentOK, Kinds
<1>5. ASSUME NEW f \in Deadline, Live(deadlines[f]) PROVE DeadlineOK(deadlines[f])
  <2>1. DOMAIN deadlines[f] = DeadlineColumns /\ deadlines[f].case \in Case
    BY <1>5 DEF OwnInv, RowInv
  <2>2. deadlines[f].due \in Nat /\ deadlines[f].status \in Statuses
    BY <1>5 DEF StateOK, ColumnsOK
  <2>3. deadlines[f].by \in Request \cup {None}
    BY <1>5 DEF OwnInv, DeadlineOwn, Written
  <2>. QED BY <2>1, <2>2, <2>3 DEF DeadlineOK, Statuses
<1>6. facts \in [Name -> Request \cup {None}]
  <2>1. \A u \in Name : facts[u] \in Request \cup {None}
    BY DEF OwnInv
  <2>2. facts = [u \in Name |-> facts[u]]
    BY DEF StateOK, HeldOK
  <2>. QED BY <2>1, <2>2
<1>7. keep \in [Request -> Doc \cup {None}]
  <2>1. \A r \in Request : keep[r] \in Doc \cup {None}
    BY DEF AnswerInv, Told, Kept
  <2>2. keep = [r \in Request |-> keep[r]]
    BY DEF StateOK, HeldOK
  <2>. QED BY <2>1, <2>2
<1>8. seen \in [Request -> SUBSET Case]
  <2>1. \A r \in Request : seen[r] \in SUBSET Case
    BY DEF OwnInv, Gate, Mine
  <2>2. seen = [r \in Request |-> seen[r]]
    BY DEF StateOK, HeldOK
  <2>. QED BY <2>1, <2>2
<1>9. /\ index \in [Name -> [Thread -> BOOLEAN]]
      /\ spoken \in [Thread -> SUBSET Name] /\ orphaned \subseteq Thread
      /\ shown \in [Request -> SUBSET Name]
  BY DEF StateOK, ChatOK
<1>. QED BY <1>1, <1>2, <1>3, <1>4, <1>5, <1>6, <1>7, <1>8, <1>9 DEF TypeOK

\* The inductive invariant of the types.
THEOREM StateInvariant ==
  ASSUME NoneIsNoRow, NoneIsNoAnalysis
  PROVE  Spec => [](OwnInv /\ AnswerInv /\ StateOK)
<1>1. StateOK /\ OwnInv /\ [Next]_vars => StateOK'
  <2>. SUFFICES ASSUME StateOK, OwnInv, [Next]_vars PROVE StateOK'
    OBVIOUS
  <2>0. calls \subseteq Name \X Call
    BY DEF OwnInv, Typed
  <2>1. CASE (Start \/ Crash) /\ UNCHANGED <<caseVars, chatVars, calls>>
    BY <2>1, ProcessStateOK
  <2>2. ASSUME NEW r \in Request, NEW m \in calls, Arrive(r, m[1], m[2]),
               UNCHANGED <<caseVars, chatVars, calls>>
        PROVE  StateOK'
    <3>1. m[1] \in Name
      BY <2>0
    <3>. QED BY <2>2, <3>1, ProcessStateOK
  <2>3. ASSUME NEW r \in Request, NEW m \in calls, NEW right \in BOOLEAN,
               Login(r, m[1], right), UNCHANGED <<caseVars, chatVars, calls>>
        PROVE  StateOK'
    <3>1. m[1] \in Name
      BY <2>0
    <3>. QED BY <2>3, <3>1, ProcessStateOK
  <2>4. CASE \E r \in Request : AccountStep(r) /\ UNCHANGED <<caseVars, chatVars, calls>>
    BY <2>4, AccountStateOK
  <2>5. CASE \E r \in Request : CaseStep(r) /\ UNCHANGED <<chatVars, calls>>
    BY <2>5, CaseStateOK
  <2>6. CASE \E r \in Request : ChatStep(r) /\ UNCHANGED <<caseVars, calls>>
    BY <2>6, ChatStateOK
  <2>7. CASE UNCHANGED vars
    <3>1. UNCHANGED <<caseVars, chatVars>>
      BY <2>7 DEF vars
    <3>2. UNCHANGED <<tokens, up, restarts, job, worker, pc, ans>>
      BY <2>7 DEF vars, sessionVars, accountVars, requestVars, jobVars, processVars
    <3>3. HeldOK' /\ ColumnsOK'
      BY <3>1, TablesLeft
    <3>4. Places' /\ ControlOK' /\ ChatOK'
      BY <3>1, <3>2 DEF StateOK, Places, ControlOK, ChatOK, chatVars
    <3>. QED BY <3>3, <3>4 DEF StateOK
  <2>. QED BY <2>1, <2>2, <2>3, <2>4, <2>5, <2>6, <2>7 DEF Next, Quiescent
<1>2. Spec => [](OwnInv /\ AnswerInv)
  BY AnswerInvariant
<1>. QED BY <1>1, <1>2, StateInit, PTL DEF Spec

\* TypeOK: every variable of the service has the type of the table, the
\* request field or the process state it stands for, whatever requests come.
THEOREM ServerIsTyped ==
  ASSUME NoneIsNoRow, NoneIsNoAnalysis
  PROVE  Spec => []TypeOK
BY StateInvariant, StateIsTyped, PTL

-----------------------------------------------------------------------------
(* The first of a set that is ordered.  The number of elements before an    *)
(* element numbers the set from 0, so that those with a number below n are  *)
(* n, or all of them.                                                       *)

Before(R, S, i) == {j \in S : <<j, i>> \in R}

Rank(R, S) == [i \in S |-> Cardinality(Before(R, S, i))]

\* R orders S strictly and totally.
Orders(R, S) ==
  /\ \A i \in S : <<i, i>> \notin R
  /\ \A i, j, k \in S : <<i, j>> \in R /\ <<j, k>> \in R => <<i, k>> \in R
  /\ \A i, j \in S : i = j \/ <<i, j>> \in R \/ <<j, i>> \in R

LEMMA RanksGrow ==
  ASSUME NEW S, IsFiniteSet(S), NEW R, Orders(R, S),
         NEW i \in S, NEW j \in S, <<i, j>> \in R
  PROVE  Rank(R, S)[i] < Rank(R, S)[j]
<1>1. Before(R, S, i) \cup {i} \subseteq Before(R, S, j)
  BY DEF Before, Orders
<1>2. i \notin Before(R, S, i)
  BY DEF Before, Orders
<1>3. Before(R, S, i) \in SUBSET S /\ Before(R, S, j) \in SUBSET S
  BY DEF Before
<1>4. /\ IsFiniteSet(Before(R, S, i)) /\ IsFiniteSet(Before(R, S, j))
      /\ Cardinality(Before(R, S, i)) \in Nat /\ Cardinality(Before(R, S, j)) \in Nat
  BY <1>3, FS_Subset, FS_CardinalityType
<1>5. Cardinality(Before(R, S, i) \cup {i}) = Cardinality(Before(R, S, i)) + 1
  BY <1>2, <1>4, FS_AddElement
<1>6. Cardinality(Before(R, S, i) \cup {i}) <= Cardinality(Before(R, S, j))
  BY <1>1, <1>4, FS_Subset
<1>. QED BY <1>4, <1>5, <1>6 DEF Rank

LEMMA RanksNumber ==
  ASSUME NEW S, IsFiniteSet(S), NEW R, Orders(R, S)
  PROVE  Rank(R, S) \in Bijection(S, 0 .. Cardinality(S) - 1)
<1>. DEFINE T == 0 .. Cardinality(S) - 1
<1>0. Cardinality(S) \in Nat
  BY FS_CardinalityType
<1>1. ASSUME NEW i \in S PROVE Rank(R, S)[i] \in T
  <2>1. Before(R, S, i) \in SUBSET (S \ {i})
    BY DEF Before, Orders
  <2>2. IsFiniteSet(S \ {i}) /\ Cardinality(S \ {i}) = Cardinality(S) - 1
    BY FS_RemoveElement
  <2>3. /\ Cardinality(Before(R, S, i)) <= Cardinality(S) - 1
        /\ Cardinality(Before(R, S, i)) \in Nat
    BY <2>1, <2>2, FS_Subset, FS_CardinalityType
  <2>. QED BY <1>0, <2>3 DEF Rank
<1>2. Rank(R, S) \in [S -> T]
  BY <1>1 DEF Rank
<1>3. \A i, j \in S : Rank(R, S)[i] = Rank(R, S)[j] => i = j
  <2>. SUFFICES ASSUME NEW i \in S, NEW j \in S, i # j
                PROVE  Rank(R, S)[i] # Rank(R, S)[j]
    OBVIOUS
  <2>1. Rank(R, S)[i] \in Int /\ Rank(R, S)[j] \in Int
    BY <1>0, <1>1
  <2>2. <<i, j>> \in R \/ <<j, i>> \in R
    BY DEF Orders
  <2>. QED BY <2>1, <2>2, RanksGrow
<1>4. Rank(R, S) \in Injection(S, T)
  BY <1>2, <1>3 DEF Injection, IsInjective
<1>5. IsFiniteSet(T) /\ Cardinality(T) = Cardinality(S)
  BY <1>0, FS_Interval
<1>6. Rank(R, S) \in Surjection(S, T)
  BY <1>4, <1>5, FS_Injection
<1>. QED BY <1>4, <1>6 DEF Bijection

LEMMA FirstAreMany ==
  ASSUME NEW S, IsFiniteSet(S), NEW R, Orders(R, S), NEW n \in Nat
  PROVE  Cardinality({i \in S : Rank(R, S)[i] < n})
           = IF Cardinality(S) < n THEN Cardinality(S) ELSE n
<1>. DEFINE c == Cardinality(S)
            m == IF c < n THEN c ELSE n
            T == {i \in S : Rank(R, S)[i] < n}
            f == [i \in T |-> Rank(R, S)[i]]
<1>1. c \in Nat /\ m \in Nat /\ m <= c /\ m <= n
  BY FS_CardinalityType
<1>2. /\ Rank(R, S) \in [S -> 0 .. c - 1]
      /\ \A i, j \in S : Rank(R, S)[i] = Rank(R, S)[j] => i = j
      /\ \A k \in 0 .. c - 1 : \E i \in S : Rank(R, S)[i] = k
  BY RanksNumber DEF Bijection, Injection, Surjection, IsInjective
<1>3. f \in [T -> 0 .. m - 1]
  <2>1. ASSUME NEW i \in T PROVE Rank(R, S)[i] \in 0 .. m - 1
    BY <1>1, <1>2
  <2>. QED BY <2>1
<1>4. f \in Injection(T, 0 .. m - 1)
  BY <1>2, <1>3 DEF Injection, IsInjective
<1>5. ASSUME NEW k \in 0 .. m - 1 PROVE \E i \in T : f[i] = k
  <2>1. PICK i \in S : Rank(R, S)[i] = k
    BY <1>1, <1>2
  <2>. QED BY <1>1, <2>1
<1>6. f \in Surjection(T, 0 .. m - 1)
  BY <1>3, <1>5 DEF Surjection
<1>7. IsFiniteSet(T)
  BY FS_Subset
<1>8. Cardinality(0 .. m - 1) = Cardinality(T)
  BY <1>4, <1>6, <1>7, FS_Bijection DEF Bijection, ExistsBijection
<1>9. Cardinality(0 .. m - 1) = m
  <2>. HIDE DEF m
  <2>1. 0 \in Int /\ m - 1 \in Int
    BY <1>1
  <2>2. Cardinality(0 .. m - 1) = IF 0 > m - 1 THEN 0 ELSE m - 1 - 0 + 1
    BY <2>1, FS_Interval
  <2>. QED BY <1>1, <2>2
<1>. QED BY <1>8, <1>9

\* The order of the deadlines: the sooner first, then the older.
SoonerPairs == {p \in Deadline \X Deadline : Sooner(p[1], p[2])}

LEMMA SoonestIsShown == TypeOK => SoonestShown
<1>. SUFFICES ASSUME TypeOK, NEW c \in Case
              PROVE  LET open == OpenOf(Listed(deadlines, c))
                         named == BlockDue(c)
                     IN /\ named \subseteq open
                        /\ Cardinality(named) =
                             IF Cardinality(open) < BlockDeadlines
                             THEN Cardinality(open) ELSE BlockDeadlines
                        /\ \A f \in named, g \in open \ named :
                             deadlines[f].due <= deadlines[g].due
  BY DEF SoonestShown
<1>. DEFINE open == OpenOf(Listed(deadlines, c))
            named == BlockDue(c)
<1>1. open \in SUBSET Deadline /\ IsFiniteSet(open)
  <2>1. open \in SUBSET Deadline
    BY DEF OpenOf, Listed, TypeOK
  <2>. QED BY <2>1, CaseFileAssumption, FS_Subset
<1>2. \A f \in open : deadlines[f].due \in Nat /\ f \in Nat
  BY <1>1, CaseFileAssumption DEF OpenOf, Listed, TypeOK, DeadlineOK
<1>3. \A f, g \in open : <<f, g>> \in SoonerPairs <=> Sooner(f, g)
  BY <1>1 DEF SoonerPairs
<1>4. Orders(SoonerPairs, open)
  <2>1. \A f \in open : ~Sooner(f, f)
    BY <1>2 DEF Sooner
  <2>2. \A f, g, h \in open : Sooner(f, g) /\ Sooner(g, h) => Sooner(f, h)
    BY <1>2 DEF Sooner
  <2>3. \A f, g \in open : f = g \/ Sooner(f, g) \/ Sooner(g, f)
    BY <1>2 DEF Sooner
  <2>. QED BY <1>3, <2>1, <2>2, <2>3 DEF Orders
<1>5. named = {f \in open : Rank(SoonerPairs, open)[f] < BlockDeadlines}
  <2>1. \A f \in open : Before(SoonerPairs, open, f) = {g \in open : Sooner(g, f)}
    BY <1>3 DEF Before
  <2>2. named = {f \in open : Cardinality({g \in open : Sooner(g, f)}) < BlockDeadlines}
    BY DEF BlockDue, FirstOf
  <2>3. \A f \in open : Rank(SoonerPairs, open)[f] = Cardinality({g \in open : Sooner(g, f)})
    BY <2>1 DEF Rank
  <2>. HIDE DEF open
  <2>. QED BY <2>2, <2>3
<1>. HIDE DEF open, named
<1>6. Cardinality(named) = IF Cardinality(open) < BlockDeadlines
                           THEN Cardinality(open) ELSE BlockDeadlines
  BY <1>1, <1>4, <1>5, FirstAreMany, CaseFileAssumption
<1>7. ASSUME NEW f \in named, NEW g \in open \ named
      PROVE  deadlines[f].due <= deadlines[g].due
  <2>1. f \in open /\ Rank(SoonerPairs, open)[f] < BlockDeadlines
        /\ ~(Rank(SoonerPairs, open)[g] < BlockDeadlines)
    BY <1>5
  <2>2. Rank(SoonerPairs, open)[g] \in Int /\ Rank(SoonerPairs, open)[f] \in Int
    <3>1. Rank(SoonerPairs, open) \in [open -> 0 .. Cardinality(open) - 1]
      BY <1>1, <1>4, RanksNumber DEF Bijection, Injection
    <3>2. 0 .. Cardinality(open) - 1 \subseteq Int
      BY <1>1, FS_CardinalityType
    <3>. QED BY <2>1, <3>1, <3>2
  <2>3. ~Sooner(g, f)
    <3>1. SUFFICES ASSUME Sooner(g, f) PROVE FALSE
      OBVIOUS
    <3>2. Rank(SoonerPairs, open)[g] < Rank(SoonerPairs, open)[f]
      BY <1>1, <1>3, <1>4, <2>1, <3>1, RanksGrow
    <3>3. BlockDeadlines \in Nat
      BY CaseFileAssumption
    <3>. QED BY <2>1, <2>2, <3>2, <3>3
  <2>. QED BY <1>2, <2>1, <2>3 DEF Sooner
<1>8. named \subseteq open
  BY <1>5
<1>. QED BY <1>6, <1>7, <1>8 DEF open, named

\* SoonestShown (build_context_block, cases/store.py:256): the context block
\* names as many open deadlines as it may, none of them after one it leaves out.
THEOREM TheSoonestAreShown ==
  ASSUME NoneIsNoRow, NoneIsNoAnalysis
  PROVE  Spec => []SoonestShown
BY ServerIsTyped, SoonestIsShown, PTL

-----------------------------------------------------------------------------
(* A stored review is complete: one finding for each risky clause, in the   *)
(* order of the contract.  The argument: a document keeps its kind and its  *)
(* text, so the review that goes through the text it has read is stored     *)
(* with a contract of the same clauses, or not at all.                      *)

\* A stored analysis: the review of the whole contract, or the answer of the
\* agent on a letter.
Whole(d) ==
  LET a == docs[d].analysis
      risky == RiskyOf(docs[d].clauses)
  IN  IF docs[d].kind = "contract"
      THEN /\ [i \in DOMAIN a.findings |-> a.findings[i].clause] = risky
           /\ a.summary["wirksam"] + a.summary["bedenklich"]
                + a.summary["unwirksam"] = Len(risky)
           /\ a.total = Len(docs[d].clauses)
      ELSE docs[d].kind = "letter" /\ a.summary = "text"

Finding(clauses) ==
  [clause : {RiskyOf(clauses)[k] : k \in DOMAIN RiskyOf(clauses)}, verdict : Verdicts]

\* The findings so far are those of the first risky clauses.
SoFar(w) ==
  /\ w.clauses \in Seq(BOOLEAN)
  /\ w.findings \in Seq(Finding(w.clauses))
  /\ w.next = Len(w.findings) + 1
  /\ w.next <= Len(RiskyOf(w.clauses)) + 1
  /\ \A i \in 1 .. Len(w.findings) : w.findings[i].clause = RiskyOf(w.clauses)[i]

Reviewing(r) ==
  /\ keep[r] # None /\ call[r].op # "case_resume" /\ Live(docs[keep[r]]) =>
       docs[keep[r]].kind = "letter"
  /\ pc[r] \notin {"reviewing", "summary", "ended"} =>
       work[r].next = 1 /\ work[r].findings = <<>>
  /\ pc[r] \in {"reviewing", "summary"} =>
       /\ SoFar(work[r])
       /\ Live(docs[call[r].doc]) =>
            /\ docs[call[r].doc].kind = "contract"
            /\ docs[call[r].doc].clauses = work[r].clauses
  /\ pc[r] = "summary" => work[r].next = Len(RiskyOf(work[r].clauses)) + 1

ReviewInv ==
  /\ \A d \in Doc : Live(docs[d]) /\ docs[d].analysis # None => Whole(d)
  /\ \A r \in Request : Reviewing(r)

\* A paused analysis is resumed for the letter it is about.  The client names
\* the document (CaseDetailView.tsx:68, :119); the server only looks whether it
\* is there (chat.py:131).
LettersResumed ==
  \A r \in Request :
    call[r].op = "case_resume" /\ keep[r] # None /\ Live(docs[keep[r]]) =>
      docs[keep[r]].kind = "letter"

LEMMA RiskyLen ==
  ASSUME NEW clauses \in Seq(BOOLEAN)
  PROVE  /\ RiskyOf(clauses) \in Seq({RiskyOf(clauses)[k] : k \in DOMAIN RiskyOf(clauses)})
         /\ Len(RiskyOf(clauses)) \in Nat
         /\ DOMAIN RiskyOf(clauses) = 1 .. Len(RiskyOf(clauses))
<1>. DEFINE risky == {i \in DOMAIN clauses : clauses[i]}
            n == Cardinality(risky)
<1>1. n \in Nat
  <2>1. IsFiniteSet(DOMAIN clauses)
    <3>1. Len(clauses) \in Nat /\ DOMAIN clauses = 1 .. Len(clauses)
      OBVIOUS
    <3>. QED BY <3>1, FS_Interval
  <2>. QED BY <2>1, FS_Subset, FS_CardinalityType
<1>2. RiskyOf(clauses) = [k \in 1 .. n |-> RiskyOf(clauses)[k]] /\ DOMAIN RiskyOf(clauses) = 1 .. n
  <2>. DEFINE pick(k) == CHOOSE i \in risky : Cardinality({j \in risky : j < i}) = k - 1
  <2>1. RiskyOf(clauses) = [k \in 1 .. n |-> pick(k)]
    BY DEF RiskyOf
  <2>. HIDE DEF pick, n
  <2>. QED BY <2>1
<1>. HIDE DEF n
<1>3. RiskyOf(clauses) \in [1 .. n -> {RiskyOf(clauses)[k] : k \in DOMAIN RiskyOf(clauses)}]
  BY <1>2
<1>4. RiskyOf(clauses) \in Seq({RiskyOf(clauses)[k] : k \in DOMAIN RiskyOf(clauses)})
  BY <1>1, <1>3, SMTT(30)
<1>. QED BY <1>4, LenProperties

\* The three verdicts count all findings.
LEMMA CountsAll ==
  ASSUME NEW S, NEW f \in Seq([clause : S, verdict : Verdicts])
  PROVE  Count(f, "wirksam") + Count(f, "bedenklich") + Count(f, "unwirksam") = Len(f)
<1>. DEFINE D == DOMAIN f
            A == {i \in D : f[i].verdict = "wirksam"}
            B == {i \in D : f[i].verdict = "bedenklich"}
            C == {i \in D : f[i].verdict = "unwirksam"}
<1>1. D = 1 .. Len(f) /\ Len(f) \in Nat
  BY LenProperties
<1>2. IsFiniteSet(D) /\ Cardinality(D) = Len(f)
  <2>1. Cardinality(1 .. Len(f)) = IF 1 > Len(f) THEN 0 ELSE Len(f) - 1 + 1
    BY <1>1, FS_Interval
  <2>2. IsFiniteSet(1 .. Len(f))
    BY <1>1, FS_Interval
  <2>. QED BY <1>1, <2>1, <2>2
<1>3. \A i \in D : f[i] \in [clause : S, verdict : Verdicts]
  BY <1>1, ElementOfSeq
<1>4. \A i \in D : f[i].verdict \in Verdicts
  BY <1>3
<1>5. (A \cup B) \cup C = D /\ A \cap B = {} /\ (A \cup B) \cap C = {}
  BY <1>4 DEF Verdicts
<1>6. A \in SUBSET D /\ B \in SUBSET D /\ C \in SUBSET D
  OBVIOUS
<1>7. Count(f, "wirksam") = Cardinality(A) /\ Count(f, "bedenklich") = Cardinality(B)
      /\ Count(f, "unwirksam") = Cardinality(C)
  BY DEF Count
<1>. HIDE DEF A, B, C, D
<1>8. /\ IsFiniteSet(A) /\ IsFiniteSet(B) /\ IsFiniteSet(C)
      /\ Cardinality(A) \in Nat /\ Cardinality(B) \in Nat /\ Cardinality(C) \in Nat
  BY <1>2, <1>6, FS_Subset, FS_CardinalityType
<1>9. Cardinality({}) = 0
  BY FS_EmptySet
<1>10. IsFiniteSet(A \cup B) /\ Cardinality(A \cup B) = Cardinality(A) + Cardinality(B)
  <2>1. Cardinality(A \cup B) = Cardinality(A) + Cardinality(B) - Cardinality(A \cap B)
    BY <1>8, FS_Union
  <2>2. IsFiniteSet(A \cup B)
    BY <1>8, FS_Union
  <2>3. Cardinality(A \cap B) = 0
    BY <1>5, <1>9, Zenon
  <2>4. Cardinality(A \cup B) = Cardinality(A) + Cardinality(B)
    BY <1>8, <2>1, <2>3
  <2>. QED BY <2>2, <2>4
<1>11. Cardinality(D) = Cardinality(A) + Cardinality(B) + Cardinality(C)
  <2>1. Cardinality((A \cup B) \cup C)
          = Cardinality(A \cup B) + Cardinality(C) - Cardinality((A \cup B) \cap C)
    BY <1>8, <1>10, FS_Union
  <2>2. Cardinality((A \cup B) \cap C) = 0
    BY <1>5, <1>9, Zenon
  <2>3. Cardinality((A \cup B) \cup C) = Cardinality(D)
    BY <1>5, Zenon
  <2>4. Cardinality(A \cup B) \in Nat
    BY <1>8, <1>10
  <2>. QED BY <1>8, <1>10, <2>1, <2>2, <2>3, <2>4
<1>. QED BY <1>2, <1>7, <1>11

\* What a step leaves of the papers.
PapersStay ==
  \A d \in Doc : docs[d] # None /\ Live(docs'[d]) =>
    /\ Live(docs[d])
    /\ docs'[d].kind = docs[d].kind /\ docs'[d].clauses = docs[d].clauses

\* A request that does not review keeps what is known of it.
LEMMA ReviewStays ==
  ASSUME OwnInv, AnswerInv, PapersStay, NEW q \in Request, Reviewing(q),
         UNCHANGED <<call[q], keep[q], work[q]>>,
         \/ pc'[q] = pc[q] \/ pc'[q] = "ended"
         \/ /\ pc[q] \notin {"reviewing", "summary", "ended"}
            /\ pc'[q] \notin {"reviewing", "summary"}
  PROVE  Reviewing(q)'
<1>1. keep[q] # None => keep[q] \in Doc /\ docs[keep[q]] # None
  BY DEF OwnInv, Gate, Holds, AnswerInv, Told, Kept
<1>2. pc[q] \in {"reviewing", "summary"} =>
        call[q].doc \in Doc /\ docs[call[q].doc] # None
  BY DEF OwnInv, Gate, Holds, AnswerInv, Told, Found
<1>3. keep'[q] # None /\ call'[q].op # "case_resume" /\ Live(docs'[keep'[q]]) =>
        docs'[keep'[q]].kind = "letter"
  BY <1>1 DEF Reviewing, PapersStay
<1>4. pc'[q] \in {"reviewing", "summary"} =>
        /\ SoFar(work[q])
        /\ Live(docs'[call[q].doc]) =>
             /\ docs'[call[q].doc].kind = "contract"
             /\ docs'[call[q].doc].clauses = work[q].clauses
  BY <1>2 DEF Reviewing, PapersStay
<1>. QED BY <1>3, <1>4 DEF Reviewing, Live, SoFar

\* One finding more.
LEMMA ClauseReviewed ==
  ASSUME NEW w, NEW w1, SoFar(w), w.next <= Len(RiskyOf(w.clauses)),
         NEW v \in Verdicts, w1.clauses = w.clauses, w1.next = w.next + 1,
         w1.findings = Append(w.findings,
                              [clause |-> RiskyOf(w.clauses)[w.next], verdict |-> v])
  PROVE  SoFar(w1)
<1>. DEFINE F == Finding(w.clauses)
            x == [clause |-> RiskyOf(w.clauses)[w.next], verdict |-> v]
<1>1. /\ Len(w.findings) \in Nat /\ w.next = Len(w.findings) + 1
      /\ w.findings \in Seq(F)
      /\ Len(RiskyOf(w.clauses)) \in Nat
      /\ DOMAIN RiskyOf(w.clauses) = 1 .. Len(RiskyOf(w.clauses))
  BY RiskyLen DEF SoFar
<1>2. w.next \in DOMAIN RiskyOf(w.clauses)
  BY <1>1
<1>3. x \in F
  BY <1>2 DEF Finding
<1>4. x.clause = RiskyOf(w.clauses)[w.next]
  OBVIOUS
<1>. HIDE DEF F, x
<1>5. /\ w1.findings \in Seq(F) /\ Len(w1.findings) = Len(w.findings) + 1
      /\ \A i \in 1 .. Len(w.findings) : w1.findings[i] = w.findings[i]
      /\ w1.findings[Len(w.findings) + 1] = x
  BY <1>1, <1>3, AppendProperties DEF x
<1>6. \A i \in 1 .. Len(w1.findings) : w1.findings[i].clause = RiskyOf(w.clauses)[i]
  <2>. SUFFICES ASSUME NEW i \in 1 .. Len(w.findings) + 1
                PROVE  w1.findings[i].clause = RiskyOf(w.clauses)[i]
    BY <1>5
  <2>1. CASE i \in 1 .. Len(w.findings)
    BY <1>5, <2>1 DEF SoFar
  <2>2. CASE i = Len(w.findings) + 1
    BY <1>1, <1>4, <1>5, <2>2
  <2>. QED BY <1>1, <2>1, <2>2
<1>. QED BY <1>1, <1>5, <1>6 DEF SoFar, F

\* The review that is stored after the last clause is whole.
LEMMA StoredWhole ==
  ASSUME NEW r \in Request, SoFar(work[r]),
         work[r].next = Len(RiskyOf(work[r].clauses)) + 1
  PROVE  LET a == Review(r)
             risky == RiskyOf(work[r].clauses)
         IN  /\ [i \in DOMAIN a.findings |-> a.findings[i].clause] = risky
             /\ a.summary["wirksam"] + a.summary["bedenklich"]
                  + a.summary["unwirksam"] = Len(risky)
             /\ a.total = Len(work[r].clauses)
<1>. DEFINE a == Review(r)
            risky == RiskyOf(work[r].clauses)
            f == work[r].findings
<1>1. a.findings = f /\ a.total = Len(work[r].clauses)
      /\ \A v \in Verdicts : a.summary[v] = Count(f, v)
  BY DEF Review
<1>2. /\ f \in Seq(Finding(work[r].clauses))
      /\ Len(risky) \in Nat /\ DOMAIN risky = 1 .. Len(risky)
      /\ risky \in Seq({risky[k] : k \in DOMAIN risky})
  BY RiskyLen DEF SoFar
<1>3. Len(f) = Len(risky) /\ DOMAIN f = DOMAIN risky
  BY <1>2 DEF SoFar
<1>4. [i \in DOMAIN f |-> f[i].clause] = risky
  <2>. HIDE DEF risky
  <2>1. \A i \in DOMAIN risky : f[i].clause = risky[i]
    BY <1>2, <1>3 DEF SoFar, risky
  <2>2. risky = [i \in DOMAIN risky |-> risky[i]]
    BY <1>2
  <2>. QED BY <1>3, <2>1, <2>2
<1>5. Count(f, "wirksam") + Count(f, "bedenklich") + Count(f, "unwirksam") = Len(f)
  BY <1>2, CountsAll DEF Finding
<1>. QED BY <1>1, <1>3, <1>4, <1>5 DEF Verdicts

\* The documents after a step of a case route.
LEMMA WholeStays ==
  ASSUME OwnInv, AnswerInv, ReviewInv, LettersResumed,
         NEW r \in Request, PapersBy(r)
  PROVE  /\ PapersStay
         /\ \A d \in Doc : Live(docs[d])' /\ docs'[d].analysis # None => Whole(d)'
<1>1. PapersStay
  BY DEF PapersBy, PapersStay
<1>2. ASSUME NEW d \in Doc, Live(docs'[d]), docs'[d].analysis # None,
             docs[d] # None
      PROVE  Whole(d)'
  <2>0. /\ Live(docs[d])
        /\ docs'[d].kind = docs[d].kind /\ docs'[d].clauses = docs[d].clauses
    BY <1>1, <1>2 DEF PapersStay
  <2>1. CASE docs'[d].analysis = docs[d].analysis
    <3>1. Whole(d)
      BY <1>2, <2>0, <2>1 DEF ReviewInv
    <3>. HIDE DEF RiskyOf
    <3>. QED BY <2>0, <2>1, <3>1 DEF Whole
  <2>2. CASE /\ pc[r] = "summary" /\ d = call[r].doc
             /\ docs'[d].analysis = Review(r)
    <3>1. /\ docs[d].kind = "contract" /\ docs[d].clauses = work[r].clauses
          /\ SoFar(work[r]) /\ work[r].next = Len(RiskyOf(work[r].clauses)) + 1
      BY <2>0, <2>2 DEF ReviewInv, Reviewing
    <3>2. docs'[d].kind = "contract" /\ docs'[d].clauses = work[r].clauses
      BY <2>0, <3>1
    <3>. HIDE DEF Review
    <3>3. Whole(d)'
      BY <2>2, <3>1, <3>2, StoredWhole DEF Whole
    <3>. QED BY <3>3
  <2>3. CASE /\ pc[r] = "running" /\ keep[r] # None /\ d = keep[r]
             /\ docs'[d].analysis = [summary |-> "text", by |-> r]
    <3>1. docs[d].kind = "letter"
      BY <2>0, <2>3 DEF ReviewInv, Reviewing, LettersResumed
    <3>2. docs'[d].kind = "letter" /\ docs'[d].analysis.summary = "text"
      BY <2>0, <2>3, <3>1
    <3>. QED BY <3>2 DEF Whole
  <2>. QED BY <1>2, <2>1, <2>2, <2>3 DEF PapersBy
<1>3. ASSUME NEW d \in Doc, Live(docs'[d]), docs[d] = None
      PROVE  docs'[d].analysis = None
  BY <1>3 DEF PapersBy, Live
<1>. QED BY <1>1, <1>2, <1>3 DEF Live

\* The handler of a case route, as far as reviews go.
LEMMA HandlerReviews ==
  ASSUME OwnInv, AnswerInv, StateOK, PapersStay, NEW r \in Request,
         Reviewing(r), CaseStep(r)
  PROVE  Reviewing(r)'
<1>0. /\ DOMAIN pc = Request /\ DOMAIN work = Request /\ DOMAIN keep = Request
      /\ UNCHANGED call
  BY CaseFrame DEF OwnInv, Typed, AnswerInv, Frame
<1>1. CASE \/ CasesList(r) \/ CasesCreate(r) \/ CasesDelete(r) \/ RequireCase(r)
           \/ CasesGet(r) \/ UploadRefused(r) \/ UploadText(r) \/ UploadInsert(r)
           \/ DocumentsDelete(r) \/ ToolWrite(r) \/ ContextBlock(r)
           \/ DeadlinesCreate(r) \/ DeadlinesChange(r)
  <2>1. UNCHANGED <<keep, work>>
    BY <1>1 DEF CasesList, CasesCreate, CasesDelete, RequireCase, CasesGet,
                UploadRefused, UploadText, UploadInsert, DocumentsDelete,
                ToolWrite, ContextBlock, DeadlinesCreate, DeadlinesChange, caseVars
  <2>2. pc[r] \notin {"reviewing", "summary", "ended"}
    BY <1>1 DEF CasesList, CasesCreate, CasesDelete, RequireCase, CasesGet,
                UploadRefused, UploadText, UploadInsert, DocumentsDelete,
                ToolWrite, ContextBlock, DeadlinesCreate, DeadlinesChange, At
  <2>3. pc'[r] \notin {"reviewing", "summary"}
    <3>1. CASE \/ CasesList(r) \/ CasesCreate(r) \/ CasesDelete(r)
               \/ RequireCase(r) \/ CasesGet(r)
      BY <1>0, <3>1 DEF CasesList, CasesCreate, CasesDelete, RequireCase,
                        CasesGet, Answer, Goto
    <3>2. CASE \/ UploadRefused(r) \/ UploadText(r) \/ UploadInsert(r)
               \/ DocumentsDelete(r) \/ ToolWrite(r)
      BY <1>0, <3>2 DEF UploadRefused, UploadText, UploadInsert,
                        DocumentsDelete, ToolWrite, AddDocument, AddDeadline,
                        Proceed, Answer, Goto
    <3>3. CASE ContextBlock(r) \/ DeadlinesCreate(r) \/ DeadlinesChange(r)
      BY <1>0, <3>3 DEF ContextBlock, DeadlinesCreate, DeadlinesChange,
                        AddDeadline, Proceed, Answer, Goto
    <3>. QED BY <1>1, <3>1, <3>2, <3>3
  <2>. QED BY <1>0, <2>1, <2>2, <2>3, ReviewStays
<1>2. CASE ReviewStore(r) \/ AgentFinal(r) \/ StreamEnds(r)
  <2>1. UNCHANGED <<keep, work>> /\ pc'[r] = "ended"
    BY <1>0, <1>2 DEF ReviewStore, AgentFinal, StreamEnds, caseVars, Answer
  <2>. QED BY <1>0, <2>1, ReviewStays
<1>3. CASE RequireDocument(r)
  <2>1. /\ pc[r] = "owned" /\ UNCHANGED docs
        /\ work[r].next = 1 /\ work[r].findings = <<>> /\ keep[r] = None
    BY <1>3 DEF RequireDocument, rowVars, Reviewing, AnswerInv, Told, Kept
  <2>2. CASE UNCHANGED <<keep, work>> /\ \E l : Answer(r, l)
    BY <1>0, <2>1, <2>2 DEF Answer, Reviewing
  <2>3. CASE /\ call[r].op = "documents_analyse" /\ docs[call[r].doc].kind = "letter"
             /\ keep' = [keep EXCEPT ![r] = call[r].doc]
             /\ Goto(r, "running") /\ UNCHANGED work
    BY <1>0, <2>1, <2>3 DEF Goto, Reviewing
  <2>4. CASE /\ DocOf(call[r].case, call[r].doc) /\ docs[call[r].doc].kind = "contract"
             /\ work' = [work EXCEPT ![r].clauses = docs[call[r].doc].clauses]
             /\ Goto(r, "reviewing") /\ UNCHANGED keep
             /\ call[r].op = "documents_review"
    <3>1. call[r].doc \in Doc
      BY <2>1, <2>4, CallAssumption DEF OwnInv, Gate, InFlight, OnDocument
    <3>2. docs[call[r].doc].clauses \in Seq(BOOLEAN)
      BY <2>4, <3>1 DEF StateOK, ColumnsOK, DocOf
    <3>3. /\ work'[r].next = 1 /\ work'[r].findings = <<>>
          /\ work'[r].clauses = docs[call[r].doc].clauses
      BY <1>0, <2>1, <2>4 DEF AnswerInv, Told, Found
    <3>4. SoFar(work'[r])
      BY <3>2, <3>3, RiskyLen DEF SoFar
    <3>5. pc'[r] = "reviewing" /\ keep'[r] = None
      BY <1>0, <2>1, <2>4 DEF Goto
    <3>. QED BY <1>0, <2>1, <2>4, <3>3, <3>4, <3>5 DEF Reviewing, SoFar, Live
  <2>. QED BY <1>3, <2>2, <2>3, <2>4 DEF RequireDocument
<1>4. CASE ReviewClause(r)
  <2>1. /\ UNCHANGED <<pc, keep, docs>> /\ pc[r] = "reviewing"
        /\ SoFar(work[r]) /\ work[r].next <= Len(RiskyOf(work[r].clauses))
    BY <1>4 DEF ReviewClause, At, requestVars, rowVars, Reviewing
  <2>2. \E v \in Verdicts : work' = [work EXCEPT ![r].next = @ + 1,
          ![r].findings = Append(@, [clause |-> RiskyOf(work[r].clauses)[work[r].next],
                                     verdict |-> v])]
    BY <1>4, CaseFileAssumption DEF ReviewClause, FindingOfFailure, Verdicts
  <2>3. PICK v \in Verdicts :
          /\ work'[r].clauses = work[r].clauses
          /\ work'[r].next = work[r].next + 1
          /\ work'[r].findings
               = Append(work[r].findings,
                        [clause |-> RiskyOf(work[r].clauses)[work[r].next], verdict |-> v])
    BY <1>0, <2>2 DEF AnswerInv, Told, Found
  <2>4. SoFar(work'[r])
    BY <2>1, <2>3, ClauseReviewed
  <2>. QED BY <1>0, <2>1, <2>3, <2>4 DEF Reviewing, SoFar, Live
<1>5. CASE ReviewSummary(r)
  <2>1. /\ pc[r] = "reviewing" /\ UNCHANGED <<docs, keep, work>>
        /\ work[r].next > Len(RiskyOf(work[r].clauses))
        /\ SoFar(work[r])
    BY <1>5 DEF ReviewSummary, At, caseVars, Reviewing
  <2>2. CASE pc'[r] = "ended"
    BY <1>0, <2>1, <2>2, ReviewStays
  <2>3. CASE pc'[r] = "summary"
    <3>1. work[r].next = Len(RiskyOf(work[r].clauses)) + 1
      BY <2>1, RiskyLen DEF SoFar
    <3>. QED BY <1>0, <2>1, <2>3, <3>1 DEF Reviewing, SoFar, Live
  <2>. QED BY <1>0, <1>5, <2>2, <2>3 DEF ReviewSummary, Answer, Goto
<1>6. CASE ResumeDocument(r)
  <2>1. /\ pc[r] = "owned" /\ UNCHANGED <<docs, work>> /\ call[r].op = "case_resume"
        /\ pc'[r] \in {"running", "tool"}
    BY <1>0, <1>6 DEF ResumeDocument, At, rowVars, Goto
  <2>. QED BY <1>0, <2>1 DEF Reviewing
<1>. QED BY <1>1, <1>2, <1>3, <1>4, <1>5, <1>6 DEF CaseStep

LEMMA CaseReviews ==
  ASSUME OwnInv, AnswerInv, StateOK, ReviewInv, LettersResumed,
         NEW r \in Request, CaseStep(r)
  PROVE  ReviewInv'
<1>1. /\ PapersStay
      /\ \A d \in Doc : Live(docs[d])' /\ docs'[d].analysis # None => Whole(d)'
  BY CasePapers, WholeStays
<1>2. Reviewing(r)'
  BY <1>1, HandlerReviews DEF ReviewInv
<1>3. ASSUME NEW q \in Request \ {r} PROVE Reviewing(q)'
  <2>1. pc'[q] = pc[q] /\ UNCHANGED call[q]
    BY CaseFrame DEF OwnInv, Typed, Frame
  <2>2. UNCHANGED <<keep[q], work[q]>>
    <3>1. \/ UNCHANGED keep \/ keep' = [keep EXCEPT ![r] = call[r].doc]
      BY DEF CaseStep, CasesList, CasesCreate, CasesDelete, RequireCase, CasesGet,
         UploadRefused, UploadText, UploadInsert, DocumentsDelete, RequireDocument,
         ReviewClause, ReviewSummary, ReviewStore, ResumeDocument, ToolWrite,
         ContextBlock, AgentFinal, StreamEnds, DeadlinesCreate, DeadlinesChange,
         caseVars
    <3>2. UNCHANGED work[q]
      <4>1. CASE RequireDocument(r)
        BY <4>1 DEF RequireDocument, AnswerInv
      <4>2. CASE ReviewClause(r)
        BY <4>2 DEF ReviewClause, AnswerInv
      <4>. QED
        BY <4>1, <4>2
        DEF CaseStep, CasesList, CasesCreate, CasesDelete, RequireCase, CasesGet,
         UploadRefused, UploadText, UploadInsert, DocumentsDelete,
         ReviewSummary, ReviewStore, ResumeDocument, ToolWrite,
         ContextBlock, AgentFinal, StreamEnds, DeadlinesCreate, DeadlinesChange,
         caseVars
    <3>. QED BY <3>1, <3>2 DEF OwnInv, Typed
  <2>. QED BY <1>1, <2>1, <2>2, ReviewStays DEF ReviewInv
<1>. QED BY <1>1, <1>2, <1>3 DEF ReviewInv

\* A step of any other route.
LEMMA OtherReviews ==
  ASSUME OwnInv, AnswerInv, ReviewInv, UNCHANGED caseVars,
         \A q \in Request :
           \/ /\ UNCHANGED call[q]
              /\ \/ pc'[q] = pc[q] \/ pc'[q] = "ended"
                 \/ /\ pc[q] \notin {"reviewing", "summary", "ended"}
                    /\ pc'[q] \notin {"reviewing", "summary"}
           \/ pc[q] = "new" /\ pc'[q] \in {"open", "ended"}
  PROVE  ReviewInv'
<1>1. UNCHANGED <<docs, keep, work>> /\ PapersStay
  BY DEF caseVars, PapersStay, Live
<1>2. ASSUME NEW q \in Request, pc[q] = "new", pc'[q] \in {"open", "ended"}
      PROVE  Reviewing(q)'
  <2>1. keep[q] = None /\ work[q].next = 1 /\ work[q].findings = <<>>
    BY <1>2 DEF AnswerInv, Told, Kept, ReviewInv, Reviewing
  <2>. QED BY <1>1, <1>2, <2>1 DEF Reviewing
<1>3. \A q \in Request : Reviewing(q)'
  BY <1>1, <1>2, ReviewStays DEF ReviewInv
<1>4. \A d \in Doc : Live(docs[d])' /\ docs'[d].analysis # None => Whole(d)'
  BY <1>1 DEF ReviewInv, Whole, Live
<1>. QED BY <1>3, <1>4 DEF ReviewInv

LEMMA ReviewInit == Init => ReviewInv
<1>. SUFFICES ASSUME Init PROVE ReviewInv
  OBVIOUS
<1>1. PICK s \in Scenario : docs = s.docs
  BY DEF Init
<1>2. \A d \in Doc : Live(docs[d]) => docs[d].analysis = None
  BY <1>1, ScenarioAssumption DEF Consistent
<1>3. \A r \in Request : Reviewing(r)
  BY DEF Init, SessionsInit, NoWork, Reviewing
<1>. QED BY <1>2, <1>3 DEF ReviewInv

\* The invariant holds for as long as analyses are resumed for letters.
THEOREM ReviewInvariant ==
  ASSUME NoneIsNoRow, NoneIsNoAnalysis
  PROVE  Spec /\ []LettersResumed => []ReviewInv
<1>1. /\ ReviewInv /\ LettersResumed /\ OwnInv /\ AnswerInv /\ StateOK
      /\ [Next]_vars
      => ReviewInv'
  <2>. SUFFICES ASSUME ReviewInv, LettersResumed, OwnInv, AnswerInv, StateOK,
                       [Next]_vars
                PROVE  ReviewInv'
    OBVIOUS
  <2>0. DOMAIN pc = Request /\ DOMAIN call = Request
    BY DEF OwnInv, Typed
  <2>1. CASE (Start \/ Crash) /\ UNCHANGED <<caseVars, chatVars, calls>>
    <3>1. \A q \in Request : UNCHANGED call[q] /\ (pc'[q] = pc[q] \/ pc'[q] = "ended")
      BY <2>1 DEF Start, Crash, requestVars
    <3>. QED BY <2>1, <3>1, OtherReviews
  <2>2. ASSUME NEW r \in Request, NEW m \in calls, UNCHANGED caseVars,
               \/ Arrive(r, m[1], m[2])
               \/ \E right \in BOOLEAN : Login(r, m[1], right)
        PROVE  ReviewInv'
    <3>1. /\ pc[r] = "new" /\ pc'[r] \in {"open", "ended"}
          /\ \A q \in Request \ {r} : UNCHANGED <<call[q], pc[q]>>
      BY <2>0, <2>2 DEF Arrive, Login
    <3>. QED BY <2>2, <3>1, OtherReviews
  <2>3. ASSUME NEW r \in Request, AccountStep(r) \/ ChatStep(r), UNCHANGED caseVars
        PROVE  ReviewInv'
    <3>1. UNCHANGED call
      BY <2>3 DEF AccountStep, LookupName, InsertUser, SetActive, EvalRun,
         EvalResult, EvalStatus, PollStatus, PollResults, ChatStep, ChatClaim,
         TouchThread, ChatTurn, OwnsThread, ThreadMessages, RenameThread,
         ListThreads, DeleteThread, Goto, Answer, requestVars
    <3>2. CASE UNCHANGED pc
      BY <2>3, <3>1, <3>2, OtherReviews
    <3>3. CASE /\ pc[r] \notin {"reviewing", "summary", "ended"}
               /\ \E l \in {"ended", "insert", "polled", "touch", "turn", "history"} :
                    pc' = [pc EXCEPT ![r] = l]
      BY <2>0, <2>3, <3>1, <3>3, OtherReviews
    <3>4. CASE AccountStep(r)
      BY <3>2, <3>3, <3>4 DEF AccountStep, LookupName, InsertUser, SetActive,
         EvalRun, EvalResult, EvalStatus, PollStatus, PollResults, At, Goto,
         Answer, requestVars
    <3>5. CASE ChatStep(r)
      BY <3>3, <3>5 DEF ChatStep, ChatClaim, TouchThread, ChatTurn,
         OwnsThread, ThreadMessages, RenameThread, ListThreads, DeleteThread,
         At, Goto, Answer
    <3>. QED BY <2>3, <3>4, <3>5
  <2>4. ASSUME NEW r \in Request, CaseStep(r) PROVE ReviewInv'
    BY <2>4, CaseReviews
  <2>5. CASE UNCHANGED vars
    <3>1. UNCHANGED <<caseVars, pc, call>>
      BY <2>5 DEF vars, sessionVars, requestVars
    <3>. QED BY <3>1, OtherReviews
  <2>. QED BY <2>1, <2>2, <2>3, <2>4, <2>5 DEF Next, Quiescent
<1>2. Spec => [](OwnInv /\ AnswerInv /\ StateOK)
  BY StateInvariant
<1>. QED BY <1>1, <1>2, ReviewInit, PTL DEF Spec

\* ReviewComplete (documents_review, cases.py:224): a stored review has one
\* finding for each risky clause, in the order of the contract, and counts
\* them all, as long as clients resume analyses of letters only.
THEOREM ReviewsAreComplete ==
  ASSUME NoneIsNoRow, NoneIsNoAnalysis
  PROVE  Spec /\ []LettersResumed => []ReviewComplete
<1>1. ReviewInv => ReviewComplete
  BY DEF ReviewInv, Whole, ReviewComplete
<1>. QED BY <1>1, ReviewInvariant, PTL

=============================================================================
