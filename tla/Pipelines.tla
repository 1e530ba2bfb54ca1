-------------------------------- MODULE Pipelines --------------------------------
(***************************************************************************)
(* The parts of the system that share no state with the others or with    *)
(* one another: the download of the statutes, the search, the page of a    *)
(* source, the texts that are cut, the tools that calculate, the           *)
(* evaluation and the session of the client.  Each behaviour is of one of  *)
(* them.  A calculation is a step from the choice of its input to its end. *)
(***************************************************************************)
EXTENDS LegalData, Retrieval, CaseLaw, LegalTools, Evaluation, Workspace

CONSTANTS
  Contracts, Decisions,   \* texts
  Dumps, Gists,           \* sequences of decisions; what the gist model answers
  NoticeQuestions, RentQuestions

ASSUME TextsAssumption == \A t \in Contracts \cup Decisions : t \in Seq(ToSet(t))

\* A dump is a sequence of decisions, each with an id of its own, and a gist is
\* a text, if an empty one.
ASSUME DumpsAssumption ==
  \A rows \in Dumps :
    /\ rows \in Seq(ToSet(rows))
    /\ \A i, j \in DOMAIN rows : i # j => rows[i].id # rows[j].id
    /\ \A r \in ToSet(rows) :
         /\ r.cites \in BOOLEAN /\ r.hits \in Nat /\ r.text \in Seq(ToSet(r.text))
         /\ \A g \in Gists : g[r.id] \in Seq(ToSet(g[r.id]))

VARIABLES
  part,    \* which part of the system this behaviour is of
  input    \* the input of a calculation, and what it is taken apart into

vars == <<loadVars, searchVars, evalVars, deskVars, part, input>>

Idle == [kind |-> "none"]

Init ==
  /\ LoadInit /\ SearchInit /\ EvalInit /\ DeskInit
  /\ part \in {"download", "search", "calculation", "evaluation", "client"}
  /\ input = Idle

\* segment_clauses, chunk_case_law_hierarchical, filter_mietrecht_decisions,
\* lookup_notice_period, check_rent_brake.
Calculate ==
  /\ part = "calculation" /\ input = Idle
  /\ \/ \E t \in Contracts : input' = [kind |-> "contract", text |-> t, pieces |-> Pieces(t)]
     \/ \E t \in Decisions :
          input' = [kind |-> "decision", text |-> t, rows |-> DecisionToChunks(t, <<>>)]
     \/ \E rows \in Dumps : input' = [kind |-> "filter", rows |-> rows, kept |-> Kept(rows)]
     \/ \E q \in NoticeQuestions : input' = [kind |-> "notice", q |-> q]
     \/ \E q \in RentQuestions : input' = [kind |-> "rent", q |-> q]
  /\ UNCHANGED <<loadVars, searchVars, evalVars, deskVars, part>>

\* ingest_case_law goes on with what it kept.
Ingest ==
  /\ input.kind = "filter"
  /\ \E g \in Gists :
       input' = [kind |-> "ingested", rows |-> input.rows, kept |-> input.kept,
                 chunks |-> IngestedChunks(input.kept, g)]
  /\ UNCHANGED <<loadVars, searchVars, evalVars, deskVars, part>>

\* A part that has come to its end rests.
Rest ==
  /\ CASE part = "download"    -> load.at \in {"down", "failed", "done"} /\ load.run = MaxRuns
       [] part = "search"      -> find.at = "answered" \/ page.at # "idle"
       [] part = "evaluation"  -> eval.at = "idle" /\ eval.run = MaxEvals
       [] part = "client"      -> DeskRests
       [] part = "calculation" -> input.kind \notin {"none", "filter"}
  /\ UNCHANGED vars

Next ==
  \/ part = "download" /\ LoadNext /\ UNCHANGED <<searchVars, evalVars, deskVars, part, input>>
  \/ part = "search" /\ SearchNext /\ UNCHANGED <<loadVars, evalVars, deskVars, part, input>>
  \/ part = "evaluation" /\ EvalNext /\ UNCHANGED <<loadVars, searchVars, deskVars, part, input>>
  \/ part = "client" /\ DeskNext /\ UNCHANGED <<loadVars, searchVars, evalVars, part, input>>
  \/ Calculate \/ Ingest
  \/ Rest

Spec == Init /\ [][Next]_vars
-----------------------------------------------------------------------------
(* Properties. *)

\* Nothing is lost where texts are cut or put together: the clauses of a
\* contract, the chunks of a decision (Clauses) and the page of a source.
NothingLost ==
  /\ input.kind = "contract" => ContractWhole(input.text, input.pieces)
  /\ input.kind = "decision" => DecisionWhole(input.text, input.rows)
  /\ SourceWhole

\* Every dump is filtered, cut and counted as the ingestion promises.
DumpsFaithful ==
  input.kind = "ingested" => CaseLawFaithful(input.rows, input.kept, input.chunks)

\* Every figure of the calculating tools is the one of the law.
FiguresRight ==
  /\ input.kind = "notice" => NoticeFair(input.q)
  /\ input.kind = "rent" => RentBrakeFair(input.q)
=============================================================================
