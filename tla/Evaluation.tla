------------------------------- MODULE Evaluation -------------------------------
(***************************************************************************)
(* run_eval (src/eval/runner.py): the agent answers the questions, a judge *)
(* model scores answers and retrieval, and the results replace the file of *)
(* the last run.  The judge fails for single rows or for all; the process  *)
(* dies anywhere.  The numbers are not modelled: a score is the run that   *)
(* measured it, or NaN.                                                    *)
(***************************************************************************)
EXTENDS Naturals, Sequences, FiniteSets

CONSTANTS
  Collections,   \* of the data set, in the order of their evaluation
  Annotated,     \* those with questions that name a decision
  MaxEvals,      \* how often the evaluation is run at most
  NaN

ASSUME EvaluationAssumption ==
  /\ MaxEvals \in Nat /\ NaN \notin 1..MaxEvals
  /\ Annotated \subseteq {Collections[i] : i \in DOMAIN Collections}

VARIABLES
  eval,     \* the run: its place, its number, what it has read and measured
  results   \* data/eval_results.json: whether it parses, and scores by collection

evalVars == <<eval, results>>

Judged == {"context_precision", "context_recall"}

EvalInit == eval = [at |-> "idle", run |-> 0] /\ results = [ok |-> FALSE, scores |-> <<>>]

\* The agent's turns and their scores, then _load_previous_retrieval: a file
\* that is missing or does not parse counts as none.
StartEval ==
  /\ eval.at = "idle" /\ eval.run < MaxEvals
  /\ eval' = [at |-> "measure", run |-> eval.run + 1, todo |-> Collections,
              previous |-> IF results.ok THEN results.scores ELSE <<>>,
              scores |-> <<>>]
  /\ UNCHANGED results

AllNaN(s) == \A m \in DOMAIN s : s[m] = NaN

\* Mutant of KeptScores: the scores of this run, whatever they are.
KeptScoresNew(c, s) == s

\* Scores that are all NaN are a failure of the judge: those of the run before
\* stay, if it had any.
KeptScores(c, s) ==
  IF /\ AllNaN(s) /\ c \in DOMAIN eval.previous /\ ~AllNaN(eval.previous[c])
  THEN eval.previous[c] ELSE s

\* _ragas_score: a metric is the mean of the rows the judge could score, NaN
\* if there is none.
RagasScores == [Judged -> {eval.run, NaN}]

\* _hit_metrics: s and the metrics that need no judge, if a question names a
\* decision.
WithHitMetrics(c, s) ==
  IF c \notin Annotated THEN s
  ELSE [m \in DOMAIN s \cup {"hit_rate"} |-> IF m = "hit_rate" THEN eval.run ELSE s[m]]

\* One collection: retrieve, judge, and add the metrics that need no judge.
Measure ==
  /\ eval.at = "measure" /\ eval.todo # <<>>
  /\ \E judged \in RagasScores :
       LET c == Head(eval.todo)
           s == WithHitMetrics(c, KeptScores(c, judged))
       IN eval' = [eval EXCEPT !.todo = Tail(@),
                     !.scores = [d \in DOMAIN @ \cup {c} |-> IF d = c THEN s ELSE @[d]]]
  /\ UNCHANGED results

\* The file is opened, which empties it, ...
OpenResults ==
  /\ eval.at = "measure" /\ eval.todo = <<>>
  /\ results' = [ok |-> FALSE, scores |-> <<>>]
  /\ eval' = [eval EXCEPT !.at = "write"]

\* ... and written.
WriteResults ==
  /\ eval.at = "write"
  /\ results' = [ok |-> TRUE, scores |-> eval.scores]
  /\ eval' = [at |-> "idle", run |-> eval.run]

\* The process dies, or the run fails.
EvalDies ==
  /\ eval.at # "idle"
  /\ eval' = [at |-> "idle", run |-> eval.run]
  /\ UNCHANGED results

EvalNext == StartEval \/ Measure \/ OpenResults \/ WriteResults \/ EvalDies

-----------------------------------------------------------------------------
(* Properties. *)

IsMeasured(s) == \E m \in Judged : s[m] # NaN

\* "Don't silently overwrite the last good scores" (run_eval): what a run is
\* about to save has scores for every collection that the file it read had
\* scores for, however the judge fails; the scores of a collection are of one
\* run, and the metrics that need no judge are of this one.
ScoresKept ==
  eval.at \in {"measure", "write"} => \A c \in DOMAIN eval.scores :
    LET s == eval.scores[c]
    IN /\ c \in DOMAIN eval.previous /\ IsMeasured(eval.previous[c]) => IsMeasured(s)
       /\ \A m, n \in Judged : s[m] = NaN \/ s[n] = NaN \/ s[m] = s[n]
       /\ c \in Annotated => s["hit_rate"] = eval.run
=============================================================================
