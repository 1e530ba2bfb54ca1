----------------------------- MODULE CorpusIngest -----------------------------
(***************************************************************************)
(* Filling one vector collection (src/ingest/case_law.py and statutes.py   *)
(* over src/db.py) while the server answers queries from it.  A run of the *)
(* command line commits step by step: it may clear the tables, writes the  *)
(* parent sections of a batch, then its chunks one row at a time, and      *)
(* records the embedding model in collection_meta after the first batch.   *)
(* It can die between any two of these steps.                              *)
(*                                                                         *)
(* Chunks are the numbers 1 .. Chunks in the order they are written; the   *)
(* parent section of a chunk has the number of the chunk.                  *)
(***************************************************************************)
EXTENDS Naturals

CONSTANTS
  Chunks,       \* chunks of the corpus that is kept
  BatchEnds,    \* last chunks of the batches; statutes are one batch
  Model,        \* embedding models config.EMBEDDING_MODEL may name
  WithParents,  \* case law has parent sections, statutes have none
  MaxRuns,      \* runs of the command line considered
  None

ASSUME CorpusAssumption ==
  /\ Chunks \in Nat \ {0}
  /\ BatchEnds \subseteq 1 .. Chunks
  /\ Chunks \in BatchEnds
  /\ WithParents \in BOOLEAN
  /\ MaxRuns \in Nat
  /\ None \notin Model

VARIABLES
  stored,   \* stored[c]: the model chunk c is embedded with, None if absent
  parents,  \* parent sections in case_law_parents
  meta,     \* the model collection_meta names, None without a row
  config,   \* the configured embedding model
  phase,    \* the next step of the ingestion run, or how it ended
  force,    \* the run was started with --force
  model,    \* the model the run embeds with
  next,     \* the chunk the run writes next
  runs,     \* runs started so far
  broken,   \* a run has died and none has succeeded since (history)
  query,    \* "idle", or "reading" after the provenance check has passed
  read      \* the models of the chunks the last query has read

vars == <<stored, parents, meta, config, phase, force, model, next, runs,
          broken, query, read>>

Chunk == 1 .. Chunks
Present == {c \in Chunk : stored[c] # None}
Working == {"clear", "clear_parents", "open", "parents", "chunks", "record"}
Outcome == {"done", "skipped", "refused", "crashed"}

Init ==
  /\ stored = [c \in Chunk |-> None]
  /\ parents = {}
  /\ meta = None
  /\ config \in Model
  /\ phase = "idle"
  /\ force = FALSE
  /\ model = None
  /\ next = 1
  /\ runs = 0
  /\ broken = FALSE
  /\ query = "idle"
  /\ read = {}

-----------------------------------------------------------------------------
(* One run of ingest-case-law or ingest-statutes. *)

\* Mutant of Target: a populated table is not cleared.
TargetKept(f) == IF Present # {} /\ ~f THEN "skipped"
                 ELSE IF WithParents THEN "clear_parents" ELSE "open"

\* Where a run goes after counting the rows of the collection.
Target(f) ==
  IF Present # {} THEN (IF f THEN "clear" ELSE "skipped")
  ELSE IF WithParents THEN "clear_parents" ELSE "open"

Start(f) ==
  /\ phase \notin Working
  /\ runs < MaxRuns
  /\ runs' = runs + 1
  /\ force' = f
  /\ model' = config
  /\ phase' = Target(f)
  /\ UNCHANGED <<stored, parents, meta, config, next, broken, query, read>>

\* clear_collection: TRUNCATE; collection_meta keeps its row.
Clear ==
  /\ phase = "clear"
  /\ stored' = [c \in Chunk |-> None]
  /\ phase' = IF WithParents THEN "clear_parents" ELSE "open"
  /\ UNCHANGED <<parents, meta, config, force, model, next, runs, broken,
                 query, read>>

ClearParents ==
  /\ phase = "clear_parents"
  /\ parents' = IF force THEN {} ELSE parents
  /\ phase' = "open"
  /\ UNCHANGED <<stored, meta, config, force, model, next, runs, broken,
                 query, read>>

\* Mutant of Matches: the provenance check is left out.
MatchesAlways(m) == TRUE

\* assert_embedding_model: a collection without a record passes.
Matches(m) == meta = None \/ meta = m

\* get_vectorstore of the run.
Open ==
  /\ phase = "open"
  /\ phase' = IF ~Matches(model) THEN "refused"
              ELSE IF WithParents THEN "parents" ELSE "chunks"
  /\ next' = 1
  /\ UNCHANGED <<stored, parents, meta, config, force, model, runs, broken,
                 query, read>>

\* A run that ends in success leaves nothing of an earlier crash.
Repaired == broken /\ phase' # "done"

LastOfBatch(c) == c \in BatchEnds
FirstBatch(c) == \A e \in BatchEnds : c <= e

\* Mutant of Batch: the last chunk of a batch is left out.
BatchShort(c) == {d \in Chunk : c <= d /\ \A e \in BatchEnds : c <= e => d < e}

\* The chunks of the batch that starts with chunk c.
Batch(c) == {d \in Chunk : c <= d /\ \A e \in BatchEnds : c <= e => d <= e}

\* upsert_case_law_parents for the batch that starts with next.
WriteParents ==
  /\ phase = "parents"
  /\ parents' = parents \cup Batch(next)
  /\ phase' = "chunks"
  /\ UNCHANGED <<stored, meta, config, force, model, next, runs, broken,
                 query, read>>

\* Mutant of After: a run ends with its first batch.
AfterFirst(c) == IF LastOfBatch(c) THEN "done" ELSE "chunks"

\* Where a run goes when it has written chunk c.
After(c) ==
  IF ~LastOfBatch(c) THEN "chunks"
  ELSE IF FirstBatch(c) THEN "record"
  ELSE IF c = Chunks THEN "done" ELSE "parents"

Following(c) == IF c < Chunks THEN c + 1 ELSE c

\* add_documents upserts and commits row by row.
AddChunk ==
  /\ phase = "chunks"
  /\ stored' = [stored EXCEPT ![next] = model]
  /\ next' = Following(next)
  /\ phase' = After(next)
  /\ broken' = Repaired
  /\ UNCHANGED <<parents, meta, config, force, model, runs, query, read>>

\* record_embedding_provenance names the configured model.
Recorded == model

Record ==
  /\ phase = "record"
  /\ meta' = Recorded
  /\ phase' = IF Present = Chunk THEN "done"
              ELSE IF WithParents THEN "parents" ELSE "chunks"
  /\ broken' = Repaired
  /\ UNCHANGED <<stored, parents, config, force, model, next, runs, query,
                 read>>

Crash ==
  /\ phase \in Working
  /\ phase' = "crashed"
  /\ broken' = TRUE
  /\ UNCHANGED <<stored, parents, meta, config, force, model, next, runs,
                 query, read>>

-----------------------------------------------------------------------------
(* The server. *)

\* get_hybrid_retriever and get_vectorstore check the provenance first.
Ask ==
  /\ query = "idle"
  /\ Matches(config)
  /\ query' = "reading"
  /\ UNCHANGED <<stored, parents, meta, config, phase, force, model, next,
                 runs, broken, read>>

\* The dense search compares the query vector with every stored chunk.
Read ==
  /\ query = "reading"
  /\ query' = "idle"
  /\ read' = {stored[c] : c \in Present}
  /\ UNCHANGED <<stored, parents, meta, config, phase, force, model, next,
                 runs, broken>>

\* The code is deployed with another EMBEDDING_MODEL: the server restarts.
Switch ==
  /\ phase \notin Working
  /\ config' \in Model \ {config}
  /\ query' = "idle"
  /\ read' = {}
  /\ UNCHANGED <<stored, parents, meta, phase, force, model, next, runs,
                 broken>>

Next ==
  \/ \E f \in BOOLEAN : Start(f)
  \/ Clear \/ ClearParents \/ Open \/ WriteParents \/ AddChunk \/ Record
  \/ Crash
  \/ Ask \/ Read \/ Switch

Spec == Init /\ [][Next]_vars

-----------------------------------------------------------------------------
\* Every variable has its type.
TypeOK ==
  /\ stored \in [Chunk -> Model \cup {None}]
  /\ parents \subseteq Chunk
  /\ meta \in Model \cup {None}
  /\ config \in Model
  /\ phase \in {"idle"} \cup Working \cup Outcome
  /\ force \in BOOLEAN
  /\ model \in Model \cup {None}
  /\ phase \in Working => model \in Model
  /\ next \in Chunk
  /\ runs \in 0 .. MaxRuns
  /\ broken \in BOOLEAN
  /\ query \in {"idle", "reading"}
  /\ read \subseteq Model

\* "Write parents first so a child is never retrievable before its parent
\* exists": whatever run died where, a stored chunk has its parent section.
ParentsFirst == WithParents => Present \subseteq parents

\* A collection never mixes the vectors of two models.
OneModel == \A b, c \in Present : stored[b] = stored[c]

\* collection_meta, where it has a row, names the model of every chunk.
MetaTruthful == meta # None => \A c \in Present : stored[c] = meta

\* A run that reports success has stored every chunk and its provenance.
DoneIsComplete ==
  phase = "done" => Present = Chunk /\ meta = model
                    /\ \A c \in Chunk : stored[c] = model

\* What holds between two steps of a run.
Writing == {"parents", "chunks", "record"}

\* The tables are empty when a run opens the collection, and while it writes
\* they hold only what the run has written, after the parents of the batch.
RunInv ==
  /\ phase \in {"clear_parents", "open"} => Present = {}
  /\ phase \in Writing =>
       /\ meta \in {None, model}
       /\ \A c \in Present : stored[c] = model
  /\ phase \in {"parents", "chunks"} =>
       /\ Present = 1 .. (next - 1)
       /\ (\E e \in BatchEnds : e < next) => meta = model
  /\ phase = "chunks" /\ WithParents => Batch(next) \subseteq parents
  /\ phase = "record" => \/ Present = Chunk
                         \/ Present = 1 .. (next - 1)

\* The inductive invariant.
CorpusInv ==
  /\ TypeOK
  /\ ParentsFirst
  /\ OneModel
  /\ MetaTruthful
  /\ DoneIsComplete
  /\ RunInv

\* Unless a run has died, a collection is empty or complete between two runs.
\* A run writes with the configured model, and a collection that gets its
\* record after a query has passed the provenance check gets that model.
ServeInv ==
  /\ phase \notin Working /\ ~broken =>
       Present = {} \/ (Present = Chunk /\ meta # None)
  /\ phase \in Working => model = config
  /\ query = "reading" => meta \in {None, config}

\* What the provenance record guarantees of it: once the collection has a
\* record no query meets vectors of another model, whatever runs start, die or
\* finish between the check and the search.
RecordedQueriesMatch == [][meta # None => read' \subseteq {config}]_read

\* "Case law already ingested" (main.py): unless a run has died, a run is only
\* skipped when the corpus is there.
SkippedIsComplete == phase = "skipped" /\ ~broken => Present = Chunk
=============================================================================
