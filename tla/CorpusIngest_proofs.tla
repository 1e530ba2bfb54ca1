-------------------------- MODULE CorpusIngest_proofs --------------------------
(***************************************************************************)
(* Proofs about CorpusIngest for every corpus, batching and set of models: *)
(* the collection never mixes two models and no chunk is stored without    *)
(* its parent section, whatever run dies where; and when no run dies, no   *)
(* query meets vectors of another model.                                   *)
(***************************************************************************)
EXTENDS CorpusIngest, TLAPS

\* The chunks of a collection after one chunk has been written.
LEMMA PresentGrows ==
  ASSUME TypeOK, phase = "chunks", AddChunk
  PROVE  /\ Present' = Present \cup {next}
         /\ \A c \in Chunk : stored'[c] = IF c = next THEN model ELSE stored[c]
         /\ model \in Model /\ model # None
<1>1. model \in Model /\ model # None
  BY CorpusAssumption DEF TypeOK, Working
<1>2. \A c \in Chunk : stored'[c] = IF c = next THEN model ELSE stored[c]
  BY DEF TypeOK, AddChunk
<1> QED
  BY <1>1, <1>2 DEF Present, TypeOK

\* Batches do not overlap: within a batch, what is left of it shrinks.
LEMMA BatchShrinks ==
  ASSUME NEW c \in Chunk, c \notin BatchEnds
  PROVE  c + 1 \in Chunk /\ Batch(c + 1) \subseteq Batch(c)
<1>1. c < Chunks /\ c + 1 \in Chunk
  BY CorpusAssumption DEF Chunk
<1>2. ASSUME NEW d \in Batch(c + 1) PROVE d \in Batch(c)
  <2>1. d \in Chunk /\ c + 1 <= d /\ \A e \in BatchEnds : c + 1 <= e => d <= e
    BY <1>2 DEF Batch
  <2>2. \A e \in BatchEnds : c <= e => c + 1 <= e
    BY CorpusAssumption DEF Chunk
  <2> QED
    BY <2>1, <2>2 DEF Batch, Chunk
<1> QED
  BY <1>1, <1>2

\* What a run writes next is in the batch whose parents it has written.
LEMMA NextInBatch ==
  ASSUME NEW c \in Chunk
  PROVE  c \in Batch(c)
BY DEF Batch, Chunk

LEMMA TypeInit == Init => TypeOK
<1> SUFFICES ASSUME Init PROVE TypeOK
  OBVIOUS
<1>1. 1 \in Chunk /\ 0 \in 0 .. MaxRuns
  BY CorpusAssumption DEF Chunk
<1>2. stored \in [Chunk -> Model \cup {None}] /\ phase \notin Working
  BY DEF Init, Working
<1> QED
  BY <1>1, <1>2 DEF Init, TypeOK

LEMMA TypeStep == TypeOK /\ [Next]_vars => TypeOK'
<1> SUFFICES ASSUME TypeOK, [Next]_vars PROVE TypeOK'
  OBVIOUS
<1> USE DEF TypeOK, Working, Outcome
<1>1. ASSUME NEW f \in BOOLEAN, Start(f) PROVE TypeOK'
  BY <1>1, CorpusAssumption DEF Start, Target
<1>2. CASE Clear
  BY <1>2 DEF Clear
<1>3. CASE ClearParents
  BY <1>3 DEF ClearParents
<1>4. CASE Open
  BY <1>4, CorpusAssumption DEF Open, Chunk
<1>5. CASE WriteParents
  BY <1>5 DEF WriteParents, Batch
<1>6. CASE AddChunk
  <2>1. phase' \in {"chunks", "record", "done", "parents"}
    BY <1>6 DEF AddChunk, After
  <2>2. next' \in Chunk
    BY <1>6, CorpusAssumption DEF AddChunk, Following, Chunk
  <2>3. broken' \in BOOLEAN
    BY <1>6 DEF AddChunk, Repaired
  <2> QED
    BY <1>6, <2>1, <2>2, <2>3 DEF AddChunk
<1>7. CASE Record
  <2>1. broken' \in BOOLEAN
    BY <1>7 DEF Record, Repaired
  <2> QED
    BY <1>7, <2>1 DEF Record, Recorded
<1>8. CASE Crash
  BY <1>8 DEF Crash
<1>9. CASE Ask
  BY <1>9 DEF Ask
<1>10. CASE Read
  BY <1>10 DEF Read, Present
<1>11. CASE Switch
  BY <1>11 DEF Switch
<1>12. CASE UNCHANGED vars
  BY <1>12 DEF vars
<1> QED
  BY <1>1, <1>2, <1>3, <1>4, <1>5, <1>6, <1>7, <1>8, <1>9, <1>10, <1>11,
     <1>12 DEF Next

\* Every variable keeps its type.
THEOREM TypeCorrect == Spec => []TypeOK
BY TypeInit, TypeStep, PTL DEF Spec

-----------------------------------------------------------------------------
LEMMA CorpusInit == Init => CorpusInv
<1> SUFFICES ASSUME Init PROVE CorpusInv
  OBVIOUS
<1>1. Present = {}
  BY DEF Init, Present
<1> QED
  BY <1>1, TypeInit DEF Init, CorpusInv, ParentsFirst, OneModel, MetaTruthful,
     DoneIsComplete, RunInv, Writing

LEMMA CorpusStep == CorpusInv /\ [Next]_vars => CorpusInv'
<1> SUFFICES ASSUME CorpusInv, [Next]_vars PROVE CorpusInv'
  OBVIOUS
<1>0. TypeOK /\ TypeOK'
  BY TypeStep DEF CorpusInv
<1> USE <1>0
\* The steps of the server do not touch the tables or the run.
<1>a. ASSUME UNCHANGED <<stored, parents, meta, phase, model, next>>
      PROVE  CorpusInv'
  <2>1. Present' = Present
    BY <1>a DEF Present
  <2> QED
    BY <1>a, <2>1 DEF CorpusInv, ParentsFirst, OneModel, MetaTruthful,
       DoneIsComplete, RunInv, Writing
\* A step of a run that leaves the tables alone and does not start to write.
<1>b. ASSUME UNCHANGED <<stored, parents, meta>>,
             phase' \notin Writing \cup {"done"},
             phase' \in {"clear_parents", "open"} => Present = {}
      PROVE  CorpusInv'
  <2>1. Present' = Present
    BY <1>b DEF Present
  <2> QED
    BY <1>b, <2>1 DEF CorpusInv, ParentsFirst, OneModel, MetaTruthful,
       DoneIsComplete, RunInv, Writing
<1>1. ASSUME NEW f \in BOOLEAN, Start(f) PROVE CorpusInv'
  <2>1. UNCHANGED <<stored, parents, meta>>
    BY <1>1 DEF Start
  <2>2. phase' \in {"clear", "skipped", "clear_parents", "open"}
        /\ (phase' \in {"clear_parents", "open"} => Present = {})
    BY <1>1 DEF Start, Target
  <2> QED
    BY <1>b, <2>1, <2>2 DEF Writing
<1>2. CASE Clear
  <2>1. Present' = {}
    BY <1>2 DEF Clear, Present
  <2>2. phase' \in {"clear_parents", "open"}
    BY <1>2 DEF Clear
  <2> QED
    BY <2>1, <2>2 DEF CorpusInv, ParentsFirst, OneModel, MetaTruthful,
       DoneIsComplete, RunInv, Writing
<1>3. CASE ClearParents
  <2>1. Present' = {}
    BY <1>3 DEF ClearParents, Present, CorpusInv, RunInv
  <2>2. phase' = "open"
    BY <1>3 DEF ClearParents
  <2> QED
    BY <2>1, <2>2 DEF CorpusInv, ParentsFirst, OneModel, MetaTruthful,
       DoneIsComplete, RunInv, Writing
<1>4. CASE Open
  <2>1. Present = {} /\ Present' = {}
    BY <1>4 DEF Open, Present, CorpusInv, RunInv
  <2>2. /\ UNCHANGED <<meta, model>>
        /\ phase' \in {"refused", "parents", "chunks"}
        /\ phase' # "refused" => meta \in {None, model}
        /\ phase' = "chunks" => ~WithParents
        /\ next' = 1
    BY <1>4 DEF Open, Matches
  <2>3. ~\E e \in BatchEnds : e < 1
    BY CorpusAssumption
  <2>4. 1 .. (1 - 1) = {}
    OBVIOUS
  <2> QED
    BY <2>1, <2>2, <2>3, <2>4 DEF CorpusInv, ParentsFirst, OneModel,
       MetaTruthful, DoneIsComplete, RunInv, Writing
<1>5. CASE WriteParents
  <2>1. Present' = Present
    BY <1>5 DEF WriteParents, Present
  <2>2. /\ UNCHANGED <<stored, meta, model, next>>
        /\ phase = "parents" /\ phase' = "chunks"
        /\ parents \subseteq parents' /\ Batch(next) \subseteq parents'
    BY <1>5 DEF WriteParents
  <2>3. Batch(next)' = Batch(next)
    BY <2>2 DEF Batch
  <2> QED
    BY <2>1, <2>2, <2>3 DEF CorpusInv, ParentsFirst, OneModel, MetaTruthful,
       DoneIsComplete, RunInv, Writing
<1>6. CASE AddChunk
  <2>0. phase = "chunks" /\ UNCHANGED <<parents, meta, model>>
        /\ next' = Following(next) /\ phase' = After(next)
    BY <1>6 DEF AddChunk
  <2>1. /\ Present' = Present \cup {next}
        /\ \A c \in Chunk : stored'[c] = IF c = next THEN model ELSE stored[c]
        /\ model \in Model /\ model # None
    BY <1>6, <2>0, PresentGrows
  <2>2. /\ meta \in {None, model}
        /\ \A c \in Present : stored[c] = model
        /\ Present = 1 .. (next - 1)
        /\ (\E e \in BatchEnds : e < next) => meta = model
        /\ WithParents => Batch(next) \subseteq parents
    BY <2>0 DEF CorpusInv, RunInv, Writing
  <2>3. next \in Chunk /\ Present' = 1 .. next
    BY <2>1, <2>2 DEF TypeOK, Chunk
  <2>4. \A c \in Present' : stored'[c] = model'
    BY <2>0, <2>1, <2>2, <2>3 DEF Present
  <2>5. ParentsFirst'
    BY <2>0, <2>1, <2>2, <2>3, NextInBatch DEF CorpusInv, ParentsFirst
  <2>6. OneModel' /\ MetaTruthful'
    BY <2>0, <2>2, <2>4 DEF OneModel, MetaTruthful
  <2>7. CASE next \notin BatchEnds
    <3>1. phase' = "chunks" /\ next' = next + 1
          /\ Batch(next + 1) \subseteq Batch(next)
      BY <2>0, <2>3, <2>7, BatchShrinks, CorpusAssumption
        DEF After, LastOfBatch, Following, Chunk
    <3>2. (\E e \in BatchEnds : e < next + 1) => meta = model
      BY <2>2, <2>3, <2>7, CorpusAssumption DEF Chunk
    <3>3. Present' = 1 .. (next' - 1)
      BY <2>3, <3>1 DEF Chunk
    <3>4. Batch(next)' = Batch(next + 1)
      BY <3>1 DEF Batch
    <3> QED
      BY <2>0, <2>2, <2>4, <2>5, <2>6, <3>1, <3>2, <3>3, <3>4 DEF CorpusInv,
         DoneIsComplete, RunInv, Writing
  <2>8. CASE next \in BatchEnds /\ FirstBatch(next)
    <3>1. phase' = "record"
      BY <2>0, <2>8 DEF After, LastOfBatch
    <3>2. Present' = Chunk \/ Present' = 1 .. (next' - 1)
      BY <2>0, <2>3, CorpusAssumption DEF Following, Chunk
    <3>3. Chunk' = Chunk
      BY DEF Chunk
    <3> QED
      BY <2>0, <2>2, <2>4, <2>5, <2>6, <3>1, <3>2, <3>3 DEF CorpusInv,
         DoneIsComplete, RunInv, Writing
  <2>9. CASE next \in BatchEnds /\ ~FirstBatch(next)
    <3>1. meta = model
      <4>1. PICK e \in BatchEnds : ~(next <= e)
        BY <2>9 DEF FirstBatch
      <4>2. e < next
        BY <2>3, <4>1, CorpusAssumption DEF Chunk
      <4> QED
        BY <2>2, <4>2
    <3>2. CASE next = Chunks
      <4>1. phase' = "done" /\ Present' = Chunk
        BY <2>0, <2>3, <2>9, <3>2 DEF After, LastOfBatch, Chunk
      <4> QED
        BY <2>0, <2>4, <2>5, <2>6, <3>1, <4>1 DEF CorpusInv, DoneIsComplete,
           RunInv, Writing
    <3>3. CASE next # Chunks
      <4>1. phase' = "parents" /\ next' = next + 1
        BY <2>0, <2>3, <2>9, <3>3, CorpusAssumption
          DEF After, LastOfBatch, Following, Chunk
      <4>2. Present' = 1 .. (next' - 1)
        BY <2>3, <4>1 DEF Chunk
      <4> QED
        BY <2>0, <2>4, <2>5, <2>6, <3>1, <4>1, <4>2 DEF CorpusInv,
           DoneIsComplete, RunInv, Writing
    <3> QED
      BY <3>2, <3>3
  <2> QED
    BY <2>7, <2>8, <2>9
<1>7. CASE Record
  <2>1. Present' = Present
    BY <1>7 DEF Record, Present
  <2>2. /\ phase = "record" /\ meta' = model
        /\ UNCHANGED <<stored, parents, model, next>>
        /\ phase' \in {"done", "parents", "chunks"}
        /\ phase' = "done" <=> Present = Chunk
        /\ phase' = "chunks" => ~WithParents
    BY <1>7 DEF Record, Recorded
  <2>3. /\ \A c \in Present : stored[c] = model
        /\ Present = Chunk \/ Present = 1 .. (next - 1)
    BY <2>2 DEF CorpusInv, RunInv, Writing
  <2>4. ParentsFirst' /\ OneModel' /\ MetaTruthful'
    BY <2>1, <2>2, <2>3 DEF CorpusInv, ParentsFirst, OneModel, MetaTruthful
  <2>5. DoneIsComplete'
    BY <2>1, <2>2, <2>3 DEF DoneIsComplete
  <2>6. RunInv'
    BY <2>1, <2>2, <2>3 DEF RunInv, Writing
  <2> QED
    BY <2>4, <2>5, <2>6 DEF CorpusInv
<1>8. CASE Crash
  <2>1. UNCHANGED <<stored, parents, meta>> /\ phase' = "crashed"
    BY <1>8 DEF Crash
  <2> QED
    BY <1>b, <2>1 DEF Writing
<1>9. CASE Ask
  BY <1>9, <1>a DEF Ask
<1>10. CASE Read
  BY <1>10, <1>a DEF Read
<1>11. CASE Switch
  BY <1>11, <1>a DEF Switch
<1>12. CASE UNCHANGED vars
  BY <1>12, <1>a DEF vars
<1> QED
  BY <1>1, <1>2, <1>3, <1>4, <1>5, <1>6, <1>7, <1>8, <1>9, <1>10, <1>11,
     <1>12 DEF Next

\* Whatever run dies at whatever step: chunks have their parent sections, one
\* collection holds one model's vectors, and collection_meta names that model.
THEOREM CorpusInvariant == Spec => []CorpusInv
BY CorpusInit, CorpusStep, PTL DEF Spec

\* "Write parents first so a child is never retrievable before its parent
\* exists" (case_law.py), for every corpus and batching.
THEOREM ParentsAreFirst == Spec => []ParentsFirst
<1>1. CorpusInv => ParentsFirst
  BY DEF CorpusInv
<1> QED
  BY <1>1, CorpusInvariant, PTL

\* collection_meta never names another model than the one of the vectors, and
\* there is only one.
THEOREM ProvenanceHolds == Spec => [](OneModel /\ MetaTruthful)
<1>1. CorpusInv => OneModel /\ MetaTruthful
  BY DEF CorpusInv
<1> QED
  BY <1>1, CorpusInvariant, PTL

\* A run that ends in success has written everything.
THEOREM DoneMeansComplete == Spec => []DoneIsComplete
<1>1. CorpusInv => DoneIsComplete
  BY DEF CorpusInv
<1> QED
  BY <1>1, CorpusInvariant, PTL

-----------------------------------------------------------------------------
(* Queries and skipped runs. *)

LEMMA ServeInit == Init => ServeInv /\ SkippedIsComplete
<1> SUFFICES ASSUME Init PROVE ServeInv /\ SkippedIsComplete
  OBVIOUS
<1>1. Present = {}
  BY DEF Init, Present
<1> QED
  BY <1>1 DEF Init, ServeInv, Working, SkippedIsComplete

LEMMA ServeStep ==
  ASSUME CorpusInv, CorpusInv', ServeInv, [Next]_vars
  PROVE  ServeInv'
<1> USE DEF Working, Outcome
<1>0. TypeOK
  BY DEF CorpusInv
<1>1. ASSUME NEW f \in BOOLEAN, Start(f) PROVE ServeInv'
  <2>1. Present' = Present
        /\ UNCHANGED <<stored, meta, config, query, broken>>
        /\ model' = config /\ phase \notin Working
    BY <1>1 DEF Start, Present
  <2> QED
    BY <2>1 DEF ServeInv, Chunk
<1>2. CASE Clear
  BY <1>2 DEF Clear, ServeInv
<1>3. CASE ClearParents
  BY <1>3 DEF ClearParents, ServeInv
<1>4. CASE Open
  <2>1. Present' = {}
    BY <1>4 DEF Open, Present, CorpusInv, RunInv
  <2>2. phase = "open" /\ UNCHANGED <<model, config, meta, query>>
    BY <1>4 DEF Open
  <2> QED
    BY <2>1, <2>2 DEF ServeInv
<1>5. CASE WriteParents
  BY <1>5 DEF WriteParents, ServeInv
\* A run that ends here has stored every chunk and the record.
<1>6. CASE AddChunk
  <2>1. /\ phase = "chunks" /\ UNCHANGED <<meta, model, config, query>>
        /\ phase' \in {"chunks", "record", "done", "parents"}
    BY <1>6 DEF AddChunk, After
  <2>2. phase' = "done" => Present' = Chunk /\ meta' # None
    BY <1>0, <2>1, CorpusAssumption
      DEF CorpusInv, DoneIsComplete, Chunk, TypeOK
  <2> QED
    BY <2>1, <2>2 DEF ServeInv, Chunk
<1>7. CASE Record
  <2>1. /\ phase = "record" /\ meta' = model
        /\ UNCHANGED <<model, config, query>>
        /\ phase' \in {"done", "parents", "chunks"}
    BY <1>7 DEF Record, Recorded
  <2>2. phase' = "done" => Present' = Chunk
    BY DEF CorpusInv, DoneIsComplete
  <2>3. meta' # None
    BY <1>0, <2>1, CorpusAssumption DEF TypeOK
  <2> QED
    BY <2>1, <2>2, <2>3 DEF ServeInv, Chunk
<1>8. CASE Crash
  BY <1>8 DEF Crash, ServeInv
\* The provenance check.
<1>9. CASE Ask
  <2>1. Present' = Present
    BY <1>9 DEF Ask, Present
  <2> QED
    BY <1>9, <2>1 DEF Ask, Matches, ServeInv, Chunk
<1>10. CASE Read
  <2>1. Present' = Present
    BY <1>10 DEF Read, Present
  <2> QED
    BY <1>10, <2>1 DEF Read, ServeInv, Chunk
<1>11. CASE Switch
  <2>1. Present' = Present
    BY <1>11 DEF Switch, Present
  <2> QED
    BY <1>11, <2>1 DEF Switch, ServeInv, Chunk
<1>12. CASE UNCHANGED vars
  <2>1. Present' = Present
    BY <1>12 DEF vars, Present
  <2> QED
    BY <1>12, <2>1 DEF vars, ServeInv, Chunk
<1> QED
  BY <1>1, <1>2, <1>3, <1>4, <1>5, <1>6, <1>7, <1>8, <1>9, <1>10, <1>11,
     <1>12 DEF Next

LEMMA SkippedStep ==
  ASSUME ServeInv, SkippedIsComplete, [Next]_vars
  PROVE  SkippedIsComplete'
<1>1. ASSUME NEW f \in BOOLEAN, Start(f) PROVE SkippedIsComplete'
  <2>1. Present' = Present /\ broken' = broken /\ phase \notin Working
        /\ (phase' = "skipped" => Present # {})
    BY <1>1 DEF Start, Present, Target
  <2> QED
    BY <2>1 DEF ServeInv, SkippedIsComplete, Chunk
<1>2. CASE UNCHANGED <<stored, phase, broken>>
  <2>1. Present' = Present
    BY <1>2 DEF Present
  <2> QED
    BY <1>2, <2>1 DEF SkippedIsComplete, Chunk
<1>3. CASE phase' # "skipped"
  BY <1>3 DEF SkippedIsComplete
<1> QED
  BY <1>1, <1>2, <1>3 DEF Next, Clear, ClearParents, Open, WriteParents,
     AddChunk, After, Record, Crash, Ask, Read, Switch, vars

LEMMA ServeInvariant == Spec => [](CorpusInv /\ ServeInv /\ SkippedIsComplete)
<1>1. CorpusInv /\ ServeInv /\ SkippedIsComplete /\ [Next]_vars
        => (CorpusInv /\ ServeInv /\ SkippedIsComplete)'
  BY CorpusStep, ServeStep, SkippedStep
<1> QED
  BY <1>1, CorpusInit, ServeInit, PTL DEF Spec

\* "Case law already ingested" (main.py) is true whenever no run has died
\* since the last success.
THEOREM SkippedMeansComplete == Spec => []SkippedIsComplete
BY ServeInvariant, PTL

\* "Queries refuse on a model mismatch" (README.md) for every collection that
\* has its record, although the check and the search are separate steps.
THEOREM RecordedQueriesAgree == Spec => RecordedQueriesMatch
<1>1. CorpusInv /\ ServeInv /\ [Next]_vars
        => [meta # None => read' \subseteq {config}]_read
  <2> SUFFICES ASSUME CorpusInv, ServeInv, [Next]_vars, read' # read,
                      meta # None
               PROVE  read' \subseteq {config}
    OBVIOUS
  <2>1. Read \/ Switch
    BY DEF Next, Start, Clear, ClearParents, Open, WriteParents, AddChunk,
       Record, Crash, Ask, vars
  <2>2. CASE Read
    <3>1. meta = config
      BY <2>2 DEF Read, ServeInv
    <3>2. \A c \in Present : stored[c] = meta
      BY DEF CorpusInv, MetaTruthful
    <3> QED
      BY <2>2, <3>1, <3>2 DEF Read
  <2>3. CASE Switch
    BY <2>3 DEF Switch
  <2> QED
    BY <2>1, <2>2, <2>3
<1> QED
  BY <1>1, ServeInvariant, PTL DEF Spec, RecordedQueriesMatch
=============================================================================
