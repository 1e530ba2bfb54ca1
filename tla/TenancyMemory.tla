---------------------------- MODULE TenancyMemory ----------------------------
(***************************************************************************)
(* The long-term memory of one user (src/memory/store.py): the rows        *)
(* tenancy_facts and facts_source of the key-value store, and the two      *)
(* writers of them.  A contract upload merges the extracted facts and      *)
(* labels them "contract"; the write_memory node of a finished turn merges *)
(* the calculator arguments of the whole thread and takes their labels     *)
(* away.  Every get and put is a transaction of its own.                   *)
(*                                                                         *)
(* A fact is represented by the writer that supplied it: an upload, or the *)
(* turn in which the user told the model.                                  *)
(***************************************************************************)
EXTENDS Naturals

CONSTANTS
  Key,       \* _TENANCY_FACT_KEYS
  Upload,    \* contract uploads
  Turn,      \* agent turns that reach write_memory
  Thread,    \* the conversations of the user
  Overlap,   \* writers may run at the same time
  Failures,  \* a store operation may raise
  None

Writer == Upload \cup Turn

ASSUME MemoryAssumption ==
  /\ Upload \cap Turn = {}
  /\ None \notin Writer
  /\ Overlap \in BOOLEAN /\ Failures \in BOOLEAN

VARIABLES
  facts,      \* facts[k]: who supplied the stored value of k
  labelled,   \* the keys that facts_source maps to "contract"
  said,       \* said[t][k]: the last turn of thread t that gave k to a tool
  pc,         \* pc[w]: the next store operation of writer w
  new,        \* new[w]: the facts w merges
  readFacts,  \* readFacts[w]: tenancy_facts as w read it
  readLabels  \* readLabels[w]: facts_source as w read it

vars == <<facts, labelled, said, pc, new, readFacts, readLabels>>

Supplied == [Key -> Writer \cup {None}]
Nothing == [k \in Key |-> None]
Given(f) == {k \in Key : f[k] # None}

Running(w) == pc[w] \notin {"idle", "done", "failed"}
Quiet == \A w \in Writer : ~Running(w)

Init ==
  /\ facts = Nothing
  /\ labelled = {}
  /\ said = [t \in Thread |-> Nothing]
  /\ pc = [w \in Writer |-> "idle"]
  /\ new = [w \in Writer |-> Nothing]
  /\ readFacts = [w \in Writer |-> Nothing]
  /\ readLabels = [w \in Writer |-> {}]

-----------------------------------------------------------------------------
MayStart(w) == pc[w] = "idle" /\ (Overlap \/ Quiet)

\* documents_upload with kind "contract": K are the facts that were found.
Extract(u, K) ==
  /\ MayStart(u)
  /\ K # {}
  /\ new' = [new EXCEPT ![u] = [k \in Key |-> IF k \in K THEN u ELSE None]]
  /\ pc' = [pc EXCEPT ![u] = "get_facts"]
  /\ UNCHANGED <<facts, labelled, said, readFacts, readLabels>>

\* The arguments of all tool calls in the messages of thread t, later ones
\* over earlier ones, when turn w has given the keys K.
Collected(w, t, K) == [k \in Key |-> IF k \in K THEN w ELSE said[t][k]]

\* The model has called tools with the keys K in this turn of thread t and
\* has answered; write_memory collects its facts.
Answered(w, t, K) ==
  /\ MayStart(w)
  /\ said' = [said EXCEPT ![t] = [k \in Key |-> IF k \in K THEN w
                                                ELSE said[t][k]]]
  /\ new' = [new EXCEPT ![w] = Collected(w, t, K)]
  /\ pc' = [pc EXCEPT ![w] = IF Given(new'[w]) = {} THEN "done"
                             ELSE "get_facts"]
  /\ UNCHANGED <<facts, labelled, readFacts, readLabels>>

GetFacts(w) ==
  /\ pc[w] = "get_facts"
  /\ readFacts' = [readFacts EXCEPT ![w] = facts]
  /\ pc' = [pc EXCEPT ![w] = "put_facts"]
  /\ UNCHANGED <<facts, labelled, said, new, readLabels>>

\* Mutant of Merged: the row is replaced.
MergedNot(w) == new[w]

\* The row as w read it with the new facts over it.
Merged(w) == [k \in Key |-> IF new[w][k] # None THEN new[w][k]
                            ELSE readFacts[w][k]]

PutFacts(w) ==
  /\ pc[w] = "put_facts"
  /\ facts' = Merged(w)
  /\ pc' = [pc EXCEPT ![w] = "get_labels"]
  /\ UNCHANGED <<labelled, said, new, readFacts, readLabels>>

GetLabels(w) ==
  /\ pc[w] = "get_labels"
  /\ readLabels' = [readLabels EXCEPT ![w] = labelled]
  /\ pc' = [pc EXCEPT ![w] = "put_labels"]
  /\ UNCHANGED <<facts, labelled, said, new, readFacts>>

\* Mutant of Relabelled: a turn leaves the labels.
RelabelledKept(w) ==
  IF w \in Upload THEN readLabels[w] \cup Given(new[w]) ELSE readLabels[w]

\* An upload labels its facts, a turn takes the label off the facts it wrote.
Relabelled(w) ==
  IF w \in Upload THEN readLabels[w] \cup Given(new[w])
  ELSE readLabels[w] \ Given(new[w])

\* A turn that changed no label does not store the row.
PutLabels(w) ==
  /\ pc[w] = "put_labels"
  /\ labelled' = IF w \in Upload \/ Relabelled(w) # readLabels[w]
                 THEN Relabelled(w) ELSE labelled
  /\ pc' = [pc EXCEPT ![w] = "done"]
  /\ UNCHANGED <<facts, said, new, readFacts, readLabels>>

\* The store raises: an upload goes on without it, a turn ends in an error.
StoreFails(w) ==
  /\ Failures
  /\ Running(w)
  /\ pc' = [pc EXCEPT ![w] = "failed"]
  /\ UNCHANGED <<facts, labelled, said, new, readFacts, readLabels>>

Next ==
  \/ \E u \in Upload, K \in SUBSET Key : Extract(u, K)
  \/ \E w \in Turn, t \in Thread, K \in SUBSET Key : Answered(w, t, K)
  \/ \E w \in Writer : GetFacts(w) \/ PutFacts(w) \/ GetLabels(w)
                       \/ PutLabels(w) \/ StoreFails(w)

Spec == Init /\ [][Next]_vars

-----------------------------------------------------------------------------
\* Every variable has its type.
TypeOK ==
  /\ facts \in Supplied
  /\ labelled \subseteq Key
  /\ said \in [Thread -> [Key -> Turn \cup {None}]]
  /\ pc \in [Writer -> {"idle", "get_facts", "put_facts", "get_labels",
                        "put_labels", "done", "failed"}]
  /\ new \in [Writer -> Supplied]
  /\ \A u \in Upload : new[u] \in [Key -> {u, None}]
  /\ \A w \in Turn : new[w] \in [Key -> Turn \cup {None}]
  /\ readFacts \in [Writer -> Supplied]
  /\ readLabels \in [Writer -> SUBSET Key]

\* The keys that a writer the store failed on was merging.
Spoilt == {k \in Key : \E w \in Writer : pc[w] = "failed"
                                         /\ k \in Given(new[w])}

\* "A tool-confirmed value must not stay labelled as contract-derived": when
\* no writer is at work, what the profile labels as coming from the contract
\* does come from one.  A failure spoils at most the keys of its own writer.
LabelHonest == Quiet => \A k \in labelled \ Spoilt : facts[k] \in Upload

\* The converse, for the label in the panel: a value that came from a contract
\* is shown as such.
LabelComplete ==
  Quiet => \A k \in Key \ Spoilt : facts[k] \in Upload => k \in labelled

\* Facts are durable: a key that has a value never loses it.
FactsKept == [][\A k \in Key : facts[k] # None => facts'[k] # None]_facts

\* Why labels and facts agree as long as writers take turns: at most one of
\* them runs (OneWriter), what it has read is still what is stored (Fresh),
\* and only the keys it is writing, or that a failed one was writing, can be
\* out of step (OthersAgree).
Agree(k) == k \in labelled <=> facts[k] \in Upload

OneWriter == \A v, w \in Writer : Running(v) /\ Running(w) => v = w

Fresh ==
  \A w \in Writer :
    /\ pc[w] = "put_facts" => readFacts[w] = facts
    /\ pc[w] = "put_labels" => readLabels[w] = labelled

Written(w) == pc[w] \in {"get_labels", "put_labels"}
Halfway(w) == Written(w) \/ pc[w] = "failed"

OthersAgree ==
  /\ \A w \in Writer : Written(w) =>
       \A k \in Given(new[w]) : facts[k] = new[w][k]
  /\ \A k \in Key :
       (\A w \in Writer : Halfway(w) => k \notin Given(new[w])) => Agree(k)

SerialInv == OneWriter /\ Fresh /\ OthersAgree
=============================================================================
