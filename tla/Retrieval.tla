------------------------------- MODULE Retrieval -------------------------------
(***************************************************************************)
(* Hybrid search (src/retrieval/hybrid.py), the tool search_law on top of  *)
(* it and the page of a source (src/api/routers/sources.py).  Search runs  *)
(* through services that fail: the model that words the question anew and  *)
(* the reranker, which is asked twice.                                     *)
(*                                                                         *)
(* A chunk is [id, tag, parent]: tag is what a question can narrow to (the *)
(* section of a statute, the level of a court), parent the section of the  *)
(* decision it was cut from.  A question is [says, tag]: tag is what it    *)
(* cites, for each collection.  How well a chunk fits is not modelled: the *)
(* legs, their fusion and the reranker return any order.                   *)
(***************************************************************************)
EXTENDS Naturals, Sequences, FiniteSets, SequencesExt

CONSTANTS
  Chunks,           \* collection -> its rows
  Question,         \* what users ask
  Variants,         \* what the model may answer: sequences of questions
  Settings,         \* levers: [multiQuery, courtFilter, parents, parentRerank]
  CandidateK,       \* RERANK_CANDIDATE_K
  FanoutK,          \* CASE_LAW_CHILD_FANOUT_K
  RetrievalK,       \* RETRIEVAL_K, CASE_LAW_PARENT_K and SEARCH_LAW_PER_CORPUS_K
  MultiQueryN,
  SourceMaxChars,   \* the longest page of a source
  SourceRows,       \* what a source can hold: the words of its chunks, by chunk_id
  NoTag, NoParent

ASSUME RetrievalAssumption ==
  /\ {CandidateK, FanoutK, RetrievalK, MultiQueryN} \subseteq Nat \ {0}
  /\ DOMAIN Chunks = {"statutes", "case_law"}
  /\ \A coll \in DOMAIN Chunks : IsFiniteSet(Chunks[coll])
  /\ \A lines \in Variants : lines \in Seq(ToSet(lines))

\* A source is a sequence of texts.
ASSUME SourceAssumption ==
  /\ SourceMaxChars \in Nat
  /\ \A rows \in SourceRows :
       rows \in Seq(ToSet(rows)) /\ \A r \in ToSet(rows) : r \in Seq(ToSet(r))

VARIABLES
  find,    \* the search: its place, its question and what it has found
  page     \* the page of a source: its rows and its blocks

searchVars == <<find, page>>

SmallerOf(a, b) == IF a < b THEN a ELSE b

Take(s, k) == SubSeq(s, 1, SmallerOf(k, Len(s)))

SearchInit == find = [at |-> "idle"] /\ page = [at |-> "idle"]

-----------------------------------------------------------------------------
(* Candidates. *)

\* EnsembleRetriever over the dense leg, which returns the k nearest rows, and
\* the lexical leg, which returns rows that match: each row once.
Ensembles(rows, k) ==
  {T \in SUBSET rows : /\ Cardinality(T) >= SmallerOf(k, Cardinality(rows))
                       /\ Cardinality(T) <= 2 * k}

\* Mutant of NarrowedRows: without the way back to the whole collection.
NarrowedRowsOnly(coll, q) ==
  IF q.tag[coll] = NoTag THEN Chunks[coll] ELSE {c \in Chunks[coll] : c.tag = q.tag[coll]}

\* _StatutesRetriever and _case_law_ensemble: narrowed to what the question
\* cites, to everything if that finds nothing.
NarrowedRows(coll, q) ==
  LET cited == {c \in Chunks[coll] : c.tag = q.tag[coll]}
  IN IF /\ q.tag[coll] # NoTag /\ cited # {}
        /\ coll = "statutes" \/ find.lever.courtFilter
     THEN cited ELSE Chunks[coll]

\* The lines that neither echo the question nor repeat one another.
FreshLines(q, lines) ==
  FoldLeft(LAMBDA acc, v : IF v.says = q.says \/ \E i \in DOMAIN acc : acc[i].says = v.says
                           THEN acc ELSE Append(acc, v), <<>>, lines)

\* _expand_queries: the first of them.
Distinct(q, lines) == Take(FreshLines(q, lines), MultiQueryN)

\* Mutant of Fallback: a failure of the reranker loses what was found.
FallbackNone(docs, k) == <<>>

\* What is returned when the reranker fails.
Fallback(docs, k) == Take(docs, k)

\* _RerankingRetriever: the k best by the reranker, or the fallback.
Reranked(docs, k) ==
  {Fallback(docs, k)} \cup
  {Take(s, k) : s \in SetToSeqs(ToSet(docs))}

-----------------------------------------------------------------------------
(* search_law: first the statutes, then the case law. *)

StartSearch ==
  /\ find.at = "idle" /\ page.at = "idle"
  /\ \E q \in Question, l \in Settings :
       find' = [at |-> "ask", coll |-> "statutes", q |-> q, lever |-> l,
                queries |-> <<>>, docs |-> <<>>, hits |-> [c \in DOMAIN Chunks |-> <<>>]]
  /\ UNCHANGED page

\* The question, and its variants for the case law if they are switched on
\* and the model answers.
ExpandQueries ==
  /\ find.at = "ask"
  /\ \E more \in {<<>>} \cup
       (IF find.coll = "case_law" /\ find.lever.multiQuery
        THEN {Distinct(find.q, lines) : lines \in Variants} ELSE {}) :
       find' = [find EXCEPT !.at = "fetch", !.queries = <<find.q>> \o more]
  /\ UNCHANGED page

\* The candidates of a query come in any order; _CaseLawInnerRetriever leaves
\* out those (by chunk_id) that a query before it has found.
FetchCandidates ==
  /\ find.at = "fetch" /\ find.queries # <<>>
  /\ \E T \in Ensembles(NarrowedRows(find.coll, Head(find.queries)), CandidateK) :
       \E new \in SetToSeqs(T \ ToSet(find.docs)) :
         find' = [find EXCEPT !.queries = Tail(@), !.docs = @ \o new]
  /\ UNCHANGED page

Expanding == find.coll = "case_law" /\ find.lever.parents

\* _RerankingRetriever; before the parents are fetched more is kept.
Rerank ==
  /\ find.at = "fetch" /\ find.queries = <<>>
  /\ \E docs \in Reranked(find.docs, IF Expanding THEN FanoutK ELSE RetrievalK) :
       find' = [find EXCEPT !.at = IF Expanding THEN "parents" ELSE "found", !.docs = docs]
  /\ UNCHANGED page

\* The first child of each parent, in order; ...
FirstOfEach(children) ==
  FoldLeft(LAMBDA acc, c : IF c.parent = NoParent \/ \E i \in DOMAIN acc : acc[i].parent = c.parent
                           THEN acc ELSE Append(acc, c), <<>>, children)

\* ... up to as many as may be returned.
FirstChildren(children) ==
  Take(FirstOfEach(children),
       IF find.lever.parentRerank /\ FanoutK > RetrievalK THEN FanoutK ELSE RetrievalK)

\* _ParentExpandingRetriever: each parent once, standing for its own text or,
\* if its row is missing, its child's; reranked if there is a choice.
ExpandParents ==
  /\ find.at = "parents"
  /\ LET first == FirstChildren(find.docs)
         results == IF first = <<>> THEN {Take(find.docs, RetrievalK)}
                    ELSE IF find.lever.parentRerank /\ Len(first) > 1
                    THEN Reranked(first, RetrievalK) ELSE {Take(first, RetrievalK)}
     IN \E docs \in results : find' = [find EXCEPT !.at = "found", !.docs = docs]
  /\ UNCHANGED page

\* The tool keeps at most RetrievalK of a collection and goes on with the next.
KeepHits ==
  /\ find.at = "found"
  /\ find' = [find EXCEPT
       !.hits[find.coll] = Take(find.docs, RetrievalK), !.docs = <<>>,
       !.at = IF find.coll = "statutes" THEN "ask" ELSE "answered", !.coll = "case_law"]
  /\ UNCHANGED page

\* The numbered snippets of the tool's answer, statutes first.
Snippets ==
  [i \in 1..Len(find.hits["statutes"]) |-> [label |-> "Gesetz", doc |-> find.hits["statutes"][i]]]
  \o [i \in 1..Len(find.hits["case_law"]) |->
        [label |-> "Rechtsprechung", doc |-> find.hits["case_law"][i]]]

-----------------------------------------------------------------------------
(* get_source: the chunks of a source in the order of their ids. *)

\* Whether t is a part of s.
Within(t, s) == \E i \in 0..(Len(s) - Len(t)) : SubSeq(s, i + 1, i + Len(t)) = t

Shown(blocks) == FlattenSeq([i \in 1..Len(blocks) |-> <<"break">> \o blocks[i]])

CharsOf(blocks) == Len(FlattenSeq(blocks))

\* Mutant of Repeated: a chunk that begins like one that is shown is left out.
RepeatedHead(text, blocks) ==
  text = <<>> \/ \E i \in DOMAIN blocks : Head(blocks[i]) = Head(text)

\* Nothing to show, or shown already.
Repeated(text, blocks) == text = <<>> \/ Within(text, Shown(blocks))

\* One chunk more, as far as the page has room.
WithChunk(blocks, text) ==
  IF CharsOf(blocks) >= SourceMaxChars \/ Repeated(text, blocks) THEN blocks
  ELSE Append(blocks, Take(text, SourceMaxChars - CharsOf(blocks)))

GetSource ==
  /\ find.at = "idle" /\ page.at = "idle"
  /\ \E rows \in SourceRows :
       page' = [at |-> IF rows = <<>> THEN "404" ELSE "shown", rows |-> rows,
                blocks |-> FoldLeft(WithChunk, <<>>, rows)]
  /\ UNCHANGED find

SearchNext ==
  \/ StartSearch \/ ExpandQueries \/ FetchCandidates \/ Rerank \/ ExpandParents
  \/ KeepHits \/ GetSource

-----------------------------------------------------------------------------
(* Properties. *)

\* "Degrade gracefully" (_RerankingRetriever, _expand_queries) and "must never
\* zero out recall" (_StatutesRetriever), together: a collection that has rows
\* is never answered with nothing, whichever services fail and whatever the
\* question cites; the answer has no chunk and no parent section twice, no
\* more than the tool may show, and of a cited section that exists only that.
SearchSound ==
  find.at = "answered" =>
    \A coll \in DOMAIN Chunks :
      LET hits == find.hits[coll]
      IN /\ Chunks[coll] # {} => hits # <<>>
         /\ Len(hits) <= RetrievalK /\ ToSet(hits) \subseteq Chunks[coll]
         /\ \A i, j \in DOMAIN hits : i # j =>
              /\ hits[i] # hits[j]
              /\ find.lever.parents /\ coll = "case_law" /\ hits[i].parent = hits[j].parent =>
                   hits[i].parent = NoParent
         /\ /\ coll = "statutes" /\ find.q.tag[coll] # NoTag
            /\ \E c \in Chunks[coll] : c.tag = find.q.tag[coll]
            => \A i \in DOMAIN hits : hits[i].tag = find.q.tag[coll]

\* The page of a source: whatever of its chunks is not shown is beyond its
\* length; what is left out as repeated is on the page.
SourceWhole ==
  page.at = "shown" =>
    /\ CharsOf(page.blocks) <= SourceMaxChars
    /\ \A i \in DOMAIN page.rows :
         Within(page.rows[i], Shown(page.blocks)) \/ CharsOf(page.blocks) = SourceMaxChars
=============================================================================
