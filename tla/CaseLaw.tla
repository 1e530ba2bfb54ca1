-------------------------------- MODULE CaseLaw --------------------------------
(***************************************************************************)
(* Which court decisions are ingested and as what rows                     *)
(* (src/ingest/case_law.py, src/ingest/contextual.py), and what the dry    *)
(* run announces.                                                          *)
(*                                                                         *)
(* A decision is [id, cites, hits, text]: whether it cites a section of    *)
(* tenancy law and how many of the keywords it has.  A gist is a text, <<>> *)
(* if the model fails.                                                     *)
(***************************************************************************)
EXTENDS Clauses

CONSTANTS
  MinKeywordHits,   \* MIETRECHT_MIN_KEYWORD_HITS
  MaxDecisions      \* MAX_DECISIONS

ASSUME CaseLawAssumption == MinKeywordHits \in Nat /\ MaxDecisions \in Nat

\* Tier 2 is a heap of (score, counter), here the set of its entries.
Below(x, y) == x[1] < y[1] \/ (x[1] = y[1] /\ x[2] < y[2])

\* How the heap is ranked: the best score first, of equals the first decision.
Before(x, y) == x[1] > y[1] \/ (x[1] = y[1] /\ x[2] < y[2])

HeapMin(heap) == CHOOSE x \in heap : \A y \in heap : x = y \/ Below(x, y)

\* Mutant of Pushed: the newcomer replaces the weakest whatever its score.
PushedAnyway(heap, x) ==
  IF Cardinality(heap) < MaxDecisions THEN heap \cup {x}
  ELSE IF MaxDecisions > 0 THEN (heap \ {HeapMin(heap)}) \cup {x} ELSE heap

\* An entry is pushed as long as there is room, and then replaces the weakest
\* if it scores higher.
Pushed(heap, x) ==
  IF Cardinality(heap) < MaxDecisions THEN heap \cup {x}
  ELSE IF MaxDecisions > 0 /\ x[1] > HeapMin(heap)[1] THEN (heap \ {HeapMin(heap)}) \cup {x}
  ELSE heap

\* The decisions without a citation and with enough keywords.
Tier2(rows) == {i \in DOMAIN rows : ~rows[i].cites /\ rows[i].hits >= MinKeywordHits}

\* What is left in the heap after all of them, ...
Heap(rows) ==
  FoldLeftDomain(LAMBDA h, i : IF i \in Tier2(rows) THEN Pushed(h, <<rows[i].hits, i>>) ELSE h,
                 {}, rows)

\* ... and that in its order.
Ranked(heap) == CHOOSE s \in SetToSeqs(heap) : \A i, j \in DOMAIN s : i < j => Before(s[i], s[j])

\* filter_mietrecht_decisions: the decisions that cite, all of them and in
\* their order, then the best by keywords, of equals the first.
Kept(rows) ==
  LET cited(r) == IF r.cites THEN <<r>> ELSE <<>>
      ranked == Ranked(Heap(rows))
  IN Joined(cited, rows) \o [k \in DOMAIN ranked |-> rows[ranked[k][2]]]

\* format_prefix: court, number and date, and the gist if there is one.
FormatPrefix(row, gist) == <<row.id>> \o gist

\* The rows of the kept decisions: generate_prefixes asks for the gists
\* concurrently, and each comes back in the place of its decision.
IngestedChunks(kept, gists) ==
  LET chunks(row) ==
        LET children == DecisionToChunks(row.text, FormatPrefix(row, gists[row.id])).children
        IN [k \in DOMAIN children |-> [id |-> row.id, child |-> children[k]]]
  IN Joined(chunks, kept)

\* estimate_case_law_ingestion: the counts of the same filter and chunking,
\* made without prefixes.
Estimate(kept) ==
  FoldLeft(LAMBDA e, row :
    LET rows == DecisionToChunks(row.text, <<>>)
    IN [kept |-> e.kept + 1, children |-> e.children + Len(rows.children),
        parents |-> e.parents + Len(rows.parents)],
    [kept |-> 0, children |-> 0, parents |-> 0], kept)

-----------------------------------------------------------------------------
(* Properties of a dump, what is kept of it and what is made of that. *)

\* "No cap can ever drop one of these" (filter_mietrecht_decisions): a decision
\* that cites is kept; of the others as many as fit, none of them behind one
\* that is left out; each row says which decision it is from; and the dry run
\* counts what is then written.
CaseLawFaithful(rows, kept, chunks) ==
  LET tier2 == {rows[i] : i \in Tier2(rows)}
      chosen == ToSet(kept) \cap tier2
  IN /\ ToSet(kept) \ tier2 = {r \in ToSet(rows) : r.cites} /\ IsInjective(kept)
     /\ Cardinality(chosen) = (IF Cardinality(tier2) < MaxDecisions
                               THEN Cardinality(tier2) ELSE MaxDecisions)
     /\ \A r \in chosen, s \in tier2 \ chosen : s.hits <= r.hits
     /\ \A i, j \in DOMAIN kept : i < j /\ ~kept[i].cites => kept[j].hits <= kept[i].hits
     /\ \A i \in DOMAIN chunks : Head(chunks[i].child.text) = chunks[i].id
     /\ Estimate(kept).kept = Len(kept) /\ Estimate(kept).children = Len(chunks)
=============================================================================
