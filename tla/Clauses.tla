-------------------------------- MODULE Clauses --------------------------------
(***************************************************************************)
(* How texts are cut: a rental contract into clauses                       *)
(* (src/contracts/segment.py) and a court decision into parent sections    *)
(* and their children (src/ingest/chunking.py, src/ingest/case_law.py).    *)
(*                                                                         *)
(* A text is a sequence of tokens: "/" a line break, "Nr" the number of a  *)
(* heading, "H" a named heading with a short rest of the line, "##" a      *)
(* heading of a decision, "." the end of a sentence, "w" any word.  Every  *)
(* token counts as one character.                                          *)
(***************************************************************************)
EXTENDS Naturals, Sequences, FiniteSets, SequencesExt

CONSTANTS
  MaxClauseChars,  \* MAX_CLAUSE_CHARS
  ParentTokens,    \* CASE_LAW_PARENT_CHUNK_TOKENS; the parents do not overlap
  ChildTokens,     \* CASE_LAW_CHILD_CHUNK_TOKENS
  ChildOverlap     \* CASE_LAW_CHILD_CHUNK_OVERLAP

ASSUME ClausesAssumption ==
  /\ {MaxClauseChars, ParentTokens, ChildTokens} \subseteq Nat \ {0}
  /\ ChildOverlap \in Nat /\ ChildOverlap < ChildTokens

\* The sequences that Op makes of the members of s, one after the other.
Joined(Op(_), s) == FlattenSeq([k \in DOMAIN s |-> Op(s[k])])

Words(t) == Joined(LAMBDA c : IF c = "/" THEN <<>> ELSE <<c>>, t)

\* t without the line breaks at its ends.
Strip(t) ==
  LET inner == {i \in DOMAIN t : t[i] # "/"}
  IN IF inner = {} THEN <<>> ELSE SubSeq(t, Min(inner), Max(inner))

\* A part, unless it is blank.
NonBlank(part) == IF Words(part) = <<>> THEN <<>> ELSE <<Strip(part)>>

\* t cut before each position in P; what is blank is dropped.
Cut(t, P) ==
  LET end(i) == Min({j \in P : j > i} \cup {Len(t) + 1}) - 1
  IN FlattenSeq([i \in DOMAIN t |-> IF i = 1 \/ i \in P THEN NonBlank(SubSeq(t, i, end(i)))
                                    ELSE <<>>])

LineStarts(t) == {i \in DOMAIN t : i = 1 \/ t[i - 1] = "/"}

\* _SPLIT_RE: lines that open with the number of a heading.
Numbered(t) == {i \in LineStarts(t) : t[i] = "Nr"}

\* _NAMED_SPLIT_RE: lines that are a named heading, with a number or without.
Named(t) ==
  {i \in LineStarts(t) : t[i] = "H" \/ (t[i] = "Nr" /\ i < Len(t) /\ t[i + 1] = "H")}

\* _split_atoms: paragraphs, or else lines, or else sentences.
Atoms(t) ==
  LET paragraphs == {i \in DOMAIN t : i > 2 /\ t[i - 1] = "/" /\ t[i - 2] = "/"}
      lines == {i \in DOMAIN t : i > 1 /\ t[i - 1] = "/"}
      sentences == {i \in DOMAIN t : i > 1 /\ t[i - 1] = "."}
  IN Cut(t, IF paragraphs # {} THEN paragraphs ELSE IF lines # {} THEN lines ELSE sentences)

\* s in slices of n tokens.
Sliced(s, n) ==
  [k \in 1..((Len(s) + n - 1) \div n) |->
     SubSeq(s, (k - 1) * n + 1, IF k * n < Len(s) THEN k * n ELSE Len(s))]

Closed(acc) == acc.done \o (IF acc.open = <<>> THEN <<>> ELSE <<acc.open>>)

\* Mutant of Packed: an atom that does not fit takes the place of the open chunk.
PackedOver(acc, atom) ==
  IF Len(atom) > MaxClauseChars
  THEN [done |-> acc.done \o Sliced(atom, MaxClauseChars), open |-> <<>>]
  ELSE IF acc.open # <<>> /\ Len(acc.open) + 1 + Len(atom) > MaxClauseChars
  THEN [acc EXCEPT !.done = Append(@, acc.open), !.open = atom]
  ELSE [acc EXCEPT !.open = IF @ = <<>> THEN atom ELSE @ \o <<"/">> \o atom]

\* _pack, one atom: sliced if it is too long, appended to the open chunk if it
\* fits there, and opening a new one if not.
Packed(acc, atom) ==
  IF Len(atom) > MaxClauseChars
  THEN [done |-> Closed(acc) \o Sliced(atom, MaxClauseChars), open |-> <<>>]
  ELSE IF acc.open # <<>> /\ Len(acc.open) + 1 + Len(atom) > MaxClauseChars
  THEN [acc EXCEPT !.done = Append(@, acc.open), !.open = atom]
  ELSE [acc EXCEPT !.open = IF @ = <<>> THEN atom ELSE @ \o <<"/">> \o atom]

Pack(t) == Closed(FoldLeft(Packed, [done |-> <<>>, open |-> <<>>], Atoms(t)))

PackLong(t) == IF Len(t) > MaxClauseChars THEN Pack(t) ELSE <<t>>

\* Whether cutting t at P makes more than one part.
Splits(t, P) == \E i \in P : Words(SubSeq(t, 1, i - 1)) # <<>>

\* _guard_split: a part that is too long, at its named headings first.
GuardSplit(part) ==
  IF Len(part) > MaxClauseChars /\ Splits(part, Named(part))
  THEN Joined(PackLong, Cut(part, Named(part))) ELSE PackLong(part)

\* The end of the first line of p.
LineEnd(p) == Min({j \in DOMAIN p : p[j] = "/"} \cup {Len(p) + 1})

AfterFirstLine(p) == SubSeq(p, LineEnd(p) + 1, Len(p))

\* The first line of a piece is its heading, the rest its text; a piece of one
\* line is both.
ClauseOf(piece, index) ==
  LET body == Strip(AfterFirstLine(piece))
  IN [index |-> index, heading |-> SubSeq(piece, 1, LineEnd(piece) - 1),
      text |-> IF body = <<>> THEN piece ELSE body]

\* segment_clauses: the pieces, at numbered headings or, without any, at named
\* ones, ...
Pieces(t) ==
  Joined(GuardSplit,
    Cut(t, IF ~Splits(t, Numbered(t)) /\ Splits(t, Named(t)) THEN Named(t) ELSE Numbered(t)))

\* ... and a clause of each.
SegmentClauses(pieces) == [k \in DOMAIN pieces |-> ClauseOf(pieces[k], k - 1)]

-----------------------------------------------------------------------------
(* Decisions. *)

\* split_by_heading: sections with their heading; empty ones are dropped.
SplitByHeading(t) ==
  LET section(p) == NonBlank(IF p[1] = "##" THEN AfterFirstLine(p) ELSE p)
  IN Joined(section, Cut(t, {i \in LineStarts(t) : t[i] = "##"}))

\* Mutant of ChildTexts: the last window is opened only if it can be filled.
ChildTextsFull(w) ==
  LET first(k) == (k - 1) * (ChildTokens - ChildOverlap) + 1
      last(k) == first(k) + ChildTokens - 1
  IN FlattenSeq([k \in DOMAIN w |-> IF last(k) <= Len(w) THEN NonBlank(SubSeq(w, first(k), last(k)))
                                    ELSE <<>>])

\* get_case_law_child_splitter: windows, of which each repeats the last
\* ChildOverlap tokens of the one before as long as there are more behind
\* them; blank ones are dropped.  (The splitters are a library's: they cut to
\* a length, and share what config says.)
ChildTexts(w) ==
  LET first(k) == (k - 1) * (ChildTokens - ChildOverlap) + 1
      last(k) == Min({first(k) + ChildTokens - 1, Len(w)})
      opens(k) == k = 1 \/ first(k) + ChildOverlap <= Len(w)
  IN FlattenSeq([k \in DOMAIN w |-> IF opens(k) THEN NonBlank(SubSeq(w, first(k), last(k)))
                                    ELSE <<>>])

\* chunk_case_law_hierarchical: parent windows of each section and the child
\* chunks of each; a parent without children is dropped.
Hierarchy(t) ==
  LET windows(section) == Sliced(section, ParentTokens)
      unit(w) == IF ChildTexts(w) = <<>> THEN <<>> ELSE <<[text |-> w, children |-> ChildTexts(w)]>>
  IN Joined(unit, Joined(windows, SplitByHeading(t)))

\* _decision_to_chunks: the rows of a decision, a parent for its index and the
\* children tagged with it, each with the prefix that situates it.
DecisionToChunks(t, prefix) ==
  LET units == Hierarchy(t)
      children(k) ==
        [c \in DOMAIN units[k].children |->
           [chunk |-> <<k - 1, c - 1>>, parent |-> k - 1, text |-> prefix \o units[k].children[c]]]
  IN [parents |-> [k \in DOMAIN units |-> [parent |-> k - 1, text |-> units[k].text]],
      children |-> FlattenSeq([k \in DOMAIN units |-> children(k)])]

-----------------------------------------------------------------------------
(* Properties of a text t and of what it is cut into. *)

\* A contract's clauses carry every word of it, once and in order, are short
\* enough to review, are numbered as they come, and each numbered heading opens
\* one.
ContractWhole(t, pieces) ==
  LET clause(k) == SegmentClauses(pieces)[k]
  IN /\ Joined(Words, pieces) = Words(t)
     /\ \A k \in DOMAIN pieces :
          \E c \in {clause(k)} :
            /\ Words(pieces[k]) \in {Words(c.text), Words(c.heading) \o Words(c.text)}
            /\ c.index = k - 1 /\ Len(pieces[k]) <= MaxClauseChars
     /\ Cardinality({k \in DOMAIN pieces : Head(pieces[k]) = "Nr"}) >= Cardinality(Numbered(t))

\* The children kids of the parent p, by their numbers, each have a place in it:
\* in the order of the numbers, with no word of p between them, and with no more
\* shared by two of them than the overlap.
CoveredBy(p, kids) ==
  \E at \in [kids -> 0..Len(p.text)] :
    LET end(c) == at[c] + Len(c.text)
    IN /\ \A c \in kids : end(c) <= Len(p.text) /\ SubSeq(p.text, at[c] + 1, end(c)) = c.text
       /\ \A c, d \in kids :
            c.chunk[2] < d.chunk[2] => at[c] <= at[d] /\ end(c) <= at[d] + ChildOverlap
       /\ \A i \in DOMAIN p.text : p.text[i] = "/" \/ \E c \in kids : i \in (at[c] + 1)..end(c)

\* A decision's parents carry every word of its sections, once and in order; the
\* children embedded for a parent cover it, so that no word is out of reach of a
\* search; and every child names its parent and has a number of its own.
DecisionWhole(t, rows) ==
  LET bare(p) == Words(p.text)
      parent(c) == {p \in ToSet(rows.parents) : p.parent = c.parent}
  IN /\ Joined(bare, rows.parents) = Joined(Words, SplitByHeading(t))
     /\ \A p \in ToSet(rows.parents) :
          CoveredBy(p, {c \in ToSet(rows.children) : c.parent = p.parent})
     /\ \A c \in ToSet(rows.children) : Cardinality(parent(c)) = 1
     /\ Cardinality({c.chunk : c \in ToSet(rows.children)}) = Len(rows.children)
=============================================================================
