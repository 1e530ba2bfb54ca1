------------------------------- MODULE LegalData -------------------------------
(***************************************************************************)
(* The download of the statutes (fetch_legal_data.py): a script that asks  *)
(* the API of Open Legal Data for the books, the pages of their norms and  *)
(* the text of each norm in scope, and leaves the documents that the       *)
(* ingestion reads.  Answers are lost or refused, and the script dies      *)
(* anywhere, between two steps of a save too; it is then run again.        *)
(*                                                                         *)
(* A norm is [book, sec, id, text]: sec its section number (0 if the       *)
(* section has none), id whether the listing names its id, text its lines, *)
(* a line being the label of the Absatz it opens or "".  The pages of a    *)
(* book list no norm twice.                                                *)
(***************************************************************************)
EXTENDS Naturals, Sequences, FiniteSets, SequencesExt

CONSTANTS
  TargetSlugs,      \* the books asked for, in order
  Law,              \* for each book the pages of its norms, or NoBook (the API)
  NoBook,
  Retries,          \* attempts of a request
  RateLimitRetries, \* attempts after the first answer 429
  MaxRuns           \* how often the script is run at most

ASSUME LegalDataAssumption ==
  /\ Retries \in Nat \ {0} /\ RateLimitRetries \in Nat \ {0} /\ MaxRuns \in Nat
  /\ TargetSlugs \in Seq(ToSet(TargetSlugs)) /\ IsInjective(TargetSlugs)
  /\ \A b \in {s \in ToSet(TargetSlugs) : Law[s] # NoBook} :
       /\ Law[b] \in Seq(ToSet(Law[b])) /\ Law[b] # <<>>
       /\ \A p \in DOMAIN Law[b] :
            /\ Law[b][p] \in Seq(ToSet(Law[b][p])) /\ IsInjective(Law[b][p])
            /\ \A n \in ToSet(Law[b][p]) : n.book = b /\ n.text \in Seq(ToSet(n.text))
            /\ \A q \in DOMAIN Law[b] \ {p} : ToSet(Law[b][p]) \cap ToSet(Law[b][q]) = {}

VARIABLES
  load,    \* the run of the script: its place, what is left and what it has
  tries,   \* the answers 429 and the failures of the request it is at
  disk     \* file -> what is there now, and which backups were made of it

loadVars == <<load, tries, disk>>

File == ToSet(TargetSlugs) \cup {"enriched", "rag", "summary"}

NoTries == [limited |-> 0, failed |-> 0]

NewLoad(run) ==
  [at |-> "resolve", run |-> run, todo |-> TargetSlugs, page |-> 1, books |-> <<>>,
   norms |-> <<>>, enriched |-> <<>>, docs |-> {}, gaps |-> {}, save |-> "closed"]

LoadInit ==
  /\ load = [NewLoad(0) EXCEPT !.at = "down"]
  /\ tries = NoTries
  /\ disk = [f \in File |-> [now |-> "none", old |-> {}]]

-----------------------------------------------------------------------------
(* api_get.  An answer is "ok", "limited" (429) or "failed" (any other     *)
(* error of HTTP or of the connection).                                    *)

Tried(a) ==
  IF a = "limited" THEN [tries EXCEPT !.limited = @ + 1]
  ELSE [tries EXCEPT !.failed = @ + 1]

\* After a 429 the extended sequence decides alone: another error ends it.
GivesUp(a) ==
  \/ Tried(a).limited > RateLimitRetries
  \/ Tried(a).failed = Retries
  \/ a = "failed" /\ tries.limited > 0

\* What api_get returns after answer a: data, None or nothing yet.
Returned(a) ==
  IF a = "ok" THEN "data" ELSE IF GivesUp(a) THEN "none" ELSE "nothing yet"

Asking == load.at \in {"resolve", "pages", "detail"} /\ load.todo # <<>>

\* Sleep, and ask again.
Retry ==
  /\ Asking
  /\ \E a \in {"limited", "failed"} :
       Returned(a) = "nothing yet" /\ tries' = Tried(a)
  /\ UNCHANGED <<load, disk>>

\* The request is over, with result d; what it changes is in load'.
Result(d) ==
  /\ Asking
  /\ \E a \in {"ok", "limited", "failed"} : Returned(a) = d
  /\ tries' = NoTries
  /\ UNCHANGED disk

-----------------------------------------------------------------------------
(* The phases of main. *)

\* resolve_book_ids: a book without an answer, or not in it, is skipped.
ResolveBook ==
  /\ load.at = "resolve"
  /\ \E d \in {"data", "none"} :
       LET b == Head(load.todo)
           matched == d = "data" /\ Law[b] # NoBook
       IN /\ Result(d)
          /\ load' = [load EXCEPT
               !.todo = Tail(@),
               !.books = IF matched THEN Append(@, b) ELSE @,
               !.gaps = IF matched THEN @ ELSE @ \cup {[kind |-> "book", book |-> b]}]

\* main aborts without any book.
ResolveEnd ==
  /\ load.at = "resolve" /\ load.todo = <<>>
  /\ load' = IF load.books = <<>> THEN [load EXCEPT !.at = "failed"]
             ELSE [load EXCEPT !.at = "pages", !.todo = load.books]
  /\ UNCHANGED <<tries, disk>>

\* fetch_all_norms: the pages up to the last; a page that fails ends the list.
FetchPage ==
  /\ load.at = "pages"
  /\ \E d \in {"data", "none"} :
       LET b == Head(load.todo)
       IN /\ Result(d)
          /\ load' =
               IF d = "none"
               THEN [load EXCEPT !.at = "save norms",
                      !.gaps = @ \cup {[kind |-> "page", book |-> b, from |-> load.page]}]
               ELSE [load EXCEPT
                      !.norms = @ \o Law[b][load.page],
                      !.at = IF load.page = Len(Law[b]) THEN "save norms" ELSE @,
                      !.page = IF load.page = Len(Law[b]) THEN @ ELSE @ + 1]

\* _should_enrich.
ShouldEnrich(n) ==
  IF n.book = "bgb" THEN 535 <= n.sec /\ n.sec <= 577 ELSE n.book \in {"betrkv", "wogg"}

\* The candidates of enrich_norms.
Candidates(norms) ==
  FoldLeft(LAMBDA acc, n : IF ShouldEnrich(n) THEN Append(acc, n) ELSE acc, <<>>, norms)

FetchEnd ==
  /\ load.at = "pages" /\ load.todo = <<>>
  /\ load' = [load EXCEPT !.at = "detail", !.todo = Candidates(load.norms)]
  /\ UNCHANGED <<tries, disk>>

\* Mutant of DetailLost: the norm is skipped.
DetailSkipped == [load EXCEPT !.todo = Tail(@)]

\* enrich_norms raises if a norm stays without its text.
DetailLost == [load EXCEPT !.at = "failed"]

EnrichNorm ==
  /\ load.at = "detail"
  /\ \E d \in {"data", "none"} :
       /\ Result(d) /\ Head(load.todo).id
       /\ load' = IF d = "none" THEN DetailLost
                  ELSE [load EXCEPT !.todo = Tail(@),
                          !.enriched = Append(@, Head(load.todo))]

\* A norm whose listing has no id is skipped, with a warning.
EnrichNoId ==
  /\ Asking /\ load.at = "detail" /\ ~Head(load.todo).id
  /\ load' = [load EXCEPT !.todo = Tail(@),
                          !.gaps = @ \cup {[kind |-> "id", norm |-> Head(load.todo)]}]
  /\ UNCHANGED <<tries, disk>>

EnrichEnd ==
  /\ load.at = "detail" /\ load.todo = <<>>
  /\ load' = [load EXCEPT !.at = "save enriched"]
  /\ UNCHANGED <<tries, disk>>

\* _split_by_absatz: a part for each Absatz, with the lines from its marker to
\* the next, or one for a text without markers.  Lines before the first marker
\* are in none.
SplitByAbsatz(n) ==
  LET lines == 1..Len(n.text)
      marks == {i \in lines : n.text[i] # ""}
      ends(i) == {j \in marks : j > i} \cup {Len(n.text) + 1}
  IN IF marks = {} THEN {[absatz |-> "", lines |-> lines]}
     ELSE {[absatz |-> n.text[i], lines |-> {k \in lines : k >= i /\ \A e \in ends(i) : k < e}] :
             i \in marks}

\* prepare_rag_documents: a document for each part of the norms, which come in
\* the order they were asked for.
RagDocuments(enriched) ==
  UNION {{[nr |-> k, norm |-> enriched[k], part |-> part] : part \in SplitByAbsatz(enriched[k])} :
           k \in DOMAIN enriched}

-----------------------------------------------------------------------------
(* Files. *)

\* What is saved at each place, and where the script goes on.
Saves(at) ==
  CASE at = "save norms"    -> <<Head(load.todo), [load EXCEPT !.at = "pages",
                                                    !.todo = Tail(@), !.page = 1]>>
    [] at = "save enriched" -> <<"enriched", [load EXCEPT !.at = "save rag",
                                                !.docs = RagDocuments(load.enriched)]>>
    [] at = "save rag"      -> <<"rag", [load EXCEPT !.at = "save summary"]>>
    [] at = "save summary"  -> <<"summary", [load EXCEPT !.at = "done"]>>

Saving == load.at \in {"save norms", "save enriched", "save rag", "save summary"}

\* Mutant of Renamed: the file is overwritten.
RenamedNever(f) == [disk EXCEPT ![f].now = "partial"]

\* A file that is there becomes a backup, under the time of day.
Renamed(f) == [disk EXCEPT ![f].now = "none", ![f].old = @ \cup {disk[f].now}]

\* _safe_write_json, and the same for the summary: rename, ...
SaveRename ==
  /\ Saving /\ load.save = "closed"
  /\ LET f == Saves(load.at)[1]
     IN disk[f].now # "none" /\ disk' = Renamed(f)
  /\ load' = [load EXCEPT !.save = "moved"]
  /\ UNCHANGED tries

\* ... create the file, ...
SaveCreate ==
  /\ Saving /\ load.save # "open"
  /\ LET f == Saves(load.at)[1]
     IN /\ disk[f].now = "none"
        /\ disk' = [disk EXCEPT ![f].now = "partial"]
  /\ load' = [load EXCEPT !.save = "open"]
  /\ UNCHANGED tries

\* ... and write it.
SaveWrite ==
  /\ Saving /\ load.save = "open"
  /\ disk' = [disk EXCEPT ![Saves(load.at)[1]].now = "whole"]
  /\ load' = [Saves(load.at)[2] EXCEPT !.save = "closed"]
  /\ UNCHANGED tries

-----------------------------------------------------------------------------

RunScript ==
  /\ load.at \in {"down", "failed", "done"} /\ load.run < MaxRuns
  /\ load' = NewLoad(load.run + 1)
  /\ tries' = NoTries
  /\ UNCHANGED disk

\* The script dies: killed, or by an error it does not handle.
ScriptDies ==
  /\ load.at \notin {"down", "failed", "done"}
  /\ load' = [NewLoad(load.run) EXCEPT !.at = "down"]
  /\ tries' = NoTries
  /\ UNCHANGED disk

LoadNext ==
  \/ RunScript \/ ScriptDies \/ Retry \/ ResolveBook \/ ResolveEnd \/ FetchPage
  \/ FetchEnd \/ EnrichNorm \/ EnrichNoId \/ EnrichEnd
  \/ SaveRename \/ SaveCreate \/ SaveWrite

-----------------------------------------------------------------------------
(* Properties. *)

\* Whether the log of the run names a reason why norm n is missing.
Announced(n, page) ==
  \E g \in load.gaps :
    \/ g.kind = "book" /\ g.book = n.book
    \/ g.kind = "page" /\ g.book = n.book /\ g.from <= page
    \/ g.kind = "id" /\ g.norm = n

\* "Norms are never silently dropped" (enrich_norms): when the script has run
\* to its end, every line of a norm in scope from its first Absatz on is in
\* exactly one document, or the log has a warning for the gap; requests that
\* fail, books that are gone and norms without an id included.
QuietIsComplete ==
  load.at = "done" =>
    \A b \in {s \in ToSet(TargetSlugs) : Law[s] # NoBook} :
      \A p \in DOMAIN Law[b] : \A n \in {m \in ToSet(Law[b][p]) : ShouldEnrich(m)} :
        \/ Announced(n, p)
        \/ \A i \in DOMAIN n.text : (\E j \in 1..i : n.text[j] # "") \/ ToSet(n.text) = {""} =>
             \E d \in load.docs : {e \in load.docs : e.norm = n /\ i \in e.part.lines} = {d}

HasCopy(f) == disk[f].now = "whole" \/ "whole" \in disk[f].old

\* Once a file was written in full, a full copy of it exists, whenever the
\* script dies and however often it is run.
CopyKept == [][\A f \in File : HasCopy(f) => HasCopy(f)']_disk
=============================================================================
