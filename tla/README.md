# Formal models of mietrecht-rag

TLA+ modules that model the stateful parts of this repository, TLC configurations
that check them on small instances, and proofs for TLAPS. File references are
relative to the repository; a module's own comments quote the sentence of the code
or the documentation a property comes from.

Contents: [how to run](#how-to-run), [the system](#the-system), [modules](#modules),
[runs](#runs), [what the code does not guarantee](#what-the-code-does-not-guarantee),
[proofs](#proofs), [assumptions](#assumptions), [plan](#plan).

## How to run

    tlc -workers 2 -config thread_gate.cfg MCAgentThread     # any row of the table of runs
    tlapm AgentThread_proofs.tla                             # any *_proofs module

`PROJECT.json` lists the components, runs, mutants, hazards, theorems, and for every
definition that models code the lines it stands for. Definitions whose comment starts with
"Mutant of" are plausible bugs of the definition below them; they are in no `Next` and exist
to show that each property can be broken by a bug of the code it is about.

## The system

A FastAPI server runs a LangGraph agent that answers questions on German tenancy law from a
vector store in Postgres, keeps cases with documents and deadlines, and asks the user before it
writes. A React client streams the answers. A command line fills the vector store.

### Components, their state, and who calls whom

| Component | Source | State it keeps | Operations | Model |
|---|---|---|---|---|
| Agent graph | `src/agent/{graph,nodes,state}.py` | one checkpoint per thread in Postgres: history, next node, interrupts | new turn, resume, five nodes, recursion limit | `AgentThread` |
| Gated case tools | `src/tools/case_tools.py` | rows `deadlines`, `case_documents` | `create_deadline`, `save_draft`: interrupt, then insert | `AgentThread`, `ApprovalGate` |
| Chat routes, event stream | `src/api/routers/chat.py`, `src/api/streaming.py`, `src/api/sse.py` | none of their own | `chat`, `chat_resume`; where a stream ends; what a closed client does | `AgentThread`, seen from the client in `ChatSurface` |
| Rate limiters | `src/api/deps.py` | in memory: timestamps per user and per login address | check, refuse with a wait, admit | `RateLimiter` |
| Tenancy memory | `src/memory/store.py` | rows `tenancy_facts`, `facts_source` per user | merge facts of an upload, merge facts of a turn | `TenancyMemory` |
| Corpus ingestion | `src/ingest/{case_law,statutes}.py`, `src/db.py`, `main.py` | vector tables, `case_law_parents`, `collection_meta` | skip, clear, write batches, record the model | `CorpusIngest` |
| Chat surface | `frontend/src/state/useChat.ts`, `App.tsx`, `CaseDetailView.tsx`, `ChatView.tsx` | transcript, `loading`, `abortRef`, `analysingDocId`, the session's thread | send, analyse, answer a card, cancel, open another conversation | `ChatSurface` |
| Chat index | `src/chat_history/store.py`, `api/routers/chat_history.py` | `chat_threads` | claim, touch, list, rename, delete, messages | `ChatIndex` |
| Case store and routes | `src/cases/store.py`, `api/routers/cases.py` | `cases`, `case_documents`, `deadlines` | create, list, open, delete with cascade; upload, analyse, review; context block | `CaseFile` |
| Contract review | `src/contracts/*.py` | none, one stored summary | segment, pack, review clause by clause | `Clauses`, `CaseFile` |
| Accounts and login | `src/auth.py`, `api/routers/auth.py` | `users`, tokens | seed, login, check a token, create, deactivate | `Sessions` |
| Administration, evaluation job | `api/routers/admin.py`, `EvalJob` in `api/deps.py` | one job record in memory | start, run, poll | `Sessions` |
| Evaluation runner | `src/eval/*` | `data/eval_results.json` | measure, keep the last good scores, write | `Evaluation` |
| Hybrid search, `search_law` | `src/retrieval/hybrid.py`, `src/tools/retrieval_tools.py` | a cached retriever | narrow, vary, merge, rerank, expand to parents | `Retrieval`; the provenance check in `CorpusIngest` |
| Page of a source | `api/routers/sources.py` | none | join the chunks of a source | `Retrieval` |
| Chunking, context prefixes | `src/ingest/{chunking,contextual,case_law}.py` | none | filter a dump, cut, prefix, count for the dry run | `Clauses`, `CaseLaw` |
| Legal tools | `src/tools/{paragraph_lookup,operating_costs}.py` | none | notice period, rent brake | `LegalTools` |
| Legal data download | `fetch_legal_data.py` | files under `data/` | ask and retry, page, split, save | `LegalData` |
| Traces, usage | `src/logging/callbacks.py`, `src/usage.py` | counters per run | add tokens, report cost | not modelled: an observer of a run |
| Prompts, input hygiene | `src/agent/{prompts,security}.py` | none | texts, escaping | not modelled: strings without control |
| Profile, feedback routes | `api/routers/profile.py`, `src/feedback/store.py` | `feedback` | single reads and inserts | not modelled: one statement each |
| Client session, workspace | `frontend/src/state/{session,workspace}.tsx`, `api/*.ts` | token, user, lists | login, logout, role, refresh, reload | `Workspace` |
| Other client views | `frontend/src/components/*` | local forms | show one response | not modelled: presentation |

How they interact:

* The **client** starts every run with a POST and reads its server-sent events. It holds one
  stream per surface and cancels the old one with an `AbortController`. It learns of a pending
  approval only from the event of that stream: no endpoint returns a parked approval later.
* The **routes** check ownership and the rate limit, then hand the request to the graph. They
  share nothing per thread: two requests on one thread only meet in the checkpointer.
* The **graph** reads the latest checkpoint, runs nodes and stores a checkpoint after each. The
  tools node calls the case store, `write_memory` the tenancy memory, `search_law` the retrieval.
* Every route but the login reads the **account** of its token first; every route of a case
  begins with the ownership check of the **case store** and then uses raw ids.
* A **contract upload** writes the same tenancy facts as the `write_memory` node.
* The **command line** writes the tables the retrieval reads, in another process, from the
  documents the **download** script has left and the decisions the **filter** has kept.

### What is hard, and what makes each part correct

* *Agent thread.* Requests overlap, are repeated or arrive after the run they belong to was
  replaced; the server can die between the insert and the checkpoint; the client can leave; the
  model can loop. Correct means: no row without the user's approval of exactly that row; an
  approval takes effect; the history stays acceptable to the provider; no message is lost; every
  request ends.
* *Limiters.* The clock is read before the lock is taken, so timestamps are out of order. Correct
  means: no more than the limit per window, and the wait the user is told is long enough.
* *Tenancy memory.* Four store operations per writer, two writers. Correct means: no fact is lost
  and a label "from the contract" is only on values from a contract.
* *Ingestion.* A run of many minutes that can die anywhere, and a configuration that changes
  between runs. Correct means: no chunk without its parent section, no mixture of embedding
  models, success only when everything is there.
* *Chat surface.* Callbacks of an old stream, refused requests, and a card that outlives the turn
  it belongs to. Correct means: what a draft shows comes from its run, the analysis stored for a
  letter is about that letter, and the buttons are unlocked again.
* *Server and database.* A handler is several statements, each committed by itself, and streams
  go on for minutes; rows, cases and accounts it has checked can be gone at the next statement.
  Correct means: no row is added to, or read from, a case of another user; no row outlives its
  case; what a request was told has happened; there is always an administrator; one evaluation
  runs at a time; a conversation shows nobody else's words.
* *Client session.* A request carries the token of the moment it was sent and is answered whoever
  is logged in by then. Correct means: what is on the screen becomes the user's own.
* *Search.* Models and rerankers fail at each step and each has its fallback. Correct means: never
  an empty answer from a collection with rows, no repetition, a cited section when there is one.
* *Texts.* Lengths just above or below a limit. Correct means: no word is lost,
  and none repeated but where neighbouring children overlap.
* *Download and evaluation.* Minutes of requests that fail or are refused, and files that are
  replaced while the process can die. Correct means: no silent gap, no lost file, no good score
  replaced by a failure of the judge.

`PROJECT.json` lists the hazards one by one with their lines and the properties that cover them;
those without a property say why.

## Modules

### AgentThread, ApprovalGate

One conversation thread. A *request* is a process that is used once: `Send` (a chat message or a
letter analysis) or `Resume` (the decision on an approval), then the nodes
`ValidateInput`, `LoadMemory`, `CallModel`, `ToolCall`/`ToolsReturn`/`Park`/`ToolsFail`,
`WriteMemory`. Each node ends in `Superstep`: the checkpoint is stored, then the limit is looked
at; if the client is gone and the node has something to say, the generator stops there (`Cut`).
`ckpt` is what Postgres holds; `loop[q]` is the copy request q works on; because nothing locks the
thread, the last one to store wins. The environment can let requests overlap, supersede a parked
approval, answer an old one, hang up, reload, restart the process, fail, and delete the case
(`Env` selects, so that a run can say under which of them a property holds).

All gated calls of one model message are one task with one interrupt id and one list of
decisions; `ToolCall` is one thread of that task, so the order in which they take decisions is
open. A call is a model value: its arguments play no role in control. `Results` is the body of
the tool after the interrupt: rejected, refused (unreadable date, no case), written, or failed on
the foreign key of a deleted case.

`ApprovalGate` is the promise, in three sets: shown, granted, inserted. A grant needs a shown
call, an insert needs the grant of the same call by the same request. `AgentThread!ImplementsGate`
is the refinement; `asked`, `answer` and `out` are the mapping.

### RateLimiter

`check_rate_limit` and `check_login_rate_limit`, one key. `Arrive` reads the clock, `Refuse` and
`Admit` are the critical section, `Tick` is the clock. `PerSecond` makes the ticks finer than the
seconds the user is told. `Delay` bounds the time between reading the clock and holding the lock;
the code states none, the scheduler has one. The window property is stated with it:
at most `Limit` admissions in any `Window - Delay`.

### TenancyMemory

The two rows and the two writers of `src/memory/store.py`, one action per store operation:
`GetFacts`, `PutFacts`, `GetLabels`, `PutLabels`; `StoreFails` may end a writer before any of
them. A fact is represented by who supplied it. `said[t]` are the tool-call arguments in the
messages of thread t, all of which a turn collects again.

### CorpusIngest

One collection, filled by `ingest-case-law` (`WithParents = TRUE`) or `ingest-statutes`, and the
queries of the server. Each step is one commit of the code: `Clear`, `ClearParents`, `Open` (the
provenance check), `WriteParents` (one statement for a batch), `AddChunk` (row by row),
`Record`. `Crash` may replace any of them. `Switch` is a deployment with another
`EMBEDDING_MODEL`. `Ask` is the provenance check before a query and `Read` the search after it;
anything may happen in between. `broken` is a history variable: a run has died and none has
succeeded since.

### ChatSurface

`useChat.ts` with the two surfaces that use it, and what the server makes of each request as far
as the client can tell. `consumeStream` is cut where it awaits: `Begin` (up to the fetch),
`Response`, `ErrorBody` (the body of a refusal; the signal is not looked at after it),
`Frames` (the frame that ends the stream), `Abort`, and `Close` is its finally block.
`Submit`/`Invalid`/`Send` is the validation `ChatView` awaits between looking at `loading` and
sending. A draft remembers the request that appended it (`run`), the request whose frames wrote
its text, and its card. `page` is the surface of a behaviour: the free chat, or the chat of a
case, which alone has letters and one thread. `Refusals` says on which of them the server may refuse
a request.

The module does not extend `AgentThread`: it only keeps which approval a thread is parked at and
whether its history is spoilt, which are `ckpt.id`/`ckpt.next` and `ckpt.lost` there.

### Sessions, CaseFile, ChatIndex, and AppServer, which composes them

One database, one process, the requests of all users. A *request* is a thread of the server that is
used once: `Arrive` is `get_current_user` (and `require_admin`) or the refusal, then each
statement the handler sends to the database is an action, as every store function uses an
autocommitting connection. `pc[r]` is the place in the handler, `who[r]` the user the token
named, `call[r]` the route with its arguments, `ans[r]` the answer. Streams have no status of
their own: 200 is a stream that ended well, 299 one whose result could not be stored (which is
logged), 298 one that paused, failed or was left by the client.

* `Sessions`: the table `users`, the tokens, the routes of accounts, and `EvalJob` with its thread,
  which takes the lock to start and not to finish. `Crash` ends requests, threads and the job's
  record; `Start` seeds the predefined administrator.
* `CaseFile`: the tables `cases`, `case_documents`, `deadlines`, with ids given out in increasing
  order; `DocsAfter` and `Refers` are the foreign keys of `db.py`. The routes of `cases.py` are
  sequences of `RequireCase`, `RequireDocument` and one statement each; the review is one action
  per clause and stores after its summary frame; `ContextBlock` is the prompt's block on a case;
  `ResumeDocument`/`ToolWrite` is an approved call, `AgentFinal` the analysis stored by `on_final`.
* `ChatIndex`: the rows of `chat_threads` and, for each thread, whose words the checkpointer has.
  `orphaned` is a history variable: threads that have had a row or a history and then were in
  nobody's list.

`AppServer` adds the scenarios: a database earlier requests have left, the tokens still valid and
the calls the clients can make; and its properties. `Serial` names the routes whose requests do
not overlap one another; it only matters to two properties, see below.

### The pipelines

`Pipelines` composes what shares no state: each behaviour is of one part.

* `LegalData`: `fetch_legal_data.py`. A request is retried (`Retry`) or returns data or nothing
  (`Result`), with the two counters of `api_get`; the phases of `main` follow; a save is
  `SaveRename`, `SaveCreate`, `SaveWrite`. `ScriptDies` may replace any step, `RunScript` starts
  again. `gaps` are the warnings of the log.
* `Retrieval`: one search through `search_law`, step by step, with the way back of every service
  that may fail; the legs, their fusion and the reranker return any order. And `get_source`.
* `Clauses`: `segment_clauses` and the hierarchical chunking of decisions, on token sequences.
  Parents are cut one behind the other (`Sliced`), children as windows of which each repeats the
  last `ChildOverlap` tokens of the one before (`ChildTexts`), as the two splitters of
  `chunking.py` are configured. A decision is whole (`DecisionWhole`) when its parents carry every
  word of its sections once and in order, and the children stored for a parent cover it: each has a
  place in it, in the order of their numbers, no word lies between them, and two of them share no
  more than the overlap.
* `CaseLaw`: the filter of a dump with its bounded heap, the prefixes, the rows, the dry run.
* `LegalTools`: the notice periods and the rent brake, in cents; a rounding tie is a choice.
* `Workspace`: `session.tsx`, `workspace.tsx`, `client.ts`. `LogIn` and `SetRole` ask for all three
  lists, `Refresh` for one, from a view's callback that may be older than a logout; `Answered`
  is the data, a failure or the 401 that logs out whoever is there; `Reload` trusts what is stored.
* `Evaluation`: which scores a run saves when the judge fails; a score is the run that measured it.

### MC modules, proof modules

`MC*` modules only define the sets of an instance. `*_proofs` modules hold the theorems.

## Runs

| Run | Checks | Bounds, and why they are enough | States |
|---|---|---|---|
| `thread_gate` | `TypeOK`, `OnlyApprovedWrites`, `ImplementsGate` | 3 requests, 2 calls, one gated call per message, limit 7; the whole environment but tools without approval, which touch nothing the gate reads. Three requests: ask, replace, answer late. | 0.45 M |
| `thread_serial` | `SomeCallApproved`, `HistoryComplete`, `ParkedIsShown`, `TurnsKept` | 4 requests one after another, messages with one or both of 2 calls, limit 11 (no turn reaches it): question, one decision per call, a next question. | 80 k |
| `thread_live` | `RequestsEnd`, `ApprovalTakesEffect` | 3 requests that overlap, supersede and resend, a model that may search for ever, limit 5; `FairSpec`. | 134 k |
| `thread_batch_unapproved` | violation of `OnlyApprovedWrites` | both calls in one message, nothing else unusual | |
| `limiter` | `WindowBound`, `ToldWaitSuffices` | 5 requests, limit 2, window 4, 9 ticks: the window slides past a refused and retried key twice | 219 k |
| `memory` | `LabelHonest`, `FactsKept` | 2 uploads, 2 turns, 2 threads, 2 keys, one writer at a time, any store operation may raise: every order of three writers of one key with a fourth in between | 142 k |
| `corpus` | `ParentsFirst`, `OneModel`, `DoneIsComplete`, `RecordedQueriesMatch` | 5 chunks in 3 batches (a first, a middle and a last one of different sizes), 2 models, 4 runs: die, die again, repair, skip | 3.9 k |
| `server` | `TypeOK`, `Isolation`, `NoOrphans`, `ReviewComplete`, `AnswersHold`, `SoonestShown`, `AdminRemains`, `JobHonest`, `HistoryOwn` | any 3 of the calls of one of 4 scenarios (case files; conversations; accounts with and without the predefined administrator), overlapping statement by statement, 1 restart; the block shows 1 document and 1 deadline. A hazard here is one handler between two statements of another; the third request makes the check stale twice, or reads what the two have left. Deadlock is checked. | 1.1 M (with symmetry) |
| `pipeline` | `QuietIsComplete`, `SearchSound`, `NothingLost`, `DumpsFaithful`, `FiguresRight`, `ScoresKept`, `ListsSettleOwn`, `CopyKept` | every contract and decision of up to 6 tokens, clauses of 4, parents of 4 and children of 2 that overlap by 1, so that a section makes two parents and a parent up to three children; dumps of up to 5 decisions with room for 2; 3 books (one missing), 3 runs of the download and of the evaluation: fail, fail again, repair; 2 users of one browser with 3 rounds of requests: log in, refresh, log in again; the candidate lists are as small as they can be while every cut still bites. Deadlock is checked. | 255 k |
| `surface` | `TypeOK`, `DraftOwn`, `LastDraftSettled`, `CardsLive`, `AnalysisIsOwn` | 5 requests, 2 letters, one thread; on the free chat with refusals, on a case without: a message, a card, a decision that is refused and messages around them; two analyses, a decision on each card, a message in between | 264 k (with symmetry) |
| `surface_ends` | `LoadingEnds` | 2 requests, 2 new threads, a saved one opened twice, refusals, a user who does not wait for the validation; `FairSpec`. Locking and cancelling always concern a request and its successor. | 0.41 M |
| `surface_misfiled` | violation of `AnalysisIsOwn` | 3 requests on a case, which may be refused | |

Deadlock is checked in `server` and `pipeline`, where `Quiescent` and `Rest` say when everything
may rest: no handler may be stuck. In the other runs the system may stop anywhere: users owe it no
further request, and every instance has finitely many of them. The real
`RECURSION_LIMIT` is 25; only that it is finite, and where it can strike, matters.

**Fairness.** `AgentThread!FairSpec` is weak fairness of the server's own steps of each request:
model and database calls return or raise. Nothing is assumed of users, clients, crashes.
`ChatSurface!FairSpec` adds that the network and server answer and that the browser runs its
callbacks. Each action that fairness applies to stays enabled until taken, so weak fairness is
enough.

## What the code does not guarantee

Two disagreements with what the repository says of itself are runs of their own:

* `thread_batch_unapproved`: two gated calls in one model message. The user decides on the one
  shown; whichever thread calls `interrupt()` first takes the decision. `case_tools.py:5-7` says
  that only after the tool's own question "does any write happen". What remains is
  `SomeCallApproved`. The system prompt asks the model for one call at a time; nothing enforces it.
* `surface_misfiled`: a refused analysis has already replaced `analysingDocId`
  (`CaseDetailView.tsx:68`), so the answer of another letter's run is stored for it.
  What remains is `AnalysisIsOwn` while no request of a case is refused.

The others are the reason for a restriction in a passing run; lifting the restriction shows the
trace:

| Restriction | Lifted | What then happens |
|---|---|---|
| `thread_serial`: `Env = {}` | `{"supersede"}` | `HistoryComplete` fails: a message instead of an answer drops the parked task but leaves its tool call unanswered in the history, which the provider refuses from then on (`useChat.ts:175-176` says the server replaces the run). |
| | `{"search"}`, limit 6 | `HistoryComplete` fails: the limit strikes between the model's call and the tool; the next message finds the unanswered call. |
| | `{"overlap"}` | `TurnsKept` fails: the last checkpoint stored wins. |
| | `{"hangup"}` | `ParkedIsShown` fails: the card was sent to nobody, and no endpoint returns it. |
| `memory`: `Overlap = FALSE` | `TRUE` | `FactsKept` fails (read, merge and put are three operations, `store.py:106`); `LabelHonest` fails (facts and labels are put separately, `store.py:147`). |
| `RecordedQueriesMatch`: once there is a record | without it | a run that dies before its first batch is recorded leaves chunks without a `collection_meta` row, and a missing row passes the check (`db.py:260`), while `README.md:162-163` says "queries refuse on a model mismatch". |
| `SkippedIsComplete`: `~broken` | without it | one stored chunk of a run that died is taken for the whole corpus (`case_law.py:204`); only `--force` repairs it. |
| `DraftOwn`, `CardsLive`: `page = "free"` | for a case | `DraftOwn` fails: the analysis of a letter leaves open cards on the screen, and a card answered then streams into the letter's draft (`CaseDetailView.tsx:69`). |
| `surface`: `Eager = FALSE` | `TRUE` | `DraftOwn` fails: a cancelled request that is reading the body of a refusal writes its error into its successor's draft (`useChat.ts:129`). |
| `surface`: `Opens = 0` | a saved conversation is reopened | `DraftOwn`, `CardsLive` and `LastDraftSettled` fail: a cancelled request still finishes on its thread, and what it writes, or stops at, meets the conversation that was loaded meanwhile (`useChat.ts:37`). |
| `server`: `"users_set_active" \in Serial` | without it | `AdminRemains` fails: two administrators deactivate each other at once, and both have passed `require_admin`. A restart does not help, as `seed_admin` leaves an inactive row alone. |
| `server`: `"chat" \in Serial` | without it | `HistoryOwn` fails: two users ask `claimed_by_other` before either has touched the thread (`chat.py:71`), and both own it. |
| `HistoryOwn`: threads that were never `orphaned` | all threads | a deleted conversation leaves its checkpoints (`store.py:99`), and a reader between `owns_thread` and `get_thread_messages` its place; whoever sends its thread id next continues it. |
| `AnswersHold`: streams that ended with 200 | 298 too | a client that leaves at the summary frame loses the finished review, which is stored only after it (`cases.py:270`). |
| `pipeline`: `Late = FALSE` | `TRUE` | `ListsSettleOwn` fails: an answer that outlives a logout replaces the list the next user has already been shown (`workspace.tsx:31`), while `workspace.tsx:50` says "so a new user never sees stale data". |

More that the models contain, and that needs no property to be seen:

* A forced run after a change of the model empties the table (`Clear`) and is then refused
  (`Open`), because `clear_collection` keeps the `collection_meta` row (`db.py:293`).
* A turn of an old conversation writes all its earlier facts again over newer ones from elsewhere
  (`Collected`), while `store.py:8-10` speaks of "the latest exchange".
* The facts of an uploaded contract are stored before its row (`UploadText`), and stay when the
  insert fails; the analysis of a document deleted meanwhile updates nothing (`Analysed`).
* The loser of two requests that create the same account sees a database error, not the conflict
  message (`InsertUser`). The context block keeps the oldest documents, not the newest.
* A process that dies while the results of an evaluation are written leaves a file that does not
  parse, which the next run takes for "no previous scores" (`StartEval`). A metric that could be
  judged replaces a pair of good ones even if the other is NaN (`KeptScores`).
* A late 401 logs out the next user of the browser (`Answered`). The transcript of a conversation
  is not cleared by a logout either, as only the lists are (`session.tsx:58`).
* A page of a book that cannot be fetched is logged, ends the loop, and the shortened list is saved
  (`FetchPage`, `fetch_legal_data.py:326`): `QuietIsComplete` only excludes a gap that no warning
  names. A chunk without a parent is dropped by a search that finds one with a parent
  (`ExpandParents`, `hybrid.py:278`): `ParentsFirst` and `DecisionWhole` say that ingestion stores
  no such chunk.
* Lines of a norm before its first Absatz marker are in no document (`SplitByAbsatz`).
  `QuietIsComplete` starts after them.

## Proofs

Checked by `tlapm` to the last leaf, with the SMT backend, Zenon, and LS4 for the temporal steps.

| Module | Theorem | Says | Under |
|---|---|---|---|
| `AgentThread_proofs` | `TypeCorrect` | `TypeOK` | |
| | `GateInvariant`, `WritesAreApproved` | `GateInv`, `OnlyApprovedWrites` | one gated call per message |
| | `ThreadImplementsGate` | the refinement `ImplementsGate` | one gated call per message |
| | `SomeInvariant`, `SomeCallIsApproved` | `SomeInv`, `SomeCallApproved` | |
| | `TurnInvariant`, `TurnsAreKept` | `TurnInv`, `TurnsKept` | requests do not overlap |
| | `CalmInvariant`, `HistoryIsComplete` | `CalmInv`, `HistoryComplete` | `Calm` |
| | `ParkedCardIsShown` | `ParkedIsShown` | `Calm`, cases are not deleted |
| `ChatSurface_proofs` | `TypeCorrect`, `RunInvariant` | `TypeOK`, `RunInv` | |
| | `ChatInvariant`, `LastDraftSettles` | `ChatInv`, `LastDraftSettled` | `Eager = FALSE`, `Opens = 0` |
| | `FreeInvariant`, `DraftsAreOwn`, `CardsAreLive` | `FreeInv`, `DraftOwn`, `CardsLive` | `Eager = FALSE`, `Opens = 0` |
| | `AnalysesAreOwn` | `AnalysisIsOwn` | `Eager = FALSE`, no request of a case is refused |
| `RateLimiter_proofs` | `TypeCorrect`, `LimiterInvariant` | `TypeOK`, `LimiterInv` | |
| | `WindowIsBounded`, `ToldWaitIsEnough` | `WindowBound`, `ToldWaitSuffices` | |
| `TenancyMemory_proofs` | `TypeCorrect` | `TypeOK` | |
| | `SerialInvariant`, `SerialLabels`, `SerialKeepsFacts` | `SerialInv`, `LabelHonest`, `FactsKept` | writers take turns |
| `CorpusIngest_proofs` | `TypeCorrect`, `CorpusInvariant` | `TypeOK`, `CorpusInv` | |
| | `ParentsAreFirst`, `ProvenanceHolds`, `DoneMeansComplete` | `ParentsFirst`, `OneModel`, `DoneIsComplete` | |
| | `SkippedMeansComplete`, `RecordedQueriesAgree` | `SkippedIsComplete`, `RecordedQueriesMatch` | |
| `AppServer_proofs` | `AnAdminRemains` | `AdminRemains` | deactivations do not overlap |
| | `NoRowIsOrphaned`, `JobIsHonest` | `NoOrphans`, `JobHonest` | |
| | `HistoryInvariant`, `HistoryIsOwn` | `HistoryInv`, `HistoryOwn` | turns of the free chat do not overlap |
| `Ownership_proofs` | `OwnInvariant`, `OwnershipHolds` | `OwnInv`, `Isolation` | `None` is not a row |
| | `AnswerInvariant`, `AnswersAreKept` | `AnswerInv`, `AnswersHold` | `None` is no row and no analysis |
| | `StateInvariant`, `ServerIsTyped` | `StateOK`, `TypeOK` | `None` is no row and no analysis |
| | `TheSoonestAreShown` | `SoonestShown` | `None` is no row and no analysis |
| | `ReviewInvariant`, `ReviewsAreComplete` | `ReviewInv`, `ReviewComplete` | the same, and only letters are resumed |
| `Pipelines_proofs` | `CopiesAreKept` | `CopyKept` | |
| | `FiguresAreRight` | `FiguresRight` | inputs of their types |
| | `ListsSettle` | `ListsSettleOwn` | `Late = FALSE` |
| | `LastScoresAreKept` | `ScoresKept` | |
| | `SearchIsSound` | `SearchSound` | |
| | `NormsAreNotDropped` | `QuietIsComplete` | |
| | `DumpsAreFaithful` | `DumpsFaithful` | |
| | `NothingIsLost` | `NothingLost` | |

Every theorem holds for all values of the constants that satisfy the named assumptions of the
modules, so for any number of requests, users, rows, keys, chunks, batches, models and runs.

*The gate.* `OnlyApprovedWrites` is not inductive: a tools node writes because of a decision it
was given earlier. `GateInv` says where decisions come from. A checkpoint id names the request and
the step that made it, so it is issued once (`IdsIssued`) and stands for one set of open calls
wherever it turns up, in the checkpoint, in a running request, in an approval the user was shown
(`IdsAgree`). With one call per message an approval shows all there is to decide (`OneOpen`), no
decision is ever saved for a later rerun (`ResumeEmpty`), and a decision a tools node still
has to hand out is the one of this very request for the open call (`DecisionOwn`, `LeftFresh`). The
refinement then needs only that invariant and one step per action.

*Several calls in one message.* `SomeInv` is what is left of `GateInv` without the hypothesis, and it
holds in every environment: an id is issued once and stands for one set of open calls, and a
decision that is being handed out, or is saved for a rerun, was given to the card with that id. So
a row is only ever written after the user approved some call of the same message.

*Turns and calm threads.* `TurnInv`: at most one request is active, and its copy of the thread holds
every message of the checkpoint. `Calm` names the environments in which the history can be
trusted at all: approvals may be answered twice and the case may be deleted, but every other
word of `Env` breaks `HistoryComplete`, even alone (see the table above), and the limit leaves
room for one turn. `ParkedIsShown` is lost with a deleted case too, as the tool then fails. `CalmInv` then counts the supersteps of a request against its place in
the graph, so that the limit cannot strike in a turn, follows a failed insert to the deleted
case, and says where a thread rests: finished with a complete history, or parked at its card.

*The chat surface.* Two facts need no restriction: `abortRef` never names a request that is over
(`Addressed`), and every approval names the run of the request that stopped at it (`RunInv`). Who
writes into which draft is decided by timing alone, since `update` writes into the last one. For
a patient user `OneStream` says that there is one stream and that `loading` tells so; `ThreadsApart`
and `AbortedBlank` that a cancelled request is on a thread the user has left and writes nothing;
`Settled` what the last draft has or still waits for, by the place of its request on the server.
With `FreeInv` (the last draft is of the run in flight, and it alone can hold a card) this gives
`DraftOwn` and `CardsLive`. For a case `CaseInv` says that the letter in `analysingDocId` is the one
the parked run analyses, except between an analysis' click and the server's taking it, when no card
can be answered; a refusal in that gap is the run `surface_misfiled`. `NullAssumption` keeps the
value for "none" apart from threads and approvals, as `null` is in the code.

*The limiter.* `LimiterInv` says that an admitted timestamp stays in the log as long as it can
count, and that the log never holds more than `Limit` timestamps inside one window.

*The memory.* `SerialInv`: at most one writer runs, what it has read is still what is stored, and
only keys it is writing, or that a failed writer was writing, can have a label out of step.

*The corpus.* `CorpusInv` adds to the invariants what holds between two steps of a run: empty
tables when it opens the collection, afterwards exactly the chunks `1 .. next - 1`, the parents
of the batch before its chunks, and a record from the first batch on. `ServeInv` ties the
configured model to it for the two properties about queries and skipped runs.

*The administrator.* `AdminRemains` is not inductive, since `SetActive` looks at no other account.
`AdminInv` adds who may deactivate: a request in flight that does so was made by an account that
is an active administrator still (`Deactivating`), and there is at most one such request, so
nobody can take its author away before it is over; the author is left, because no request may
name its own account. The hypothesis is the word `"users_set_active" \in Serial`; without it
the second fact is false, and so is the theorem.

*Orphans.* `RowInv`: every row has the columns of its table and a live case. Ids are never given
out again, an insert looks at its foreign key in the same statement, and the deletion of a case
takes all its rows with it; every other step leaves the case of a row alone.

*Ownership.* `Isolation` is not inductive: a handler goes on with raw ids after its one check.
`OwnInv` says what it has got hold of (`Gate`): behind the check, the case in the path is the user's
or is `Gone`; so is the case of the document a review or an analysis will be stored in, or the
document is gone; and a request that has not arrived has no user, so no row can be its own. This is
preserved because a case never changes hands, an id is never given out again, and a document never
changes its case. The hypothesis `NoneIsNoRow` keeps the value for "no row yet" apart from rows.

*Answers.* `AnswersHold` speaks of a request that is over and of rows that others go on changing.
`AnswerInv` says the same of a request under way: what its handler has stored and will announce is
there, unless the document is gone (`Kept`, `Found`), and an account is of the request that made it
(`Made`). Every step of another leaves that alone, as what is analysed stays analysed
(`AnalysesStay`) and an account keeps its maker (`AccountsStay`).

*Types.* `StateOK` is the type of the server's state by parts: where a request is, what it holds, the
columns of each table and the conversations. It needs `OwnInv` and `AnswerInv`, because what is
written is what an earlier step of the handler has read.

*The block.* `SoonestShown` follows from the types. How many deadlines come before one numbers the
open ones from 0 without a gap (`RanksNumber`, by induction on their number), so those with a
number below the limit are as many as the limit, or all of them.

*Reviews.* A document keeps its kind and its text, so the review that goes through the text it has
read is stored on the same text: `ReviewInv` says that it has one finding for each risky clause so
far, in their order. The hypothesis `LettersResumed` is one about the client: `chat_resume` looks
whether the document is there and not at its kind (`chat.py:131`), and an analysis of a letter
stored on a contract would be an incomplete review; the client only names letters
(`CaseDetailView.tsx:68`, `:119`).

*Conversations.* `HistoryInv`: a thread is in one list at most; unless it has lost its row, its words
are of the user in whose list it is; a turn that has claimed a thread still has no rival, which is
where the hypothesis `"chat" \in Serial` is needed; a reader that has passed `owns_thread` owns
the thread, or it has lost its row.

*The evaluation job.* `JobInv`: the status is `running` from the start of a thread to its last
assignment, so no second one starts; results are there before a status that promises them, and
are only lost in a restart, which ends every poll.

*The pipelines.* A save moves a whole file among the backups before it creates the new one, so
some copy stays (`DiskOK`). The figures follow from the definitions by arithmetic: the law's form
(three months and three more after five and eight years; 110 % exactly) against the code's. The
lists settle because (`DeskInv`) all that is on its way is the user's own, and each list is the
user's own or its replacement is on its way.

*The evaluation.* `ScoresKept` needs `EvalInv`: what is in the file, what the run has read of it and
what it has measured is of one run for each collection.

*The search.* `SearchInv` says that the candidates are sound from the first query on: rows of the
collection, each once, of the cited section if there is one, and none only if the collection is
empty or queries are left. Every stage keeps that or falls back to what it was given. With the
parents, the first child of each is left (`FirstOfEachParent`), so no section is answered twice.

*The download.* `LoadInv` says of each norm of each page, place by place, where it is: in a page that
is still to be asked for (`Waiting`), in the list, in the queue of `enrich_norms`, among the
enriched, or named by a warning; and that nothing is asked for or enriched twice. At the end
each is enriched once, or announced. A line at or behind a marker is then in the part of the
last marker up to it and in no other (`LineHasOneMark`), and so in one document.

*The decisions.* `DumpsFaithful` is about a calculation, so the proof is about its operators. After the
first `k` decisions the heap holds the best of those without a citation, as many as fit (`BestOf`,
`HeapIsBest`): what is pushed out, or never let in, scores no more than anything that stays. A
finite heap can be sorted, because the number of entries before one names its place
(`RankedIsSorted`). Every child is its prefix and a piece of the text (`ChunksArePrefixed`), so the
prefix decides what it begins with and not how many there are, and the dry run, which cuts without
prefixes, counts the same.

*The texts.* `NothingLost` compares the words of a text with those of what it was cut into, in
three parts. `ContractIsWhole`: what `Words` makes of two texts put together it makes of each
(`Joins`, `FlattenCommutes`), and every cut, slice and strip only takes blanks away or puts together
again what was there (`CutKeepsWords`, `SlicesKeepWords`, `StripKeepsWords`), so the words are kept
through up to four cuts within one another (`SameWords`); the packing of atoms keeps them by
induction over the atoms, with the buffer as part of the text (`PackKeepsWords`). A numbered heading
opens a part (`HeadingsOpenParts`), and the first word of a part is the first of its pieces
(`IsPieces`, `OpensWith`); as the parts begin at different places of the flattened sequence
(`FlatHasPlaces`, `StartsAreApart`), there are as many pieces that open with a heading as headings.
`DecisionIsWhole`: the parents of a decision keep its words because they are slices of its sections
and only a blank one has no children (`WindowsKeepWords`, `HierarchyKeepsWords`). Every token of a
parent is in a window that is opened, the first one that reaches it, and a window begins no
earlier than the one before ends, but for the overlap (`WindowsReach`); what is left of a window
without its blank ends has a place in it, and the children come in the order of their windows, which
is the order of their numbers (`ChildTextsCover`, `RowsCover`). The numbers of the chunks are their
places, so no two are the same.
`PageIsWhole`: a chunk that is put on the page of a source is then on it or the page is full, and
what was on the page stays there with every further one (`WithChunkKeeps`).

*Folds.* The loops of the code are folds over sequences, which the library defines by `CHOOSE` of a
recursive function. The lemmas `FoldExists` and `AppendsExists` show that there is such a function,
and `FirstOfEachParent`, `FreshLinesAreLines`, `CandidatesAreAll`, `HeapIsBest`, `EstimateIsRight`,
`PackKeepsWords` and `PageIsWhole` what some of them compute; `FlattenUnrolls` does the same for sequences put one after the other. They
go by induction on the length, in the form that the prover can use: if the claim fails, it fails
at a least number (`LeastNatural`, from the well-foundedness of `<`).

Only model-checked: liveness (`RequestsEnd`, `ApprovalTakesEffect`, `LoadingEnds`), which is out of
the prover's reach. Every safety invariant and action property that a passing run checks is proved.

## Assumptions

*LangGraph* is not part of the repository; it is modelled from how the code uses it, and these
definitions are marked external in `PROJECT.json`:

* The tools node runs all tool calls of a message as one task, in parallel threads that share one
  interrupt counter and one list of decisions; the interrupt id is that of the task.
* A parked or finished task leaves pending writes on its checkpoint. `Command(resume={id: d})`
  reruns a parked task from its start; `d` counts only for that id; a finished task's saved result
  is applied without a rerun; on a finished thread nothing runs.
* New input drops the pending task; the model's message with its tool calls stays.
* A tool that raises leaves the task pending and ends the stream with an error.
* There is no lock per thread; the checkpoint stored last is the latest.
* When the client is gone the generator is not advanced past its next frame; nodes without a frame
  go on.
* A new turn spends two ticks of the limit on its input, a resumed one none; the limit is looked
  at after the checkpoint is stored.

*Others.* The chat provider refuses a history with an unanswered tool call. `add_documents` commits
row by row and `executemany` of the parents is one transaction; every other statement commits by
itself. Ids of rows are never reused. The text splitters of the library cut to a length, and each
child repeats the last `ChildOverlap` tokens of the one before, as the library does with pieces of
one token each. (It prefers to cut between paragraphs and lines, so its children can be shorter and
repeat less; that choice is not modelled. `DecisionWhole` takes the overlap as a bound, not as an
exact length, and is proved for every overlap below the length, none included.) The fusion
of two legs returns any order of what they found, and a reranker any order of what it is given. One
evaluation runs at a time on the results file, and nobody reads it while it is written. The pages of
a book list no norm twice (`LegalDataAssumption`), and the decisions of a dump have ids of their own
(`DumpsAssumption`); that contracts, decisions and retrieved rows are sequences is stated too
(`TextsAssumption`, `SourceAssumption`). One ingestion runs at a time, server
and command line have the same configuration, and a change of the model restarts the server. The
limiter's clock only moves forward. In `ChatSurface` only the frame that ends a stream is painted,
and the network does not fail in the middle of one; a thread of the free chat belongs to one client.

## Plan

1. `AgentThread` with `ApprovalGate`, `RateLimiter`, `TenancyMemory`, `CorpusIngest`,
   `ChatSurface`, and their proofs. *Done.*
2. The server: `Sessions`, `CaseFile`, `ChatIndex`, composed in `AppServer`; `AdminRemains`,
   and all its properties proved. *Done.*
3. The pipelines: `LegalData`, `Retrieval`, `Clauses`, `CaseLaw`, `LegalTools`, `Evaluation`,
   `Workspace`, composed in `Pipelines`; and all its properties proved. *Done.*
4. Token accounting between the stream and its callback; the chunks of the statutes.
