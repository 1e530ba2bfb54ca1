----------------------------- MODULE AgentThread -----------------------------
(***************************************************************************)
(* One conversation thread of the agent: the LangGraph state machine of    *)
(* src/agent/graph.py, driven by HTTP requests that each start a new turn  *)
(* (POST /api/chat, POST .../analyse) or answer an approval                *)
(* (POST /api/chat/resume), over one durable checkpoint.                   *)
(*                                                                         *)
(* Nothing locks a thread: every request loads the latest checkpoint, runs *)
(* supersteps on its own copy and stores a new checkpoint after each, so   *)
(* the last one to store wins.  The tools create_deadline and save_draft   *)
(* are gated: they stop the thread until the user approves or rejects.     *)
(*                                                                         *)
(* A gated tool call is a member of Call (the language model invents each  *)
(* one once), message texts are left out, and a request is a process that  *)
(* is used once, so that its name tells who wrote what.                    *)
(***************************************************************************)
EXTENDS Naturals, Sequences

CONSTANTS
  Request,   \* the HTTP requests on this thread
  Call,      \* the gated tool calls the model may propose
  Batches,   \* the sets of gated calls one model message may carry
  Limit,     \* RECURSION_LIMIT: nodes one turn may execute
  HasCase,   \* the thread belongs to a case (Context.case_id is set)
  Env,       \* what the environment may do: a subset of EnvEvents
  None

EnvEvents == {"overlap",    \* a request starts while another one runs
              "supersede",  \* the user sends a message instead of answering
              "resend",     \* an approval is answered that is not on screen
              "search",     \* the model calls tools that need no approval
              "hangup",     \* the client closes a stream
              "restart",    \* the server process dies
              "fail",       \* the model, the database or a tool raises
              "delete"}     \* the case is deleted

ASSUME ConstantsAssumption ==
  /\ Batches \subseteq SUBSET Call
  /\ {} \notin Batches
  /\ Limit \in Nat \ {0}
  /\ HasCase \in BOOLEAN
  /\ Env \subseteq EnvEvents
  /\ None \notin Request \X Nat
  /\ None \notin [id : (Request \X Nat) \cup {None}, call : Call,
                  decision : {"approve", "reject"}]

VARIABLES
  ckpt,      \* the latest durable checkpoint of the thread
  pc,        \* pc[q]: the node request q is about to run, or how it ended
  loop,      \* loop[q]: the checkpoint request q works on
  steps,     \* steps[q]: nodes request q has executed
  left,      \* left[q]: decisions interrupt() has not handed out yet
  out,       \* out[q][c]: what gated call c did when request q ran it
  gone,      \* requests whose client no longer reads the stream
  asked,     \* approvals ever shown to the user
  card,      \* the approvals on the user's screen
  answer,    \* answer[q]: the decision request q carries, None for a message
  proposed,  \* gated calls the model has made so far
  caseAlive  \* the case row exists

vars == <<ckpt, pc, loop, steps, left, out, gone, asked, card, answer,
          proposed, caseAlive>>

-----------------------------------------------------------------------------
Nodes     == {"validate_input", "load_memory", "agent", "tools",
              "write_memory"}
Ended     == {"done", "paused", "failed", "cut"}
Decisions == {"approve", "reject"}
Outcomes  == {"none", "parked", "rejected", "refused", "written", "failed"}
Ids       == Request \X Nat

\* The thread as the checkpointer stores it.  next is the node that has to
\* run; open the gated calls of the last model message; lost says that the
\* history holds tool calls nobody ever answered; turns the messages in the
\* history.  resume and saved are the pending writes attached to it: the
\* decisions a parked tools node has consumed, and the result of a node that
\* finished without its successor checkpoint being stored.
Checkpoint ==
  [id : Ids \cup {None}, next : Nodes \cup {"end"}, open : SUBSET Call,
   lost : BOOLEAN, resume : Seq(Decisions),
   saved : Seq([next : Nodes \cup {"end"}, open : SUBSET Call]),
   turns : SUBSET Request]

EmptyThread == [id |-> None, next |-> "end", open |-> {}, lost |-> FALSE,
                resume |-> <<>>, saved |-> <<>>, turns |-> {}]

Active(q) == pc[q] \in Nodes

Init ==
  /\ ckpt = EmptyThread
  /\ pc = [q \in Request |-> "new"]
  /\ loop = [q \in Request |-> EmptyThread]
  /\ steps = [q \in Request |-> 0]
  /\ left = [q \in Request |-> <<>>]
  /\ out = [q \in Request |-> [c \in Call |-> "none"]]
  /\ gone = {}
  /\ asked = {}
  /\ card = {}
  /\ answer = [q \in Request |-> None]
  /\ proposed = {}
  /\ caseAlive = HasCase

-----------------------------------------------------------------------------
(* Supersteps. *)

\* Both limits count the ticks of one invocation; a new turn spends two of
\* them on storing its input, a resumed one spends none.
Budget(q) == IF answer[q] = None THEN Limit ELSE Limit + 2

\* The checkpoint that follows c when request q has executed n nodes.
Successor(q, c, n, next, open) ==
  [id |-> <<q, n>>, next |-> next, open |-> open, lost |-> c.lost,
   resume |-> <<>>, saved |-> <<>>, turns |-> c.turns]

\* Request q has executed n nodes and the last one led from c to next: the
\* checkpoint is stored first, then the limit is looked at.
Commit(q, c, n, next, open) ==
  /\ ckpt' = Successor(q, c, n, next, open)
  /\ loop' = [loop EXCEPT ![q] = Successor(q, c, n, next, open)]
  /\ steps' = [steps EXCEPT ![q] = n]
  /\ left' = [left EXCEPT ![q] = <<>>]
  /\ pc' = [pc EXCEPT ![q] = IF n >= Budget(q) THEN "failed"
                             ELSE IF next = "end" THEN "done" ELSE next]

\* The client of q is gone and the node has an event to send: the generator
\* is never advanced again, so the result stays a pending write.
Cut(q, next, open) ==
  /\ ckpt' = IF ckpt.id = loop[q].id
             THEN [ckpt EXCEPT !.saved = <<[next |-> next, open |-> open]>>]
             ELSE ckpt
  /\ pc' = [pc EXCEPT ![q] = "cut"]
  /\ UNCHANGED <<loop, steps, left>>

\* Mutant of Superstep: the loop forgets to count the node.
SuperstepUncounted(q, next, open, silent) ==
  \/ /\ silent \/ q \notin gone
     /\ Commit(q, loop[q], steps[q], next, open)
  \/ /\ ~silent /\ q \in gone
     /\ Cut(q, next, open)

\* A node of q finishes; silent says that it produced no event.
Superstep(q, next, open, silent) ==
  \/ /\ silent \/ q \notin gone
     /\ Commit(q, loop[q], steps[q] + 1, next, open)
  \/ /\ ~silent /\ q \in gone
     /\ Cut(q, next, open)

-----------------------------------------------------------------------------
(* Requests. *)

MayStart(q) ==
  /\ pc[q] = "new"
  /\ HasCase => caseAlive
  /\ "overlap" \in Env \/ \A p \in Request : ~Active(p)

\* Mutant of TurnsWith: the messages key without its add_messages reducer.
TurnsReplaced(q) == {q}

\* The history with the new message of q (AgentState.messages appends).
TurnsWith(q) == ckpt.turns \cup {q}

\* POST /api/chat and POST /api/cases/{id}/documents/{id}/analyse: the new
\* message is stored on top of the latest checkpoint, whatever task was
\* pending there is dropped.  A chat message takes the approvals off the
\* screen, the request for an analysis leaves them there.
Send(q) ==
  /\ MayStart(q)
  /\ "supersede" \in Env \/ card = {}
  /\ LET c == [id |-> <<q, 0>>, next |-> "validate_input", open |-> {},
               lost |-> ckpt.lost \/ ckpt.next = "tools",
               resume |-> <<>>, saved |-> <<>>,
               turns |-> TurnsWith(q)]
     IN  /\ ckpt' = c
         /\ loop' = [loop EXCEPT ![q] = c]
  /\ pc' = [pc EXCEPT ![q] = "validate_input"]
  /\ card' \in {{}, card}
  /\ UNCHANGED <<steps, left, out, gone, asked, answer, proposed, caseAlive>>

\* The user's decision d on the approval a, sent to POST /api/chat/resume.
Answer(q, a, d) ==
  /\ MayStart(q)
  /\ "resend" \in Env \/ a \in card
  /\ answer' = [answer EXCEPT ![q] = [id |-> a.id, call |-> a.call,
                                      decision |-> d]]
  /\ card' = {b \in card : b.id # a.id}
  /\ UNCHANGED <<out, gone, asked, proposed, caseAlive>>

\* Mutant of Addressed: the bare decision, which goes to whatever is pending.
AddressedAny(a) == ckpt.id

\* The task a decision is sent to: {req.interrupt_id: req.decision}.
Addressed(a) == a.id

\* The decisions the pending task gets: d counts only when it is addressed to
\* this very task.
Given(a, d) == IF Addressed(a) = ckpt.id THEN Append(ckpt.resume, d)
               ELSE ckpt.resume

\* On a thread with nothing left to do no task runs.
ResumeFinished(q, a, d) ==
  /\ Answer(q, a, d)
  /\ ckpt.next = "end"
  /\ pc' = [pc EXCEPT ![q] = "done"]
  /\ UNCHANGED <<ckpt, loop, steps, left>>

\* A task whose result is already saved is not rerun, the result is applied.
ResumeSaved(q, a, d) ==
  /\ Answer(q, a, d)
  /\ ckpt.next # "end" /\ ckpt.saved # <<>>
  /\ ckpt' = Successor(q, ckpt, 1, ckpt.saved[1].next, ckpt.saved[1].open)
  /\ loop' = [loop EXCEPT ![q] = ckpt']
  /\ steps' = [steps EXCEPT ![q] = 1]
  /\ pc' = [pc EXCEPT ![q] = IF ckpt'.next = "end" THEN "done"
                             ELSE ckpt'.next]
  /\ UNCHANGED left

\* An unfinished task reruns from its start.
ResumePending(q, a, d) ==
  /\ Answer(q, a, d)
  /\ ckpt.next # "end" /\ ckpt.saved = <<>>
  /\ loop' = [loop EXCEPT ![q] = [ckpt EXCEPT !.resume = Given(a, d)]]
  /\ left' = [left EXCEPT ![q] = Given(a, d)]
  /\ pc' = [pc EXCEPT ![q] = ckpt.next]
  /\ UNCHANGED <<ckpt, steps>>

Resume(q) ==
  \E a \in asked, d \in Decisions :
    ResumeFinished(q, a, d) \/ ResumeSaved(q, a, d) \/ ResumePending(q, a, d)

-----------------------------------------------------------------------------
(* Nodes. *)

\* A text that fails validation is answered at once and ends the turn.
ValidateInput(q) ==
  /\ pc[q] = "validate_input"
  /\ \/ Superstep(q, "load_memory", {}, TRUE)
     \/ Superstep(q, "end", {}, FALSE)
  /\ UNCHANGED <<out, gone, asked, card, answer, proposed, caseAlive>>

LoadMemory(q) ==
  /\ pc[q] = "load_memory"
  /\ Superstep(q, "agent", {}, TRUE)
  /\ UNCHANGED <<out, gone, asked, card, answer, proposed, caseAlive>>

\* The model answers, calls tools that need no approval, or proposes gated
\* calls.  A history with an unanswered tool call is refused by the provider.
CallModel(q) ==
  /\ pc[q] = "agent"
  /\ ~loop[q].lost
  /\ \/ /\ Superstep(q, "write_memory", {}, FALSE)
        /\ UNCHANGED proposed
     \/ /\ "search" \in Env
        /\ Superstep(q, "tools", {}, FALSE)
        /\ UNCHANGED proposed
     \/ \E batch \in Batches :
          /\ batch \cap proposed = {}
          /\ proposed' = proposed \cup batch
          /\ Superstep(q, "tools", batch, FALSE)
  /\ UNCHANGED <<out, gone, asked, card, answer, caseAlive>>

\* Mutants of Results: the tool does not look at the decision; it compares it
\* with a word the client does not send.
ResultsAlways(decision) == {"refused", "written"}
ResultsRejected(decision) == {"rejected"}

\* What interrupt() makes of the next decision, and the tool of it.  A
\* deadline with an unreadable date is refused after approval; the insert
\* breaks the foreign key when the case row is gone.
Results(decision) ==
  IF decision = "reject" THEN {"rejected"}
  ELSE IF ~HasCase THEN {"refused"}
  ELSE IF caseAlive THEN {"refused", "written"}
  ELSE {"refused", "failed"}

\* Gated call c runs in the tools node of q.  All calls of a message run in
\* threads of one task and share the task's list of decisions: whoever calls
\* interrupt() next takes the next one, and parks when none is left.
ToolCall(q, c) ==
  /\ pc[q] = "tools" /\ c \in loop[q].open /\ out[q][c] = "none"
  /\ \/ /\ left[q] = <<>>
        /\ out' = [out EXCEPT ![q][c] = "parked"]
        /\ UNCHANGED left
     \/ /\ left[q] # <<>>
        /\ \E r \in Results(Head(left[q])) : out' = [out EXCEPT ![q][c] = r]
        /\ left' = [left EXCEPT ![q] = Tail(@)]
  /\ UNCHANGED <<ckpt, pc, loop, steps, gone, asked, card, answer,
                 proposed, caseAlive>>

Returned(q, c) == out[q][c] \in {"rejected", "refused", "written"}
AllRan(q) == \A c \in loop[q].open : out[q][c] # "none"

ToolsReturn(q) ==
  /\ pc[q] = "tools"
  /\ \A c \in loop[q].open : Returned(q, c)
  /\ Superstep(q, "agent", {}, FALSE)
  /\ UNCHANGED <<out, gone, asked, card, answer, proposed, caseAlive>>

\* Mutants: the approval event is not sent; it is not remembered.
OnScreenNever(q, a) == card
AskedNever(q, a) == asked

\* The approval_required event, unless nobody reads the stream.
OnScreen(q, a) == IF q \in gone THEN card ELSE card \cup {a}
AskedWith(q, a) == IF q \in gone THEN asked ELSE asked \cup {a}

\* An interrupt ends the request: the decisions consumed so far are saved and
\* the approval of one parked call is shown.  Its id is the id of the task.
Park(q, c) ==
  /\ pc[q] = "tools" /\ AllRan(q)
  /\ c \in loop[q].open /\ out[q][c] = "parked"
  /\ ckpt' = IF ckpt.id = loop[q].id
             THEN [ckpt EXCEPT !.resume = loop[q].resume] ELSE ckpt
  /\ LET a == [id |-> loop[q].id, call |-> c, batch |-> loop[q].open]
     IN  asked' = AskedWith(q, a) /\ card' = OnScreen(q, a)
  /\ pc' = [pc EXCEPT ![q] = IF q \in gone THEN "cut" ELSE "paused"]
  /\ UNCHANGED <<loop, steps, left, out, gone, answer, proposed, caseAlive>>

ToolsFail(q) ==
  /\ pc[q] = "tools" /\ AllRan(q)
  /\ \/ "fail" \in Env
     \/ \E c \in loop[q].open : out[q][c] = "failed"
  /\ pc' = [pc EXCEPT ![q] = "failed"]
  /\ UNCHANGED <<ckpt, loop, steps, left, out, gone, asked, card, answer,
                 proposed, caseAlive>>

WriteMemory(q) ==
  /\ pc[q] = "write_memory"
  /\ Superstep(q, "end", {}, TRUE)
  /\ UNCHANGED <<out, gone, asked, card, answer, proposed, caseAlive>>

\* The database or the provider raises: the stream ends with an error event
\* and the task stays pending.
Fail(q) ==
  /\ \/ "fail" \in Env /\ pc[q] \in {"load_memory", "agent", "write_memory"}
     \/ pc[q] = "agent" /\ loop[q].lost
  /\ pc' = [pc EXCEPT ![q] = "failed"]
  /\ UNCHANGED <<ckpt, loop, steps, left, out, gone, asked, card, answer,
                 proposed, caseAlive>>

-----------------------------------------------------------------------------
(* The environment. *)

Hangup(q) ==
  /\ "hangup" \in Env
  /\ Active(q) /\ q \notin gone
  /\ gone' = gone \cup {q}
  /\ UNCHANGED <<ckpt, pc, loop, steps, left, out, asked, card, answer,
                 proposed, caseAlive>>

\* The page is reloaded: no endpoint tells it of the parked approval.
Reload ==
  /\ "hangup" \in Env
  /\ card # {}
  /\ card' = {}
  /\ UNCHANGED <<ckpt, pc, loop, steps, left, out, gone, asked, answer,
                 proposed, caseAlive>>

\* The process dies: rows and checkpoints written so far stay.
Restart ==
  /\ "restart" \in Env
  /\ \E q \in Request : Active(q)
  /\ pc' = [q \in Request |-> IF Active(q) THEN "cut" ELSE pc[q]]
  /\ UNCHANGED <<ckpt, loop, steps, left, out, gone, asked, card, answer,
                 proposed, caseAlive>>

DeleteCase ==
  /\ "delete" \in Env
  /\ caseAlive
  /\ caseAlive' = FALSE
  /\ UNCHANGED <<ckpt, pc, loop, steps, left, out, gone, asked, card,
                 answer, proposed>>

\* The steps the server takes for request q on its own.
Serve(q) ==
  \/ ValidateInput(q) \/ LoadMemory(q) \/ CallModel(q) \/ ToolsReturn(q)
  \/ ToolsFail(q) \/ WriteMemory(q) \/ Fail(q)
  \/ \E c \in Call : ToolCall(q, c) \/ Park(q, c)

Next ==
  \/ \E q \in Request : Send(q) \/ Resume(q) \/ Serve(q) \/ Hangup(q)
  \/ Reload
  \/ Restart
  \/ DeleteCase

Spec == Init /\ [][Next]_vars

\* Clients owe the server nothing.  A node the server has started finishes:
\* model calls and database calls return or raise.
FairSpec == Spec /\ \A q \in Request : WF_vars(Serve(q))

-----------------------------------------------------------------------------
(* Properties. *)

\* Every variable has its type.
TypeOK ==
  /\ ckpt \in Checkpoint
  /\ pc \in [Request -> {"new"} \cup Nodes \cup Ended]
  /\ loop \in [Request -> Checkpoint]
  /\ steps \in [Request -> Nat]
  /\ left \in [Request -> Seq(Decisions)]
  /\ out \in [Request -> [Call -> Outcomes]]
  /\ gone \subseteq Request
  /\ asked \subseteq [id : Ids \cup {None}, call : Call,
                      batch : SUBSET Call]
  /\ card \subseteq asked
  /\ answer \in [Request -> [id : Ids \cup {None}, call : Call,
                             decision : Decisions] \cup {None}]
  /\ proposed \subseteq Call
  /\ caseAlive \in BOOLEAN

Approves(q, c) == /\ answer[q] # None
                  /\ answer[q].call = c
                  /\ answer[q].decision = "approve"

\* "Only then does any write happen" (case_tools.py:6): a row is inserted by a
\* request only if that request carries the user's approval of exactly that
\* call - not of an older proposal, not of another call.
OnlyApprovedWrites ==
  \A q \in Request, c \in Call : out[q][c] = "written" => Approves(q, c)

\* Why OnlyApprovedWrites holds when every model message carries one gated
\* call.  An id is issued by the request it names, once (IdsIssued), so it
\* stands for one set of open calls wherever it turns up (IdsAgree); the user
\* was asked about the only call of the message (OneOpen); no decision is ever
\* saved for a later rerun (ResumeEmpty); and a decision that a tools node
\* still has to hand out is the one this very request carries, for the call
\* that is open (DecisionOwn, LeftFresh).
Issued(i) == i = None \/ (/\ i \in Ids
                          /\ i[2] <= steps[i[1]]
                          /\ pc[i[1]] # "new")

IdsIssued ==
  /\ Issued(ckpt.id)
  /\ \A q \in Request : Issued(loop[q].id)
  /\ \A a \in asked : Issued(a.id)

IdsAgree ==
  /\ \A q \in Request : loop[q].id = ckpt.id => loop[q].open = ckpt.open
  /\ \A p, q \in Request :
       loop[p].id = loop[q].id => loop[p].open = loop[q].open
  /\ \A a \in asked : a.id = ckpt.id => a.batch = ckpt.open
  /\ \A a \in asked, q \in Request :
       a.id = loop[q].id => a.batch = loop[q].open

One(S) == \A c, d \in S : c = d

OneOpen ==
  /\ One(ckpt.open)
  /\ ckpt.saved # <<>> => One(ckpt.saved[1].open)
  /\ \A q \in Request : One(loop[q].open)
  /\ \A a \in asked : a.batch = {a.call}

NewIdle ==
  \A q \in Request : pc[q] = "new" =>
    /\ left[q] = <<>> /\ answer[q] = None
    /\ \A c \in Call : out[q][c] = "none"

ResumeEmpty == ckpt.resume = <<>>

LeftFresh ==
  \A q \in Request : pc[q] = "tools" =>
    \A c \in loop[q].open :
      /\ out[q][c] = "none" => left[q] = loop[q].resume
      /\ out[q][c] = "parked" => loop[q].resume = <<>>

DecisionOwn ==
  \A q \in Request : pc[q] = "tools" /\ left[q] # <<>> =>
    /\ answer[q] # None
    /\ left[q] = <<answer[q].decision>>
    /\ loop[q].open = {answer[q].call}

GateInv ==
  /\ IdsIssued /\ IdsAgree /\ OneOpen /\ NewIdle /\ ResumeEmpty
  /\ LeftFresh /\ DecisionOwn /\ OnlyApprovedWrites

\* What remains of it when a model message carries several gated calls: some
\* call of the same message was shown and approved.
SomeCallApproved ==
  \A q \in Request, c \in Call : out[q][c] = "written" =>
    \E a \in asked, p \in Request :
      /\ c \in a.batch
      /\ Approves(p, a.call) /\ answer[p].id = a.id

\* The thread never stops at an approval nobody was shown: when no request is
\* running and a tools node is pending, the card that continues it is on screen.
ParkedIsShown ==
  ckpt.next = "tools" /\ (\A q \in Request : ~Active(q)) =>
    \E a \in card : a.id = ckpt.id /\ a.call \in ckpt.open

\* The model is never called on a history in which a tool call has no result
\* (the provider refuses it, and so every later turn of the thread).
HistoryComplete ==
  \A q \in Request : pc[q] = "agent" => ~loop[q].lost

\* A message that the thread has taken in is never dropped from it again.
TurnsKept == [][ckpt.turns \subseteq ckpt'.turns]_ckpt

\* RECURSION_LIMIT at work: every request ends, however often the model calls
\* tools.
RequestsEnd == \A q \in Request : Active(q) ~> pc[q] \in Ended

\* An approval of the task the thread is parked at takes effect, whatever
\* else runs on the thread: the request that carries it writes the row or
\* tells the model why not.
ApprovalTakesEffect ==
  \A q \in Request, c \in Call :
    /\ Approves(q, c) /\ pc[q] = "tools"
    /\ loop[q].id = answer[q].id /\ out[q][c] = "none"
    ~> out[q][c] \in {"written", "refused"}

\* The thread implements the approval gate: a call counts as shown once its
\* approval_required event is out, granted in the request that carries the
\* approval, inserted when the tool has written its row.
Gate == INSTANCE ApprovalGate WITH
  shown    <- {a.call : a \in asked},
  granted  <- {g \in Call \X Request : Approves(g[2], g[1])},
  inserted <- {g \in Call \X Request : out[g[2]][g[1]] = "written"}

ImplementsGate == Gate!GateSpec
=============================================================================
