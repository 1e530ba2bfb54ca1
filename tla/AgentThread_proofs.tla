-------------------------- MODULE AgentThread_proofs --------------------------
(***************************************************************************)
(* Proofs about AgentThread for every set of requests and calls.  In every *)
(* environment some gated call of a message is approved before any is      *)
(* written; that each write is the approved one assumes that a model       *)
(* message carries at most one gated call, as the system prompt asks for.  *)
(* What is said of the history and of the cards assumes a calm environment.*)
(***************************************************************************)
EXTENDS AgentThread, TLAPS

OneCallPerMessage == \A batch \in Batches : \E c \in Call : batch = {c}

-----------------------------------------------------------------------------
(* Type correctness. *)

\* A sequence that is not empty starts with a member of its set.
LEMMA FirstElement ==
  ASSUME NEW S, NEW s \in Seq(S), s # <<>>
  PROVE  s[1] \in S
<1>1. Len(s) \in Nat /\ DOMAIN s = 1..Len(s)
  OBVIOUS
<1>2. Len(s) # 0
  OBVIOUS
<1>3. 1 \in 1..Len(s)
  BY <1>1, <1>2
<1>. QED BY <1>1, <1>3

\* What Commit stores is a checkpoint.
LEMMA SuccessorType ==
  ASSUME NEW q \in Request, NEW c \in Checkpoint, NEW n \in Nat,
         NEW next \in Nodes \cup {"end"}, NEW open \in SUBSET Call
  PROVE  Successor(q, c, n, next, open) \in Checkpoint
BY DEF Successor, Checkpoint, Ids

\* A superstep keeps the variables it changes in their types.
LEMMA SuperstepType ==
  ASSUME NEW q \in Request, NEW next \in Nodes \cup {"end"},
         NEW open \in SUBSET Call, NEW silent \in BOOLEAN,
         TypeOK, Superstep(q, next, open, silent)
  PROVE  /\ ckpt' \in Checkpoint
         /\ loop' \in [Request -> Checkpoint]
         /\ steps' \in [Request -> Nat]
         /\ left' \in [Request -> Seq(Decisions)]
         /\ pc' \in [Request -> {"new"} \cup Nodes \cup Ended]
<1>1. CASE Commit(q, loop[q], steps[q] + 1, next, open)
  <2>1. Successor(q, loop[q], steps[q] + 1, next, open) \in Checkpoint
    BY SuccessorType DEF TypeOK
  <2>2. steps[q] + 1 \in Nat
    BY DEF TypeOK
  <2>. QED BY <1>1, <2>1, <2>2 DEF TypeOK, Commit, Nodes, Ended
<1>2. CASE Cut(q, next, open)
  <2>1. <<[next |-> next, open |-> open]>>
          \in Seq([next : Nodes \cup {"end"}, open : SUBSET Call])
    OBVIOUS
  <2>2. ckpt' \in Checkpoint
    BY <1>2, <2>1 DEF TypeOK, Cut, Checkpoint
  <2>. QED BY <1>2, <2>2 DEF TypeOK, Cut, Ended
<1>. QED BY <1>1, <1>2 DEF Superstep

\* Answering an approval keeps the types.
LEMMA AnswerType ==
  ASSUME NEW q \in Request, NEW a \in asked, NEW d \in Decisions,
         TypeOK, Answer(q, a, d)
  PROVE  /\ answer' \in [Request -> [id : Ids \cup {None}, call : Call,
                                     decision : Decisions] \cup {None}]
         /\ card' \subseteq asked'
BY DEF TypeOK, Answer

LEMMA ResumeType ==
  ASSUME NEW q \in Request, TypeOK, Resume(q)
  PROVE  TypeOK'
<1>. PICK a \in asked, d \in Decisions :
       \/ ResumeFinished(q, a, d) \/ ResumeSaved(q, a, d)
       \/ ResumePending(q, a, d)
  BY DEF Resume
<1>1. CASE ResumeFinished(q, a, d)
  BY <1>1, AnswerType DEF TypeOK, ResumeFinished, Answer, Ended
<1>2. CASE ResumeSaved(q, a, d)
  <2>1. ckpt.saved[1] \in [next : Nodes \cup {"end"}, open : SUBSET Call]
    BY <1>2, FirstElement DEF TypeOK, ResumeSaved, Checkpoint
  <2>2. ckpt' \in Checkpoint
    BY <1>2, <2>1, SuccessorType DEF TypeOK, ResumeSaved
  <2>3. ckpt'.next \in Nodes \cup {"end"}
    BY <2>2 DEF Checkpoint
  <2>4. Answer(q, a, d)
    BY <1>2 DEF ResumeSaved
  <2>. QED
    BY <1>2, <2>2, <2>3, <2>4, AnswerType
    DEF TypeOK, ResumeSaved, Answer, Ended
<1>3. CASE ResumePending(q, a, d)
  <2>. DEFINE given == Given(a, d)
  <2>1. given \in Seq(Decisions)
    BY DEF TypeOK, Checkpoint, Given, Addressed
  <2>2. [ckpt EXCEPT !.resume = given] \in Checkpoint
    BY <2>1 DEF TypeOK, Checkpoint
  <2>3. ckpt.next \in Nodes \cup {"end"}
    BY DEF TypeOK, Checkpoint
  <2>4. Answer(q, a, d)
    BY <1>3 DEF ResumePending
  <2>. HIDE DEF given
  <2>5. loop' = [loop EXCEPT ![q] = [ckpt EXCEPT !.resume = given]]
        /\ left' = [left EXCEPT ![q] = given]
    BY <1>3 DEF ResumePending, given
  <2>6. /\ loop' \in [Request -> Checkpoint]
        /\ left' \in [Request -> Seq(Decisions)]
    BY <2>1, <2>2, <2>5 DEF TypeOK
  <2>7. pc' \in [Request -> {"new"} \cup Nodes \cup Ended]
    BY <1>3, <2>3 DEF TypeOK, ResumePending
  <2>8. /\ answer' \in [Request -> [id : Ids \cup {None}, call : Call,
                                   decision : Decisions] \cup {None}]
        /\ card' \subseteq asked'
    BY <2>4, AnswerType
  <2>9. UNCHANGED <<ckpt, steps, out, gone, asked, proposed, caseAlive>>
    BY <1>3 DEF ResumePending, Answer
  <2>. QED BY <2>6, <2>7, <2>8, <2>9 DEF TypeOK
<1>. QED BY <1>1, <1>2, <1>3

\* Every step keeps the types.
LEMMA NextType == TypeOK /\ [Next]_vars => TypeOK'
<1>. SUFFICES ASSUME TypeOK, [Next]_vars PROVE TypeOK'
  OBVIOUS
<1>. USE DEF Nodes, Ended
<1>1. ASSUME NEW q \in Request, Send(q) PROVE TypeOK'
  <2>1. [id |-> <<q, 0>>, next |-> "validate_input", open |-> {},
         lost |-> ckpt.lost \/ ckpt.next = "tools",
         resume |-> <<>>, saved |-> <<>>,
         turns |-> ckpt.turns \cup {q}] \in Checkpoint
    BY DEF TypeOK, Checkpoint, Ids
  <2>. QED BY <1>1, <2>1 DEF TypeOK, Send, TurnsWith
<1>2. ASSUME NEW q \in Request, Resume(q) PROVE TypeOK'
  BY <1>2, ResumeType
<1>3. ASSUME NEW q \in Request, ValidateInput(q) PROVE TypeOK'
  BY <1>3, SuperstepType DEF TypeOK, ValidateInput
<1>4. ASSUME NEW q \in Request, LoadMemory(q) PROVE TypeOK'
  BY <1>4, SuperstepType DEF TypeOK, LoadMemory
<1>5. ASSUME NEW q \in Request, CallModel(q) PROVE TypeOK'
  <2>1. PICK open \in SUBSET Call, next \in {"write_memory", "tools"} :
          Superstep(q, next, open, FALSE)
    BY <1>5, ConstantsAssumption DEF CallModel
  <2>2. proposed' \subseteq Call
    BY <1>5, ConstantsAssumption DEF CallModel, TypeOK
  <2>. QED BY <1>5, <2>1, <2>2, SuperstepType DEF TypeOK, CallModel
<1>6. ASSUME NEW q \in Request, ToolsReturn(q) PROVE TypeOK'
  BY <1>6, SuperstepType DEF TypeOK, ToolsReturn
<1>7. ASSUME NEW q \in Request, ToolsFail(q) PROVE TypeOK'
  BY <1>7 DEF TypeOK, ToolsFail
<1>8. ASSUME NEW q \in Request, WriteMemory(q) PROVE TypeOK'
  BY <1>8, SuperstepType DEF TypeOK, WriteMemory
<1>9. ASSUME NEW q \in Request, Fail(q) PROVE TypeOK'
  BY <1>9 DEF TypeOK, Fail
<1>10. ASSUME NEW q \in Request, NEW c \in Call, ToolCall(q, c)
       PROVE TypeOK'
  <2>1. left[q] # <<>> => Tail(left[q]) \in Seq(Decisions)
    BY DEF TypeOK
  <2>2. left' \in [Request -> Seq(Decisions)]
    BY <1>10, <2>1 DEF TypeOK, ToolCall
  <2>3. PICK r \in Outcomes : out' = [out EXCEPT ![q][c] = r]
    BY <1>10 DEF ToolCall, Results, Outcomes
  <2>4. out' \in [Request -> [Call -> Outcomes]]
    BY <2>3 DEF TypeOK
  <2>. QED BY <1>10, <2>2, <2>4 DEF TypeOK, ToolCall
<1>11. ASSUME NEW q \in Request, NEW c \in Call, Park(q, c) PROVE TypeOK'
  <2>1. ckpt' \in Checkpoint
    BY <1>11 DEF TypeOK, Park, Checkpoint
  <2>2. [id |-> loop[q].id, call |-> c, batch |-> loop[q].open]
          \in [id : Ids \cup {None}, call : Call, batch : SUBSET Call]
    BY DEF TypeOK, Checkpoint
  <2>. QED BY <1>11, <2>1, <2>2 DEF TypeOK, Park, OnScreen, AskedWith
<1>12. ASSUME NEW q \in Request, Hangup(q) PROVE TypeOK'
  BY <1>12 DEF TypeOK, Hangup
<1>13. CASE Reload
  BY <1>13 DEF TypeOK, Reload
<1>14. CASE Restart
  BY <1>14 DEF TypeOK, Restart
<1>15. CASE DeleteCase
  BY <1>15 DEF TypeOK, DeleteCase
<1>16. CASE UNCHANGED vars
  BY <1>16 DEF TypeOK, vars
<1>. QED
  BY <1>1, <1>2, <1>3, <1>4, <1>5, <1>6, <1>7, <1>8, <1>9, <1>10, <1>11,
     <1>12, <1>13, <1>14, <1>15, <1>16
  DEF Next, Serve

\* Every variable keeps its type, in every environment.
THEOREM TypeCorrect == Spec => []TypeOK
<1>1. Init => TypeOK
  BY ConstantsAssumption
  DEF Init, TypeOK, EmptyThread, Checkpoint, Nodes, Outcomes
<1>. QED BY <1>1, NextType, PTL DEF Spec

-----------------------------------------------------------------------------
(* What the steps of a thread come down to.                                *)

\* The requests other than q go on as they are.
Others(q) ==
  \A p \in Request \ {q} :
    /\ pc'[p] = pc[p] /\ loop'[p] = loop[p] /\ steps'[p] = steps[p]
    /\ left'[p] = left[p] /\ answer'[p] = answer[p]

\* Requests only end, whatever happens to the screen, the streams and the case.
Ends ==
  /\ UNCHANGED <<ckpt, loop, steps, left, out, asked, answer>>
  /\ \A q \in Request : \/ pc'[q] = pc[q]
                        \/ pc'[q] \in Ended /\ pc[q] # "new"

\* The calls a new checkpoint can have open: none, those of a model message,
\* or those of a saved result.
Opens(open) ==
  \/ open = {} \/ open \in Batches
  \/ ckpt.saved # <<>> /\ open = ckpt.saved[1].open

\* Request q stores the checkpoint c under an id that was never issued before
\* and goes on from it.
Stores(q, c) ==
  /\ \E n \in Nat : /\ c.id = <<q, n>>
                    /\ pc[q] = "new" \/ n > steps[q]
                    /\ steps'[q] >= n
  /\ c.resume = <<>> /\ c.saved = <<>> /\ Opens(c.open)
  /\ ckpt' = c /\ loop'[q] = c
  /\ left'[q] = <<>> /\ pc'[q] # "new"
  /\ pc[q] = "new" \/ answer'[q] = answer[q]
  /\ \/ Active(q) /\ c.turns = loop[q].turns
     \/ MayStart(q) /\ ckpt.turns \subseteq c.turns
  /\ UNCHANGED <<out, asked>>
  /\ Others(q)

\* The result of request q stays a pending write of the checkpoint.
Cuts(q) ==
  /\ \/ ckpt' = ckpt
     \/ \E r \in [next : Nodes \cup {"end"}, open : SUBSET Call] :
          Opens(r.open) /\ ckpt' = [ckpt EXCEPT !.saved = <<r>>]
  /\ UNCHANGED <<loop, steps, left, out, asked, answer>>
  /\ pc[q] # "new" /\ pc'[q] = "cut"
  /\ Others(q)

\* Request q carries the decision d on the approval a.
Carries(q, a, d) ==
  /\ MayStart(q) /\ pc[q] = "new" /\ pc'[q] # "new"
  /\ answer'[q] = [id |-> a.id, call |-> a.call, decision |-> d]
  /\ answer'[q] # None
  /\ UNCHANGED <<ckpt, steps, out, asked>>
  /\ Others(q)

\* It reruns the pending task, or finds nothing to do.
Takes(q, a, d) ==
  /\ Carries(q, a, d)
  /\ loop'[q] = [ckpt EXCEPT !.resume = Given(a, d)]
  /\ left'[q] = Given(a, d)

Idles(q, a, d) ==
  /\ Carries(q, a, d)
  /\ loop'[q] = loop[q] /\ left'[q] = left[q] /\ pc'[q] = "done"

Shape ==
  \/ Ends
  \/ \E q \in Request, c \in Checkpoint : Stores(q, c)
  \/ \E q \in Request : Cuts(q)
  \/ \E q \in Request, a \in asked, d \in Decisions :
       Takes(q, a, d) \/ Idles(q, a, d)
  \/ \E q \in Request, c \in Call : ToolCall(q, c) \/ Park(q, c)

\* A superstep stores a checkpoint or leaves a pending write.
LEMMA SuperstepShape ==
  ASSUME TypeOK, NEW q \in Request, Active(q),
         NEW next \in Nodes \cup {"end"}, NEW open \in SUBSET Call,
         NEW silent \in BOOLEAN,
         Superstep(q, next, open, silent), Opens(open),
         UNCHANGED <<out, asked, answer>>
  PROVE  Shape
<1>1. CASE Commit(q, loop[q], steps[q] + 1, next, open)
  <2>. DEFINE c == Successor(q, loop[q], steps[q] + 1, next, open)
  <2>1. steps[q] + 1 \in Nat /\ steps[q] + 1 > steps[q]
    BY DEF TypeOK
  <2>2. c \in Checkpoint
    BY <2>1, SuccessorType DEF TypeOK
  <2>3. /\ c.id = <<q, steps[q] + 1>> /\ c.resume = <<>> /\ c.saved = <<>>
        /\ c.open = open /\ c.turns = loop[q].turns
    BY DEF Successor
  <2>4. /\ ckpt' = c /\ loop' = [loop EXCEPT ![q] = c]
        /\ steps' = [steps EXCEPT ![q] = steps[q] + 1]
        /\ left' = [left EXCEPT ![q] = <<>>]
        /\ \A p \in Request \ {q} : pc'[p] = pc[p]
        /\ pc'[q] # "new"
    BY <1>1 DEF Commit, TypeOK, Nodes
  <2>. HIDE DEF c
  <2>5. /\ loop'[q] = c /\ steps'[q] = steps[q] + 1 /\ left'[q] = <<>>
        /\ Others(q)
    BY <2>4 DEF TypeOK, Others
  <2>6. steps'[q] >= steps[q] + 1
    BY <2>1, <2>5
  <2>7. Stores(q, c)
    BY <2>1, <2>3, <2>4, <2>5, <2>6 DEF Stores
  <2>. QED BY <2>2, <2>7 DEF Shape
<1>2. CASE Cut(q, next, open)
  <2>. DEFINE r == [next |-> next, open |-> open]
  <2>1. r \in [next : Nodes \cup {"end"}, open : SUBSET Call] /\ Opens(r.open)
    OBVIOUS
  <2>2. ckpt' = ckpt \/ ckpt' = [ckpt EXCEPT !.saved = <<r>>]
    BY <1>2 DEF Cut
  <2>. HIDE DEF r
  <2>3. /\ UNCHANGED <<loop, steps, left>>
        /\ pc[q] # "new" /\ pc'[q] = "cut" /\ Others(q)
    BY <1>2 DEF Cut, TypeOK, Active, Nodes, Others
  <2>4. Cuts(q)
    BY <2>1, <2>2, <2>3 DEF Cuts
  <2>. QED BY <2>4 DEF Shape
<1>. QED BY <1>1, <1>2 DEF Superstep

\* A request that answers an approval takes the decision along, applies the
\* saved result, or finds nothing to do.
LEMMA ResumeShape ==
  ASSUME TypeOK, NewIdle, NEW q \in Request, Resume(q)
  PROVE  Shape
<1>. PICK a \in asked, d \in Decisions :
       \/ ResumeFinished(q, a, d) \/ ResumeSaved(q, a, d)
       \/ ResumePending(q, a, d)
  BY DEF Resume
<1>0. /\ MayStart(q) /\ pc[q] = "new"
      /\ answer'[q] = [id |-> a.id, call |-> a.call, decision |-> d]
      /\ answer'[q] # None
      /\ \A p \in Request \ {q} : answer'[p] = answer[p]
      /\ UNCHANGED <<out, asked>>
  <2>1. a.id \in Ids \cup {None} /\ a.call \in Call
    BY DEF TypeOK
  <2>2. Answer(q, a, d)
    BY DEF ResumeFinished, ResumeSaved, ResumePending
  <2>. QED BY <2>1, <2>2, ConstantsAssumption
           DEF Answer, MayStart, TypeOK, Ids, Decisions
<1>1. CASE ResumeFinished(q, a, d)
  <2>1. /\ UNCHANGED <<ckpt, loop, steps, left>>
        /\ pc'[q] = "done"
        /\ \A p \in Request \ {q} : pc'[p] = pc[p]
    BY <1>1 DEF ResumeFinished, TypeOK
  <2>2. Idles(q, a, d)
    BY <1>0, <2>1 DEF Idles, Carries, Others
  <2>. QED BY <2>2 DEF Shape
<1>2. CASE ResumeSaved(q, a, d)
  <2>. DEFINE c == Successor(q, ckpt, 1, ckpt.saved[1].next,
                             ckpt.saved[1].open)
  <2>1. /\ c.id = <<q, 1>> /\ c.resume = <<>> /\ c.saved = <<>>
        /\ Opens(c.open) /\ c.turns = ckpt.turns
    BY <1>2 DEF Successor, ResumeSaved, Opens
  <2>2. ckpt.saved[1] \in [next : Nodes \cup {"end"}, open : SUBSET Call]
    BY <1>2, FirstElement DEF ResumeSaved, TypeOK, Checkpoint
  <2>3. c \in Checkpoint /\ c.next \in Nodes \cup {"end"}
    BY <2>2, SuccessorType DEF TypeOK, Successor
  <2>4. /\ ckpt' = c /\ loop'[q] = c
        /\ steps'[q] = 1
        /\ \A p \in Request \ {q} :
             steps'[p] = steps[p] /\ loop'[p] = loop[p]
    BY <1>2 DEF ResumeSaved, TypeOK
  <2>5. pc' = [pc EXCEPT ![q] = IF c.next = "end" THEN "done" ELSE c.next]
    BY <1>2, <2>4 DEF ResumeSaved
  <2>. HIDE DEF c
  <2>6. pc'[q] # "new" /\ \A p \in Request \ {q} : pc'[p] = pc[p]
    BY <2>3, <2>5 DEF TypeOK, Nodes
  <2>7. left'[q] = <<>> /\ \A p \in Request \ {q} : left'[p] = left[p]
    BY <1>0, <1>2 DEF ResumeSaved, NewIdle
  <2>8. 1 \in Nat /\ steps'[q] >= 1
    BY <2>4
  <2>9. Stores(q, c)
    BY <1>0, <2>1, <2>4, <2>6, <2>7, <2>8 DEF Stores, Others
  <2>. QED BY <2>3, <2>9 DEF Shape
<1>3. CASE ResumePending(q, a, d)
  <2>1. /\ UNCHANGED <<ckpt, steps>>
        /\ loop' = [loop EXCEPT ![q] = [ckpt EXCEPT !.resume = Given(a, d)]]
        /\ left' = [left EXCEPT ![q] = Given(a, d)]
        /\ pc' = [pc EXCEPT ![q] = ckpt.next]
    BY <1>3 DEF ResumePending
  <2>2. /\ pc'[q] # "new"
        /\ \A p \in Request \ {q} : pc'[p] = pc[p]
    BY <2>1 DEF TypeOK, Checkpoint, Nodes
  <2>3. /\ loop'[q] = [ckpt EXCEPT !.resume = Given(a, d)]
        /\ left'[q] = Given(a, d)
        /\ Others(q)
    BY <1>0, <2>1, <2>2 DEF TypeOK, Others
  <2>4. Takes(q, a, d)
    BY <1>0, <2>1, <2>2, <2>3 DEF Takes, Carries
  <2>. QED BY <2>4 DEF Shape
<1>. QED BY <1>1, <1>2, <1>3

\* Every step has one of these shapes.
LEMMA NextShape ==
  ASSUME TypeOK, NewIdle, [Next]_vars
  PROVE  Shape
<1>0. Opens({})
  BY DEF Opens
<1>1. ASSUME NEW q \in Request, Send(q) PROVE Shape
  <2>. DEFINE c == [id |-> <<q, 0>>, next |-> "validate_input",
                    open |-> {}, lost |-> ckpt.lost \/ ckpt.next = "tools",
                    resume |-> <<>>, saved |-> <<>>,
                    turns |-> ckpt.turns \cup {q}]
  <2>1. /\ ckpt' = c /\ loop' = [loop EXCEPT ![q] = c]
        /\ UNCHANGED <<steps, left, out, asked, answer>>
    BY <1>1 DEF Send, TurnsWith
  <2>2. /\ c.id = <<q, 0>> /\ c.resume = <<>> /\ c.saved = <<>>
        /\ Opens(c.open) /\ c \in Checkpoint
        /\ ckpt.turns \subseteq c.turns
    BY <1>0 DEF TypeOK, Checkpoint, Ids, Nodes
  <2>. HIDE DEF c
  <2>3. /\ MayStart(q) /\ pc[q] = "new" /\ pc'[q] # "new"
        /\ \A p \in Request \ {q} : pc'[p] = pc[p]
    BY <1>1 DEF Send, MayStart, TypeOK
  <2>4. left'[q] = <<>> /\ loop'[q] = c /\ Others(q)
    BY <2>1, <2>3 DEF NewIdle, TypeOK, Others
  <2>5. 0 \in Nat /\ steps'[q] >= 0
    BY <2>1 DEF TypeOK
  <2>6. Stores(q, c)
    BY <2>1, <2>2, <2>3, <2>4, <2>5 DEF Stores
  <2>. QED BY <2>2, <2>6 DEF Shape
<1>2. ASSUME NEW q \in Request, Resume(q) PROVE Shape
  BY <1>2, ResumeShape
<1>3. ASSUME NEW q \in Request,
             ValidateInput(q) \/ LoadMemory(q) \/ ToolsReturn(q)
             \/ WriteMemory(q)
      PROVE  Shape
  BY <1>0, <1>3, SuperstepShape
  DEF ValidateInput, LoadMemory, ToolsReturn, WriteMemory, Active, Nodes
<1>4. ASSUME NEW q \in Request, CallModel(q) PROVE Shape
  <2>1. PICK open \in SUBSET Call, next \in {"write_memory", "tools"} :
          Superstep(q, next, open, FALSE) /\ Opens(open)
    BY <1>0, <1>4, ConstantsAssumption DEF CallModel, Opens
  <2>. QED BY <1>4, <2>1, SuperstepShape DEF CallModel, Active, Nodes
<1>5. ASSUME NEW q \in Request, ToolsFail(q) \/ Fail(q) PROVE Shape
  <2>1. Ends
    BY <1>5 DEF ToolsFail, Fail, TypeOK, Ends, Ended
  <2>. QED BY <2>1 DEF Shape
<1>6. ASSUME NEW q \in Request, NEW c \in Call, ToolCall(q, c) \/ Park(q, c)
      PROVE  Shape
  BY <1>6 DEF Shape
<1>7. CASE \/ \E q \in Request : Hangup(q)
           \/ Reload \/ Restart \/ DeleteCase \/ UNCHANGED vars
  <2>1. Ends
    BY <1>7 DEF Hangup, Reload, Restart, DeleteCase, vars, TypeOK, Ends,
                Active, Nodes, Ended
  <2>. QED BY <2>1 DEF Shape
<1>. QED
  BY <1>1, <1>2, <1>3, <1>4, <1>5, <1>6, <1>7 DEF Next, Serve

\* What a parking request leaves behind: its question, and the decisions it
\* was given, which its checkpoint keeps.
LEMMA ParkFacts ==
  ASSUME TypeOK, NEW q \in Request, NEW c \in Call, Park(q, c)
  PROVE  /\ UNCHANGED <<loop, steps, left, out, answer>>
         /\ pc[q] = "tools" /\ pc'[q] \in Ended
         /\ \A p \in Request \ {q} : pc'[p] = pc[p]
         /\ c \in loop[q].open /\ out[q][c] = "parked"
         /\ ckpt'.id = ckpt.id /\ ckpt'.open = ckpt.open
         /\ ckpt'.next = ckpt.next /\ ckpt'.saved = ckpt.saved
         /\ ckpt'.lost = ckpt.lost /\ ckpt'.turns = ckpt.turns
         /\ \/ ckpt'.resume = ckpt.resume
            \/ ckpt'.id = loop[q].id /\ ckpt'.resume = loop[q].resume
         /\ \/ asked' = asked
            \/ asked' = asked \cup {[id |-> loop[q].id, call |-> c,
                                     batch |-> loop[q].open]}
<1>1. \/ ckpt' = ckpt
      \/ ckpt.id = loop[q].id
         /\ ckpt' = [ckpt EXCEPT !.resume = loop[q].resume]
  BY DEF Park
<1>2. /\ ckpt'.id = ckpt.id /\ ckpt'.open = ckpt.open
      /\ ckpt'.next = ckpt.next /\ ckpt'.saved = ckpt.saved
      /\ ckpt'.lost = ckpt.lost /\ ckpt'.turns = ckpt.turns
      /\ \/ ckpt'.resume = ckpt.resume
         \/ ckpt'.id = loop[q].id /\ ckpt'.resume = loop[q].resume
  BY <1>1 DEF TypeOK, Checkpoint
<1>. QED BY <1>2 DEF Park, AskedWith, TypeOK, Ended

-----------------------------------------------------------------------------
(* Checkpoint ids are issued once.  Nothing is assumed about messages.     *)

IdsInv == IdsIssued /\ IdsAgree /\ NewIdle

LEMMA NextIds ==
  ASSUME TypeOK, TypeOK', IdsInv, Shape
  PROVE  IdsInv'
<1>. USE DEF IdsInv
<1>0. ASSUME \A p \in Request : pc'[p] = pc[p] \/ pc'[p] # "new",
             steps' = steps
      PROVE  \A i : Issued(i) => Issued(i)'
  BY <1>0 DEF Issued, Ids
<1>1. CASE Ends
  <2>1. \A p \in Request : pc'[p] = pc[p] \/ pc'[p] # "new"
    BY <1>1 DEF Ends, Ended
  <2>2. IdsIssued'
    BY <1>0, <1>1, <2>1 DEF Ends, IdsIssued
  <2>3. IdsAgree' /\ NewIdle'
    BY <1>1 DEF Ends, Ended, IdsAgree, NewIdle
  <2>. QED BY <2>2, <2>3
<1>2. ASSUME NEW q \in Request, NEW c \in Checkpoint, Stores(q, c)
      PROVE  IdsInv'
  <2>. PICK n \in Nat : /\ c.id = <<q, n>>
                        /\ pc[q] = "new" \/ n > steps[q]
                        /\ steps'[q] >= n
    BY <1>2 DEF Stores
  <2>0. /\ ckpt' = c /\ loop'[q] = c /\ pc'[q] # "new" /\ left'[q] = <<>>
        /\ UNCHANGED <<out, asked>> /\ Others(q)
    BY <1>2 DEF Stores
  <2>1. ~Issued(<<q, n>>)
    BY ConstantsAssumption DEF Issued, Ids, TypeOK
  <2>2. steps'[q] \in Nat \/ steps'[q] = steps[q] \/ steps'[q] >= n
    OBVIOUS
  <2>3. ASSUME NEW i, Issued(i), i # None PROVE Issued(i)'
    <3>1. i \in Ids /\ i[2] <= steps[i[1]] /\ pc[i[1]] # "new"
      BY <2>3 DEF Issued
    <3>2. CASE i[1] = q
      <4>1. n > steps[q] /\ i[2] \in Nat /\ i[2] <= steps[q]
        BY <3>1, <3>2 DEF Ids
      <4>2. i[2] <= steps'[q]
        BY <4>1 DEF TypeOK
      <4>. QED BY <2>0, <3>1, <3>2, <4>2 DEF Issued
    <3>3. CASE i[1] # q
      <4>1. i[1] \in Request \ {q}
        BY <3>1, <3>3 DEF Ids
      <4>. QED BY <2>0, <3>1, <4>1 DEF Issued, Others
    <3>. QED BY <3>2, <3>3
  <2>4. Issued(<<q, n>>)'
    BY <2>0 DEF Issued, Ids
  <2>5. IdsIssued'
    BY <2>0, <2>3, <2>4 DEF IdsIssued, Issued, Others
  <2>6. IdsAgree'
    BY <2>0, <2>1 DEF IdsAgree, IdsIssued, Others
  <2>7. NewIdle'
    BY <2>0 DEF NewIdle, Others
  <2>. QED BY <2>5, <2>6, <2>7
<1>3. ASSUME NEW q \in Request, Cuts(q) PROVE IdsInv'
  <2>1. /\ ckpt'.id = ckpt.id /\ ckpt'.open = ckpt.open
        /\ UNCHANGED <<loop, steps, left, out, asked, answer>>
        /\ pc'[q] # "new" /\ \A p \in Request \ {q} : pc'[p] = pc[p]
    BY <1>3 DEF Cuts, TypeOK, Checkpoint, Others
  <2>2. IdsIssued'
    BY <1>0, <2>1 DEF IdsIssued
  <2>3. IdsAgree' /\ NewIdle'
    BY <2>1 DEF IdsAgree, NewIdle
  <2>. QED BY <2>2, <2>3
<1>4. ASSUME NEW q \in Request, NEW a \in asked, NEW d \in Decisions,
             Takes(q, a, d) \/ Idles(q, a, d)
      PROVE  IdsInv'
  <2>1. /\ UNCHANGED <<ckpt, steps, out, asked>>
        /\ pc'[q] # "new" /\ Others(q)
    BY <1>4 DEF Takes, Idles, Carries
  <2>2. \/ loop'[q].id = ckpt.id /\ loop'[q].open = ckpt.open
        \/ loop'[q] = loop[q]
    BY <1>4 DEF Takes, Idles, TypeOK, Checkpoint
  <2>3. IdsIssued'
    BY <1>0, <2>1, <2>2 DEF IdsIssued, Others
  <2>4. IdsAgree'
    BY <2>1, <2>2 DEF IdsAgree, Others
  <2>5. NewIdle'
    BY <2>1 DEF NewIdle, Others
  <2>. QED BY <2>3, <2>4, <2>5
<1>5. ASSUME NEW q \in Request, NEW c \in Call, ToolCall(q, c)
      PROVE  IdsInv'
  <2>1. /\ UNCHANGED <<ckpt, pc, loop, steps, asked, answer>>
        /\ pc[q] = "tools"
        /\ \A p \in Request \ {q} : out'[p] = out[p] /\ left'[p] = left[p]
    BY <1>5 DEF ToolCall, TypeOK
  <2>. QED BY <2>1 DEF IdsIssued, Issued, IdsAgree, NewIdle
<1>6. ASSUME NEW q \in Request, NEW c \in Call, Park(q, c) PROVE IdsInv'
  <2>. DEFINE a == [id |-> loop[q].id, call |-> c, batch |-> loop[q].open]
  <2>1. /\ UNCHANGED <<loop, steps, left, out, answer>>
        /\ pc'[q] # "new"
        /\ \A p \in Request \ {q} : pc'[p] = pc[p]
        /\ asked' = asked \/ asked' = asked \cup {a}
        /\ ckpt'.id = ckpt.id /\ ckpt'.open = ckpt.open
    BY <1>6, ParkFacts DEF Ended
  <2>2. a.id = loop[q].id /\ a.batch = loop[q].open
    OBVIOUS
  <2>. HIDE DEF a
  <2>3. IdsIssued'
    BY <1>0, <2>1, <2>2 DEF IdsIssued
  <2>4. IdsAgree'
    BY <2>1, <2>2 DEF IdsAgree
  <2>5. NewIdle'
    BY <2>1 DEF NewIdle
  <2>. QED BY <2>3, <2>4, <2>5
<1>. QED BY <1>1, <1>2, <1>3, <1>4, <1>5, <1>6 DEF Shape

LEMMA InitIds == Init => IdsInv
BY ConstantsAssumption
DEF Init, IdsInv, IdsIssued, Issued, IdsAgree, NewIdle, EmptyThread

-----------------------------------------------------------------------------
(* Several gated calls in one message: what remains of the gate.  Every    *)
(* "approve" a task has been given is a decision of the user on one of its *)
(* calls (DecisionsBacked); the decision does not say which.               *)

Approving(ds) == \E k \in DOMAIN ds : ds[k] = "approve"

\* Some request carries the approval of a call of the task i.
Backed(i) ==
  \E a \in asked, p \in Request :
    a.id = i /\ Approves(p, a.call) /\ answer[p].id = a.id

DecisionsBacked ==
  /\ Approving(ckpt.resume) => Backed(ckpt.id)
  /\ \A q \in Request :
       Approving(loop[q].resume) \/ Approving(left[q]) => Backed(loop[q].id)

SomeInv == IdsInv /\ DecisionsBacked /\ SomeCallApproved

\* How lists of decisions get their approvals.
LEMMA ApprovingFacts ==
  ASSUME NEW s \in Seq(Decisions)
  PROVE  /\ ~Approving(<<>>)
         /\ \A d \in Decisions :
              Approving(Append(s, d)) => Approving(s) \/ d = "approve"
         /\ s # <<>> => (Approving(Tail(s)) => Approving(s))
         /\ s # <<>> /\ Head(s) # "reject" => Approving(s)
<1>1. ~Approving(<<>>)
  BY DEF Approving
<1>2. ASSUME NEW d \in Decisions, Approving(Append(s, d))
      PROVE  Approving(s) \/ d = "approve"
  <2>1. PICK k \in DOMAIN Append(s, d) : Append(s, d)[k] = "approve"
    BY <1>2 DEF Approving
  <2>. QED BY <2>1 DEF Approving
<1>3. ASSUME s # <<>>, Approving(Tail(s)) PROVE Approving(s)
  <2>1. PICK k \in DOMAIN Tail(s) : Tail(s)[k] = "approve"
    BY <1>3 DEF Approving
  <2>2. k + 1 \in DOMAIN s /\ s[k + 1] = "approve"
    BY <1>3, <2>1
  <2>. QED BY <2>2 DEF Approving
<1>4. ASSUME s # <<>>, Head(s) # "reject" PROVE Approving(s)
  <2>1. Len(s) \in Nat /\ Len(s) # 0 /\ DOMAIN s = 1 .. Len(s)
    BY <1>4
  <2>2. 1 \in DOMAIN s /\ s[1] \in Decisions /\ s[1] # "reject"
    BY <1>4, <2>1, FirstElement
  <2>. QED BY <2>2 DEF Approving, Decisions
<1>. QED BY <1>1, <1>2, <1>3, <1>4

\* Approvals are not withdrawn.
LEMMA BackedStays ==
  ASSUME asked \subseteq asked',
         \A p \in Request : answer[p] # None => answer'[p] = answer[p]
  PROVE  /\ \A i : Backed(i) => Backed(i)'
         /\ \A a \in asked, p \in Request :
              Approves(p, a.call) /\ answer[p].id = a.id
                => (Approves(p, a.call) /\ answer[p].id = a.id)'
BY DEF Backed, Approves

\* A step in which no call of a tool runs.
LEMMA SomeStays ==
  ASSUME SomeCallApproved, asked \subseteq asked', out' = out,
         \A p \in Request : answer[p] # None => answer'[p] = answer[p]
  PROVE  SomeCallApproved'
<1>. SUFFICES ASSUME NEW q \in Request, NEW c \in Call,
                     out[q][c] = "written"
              PROVE  (\E a \in asked, p \in Request :
                        /\ c \in a.batch
                        /\ Approves(p, a.call) /\ answer[p].id = a.id)'
  BY DEF SomeCallApproved
<1>1. PICK a \in asked, p \in Request :
        /\ c \in a.batch
        /\ Approves(p, a.call) /\ answer[p].id = a.id
  BY DEF SomeCallApproved
<1>. QED BY <1>1 DEF Approves

LEMMA NextSome ==
  ASSUME TypeOK, SomeInv, Shape, IdsInv'
  PROVE  SomeInv'
<1>. USE DEF SomeInv
<1>0. ~Approving(<<>>)
  BY DEF Approving
<1>1. CASE Ends
  <2>1. UNCHANGED <<ckpt, loop, left, out, asked, answer>>
    BY <1>1 DEF Ends
  <2>2. DecisionsBacked' /\ SomeCallApproved'
    BY <2>1, SomeStays DEF DecisionsBacked, Backed, Approves
  <2>. QED BY <2>2
<1>2. ASSUME NEW q \in Request, NEW c \in Checkpoint, Stores(q, c)
      PROVE  SomeInv'
  <2>1. /\ ckpt' = c /\ loop'[q] = c /\ left'[q] = <<>> /\ c.resume = <<>>
        /\ UNCHANGED <<out, asked>> /\ Others(q)
        /\ answer[q] # None => answer'[q] = answer[q]
    BY <1>2 DEF Stores, IdsInv, NewIdle
  <2>2. \A p \in Request : answer[p] # None => answer'[p] = answer[p]
    BY <2>1 DEF Others
  <2>3. \A i : Backed(i) => Backed(i)'
    BY <2>1, <2>2, BackedStays
  <2>4. DecisionsBacked'
    BY <1>0, <2>1, <2>3 DEF DecisionsBacked, Others
  <2>5. SomeCallApproved'
    BY <2>1, <2>2, SomeStays
  <2>. QED BY <2>4, <2>5
<1>3. ASSUME NEW q \in Request, Cuts(q) PROVE SomeInv'
  <2>1. /\ ckpt'.id = ckpt.id /\ ckpt'.resume = ckpt.resume
        /\ UNCHANGED <<loop, left, out, asked, answer>>
    BY <1>3 DEF Cuts, TypeOK, Checkpoint
  <2>2. DecisionsBacked' /\ SomeCallApproved'
    BY <2>1, SomeStays DEF DecisionsBacked, Backed, Approves
  <2>. QED BY <2>2
<1>4. ASSUME NEW q \in Request, NEW a \in asked, NEW d \in Decisions,
             Takes(q, a, d) \/ Idles(q, a, d)
      PROVE  SomeInv'
  <2>1. /\ UNCHANGED <<ckpt, out, asked>>
        /\ answer'[q] = [id |-> a.id, call |-> a.call, decision |-> d]
        /\ answer'[q] # None /\ answer[q] = None
        /\ Others(q)
    BY <1>4 DEF Takes, Idles, Carries, IdsInv, NewIdle
  <2>2. \A p \in Request : answer[p] # None => answer'[p] = answer[p]
    BY <2>1 DEF Others
  <2>3. \A i : Backed(i) => Backed(i)'
    BY <2>1, <2>2, BackedStays
  <2>4. d = "approve" => Backed(a.id)'
    <3>1. d = "approve" => Approves(q, a.call)' /\ answer'[q].id = a.id
      BY <2>1 DEF Approves
    <3>. QED BY <2>1, <3>1 DEF Backed
  <2>5. CASE Takes(q, a, d)
    <3>1. /\ loop'[q].id = ckpt.id /\ loop'[q].resume = Given(a, d)
          /\ left'[q] = Given(a, d)
      BY <2>5 DEF Takes, TypeOK, Checkpoint
    <3>2. Approving(Given(a, d)) =>
            Approving(ckpt.resume) \/ (d = "approve" /\ a.id = ckpt.id)
      <4>1. ckpt.resume \in Seq(Decisions)
        BY DEF TypeOK, Checkpoint
      <4>. QED BY <4>1, ApprovingFacts DEF Given, Addressed
    <3>3. \A i : Approving(Given(a, d)) /\ i = ckpt.id => Backed(i)'
      BY <2>3, <2>4, <3>2 DEF DecisionsBacked
    <3>4. DecisionsBacked'
      BY <2>1, <2>3, <3>1, <3>3 DEF DecisionsBacked, Others
    <3>. QED BY <2>1, <2>2, <3>4, SomeStays
  <2>6. CASE Idles(q, a, d)
    <3>1. loop'[q] = loop[q] /\ left'[q] = left[q]
      BY <2>6 DEF Idles
    <3>2. DecisionsBacked'
      BY <2>1, <2>3, <3>1 DEF DecisionsBacked, Others
    <3>. QED BY <2>1, <2>2, <3>2, SomeStays
  <2>. QED BY <1>4, <2>5, <2>6
<1>5. ASSUME NEW q \in Request, NEW c \in Call, ToolCall(q, c)
      PROVE  SomeInv'
  <2>1. /\ UNCHANGED <<ckpt, loop, asked, answer>>
        /\ c \in loop[q].open
        /\ \A p \in Request \ {q} : left'[p] = left[p]
        /\ left[q] \in Seq(Decisions)
    BY <1>5 DEF ToolCall, TypeOK
  <2>2. Approving(left'[q]) => Approving(left[q])
    BY <1>5, <2>1, ApprovingFacts DEF ToolCall, TypeOK
  <2>3. \A i : Backed(i) => Backed(i)'
    BY <2>1, BackedStays
  <2>4. DecisionsBacked'
    BY <2>1, <2>2, <2>3 DEF DecisionsBacked
  <2>5. PICK r : /\ out' = [out EXCEPT ![q][c] = r]
                 /\ r = "written" => Backed(loop[q].id)
    <3>1. CASE left[q] = <<>>
      <4>. DEFINE r == "parked"
      <4>1. out' = [out EXCEPT ![q][c] = r] /\ r # "written"
        BY <1>5, <3>1 DEF ToolCall
      <4>. HIDE DEF r
      <4>. QED BY <4>1
    <3>2. CASE left[q] # <<>>
      <4>1. PICK r \in Results(Head(left[q])) :
              out' = [out EXCEPT ![q][c] = r]
        BY <1>5, <3>2 DEF ToolCall
      <4>2. r = "written" => Head(left[q]) # "reject"
        BY DEF Results
      <4>3. r = "written" => Approving(left[q])
        BY <2>1, <3>2, <4>2, ApprovingFacts
      <4>. QED BY <4>1, <4>3 DEF DecisionsBacked
    <3>. QED BY <3>1, <3>2
  <2>6. /\ out'[q][c] = r
        /\ \A p \in Request, e \in Call :
             p # q \/ e # c => out'[p][e] = out[p][e]
    BY <2>5 DEF TypeOK
  <2>7. r = "written" =>
          \E a \in asked, p \in Request :
            /\ c \in a.batch
            /\ Approves(p, a.call) /\ answer[p].id = a.id
    <3>. SUFFICES ASSUME r = "written"
                  PROVE  \E a \in asked, p \in Request :
                           /\ c \in a.batch
                           /\ Approves(p, a.call) /\ answer[p].id = a.id
      OBVIOUS
    <3>1. PICK a \in asked, p \in Request :
            /\ a.id = loop[q].id
            /\ Approves(p, a.call) /\ answer[p].id = a.id
      BY <2>5 DEF Backed
    <3>2. a.batch = loop[q].open
      BY <3>1 DEF IdsInv, IdsAgree
    <3>. QED BY <2>1, <3>1, <3>2
  <2>8. SomeCallApproved'
    BY <2>1, <2>6, <2>7 DEF SomeCallApproved, Approves
  <2>. QED BY <2>4, <2>8
<1>6. ASSUME NEW q \in Request, NEW c \in Call, Park(q, c) PROVE SomeInv'
  <2>1. /\ UNCHANGED <<loop, left, out, answer>>
        /\ asked \subseteq asked'
    BY <1>6, ParkFacts
  <2>2. /\ ckpt'.id = ckpt.id
        /\ \/ ckpt'.resume = ckpt.resume
           \/ ckpt'.id = loop[q].id /\ ckpt'.resume = loop[q].resume
    BY <1>6, ParkFacts
  <2>3. \A i : Backed(i) => Backed(i)'
    BY <2>1, BackedStays
  <2>4. DecisionsBacked'
    BY <2>1, <2>2, <2>3 DEF DecisionsBacked
  <2>5. SomeCallApproved'
    BY <2>1, SomeStays
  <2>. QED BY <2>4, <2>5
<1>. QED BY <1>1, <1>2, <1>3, <1>4, <1>5, <1>6 DEF Shape

\* Ids are issued once and decisions come from the user, in every environment
\* and however many gated calls a model message carries.
THEOREM SomeInvariant == Spec => []SomeInv
<1>1. Init => SomeInv
  <2>1. Init => DecisionsBacked /\ SomeCallApproved
    BY DEF Init, DecisionsBacked, Approving, SomeCallApproved, EmptyThread
  <2>. QED BY <2>1, InitIds DEF SomeInv
<1>2. TypeOK /\ TypeOK' /\ SomeInv /\ [Next]_vars => SomeInv'
  BY NextShape, NextIds, NextSome DEF SomeInv, IdsInv
<1>. QED BY <1>1, <1>2, TypeCorrect, PTL DEF Spec

\* What remains of the gate for any model message: a row is inserted only if
\* the user was shown, and has approved, a call of the same message.
THEOREM SomeCallIsApproved == Spec => []SomeCallApproved
<1>1. SomeInv => SomeCallApproved
  BY DEF SomeInv
<1>. QED BY <1>1, SomeInvariant, PTL

-----------------------------------------------------------------------------
(* One gated call per message: the inductive invariant behind              *)
(* OnlyApprovedWrites.                                                     *)

\* A gated call runs: it writes only on the approval its request carries.
LEMMA ToolCallGate ==
  ASSUME TypeOK, GateInv, NEW q \in Request, NEW c \in Call, ToolCall(q, c)
  PROVE  OneOpen' /\ ResumeEmpty' /\ LeftFresh' /\ DecisionOwn'
           /\ OnlyApprovedWrites'
<1>. USE DEF GateInv
<1>1. /\ UNCHANGED <<ckpt, pc, loop, steps, asked, answer>>
      /\ pc[q] = "tools" /\ c \in loop[q].open /\ out[q][c] = "none"
      /\ loop[q].open = {c}
  BY DEF ToolCall, OneOpen, One
<1>2. PICK r : /\ out' = [out EXCEPT ![q][c] = r]
               /\ r # "none"
               /\ r = "parked" => left[q] = <<>>
               /\ r = "written" => left[q] # <<>> /\ Head(left[q]) # "reject"
  <2>1. CASE left[q] = <<>>
    <3>. DEFINE r == "parked"
    <3>1. out' = [out EXCEPT ![q][c] = r]
      BY <2>1 DEF ToolCall
    <3>2. r # "none" /\ r # "written"
      OBVIOUS
    <3>. HIDE DEF r
    <3>. QED BY <2>1, <3>1, <3>2
  <2>2. CASE left[q] # <<>>
    <3>1. PICK r \in Results(Head(left[q])) : out' = [out EXCEPT ![q][c] = r]
      BY <2>2 DEF ToolCall
    <3>2. /\ r # "none" /\ r # "parked"
          /\ r = "written" => Head(left[q]) # "reject"
      BY DEF Results
    <3>. QED BY <2>2, <3>1, <3>2
  <2>. QED BY <2>1, <2>2
<1>3. /\ out'[q][c] = r
      /\ \A p \in Request, e \in Call :
           p # q \/ e # c => out'[p][e] = out[p][e]
  BY <1>2 DEF TypeOK
<1>4. \A p \in Request \ {q} : left'[p] = left[p]
  BY DEF ToolCall, TypeOK
<1>5. left'[q] = <<>>
  <2>1. CASE left[q] = <<>>
    BY <2>1 DEF ToolCall
  <2>2. CASE left[q] # <<>>
    <3>1. left[q] = <<answer[q].decision>>
      BY <1>1, <2>2 DEF DecisionOwn
    <3>2. Tail(left[q]) = <<>>
      BY <3>1
    <3>. QED BY <2>2, <3>2 DEF ToolCall, TypeOK
  <2>. QED BY <2>1, <2>2
<1>6. OneOpen' /\ ResumeEmpty'
  BY <1>1 DEF OneOpen, One, ResumeEmpty
<1>8. left[q] = loop[q].resume
  BY <1>1 DEF LeftFresh
<1>9. LeftFresh'
  BY <1>1, <1>2, <1>3, <1>4, <1>8 DEF LeftFresh, TypeOK, Checkpoint
<1>10. DecisionOwn'
  BY <1>1, <1>4, <1>5 DEF DecisionOwn
<1>11. r = "written" => Approves(q, c)
  <2>. SUFFICES ASSUME r = "written" PROVE Approves(q, c)
    OBVIOUS
  <2>1. left[q] # <<>> /\ Head(left[q]) # "reject"
    BY <1>2
  <2>2. /\ answer[q] # None /\ left[q] = <<answer[q].decision>>
        /\ loop[q].open = {answer[q].call}
    BY <1>1, <2>1 DEF DecisionOwn
  <2>3. answer[q].call = c
    BY <1>1, <2>2
  <2>4. answer[q].decision \in Decisions /\ answer[q].decision # "reject"
    BY <2>1, <2>2 DEF TypeOK
  <2>. QED BY <2>2, <2>3, <2>4 DEF Approves, Decisions
<1>12. OnlyApprovedWrites'
  BY <1>1, <1>3, <1>11 DEF OnlyApprovedWrites, Approves
<1>. QED BY <1>6, <1>9, <1>10, <1>12

\* Every step keeps the invariant.
LEMMA NextGate ==
  ASSUME OneCallPerMessage, TypeOK, GateInv, Shape, IdsInv'
  PROVE  GateInv'
<1>. DEFINE Rest == OneOpen /\ ResumeEmpty /\ LeftFresh /\ DecisionOwn
                      /\ OnlyApprovedWrites
<1>. SUFFICES Rest'
  BY DEF GateInv, IdsInv
<1>. USE DEF GateInv
<1>0. \A open : Opens(open) => One(open)
  BY DEF Opens, OneOpen, One, OneCallPerMessage
<1>1. CASE Ends
  <2>1. UNCHANGED <<ckpt, loop, left, out, asked, answer>>
    BY <1>1 DEF Ends
  <2>2. OneOpen' /\ ResumeEmpty' /\ OnlyApprovedWrites'
    BY <2>1 DEF OneOpen, One, ResumeEmpty, OnlyApprovedWrites, Approves
  <2>3. LeftFresh' /\ DecisionOwn'
    BY <1>1, <2>1 DEF Ends, Ended, LeftFresh, DecisionOwn
  <2>. QED BY <2>2, <2>3
<1>2. ASSUME NEW q \in Request, NEW c \in Checkpoint, Stores(q, c)
      PROVE  Rest'
  <2>1. /\ ckpt' = c /\ loop'[q] = c /\ left'[q] = <<>>
        /\ c.resume = <<>> /\ c.saved = <<>> /\ One(c.open)
        /\ pc[q] = "new" \/ answer'[q] = answer[q]
        /\ UNCHANGED <<out, asked>> /\ Others(q)
    BY <1>0, <1>2 DEF Stores
  <2>2. OneOpen' /\ ResumeEmpty'
    BY <2>1 DEF OneOpen, One, ResumeEmpty, Others
  <2>3. LeftFresh' /\ DecisionOwn'
    BY <2>1 DEF LeftFresh, DecisionOwn, Others
  <2>4. OnlyApprovedWrites'
    BY <2>1 DEF OnlyApprovedWrites, Approves, NewIdle, Others
  <2>. QED BY <2>2, <2>3, <2>4
<1>3. ASSUME NEW q \in Request, Cuts(q) PROVE Rest'
  <2>1. /\ ckpt'.open = ckpt.open /\ ckpt'.resume = ckpt.resume
        /\ \/ ckpt'.saved = ckpt.saved
           \/ \E r \in [next : Nodes \cup {"end"}, open : SUBSET Call] :
                Opens(r.open) /\ ckpt'.saved = <<r>>
        /\ UNCHANGED <<loop, left, out, asked, answer>>
        /\ pc'[q] = "cut" /\ Others(q)
    BY <1>3 DEF Cuts, TypeOK, Checkpoint
  <2>2. OneOpen' /\ ResumeEmpty'
    BY <1>0, <2>1 DEF OneOpen, One, ResumeEmpty
  <2>3. LeftFresh' /\ DecisionOwn'
    BY <2>1 DEF LeftFresh, DecisionOwn, Others
  <2>4. OnlyApprovedWrites'
    BY <2>1 DEF OnlyApprovedWrites, Approves
  <2>. QED BY <2>2, <2>3, <2>4
<1>4. ASSUME NEW q \in Request, NEW a \in asked, NEW d \in Decisions,
             Takes(q, a, d) \/ Idles(q, a, d)
      PROVE  Rest'
  <2>1. /\ UNCHANGED <<ckpt, out, asked>> /\ pc[q] = "new"
        /\ answer'[q] = [id |-> a.id, call |-> a.call, decision |-> d]
        /\ answer'[q] # None
        /\ Others(q)
    BY <1>4 DEF Takes, Idles, Carries
  <2>2. OnlyApprovedWrites'
    BY <2>1 DEF OnlyApprovedWrites, Approves, NewIdle, Others
  <2>3. CASE Takes(q, a, d)
    <3>. DEFINE given == IF a.id = ckpt.id THEN <<d>> ELSE <<>>
    <3>1. /\ loop'[q].id = ckpt.id /\ loop'[q].open = ckpt.open
          /\ loop'[q].resume = given /\ left'[q] = given
      BY <2>3 DEF Takes, TypeOK, Checkpoint, ResumeEmpty, Given, Addressed
    <3>2. given # <<>> => given = <<d>> /\ ckpt.open = {a.call}
      BY DEF IdsAgree, OneOpen
    <3>. HIDE DEF given
    <3>3. OneOpen' /\ ResumeEmpty'
      BY <2>1, <3>1 DEF OneOpen, One, ResumeEmpty, Others
    <3>4. LeftFresh'
      <4>1. ckpt.open \subseteq Call
        BY DEF TypeOK, Checkpoint
      <4>2. \A e \in loop'[q].open : out'[q][e] = "none"
        BY <2>1, <3>1, <4>1 DEF NewIdle
      <4>. QED BY <2>1, <3>1, <4>2 DEF LeftFresh, Others
    <3>5. DecisionOwn'
      BY <2>1, <3>1, <3>2 DEF DecisionOwn, Others
    <3>. QED BY <2>2, <3>3, <3>4, <3>5
  <2>4. CASE Idles(q, a, d)
    <3>1. loop'[q] = loop[q] /\ pc'[q] = "done"
      BY <2>4 DEF Idles
    <3>2. OneOpen' /\ ResumeEmpty'
      BY <2>1, <3>1 DEF OneOpen, One, ResumeEmpty, Others
    <3>3. LeftFresh' /\ DecisionOwn'
      BY <2>1, <3>1 DEF LeftFresh, DecisionOwn, Others
    <3>. QED BY <2>2, <3>2, <3>3
  <2>. QED BY <1>4, <2>3, <2>4
<1>5. ASSUME NEW q \in Request, NEW c \in Call, ToolCall(q, c) PROVE Rest'
  <2>1. OneOpen' /\ ResumeEmpty' /\ LeftFresh' /\ DecisionOwn'
          /\ OnlyApprovedWrites'
    BY <1>5, ToolCallGate
  <2>. QED BY <2>1
<1>6. ASSUME NEW q \in Request, NEW c \in Call, Park(q, c) PROVE Rest'
  <2>1. /\ UNCHANGED <<loop, left, out, answer>>
        /\ ckpt'.open = ckpt.open /\ ckpt'.saved = ckpt.saved
        /\ \/ ckpt'.resume = ckpt.resume \/ ckpt'.resume = loop[q].resume
        /\ pc[q] = "tools" /\ pc'[q] \in Ended
        /\ \A p \in Request \ {q} : pc'[p] = pc[p]
        /\ c \in loop[q].open /\ out[q][c] = "parked"
        /\ \/ asked' = asked
           \/ asked' = asked \cup {[id |-> loop[q].id, call |-> c,
                                    batch |-> loop[q].open]}
    BY <1>6, ParkFacts
  <2>2. loop[q].resume = <<>> /\ loop[q].open = {c}
    BY <2>1 DEF LeftFresh, OneOpen, One
  <2>3. OneOpen' /\ ResumeEmpty'
    BY <2>1, <2>2 DEF OneOpen, One, ResumeEmpty
  <2>4. LeftFresh' /\ DecisionOwn'
    BY <2>1 DEF LeftFresh, DecisionOwn, Ended
  <2>5. OnlyApprovedWrites'
    BY <2>1 DEF OnlyApprovedWrites, Approves
  <2>. QED BY <2>3, <2>4, <2>5
<1>. QED BY <1>1, <1>2, <1>3, <1>4, <1>5, <1>6 DEF Shape

LEMMA InitGate == Init => GateInv
BY ConstantsAssumption
DEF Init, GateInv, IdsIssued, Issued, IdsAgree, OneOpen, One, NewIdle,
    ResumeEmpty, LeftFresh, DecisionOwn, OnlyApprovedWrites, EmptyThread

\* With one gated call per model message, the invariant holds for any number
\* of requests, in any order, with hang-ups, restarts, failures and answers
\* sent twice.
THEOREM GateInvariant ==
  ASSUME OneCallPerMessage
  PROVE  Spec => []GateInv
<1>1. TypeOK /\ TypeOK' /\ GateInv /\ [Next]_vars => GateInv'
  BY NextShape, NextIds, NextGate DEF GateInv, IdsInv
<1>. QED BY <1>1, InitGate, TypeCorrect, PTL DEF Spec

\* The promise of case_tools.py: a request inserts the row of a gated call
\* only if it carries the user's approval of that call.
THEOREM WritesAreApproved ==
  ASSUME OneCallPerMessage
  PROVE  Spec => []OnlyApprovedWrites
<1>1. GateInv => OnlyApprovedWrites
  BY DEF GateInv
<1>. QED BY <1>1, GateInvariant, PTL

-----------------------------------------------------------------------------
(* The thread implements ApprovalGate. *)

Shown    == {a.call : a \in asked}
Granted  == {g \in Call \X Request : Approves(g[2], g[1])}
Inserted == {g \in Call \X Request : out[g[2]][g[1]] = "written"}

\* Steps that ask, answer and run nothing do nothing to the gate.
LEMMA GateStutter ==
  UNCHANGED <<asked, answer, out>> => UNCHANGED <<Shown, Granted, Inserted>>
BY DEF Shown, Granted, Inserted, Approves

\* A decision grants its call, or grants nothing.
LEMMA ResumeRefines ==
  ASSUME TypeOK, GateInv, NEW q \in Request, Resume(q)
  PROVE  [Gate!GateNext]_(Gate!gateVars)
<1>. PICK a \in asked, d \in Decisions : Answer(q, a, d)
  BY DEF Resume, ResumeFinished, ResumeSaved, ResumePending
<1>1. /\ UNCHANGED <<out, asked>>
      /\ answer' = [answer EXCEPT ![q] = [id |-> a.id, call |-> a.call,
                                          decision |-> d]]
      /\ answer[q] = None
  BY DEF Answer, MayStart, GateInv, NewIdle
<1>2. a.id \in Ids \cup {None} /\ a.call \in Call /\ a.call \in Shown
  BY DEF TypeOK, Shown
<1>3. [id |-> a.id, call |-> a.call, decision |-> d] # None
  BY <1>2, ConstantsAssumption DEF Ids, Decisions
<1>4. /\ answer'[q] # None /\ answer'[q].call = a.call
      /\ answer'[q].decision = d
      /\ \A p \in Request \ {q} : answer'[p] = answer[p]
  BY <1>1, <1>3 DEF TypeOK
<1>5. UNCHANGED <<Shown, Inserted>>
  BY <1>1 DEF Shown, Inserted
<1>6. \A c \in Call : <<c, q>> \notin Granted
  BY <1>1 DEF Granted, Approves
<1>7. Granted' = IF d = "approve" THEN Granted \cup {<<a.call, q>>}
                                  ELSE Granted
  <2>1. \A g \in Call \X Request :
          g \in Granted' <=> g \in Granted \/ (d = "approve"
                                             /\ g = <<a.call, q>>)
    <3>. SUFFICES ASSUME NEW c \in Call, NEW p \in Request
                  PROVE  Approves(p, c)' <=>
                           Approves(p, c)
                           \/ (d = "approve" /\ c = a.call /\ p = q)
      BY DEF Granted
    <3>1. CASE p = q
      BY <1>1, <1>4, <3>1 DEF Approves
    <3>2. CASE p # q
      BY <1>4, <3>2 DEF Approves
    <3>. QED BY <3>1, <3>2
  <2>2. Granted \subseteq Call \X Request /\ Granted' \subseteq Call \X Request
    BY DEF Granted
  <2>. QED BY <1>2, <2>1, <2>2
<1>. QED
  BY <1>2, <1>5, <1>6, <1>7
  DEF Gate!GateNext, Gate!Grant, Gate!gateVars, Shown, Granted, Inserted

\* A gated call inserts its granted row, or nothing.
LEMMA ToolCallRefines ==
  ASSUME TypeOK, GateInv, NEW q \in Request, NEW c \in Call,
         ToolCall(q, c), GateInv'
  PROVE  [Gate!GateNext]_(Gate!gateVars)
<1>1. UNCHANGED <<asked, answer>> /\ out[q][c] = "none"
  BY DEF ToolCall
<1>2. PICK r : out' = [out EXCEPT ![q][c] = r]
  BY DEF ToolCall
<1>3. UNCHANGED <<Shown, Granted>>
  BY <1>1 DEF Shown, Granted, Approves
<1>4. Inserted' = IF r = "written" THEN Inserted \cup {<<c, q>>}
                                   ELSE Inserted
  <2>1. \A e \in Call, p \in Request :
          out'[p][e] = "written" <=>
            out[p][e] = "written" \/ (r = "written" /\ e = c /\ p = q)
    BY <1>1, <1>2 DEF TypeOK
  <2>. QED BY <2>1 DEF Inserted
<1>5. <<c, q>> \notin Inserted
  BY <1>1 DEF Inserted
<1>6. r = "written" => <<c, q>> \in Granted
  <2>1. out'[q][c] = r
    BY <1>2 DEF TypeOK
  <2>2. r = "written" => Approves(q, c)
    BY <1>1, <2>1 DEF GateInv, OnlyApprovedWrites, Approves
  <2>. QED BY <2>2 DEF Granted
<1>. QED
  BY <1>3, <1>4, <1>5, <1>6
  DEF Gate!GateNext, Gate!Insert, Gate!gateVars, Shown, Granted, Inserted

\* A parked call is shown, unless its client is gone.
LEMMA ParkRefines ==
  ASSUME NEW q \in Request, NEW c \in Call, Park(q, c)
  PROVE  [Gate!GateNext]_(Gate!gateVars)
<1>. DEFINE a == [id |-> loop[q].id, call |-> c, batch |-> loop[q].open]
<1>1. a.call = c /\ (asked' = asked \/ asked' = asked \cup {a})
  BY DEF Park, AskedWith
<1>. HIDE DEF a
<1>2. Shown' = Shown \/ Shown' = Shown \cup {c}
  BY <1>1 DEF Shown
<1>3. UNCHANGED <<Granted, Inserted>>
  BY DEF Park, Granted, Inserted, Approves
<1>. QED
  BY <1>2, <1>3
  DEF Gate!GateNext, Gate!Show, Gate!gateVars, Shown, Granted, Inserted

\* Step by step, the thread does what the gate allows.
LEMMA NextRefines ==
  ASSUME TypeOK, GateInv, [Next]_vars, GateInv'
  PROVE  [Gate!GateNext]_(Gate!gateVars)
<1>1. ASSUME UNCHANGED <<asked, answer, out>>
      PROVE  [Gate!GateNext]_(Gate!gateVars)
  BY <1>1, GateStutter DEF Gate!gateVars, Shown, Granted, Inserted
<1>2. ASSUME NEW q \in Request, Resume(q)
      PROVE  [Gate!GateNext]_(Gate!gateVars)
  BY <1>2, ResumeRefines
<1>3. ASSUME NEW q \in Request, NEW c \in Call, ToolCall(q, c) \/ Park(q, c)
      PROVE  [Gate!GateNext]_(Gate!gateVars)
  BY <1>3, ToolCallRefines, ParkRefines
<1>. QED
  BY <1>1, <1>2, <1>3
  DEF Next, Serve, vars, Send, ValidateInput, LoadMemory, CallModel,
      ToolsReturn, ToolsFail, WriteMemory, Fail, Hangup, Reload, Restart,
      DeleteCase

\* With one gated call per model message, the thread implements the gate.
THEOREM ThreadImplementsGate ==
  ASSUME OneCallPerMessage
  PROVE  Spec => ImplementsGate
<1>1. Init => Gate!GateInit
  BY DEF Init, Gate!GateInit, Approves
<1>2. TypeOK /\ GateInv /\ [Next]_vars /\ GateInv'
        => [Gate!GateNext]_(Gate!gateVars)
  BY NextRefines
<1>. QED
  BY <1>1, <1>2, TypeCorrect, GateInvariant, PTL
  DEF Spec, ImplementsGate, Gate!GateSpec
-----------------------------------------------------------------------------
(* One request after another: no message is lost.                          *)

Alone  == \A p, q \in Request : Active(p) /\ Active(q) => p = q
InTurn == \A q \in Request : Active(q) => loop[q].turns = ckpt.turns
TurnInv == Alone /\ InTurn

\* The step adds to the history, and who runs has it all.
LEMMA NextTurn ==
  ASSUME "overlap" \notin Env, TypeOK, TurnInv, Shape
  PROVE  TurnInv' /\ ckpt.turns \subseteq ckpt'.turns
<1>. USE DEF TurnInv
<1>. DEFINE Goal == TurnInv' /\ ckpt.turns \subseteq ckpt'.turns
<1>1. CASE Ends
  <2>1. ckpt' = ckpt /\ loop' = loop
        /\ \A q \in Request : Active(q)' => Active(q)
    BY <1>1 DEF Ends, Ended, Active, Nodes
  <2>. QED BY <2>1 DEF Alone, InTurn
<1>2. ASSUME NEW q \in Request, NEW c \in Checkpoint, Stores(q, c)
      PROVE  Goal
  <2>1. /\ ckpt' = c /\ loop'[q] = c
        /\ \A p \in Request \ {q} :
             loop'[p] = loop[p] /\ (Active(p)' <=> Active(p))
        /\ \/ Active(q) /\ c.turns = loop[q].turns
           \/ MayStart(q) /\ ckpt.turns \subseteq c.turns
    BY <1>2 DEF Stores, Others, Active
  <2>2. ckpt.turns \subseteq c.turns
    BY <2>1 DEF InTurn
  <2>3. \A p \in Request \ {q} : ~Active(p)
    BY <2>1 DEF Alone, MayStart
  <2>. QED BY <2>1, <2>2, <2>3 DEF Alone, InTurn
<1>3. ASSUME NEW q \in Request, Cuts(q) PROVE Goal
  <2>1. ckpt'.turns = ckpt.turns /\ loop' = loop
        /\ \A p \in Request : Active(p)' => Active(p)
    BY <1>3 DEF Cuts, Others, TypeOK, Checkpoint, Active, Nodes
  <2>. QED BY <2>1 DEF Alone, InTurn
<1>4. ASSUME NEW q \in Request, NEW a \in asked, NEW d \in Decisions,
             Takes(q, a, d) \/ Idles(q, a, d)
      PROVE  Goal
  <2>1. /\ ckpt' = ckpt /\ MayStart(q)
        /\ \A p \in Request \ {q} : Active(p)' <=> Active(p)
    BY <1>4 DEF Takes, Idles, Carries, Others, Active
  <2>2. \A p \in Request \ {q} : ~Active(p)'
    BY <2>1 DEF MayStart
  <2>3. Active(q)' => loop'[q].turns = ckpt.turns
    BY <1>4 DEF Takes, Idles, Active, Nodes, TypeOK, Checkpoint
  <2>. QED BY <2>1, <2>2, <2>3 DEF Alone, InTurn
<1>5. ASSUME NEW q \in Request, NEW c \in Call, ToolCall(q, c) PROVE Goal
  BY <1>5 DEF ToolCall, Alone, InTurn, Active
<1>6. ASSUME NEW q \in Request, NEW c \in Call, Park(q, c) PROVE Goal
  <2>1. ckpt'.turns = ckpt.turns /\ loop' = loop
        /\ \A p \in Request : Active(p)' => Active(p)
    BY <1>6, ParkFacts DEF Ended, Active, Nodes
  <2>. QED BY <2>1 DEF Alone, InTurn
<1>. QED BY <1>1, <1>2, <1>3, <1>4, <1>5, <1>6 DEF Shape

\* While requests follow one another, one runs at a time and works on all
\* messages of the thread, through hang-ups, restarts and failures.
THEOREM TurnInvariant ==
  ASSUME "overlap" \notin Env
  PROVE  Spec => []TurnInv
<1>1. Init => TurnInv
  BY DEF Init, TurnInv, Alone, InTurn, Active, Nodes
<1>2. TypeOK /\ SomeInv /\ TurnInv /\ [Next]_vars => TurnInv'
  BY NextShape, NextTurn DEF SomeInv, IdsInv
<1>. QED BY <1>1, <1>2, TypeCorrect, SomeInvariant, PTL DEF Spec

\* A message the thread has taken in stays in its history, unless requests
\* overlap.
THEOREM TurnsAreKept ==
  ASSUME "overlap" \notin Env
  PROVE  Spec => TurnsKept
<1>1. TypeOK /\ SomeInv /\ TurnInv /\ [Next]_vars
        => [ckpt.turns \subseteq ckpt'.turns]_ckpt
  BY NextShape, NextTurn DEF SomeInv, IdsInv
<1>. QED
  BY <1>1, TypeCorrect, SomeInvariant, TurnInvariant, PTL
  DEF Spec, TurnsKept
-----------------------------------------------------------------------------
(* A calm thread: requests follow one another and stay to the end, nothing *)
(* fails, and the model only calls gated tools.  Approvals may be answered *)
(* again, and the case may be deleted.  The limit leaves room for one turn *)
(* (the code's is 25).                                                     *)

Calm == Env \subseteq {"resend", "delete"} /\ Limit > 3

Idle == \A q \in Request : ~Active(q)

\* The tools node of q has no decision left and has run nothing to its end.
Fresh(q) ==
  left[q] = <<>> /\ \A c \in loop[q].open : out[q][c] \in {"none", "parked"}

\* Who runs works on the latest checkpoint.
InStep ==
  \A q \in Request : Active(q) =>
    ckpt.id = loop[q].id /\ ckpt.open = loop[q].open /\ ckpt.next = pc[q]

\* No history has an unanswered call, no stream has been left.
Unspoilt ==
  /\ ~ckpt.lost /\ \A q \in Request : ~loop[q].lost
  /\ gone = {} /\ ckpt.saved = <<>>

\* The model proposes a call once, so a tools node has not run it before.
Known ==
  /\ ckpt.open \subseteq proposed
  /\ \A q \in Request : loop[q].open \subseteq proposed
  /\ \A q \in Request, c \in Call : out[q][c] # "none" => c \in proposed

\* Where a request is tells how many nodes it has executed: a turn parks at
\* its third node at the latest, and a resumed one at its second.
Counted ==
  \A q \in Request :
    /\ pc[q] = "new" => steps[q] = 0
    /\ pc[q] = "validate_input" => answer[q] = None /\ steps[q] = 0
    /\ pc[q] = "load_memory" => answer[q] = None /\ steps[q] = 1
    /\ pc[q] = "agent" => steps[q] = IF answer[q] = None THEN 2 ELSE 1
    /\ pc[q] = "tools" => (answer[q] # None /\ steps[q] = 0) \/ Fresh(q)

\* A tool fails on a deleted case only; no request can follow.
Reachable == HasCase => caseAlive
Failures ==
  /\ caseAlive => HasCase
  /\ \A q \in Request, c \in Call : out[q][c] = "failed" => ~Reachable

\* When nothing runs, the turn is over or the thread is parked, and then the
\* card that continues it is on the screen.
Rests ==
  /\ ckpt.next = "tools" => ckpt.open # {}
  /\ Idle => ckpt.next \in {"end", "tools"}
  /\ Idle /\ ckpt.next = "tools" /\ Reachable =>
       \E a \in card : a.id = ckpt.id /\ a.call \in ckpt.open

CalmInv == InStep /\ Unspoilt /\ Known /\ Counted /\ Failures /\ Rests

\* A node of q stores its checkpoint within the limit.
LEMMA CalmCommit ==
  ASSUME TypeOK, Alone, CalmInv, NEW q \in Request, Active(q),
         NEW next \in (Nodes \ {"validate_input"}) \cup {"end"},
         NEW open \in SUBSET Call,
         Commit(q, loop[q], steps[q] + 1, next, open),
         UNCHANGED <<out, gone, asked, card, answer, caseAlive>>,
         proposed \subseteq proposed', open \subseteq proposed',
         next = "tools" => open # {} /\ \A c \in open : out[q][c] = "none",
         next # "end" => steps[q] + 1 < Budget(q),
         next = "load_memory" => answer[q] = None /\ steps[q] = 0,
         next = "agent" => steps[q] = IF answer[q] = None THEN 1 ELSE 0
  PROVE  CalmInv'
<1>. USE DEF CalmInv
<1>. DEFINE c == Successor(q, loop[q], steps[q] + 1, next, open)
<1>1. /\ c.id = <<q, steps[q] + 1>> /\ c.next = next /\ c.open = open
      /\ c.saved = <<>> /\ c.lost = loop[q].lost
  BY DEF Successor
<1>2. /\ ckpt' = c /\ loop'[q] = c /\ steps'[q] = steps[q] + 1
      /\ left'[q] = <<>>
      /\ \A p \in Request \ {q} :
           /\ loop'[p] = loop[p] /\ steps'[p] = steps[p]
           /\ left'[p] = left[p] /\ pc'[p] = pc[p]
  BY DEF Commit, TypeOK
<1>3. next # "end" => pc'[q] = next
  <2>1. steps[q] + 1 \in Nat /\ Budget(q) \in Nat
    BY ConstantsAssumption DEF TypeOK, Budget
  <2>2. next # "end" => ~(steps[q] + 1 >= Budget(q))
    BY <2>1
  <2>. QED BY <2>2 DEF Commit, TypeOK
<1>4. next = "end" => pc'[q] \in {"done", "failed"}
  BY DEF Commit, TypeOK
<1>. HIDE DEF c
<1>5. \A p \in Request \ {q} : ~Active(p)'
  BY <1>2 DEF Alone, Active
<1>6. InStep'
  BY <1>1, <1>2, <1>3, <1>4, <1>5 DEF InStep, Active, Nodes
<1>7. Unspoilt'
  BY <1>1, <1>2 DEF Unspoilt
<1>8. Known'
  BY <1>1, <1>2 DEF Known
<1>9. Counted'
  <2>1. \A p \in Request \ {q} : Fresh(p)' <=> Fresh(p)
    BY <1>2 DEF Fresh
  <2>2. next = "tools" => Fresh(q)'
    BY <1>1, <1>2 DEF Fresh
  <2>3. /\ pc'[q] = "tools" => Fresh(q)'
        /\ pc'[q] \notin {"new", "validate_input"}
        /\ pc'[q] = "load_memory" => answer'[q] = None /\ steps'[q] = 1
        /\ pc'[q] = "agent" =>
             steps'[q] = IF answer'[q] = None THEN 2 ELSE 1
    BY <1>2, <1>3, <1>4, <2>2 DEF Nodes
  <2>. QED BY <1>2, <2>1, <2>3 DEF Counted
<1>10. Failures'
  BY DEF Failures, Reachable
<1>11. Rests'
  <2>1. Idle' => next = "end"
    BY <1>3 DEF Idle, Active
  <2>. QED BY <1>1, <1>2, <2>1 DEF Rests
<1>. QED BY <1>6, <1>7, <1>8, <1>9, <1>10, <1>11

\* With nobody gone, a superstep stores its checkpoint.
LEMMA CalmSuperstep ==
  ASSUME Unspoilt, NEW q \in Request, NEW next, NEW open, NEW silent,
         Superstep(q, next, open, silent)
  PROVE  Commit(q, loop[q], steps[q] + 1, next, open)
BY DEF Unspoilt, Superstep

\* A new message finds the thread at its end.
LEMMA CalmSend ==
  ASSUME Calm, TypeOK, NewIdle, Alone', CalmInv, NEW q \in Request, Send(q)
  PROVE  CalmInv'
<1>. USE DEF CalmInv
<1>. DEFINE c == [id |-> <<q, 0>>, next |-> "validate_input", open |-> {},
                  lost |-> ckpt.lost \/ ckpt.next = "tools",
                  resume |-> <<>>, saved |-> <<>>, turns |-> TurnsWith(q)]
<1>1. Idle /\ Reachable /\ card = {}
  BY DEF Calm, Send, MayStart, Idle, Reachable
<1>2. ckpt.next # "tools"
  BY <1>1 DEF Rests
<1>3. /\ c.id = <<q, 0>> /\ c.next = "validate_input" /\ c.open = {}
      /\ ~c.lost /\ c.saved = <<>>
  BY <1>2 DEF Unspoilt
<1>4. /\ ckpt' = c /\ loop'[q] = c /\ pc'[q] = "validate_input"
      /\ \A p \in Request \ {q} : loop'[p] = loop[p] /\ pc'[p] = pc[p]
      /\ UNCHANGED <<steps, left, out, gone, answer, proposed, caseAlive>>
  BY DEF Send, TypeOK
<1>. HIDE DEF c
<1>5. Active(q)' /\ \A p \in Request \ {q} : ~Active(p)'
  BY <1>1, <1>4 DEF Idle, Active, Nodes
<1>6. InStep'
  BY <1>3, <1>4, <1>5 DEF InStep
<1>7. Unspoilt' /\ Known' /\ Failures'
  BY <1>3, <1>4 DEF Unspoilt, Known, Failures, Reachable
<1>8. Counted'
  <2>1. \A p \in Request \ {q} : Fresh(p)' <=> Fresh(p)
    BY <1>4 DEF Fresh
  <2>2. steps[q] = 0 /\ answer[q] = None
    BY DEF Send, MayStart, Counted, NewIdle
  <2>. QED BY <1>4, <2>1, <2>2 DEF Counted
<1>9. Rests'
  BY <1>3, <1>4, <1>5 DEF Rests, Idle
<1>. QED BY <1>6, <1>7, <1>8, <1>9

\* An answer reruns the parked task, or finds nothing to do.
LEMMA CalmResume ==
  ASSUME Calm, TypeOK, CalmInv, NEW q \in Request, Resume(q)
  PROVE  CalmInv'
<1>. USE DEF CalmInv
<1>. PICK a \in asked, d \in Decisions :
       \/ ResumeFinished(q, a, d) \/ ResumeSaved(q, a, d)
       \/ ResumePending(q, a, d)
  BY DEF Resume
<1>1. /\ Idle /\ Reachable /\ pc[q] = "new"
      /\ UNCHANGED <<out, gone, proposed, caseAlive>>
      /\ answer'[q] # None
      /\ \A p \in Request \ {q} : answer'[p] = answer[p]
  <2>1. a.id \in Ids \cup {None} /\ a.call \in Call
    BY DEF TypeOK
  <2>2. Answer(q, a, d)
    BY DEF ResumeFinished, ResumeSaved, ResumePending
  <2>. QED BY <2>1, <2>2, ConstantsAssumption
           DEF Answer, MayStart, Calm, Idle, Reachable, TypeOK, Ids, Decisions
<1>2. CASE ResumeFinished(q, a, d)
  <2>1. /\ UNCHANGED <<ckpt, loop, steps, left>> /\ ckpt.next = "end"
        /\ pc'[q] = "done" /\ \A p \in Request \ {q} : pc'[p] = pc[p]
    BY <1>2 DEF ResumeFinished, TypeOK
  <2>2. InStep' /\ Unspoilt' /\ Known' /\ Failures' /\ Rests'
    BY <1>1, <2>1
    DEF InStep, Unspoilt, Known, Failures, Reachable, Rests, Active, Nodes
  <2>3. Counted'
    BY <1>1, <2>1 DEF Counted, Fresh
  <2>. QED BY <2>2, <2>3
<1>3. CASE ResumeSaved(q, a, d)
  BY <1>3 DEF ResumeSaved, Unspoilt
<1>4. CASE ResumePending(q, a, d)
  <2>. DEFINE c == [ckpt EXCEPT !.resume = Given(a, d)]
  <2>1. ckpt.next = "tools"
    BY <1>1, <1>4 DEF ResumePending, Rests
  <2>2. c.id = ckpt.id /\ c.open = ckpt.open /\ c.lost = ckpt.lost
    BY DEF TypeOK, Checkpoint
  <2>3. /\ UNCHANGED <<ckpt, steps>>
        /\ loop'[q] = c /\ pc'[q] = "tools"
        /\ \A p \in Request \ {q} :
             /\ loop'[p] = loop[p] /\ pc'[p] = pc[p] /\ left'[p] = left[p]
    BY <1>4, <2>1 DEF ResumePending, TypeOK
  <2>. HIDE DEF c
  <2>4. Active(q)' /\ \A p \in Request \ {q} : ~Active(p)'
    BY <1>1, <2>3 DEF Idle, Active, Nodes
  <2>5. InStep' /\ Unspoilt' /\ Known' /\ Failures'
    BY <1>1, <2>1, <2>2, <2>3, <2>4
    DEF InStep, Unspoilt, Known, Failures, Reachable
  <2>6. Counted'
    <3>1. \A p \in Request \ {q} : Fresh(p)' <=> Fresh(p)
      BY <1>1, <2>3 DEF Fresh
    <3>2. steps'[q] = 0
      BY <1>1, <2>3 DEF Counted
    <3>. QED BY <1>1, <2>3, <3>1, <3>2 DEF Counted
  <2>7. Rests'
    BY <2>3, <2>4 DEF Rests, Idle
  <2>. QED BY <2>5, <2>6, <2>7
<1>. QED BY <1>2, <1>3, <1>4

\* A gated call takes the one decision of its request, or parks.
LEMMA CalmToolCall ==
  ASSUME TypeOK, CalmInv, NEW q \in Request, NEW c \in Call, ToolCall(q, c)
  PROVE  CalmInv'
<1>. USE DEF CalmInv
<1>1. /\ UNCHANGED <<ckpt, pc, loop, steps, gone, card, answer, proposed,
                     caseAlive>>
      /\ pc[q] = "tools" /\ c \in loop[q].open
      /\ \A p \in Request \ {q} : out'[p] = out[p] /\ left'[p] = left[p]
      /\ \A e \in Call \ {c} : out'[q][e] = out[q][e]
  BY DEF ToolCall, TypeOK
<1>2. /\ left[q] = <<>> => left'[q] = <<>> /\ out'[q][c] = "parked"
      /\ out'[q][c] = "failed" => ~Reachable
  BY DEF ToolCall, TypeOK, Results, Reachable
<1>3. InStep' /\ Unspoilt' /\ Rests'
  BY <1>1 DEF InStep, Active, Unspoilt, Rests, Idle, Reachable
<1>4. Known'
  BY <1>1 DEF Known
<1>5. Failures'
  BY <1>1, <1>2 DEF Failures, Reachable
<1>6. Counted'
  <2>1. loop[q].open \subseteq Call
    BY DEF TypeOK, Checkpoint
  <2>2. Fresh(q) => Fresh(q)'
    BY <1>1, <1>2, <2>1 DEF Fresh
  <2>3. \A p \in Request \ {q} : Fresh(p)' <=> Fresh(p)
    BY <1>1 DEF Fresh
  <2>. QED BY <1>1, <2>2, <2>3 DEF Counted
<1>. QED BY <1>3, <1>4, <1>5, <1>6

\* A request that parks puts its card on the screen.
LEMMA CalmPark ==
  ASSUME TypeOK, Alone, CalmInv, NEW q \in Request, NEW c \in Call, Park(q, c)
  PROVE  CalmInv'
<1>. USE DEF CalmInv
<1>. DEFINE a == [id |-> loop[q].id, call |-> c, batch |-> loop[q].open]
<1>1. /\ UNCHANGED <<loop, steps, left, out, gone, answer, proposed, caseAlive>>
      /\ pc[q] = "tools" /\ pc'[q] \in Ended
      /\ \A p \in Request \ {q} : pc'[p] = pc[p]
      /\ c \in loop[q].open
      /\ ckpt'.id = ckpt.id /\ ckpt'.open = ckpt.open
      /\ ckpt'.next = ckpt.next /\ ckpt'.saved = ckpt.saved
      /\ ckpt'.lost = ckpt.lost
  <2>1. UNCHANGED <<gone, proposed, caseAlive>>
    BY DEF Park
  <2>. QED BY <2>1, ParkFacts
<1>2. a \in card' /\ a.id = loop[q].id /\ a.call = c
  BY DEF Park, OnScreen, Unspoilt
<1>3. ckpt.id = loop[q].id /\ ckpt.open = loop[q].open /\ ckpt.next = "tools"
  BY <1>1 DEF InStep, Active, Nodes
<1>. HIDE DEF a
<1>4. \A p \in Request : Active(p)' => Active(p) /\ pc'[p] = pc[p]
  BY <1>1 DEF Active, Nodes, Ended
<1>5. InStep' /\ Unspoilt' /\ Known' /\ Failures'
  BY <1>1, <1>4 DEF InStep, Unspoilt, Known, Failures, Reachable
<1>6. Counted'
  BY <1>1 DEF Counted, Fresh, Ended
<1>7. Rests'
  <2>1. \E b \in card' : b.id = ckpt'.id /\ b.call \in ckpt'.open
    BY <1>1, <1>2, <1>3
  <2>. QED BY <1>1, <1>3, <2>1 DEF Rests
<1>. QED BY <1>5, <1>6, <1>7

\* Every step of a calm thread keeps it calm.
LEMMA NextCalm ==
  ASSUME Calm, TypeOK, NewIdle, Alone, Alone', CalmInv, [Next]_vars
  PROVE  CalmInv'
<1>. USE DEF CalmInv
<1>1. ASSUME NEW q \in Request, Send(q) PROVE CalmInv'
  BY <1>1, CalmSend
<1>2. ASSUME NEW q \in Request, Resume(q) PROVE CalmInv'
  BY <1>2, CalmResume
<1>3. ASSUME NEW q \in Request, ValidateInput(q) PROVE CalmInv'
  <2>1. PICK next \in {"load_memory", "end"} :
          Commit(q, loop[q], steps[q] + 1, next, {})
    BY <1>3, CalmSuperstep DEF ValidateInput
  <2>2. Active(q) /\ answer[q] = None /\ steps[q] = 0
    BY <1>3 DEF ValidateInput, Counted, Active, Nodes
  <2>3. steps[q] + 1 < Budget(q)
    BY <2>2, ConstantsAssumption DEF Calm, Budget
  <2>. QED
    BY <1>3, <2>1, <2>2, <2>3, CalmCommit DEF ValidateInput, Nodes
<1>4. ASSUME NEW q \in Request, LoadMemory(q) PROVE CalmInv'
  <2>1. Commit(q, loop[q], steps[q] + 1, "agent", {})
    BY <1>4, CalmSuperstep DEF LoadMemory
  <2>2. Active(q) /\ answer[q] = None /\ steps[q] = 1
    BY <1>4 DEF LoadMemory, Counted, Active, Nodes
  <2>3. steps[q] + 1 < Budget(q)
    BY <2>2, ConstantsAssumption DEF Calm, Budget
  <2>. QED
    BY <1>4, <2>1, <2>2, <2>3, CalmCommit DEF LoadMemory, Nodes
<1>5. ASSUME NEW q \in Request, CallModel(q) PROVE CalmInv'
  <2>1. PICK open \in SUBSET Call, next \in {"write_memory", "tools"} :
          /\ Commit(q, loop[q], steps[q] + 1, next, open)
          /\ open \subseteq proposed'
          /\ next = "tools" => open # {} /\ open \cap proposed = {}
    <3>1. CASE Superstep(q, "write_memory", {}, FALSE)
      <4>1. Commit(q, loop[q], steps[q] + 1, "write_memory", {})
        BY <3>1, CalmSuperstep
      <4>2. {} \in SUBSET Call /\ {} \subseteq proposed'
        OBVIOUS
      <4>. QED BY <4>1, <4>2
    <3>2. CASE \E batch \in Batches :
                 /\ batch \cap proposed = {}
                 /\ proposed' = proposed \cup batch
                 /\ Superstep(q, "tools", batch, FALSE)
      <4>1. PICK batch \in Batches :
              /\ batch \cap proposed = {}
              /\ proposed' = proposed \cup batch
              /\ Superstep(q, "tools", batch, FALSE)
        BY <3>2
      <4>2. batch \in SUBSET Call /\ batch # {} /\ batch \subseteq proposed'
        BY <4>1, ConstantsAssumption
      <4>3. Commit(q, loop[q], steps[q] + 1, "tools", batch)
        BY <4>1, CalmSuperstep
      <4>. QED BY <4>1, <4>2, <4>3
    <3>. QED BY <1>5, <3>1, <3>2 DEF CallModel, Calm
  <2>2. proposed \subseteq proposed'
    BY <1>5 DEF CallModel
  <2>3. Active(q) /\ steps[q] = IF answer[q] = None THEN 2 ELSE 1
    BY <1>5 DEF CallModel, Counted, Active, Nodes
  <2>4. steps[q] + 1 < Budget(q)
    BY <2>3, ConstantsAssumption DEF Calm, Budget
  <2>5. next = "tools" => \A c \in open : out[q][c] = "none"
    BY <2>1 DEF Known
  <2>. QED
    BY <1>5, <2>1, <2>2, <2>3, <2>4, <2>5, CalmCommit DEF CallModel, Nodes
<1>6. ASSUME NEW q \in Request, ToolsReturn(q) PROVE CalmInv'
  <2>1. Commit(q, loop[q], steps[q] + 1, "agent", {})
    BY <1>6, CalmSuperstep DEF ToolsReturn
  <2>2. Active(q) /\ loop[q].open # {}
    BY <1>6 DEF ToolsReturn, Active, Nodes, InStep, Rests
  <2>3. ~Fresh(q)
    BY <1>6, <2>2 DEF ToolsReturn, Returned, Fresh
  <2>4. answer[q] # None /\ steps[q] = 0
    BY <1>6, <2>3 DEF ToolsReturn, Counted
  <2>5. steps[q] + 1 < Budget(q)
    BY <2>4, ConstantsAssumption DEF Calm, Budget
  <2>. QED
    BY <1>6, <2>1, <2>2, <2>4, <2>5, CalmCommit DEF ToolsReturn, Nodes
<1>7. ASSUME NEW q \in Request, WriteMemory(q) PROVE CalmInv'
  <2>1. Commit(q, loop[q], steps[q] + 1, "end", {})
    BY <1>7, CalmSuperstep DEF WriteMemory
  <2>2. Active(q)
    BY <1>7 DEF WriteMemory, Active, Nodes
  <2>. QED BY <1>7, <2>1, <2>2, CalmCommit DEF WriteMemory
<1>8. ASSUME NEW q \in Request, ToolsFail(q) \/ Fail(q) PROVE CalmInv'
  <2>1. /\ UNCHANGED <<ckpt, loop, steps, left, out, gone, card, answer,
                       proposed, caseAlive>>
        /\ pc'[q] = "failed" /\ \A p \in Request \ {q} : pc'[p] = pc[p]
    BY <1>8 DEF ToolsFail, Fail, TypeOK
  <2>2. pc[q] = "tools" /\ ~Reachable
    <3>1. loop[q].open \subseteq Call
      BY DEF TypeOK, Checkpoint
    <3>. QED BY <1>8, <3>1 DEF ToolsFail, Fail, Calm, Unspoilt, Failures
  <2>3. ckpt.next = "tools"
    BY <2>2 DEF InStep, Active, Nodes
  <2>4. InStep' /\ Unspoilt' /\ Known' /\ Failures' /\ Counted'
    BY <2>1
    DEF InStep, Active, Nodes, Unspoilt, Known, Failures, Reachable, Counted,
        Fresh
  <2>5. Rests'
    BY <2>1, <2>2, <2>3 DEF Rests, Reachable
  <2>. QED BY <2>4, <2>5
<1>9. ASSUME NEW q \in Request, NEW c \in Call, ToolCall(q, c) \/ Park(q, c)
      PROVE  CalmInv'
  BY <1>9, CalmToolCall, CalmPark
<1>10. CASE DeleteCase
  <2>1. UNCHANGED <<ckpt, pc, loop, steps, left, out, gone, card, answer,
                    proposed>>
    BY <1>10 DEF DeleteCase
  <2>2. ~Reachable'
    BY <1>10 DEF DeleteCase, Failures, Reachable
  <2>3. Failures'
    BY <1>10, <2>2 DEF Failures, DeleteCase
  <2>4. InStep' /\ Unspoilt' /\ Known' /\ Counted' /\ Rests'
    BY <2>1, <2>2
    DEF InStep, Active, Unspoilt, Known, Counted, Fresh, Rests, Idle
  <2>. QED BY <2>3, <2>4
<1>11. CASE (\E q \in Request : Hangup(q)) \/ Reload \/ Restart
  BY <1>11 DEF Hangup, Reload, Restart, Calm
<1>12. CASE UNCHANGED vars
  BY <1>12
  DEF vars, InStep, Active, Unspoilt, Known, Counted, Fresh, Failures,
      Reachable, Rests, Idle
<1>. QED
  BY <1>1, <1>2, <1>3, <1>4, <1>5, <1>6, <1>7, <1>8, <1>9, <1>10, <1>11,
     <1>12
  DEF Next, Serve

\* A calm thread stays calm.
THEOREM CalmInvariant ==
  ASSUME Calm
  PROVE  Spec => []CalmInv
<1>1. Init => CalmInv
  BY ConstantsAssumption
  DEF Init, CalmInv, InStep, Active, Nodes, Unspoilt, Known, Counted, Failures,
      Reachable, Rests, Idle, EmptyThread
<1>2. "overlap" \notin Env
  BY DEF Calm
<1>3. Spec => []TurnInv
  BY <1>2, TurnInvariant
<1>4. /\ TypeOK /\ SomeInv /\ TurnInv /\ TurnInv' /\ CalmInv
      /\ [Next]_vars
      => CalmInv'
  BY NextCalm DEF SomeInv, IdsInv, TurnInv
<1>. QED BY <1>1, <1>3, <1>4, TypeCorrect, SomeInvariant, PTL DEF Spec

\* The model of a calm thread is never called on a history with an unanswered
\* tool call, so no later turn is refused by the provider.
THEOREM HistoryIsComplete ==
  ASSUME Calm
  PROVE  Spec => []HistoryComplete
<1>1. CalmInv => HistoryComplete
  BY DEF CalmInv, Unspoilt, HistoryComplete
<1>. QED BY <1>1, CalmInvariant, PTL

\* A calm thread whose case is not deleted never stops at an approval that is
\* not on the screen.
THEOREM ParkedCardIsShown ==
  ASSUME Calm, "delete" \notin Env
  PROVE  Spec => []ParkedIsShown
<1>1. Init => Reachable
  BY DEF Init, Reachable
<1>2. Reachable /\ [Next]_vars => Reachable'
  <2>1. [Next]_vars => caseAlive' = caseAlive
    <3>1. ASSUME NEW q \in Request, Resume(q) PROVE caseAlive' = caseAlive
      BY <3>1 DEF Resume, ResumeFinished, ResumeSaved, ResumePending, Answer
    <3>2. ASSUME NEW q \in Request, Serve(q) PROVE caseAlive' = caseAlive
      BY <3>2 DEF Serve, ValidateInput, LoadMemory, CallModel, ToolCall,
                  ToolsReturn, Park, ToolsFail, WriteMemory, Fail
    <3>. QED
      BY <3>1, <3>2
      DEF Next, vars, Send, Hangup, Reload, Restart, DeleteCase
  <2>. QED BY <2>1 DEF Reachable
<1>3. CalmInv /\ Reachable => ParkedIsShown
  BY DEF CalmInv, Rests, Idle, ParkedIsShown
<1>. QED BY <1>1, <1>2, <1>3, CalmInvariant, PTL DEF Spec
=============================================================================
