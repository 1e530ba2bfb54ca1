-------------------------- MODULE ChatSurface_proofs --------------------------
(***************************************************************************)
(* Proofs about ChatSurface for every set of requests, letters and threads *)
(* and every transcript length.                                            *)
(***************************************************************************)
EXTENDS ChatSurface, SequenceTheorems, TLAPS

-----------------------------------------------------------------------------
(* What the transcript operators return. *)

\* A function from 1 .. n to S is a sequence over S.
LEMMA FunctionIsSequence ==
  ASSUME NEW S, NEW n \in Nat, NEW s \in [1 .. n -> S]
  PROVE  s \in Seq(S) /\ Len(s) = n /\ DOMAIN s = 1 .. n
BY SeqDef

\* Every draft of a transcript is a draft; the last one exists unless the
\* transcript is empty.
LEMMA TranscriptFacts ==
  ASSUME NEW ms \in Seq(Draft)
  PROVE  /\ Len(ms) \in Nat /\ DOMAIN ms = 1 .. Len(ms)
         /\ \A i \in DOMAIN ms : ms[i] \in Draft
         /\ ms # <<>> => Len(ms) \in DOMAIN ms
OBVIOUS

\* Removing cards, all of them or those of a set of drafts, keeps the rest.
LEMMA CutCards ==
  ASSUME NEW ms \in Seq(Draft), NEW S,
         NEW new, new = [i \in DOMAIN ms |-> IF i \in S
                           THEN [ms[i] EXCEPT !.card = None] ELSE ms[i]]
  PROVE  /\ new \in Seq(Draft) /\ Len(new) = Len(ms)
         /\ DOMAIN new = DOMAIN ms
         /\ \A i \in DOMAIN ms :
              /\ new[i].run = ms[i].run /\ new[i].text = ms[i].text
              /\ new[i].card = IF i \in S THEN None ELSE ms[i].card
<1>1. new \in [1 .. Len(ms) -> Draft]
  <2>1. ASSUME NEW i \in DOMAIN ms PROVE new[i] \in Draft
    <3>1. ms[i] \in Draft /\ new[i] \in {ms[i], [ms[i] EXCEPT !.card = None]}
      OBVIOUS
    <3>. QED BY <3>1 DEF Draft
  <2>2. new = [i \in DOMAIN ms |-> new[i]]
    OBVIOUS
  <2>. HIDE DEF Draft
  <2>3. new \in [DOMAIN ms -> Draft]
    BY <2>1, <2>2
  <2>. QED BY <2>3
<1>2. /\ new \in Seq(Draft) /\ Len(new) = Len(ms)
      /\ DOMAIN new = DOMAIN ms
  BY <1>1, FunctionIsSequence, TranscriptFacts
<1>3. ASSUME NEW i \in DOMAIN ms
      PROVE  /\ new[i].run = ms[i].run /\ new[i].text = ms[i].text
             /\ new[i].card = IF i \in S THEN None ELSE ms[i].card
  BY TranscriptFacts DEF Draft
<1>. QED BY <1>2, <1>3

\* A message removes every card.
LEMMA WithoutCardsFacts ==
  ASSUME NEW ms \in Seq(Draft)
  PROVE  /\ WithoutCards(ms) \in Seq(Draft) /\ Len(WithoutCards(ms)) = Len(ms)
         /\ DOMAIN WithoutCards(ms) = DOMAIN ms
         /\ \A i \in DOMAIN ms :
              /\ WithoutCards(ms)[i].run = ms[i].run
              /\ WithoutCards(ms)[i].text = ms[i].text
              /\ WithoutCards(ms)[i].card = None
<1>. DEFINE new == WithoutCards(ms)
<1>1. new = [i \in DOMAIN ms |-> IF i \in DOMAIN ms
               THEN [ms[i] EXCEPT !.card = None] ELSE ms[i]]
  BY DEF WithoutCards
<1>. HIDE DEF new
<1>2. /\ new \in Seq(Draft) /\ Len(new) = Len(ms)
      /\ DOMAIN new = DOMAIN ms
      /\ \A i \in DOMAIN ms :
           /\ new[i].run = ms[i].run /\ new[i].text = ms[i].text
           /\ new[i].card = IF i \in DOMAIN ms THEN None ELSE ms[i].card
  BY <1>1, CutCards, SMTT(30)
<1>. QED BY <1>2 DEF new

\* A turn appends its draft and leaves the others alone.
LEMMA AppendFacts ==
  ASSUME NEW ms \in Seq(Draft), NEW d \in Draft
  PROVE  /\ Append(ms, d) \in Seq(Draft) /\ Append(ms, d) # <<>>
         /\ Len(Append(ms, d)) = Len(ms) + 1
         /\ DOMAIN Append(ms, d) = DOMAIN ms \cup {Len(ms) + 1}
         /\ \A i \in DOMAIN ms : Append(ms, d)[i] = ms[i]
         /\ Append(ms, d)[Len(ms) + 1] = d
OBVIOUS

\* A frame writes the text or the card of the last draft, nothing else.
LEMMA LastFacts ==
  ASSUME NEW ms \in Seq(Draft), NEW f \in {"text", "card"}, NEW v,
         f = "text" => v \in Request, f = "card" => v \in Approval
  PROVE  /\ Last(ms, f, v) \in Seq(Draft) /\ Len(Last(ms, f, v)) = Len(ms)
         /\ DOMAIN Last(ms, f, v) = DOMAIN ms
         /\ \A i \in DOMAIN ms :
              /\ Last(ms, f, v)[i].run = ms[i].run
              /\ Last(ms, f, v)[i].text =
                   IF i = Len(ms) /\ f = "text" THEN v ELSE ms[i].text
              /\ Last(ms, f, v)[i].card =
                   IF i = Len(ms) /\ f = "card" THEN v ELSE ms[i].card
<1>. DEFINE new == Last(ms, f, v)
<1>1. CASE ms = <<>>
  BY <1>1 DEF Last
<1>2. CASE ms # <<>> /\ f = "text"
  <2>1. new = [ms EXCEPT ![Len(ms)].text = v]
    BY <1>2 DEF Last
  <2>. HIDE DEF new
  <2>2. new \in [1 .. Len(ms) -> Draft]
    BY <1>2, <2>1, TranscriptFacts DEF Draft
  <2>3. /\ new \in Seq(Draft) /\ Len(new) = Len(ms)
        /\ DOMAIN new = DOMAIN ms
    BY <2>2, FunctionIsSequence, TranscriptFacts
  <2>4. ASSUME NEW i \in DOMAIN ms
        PROVE  /\ new[i].run = ms[i].run
               /\ new[i].text = IF i = Len(ms) THEN v ELSE ms[i].text
               /\ new[i].card = ms[i].card
    BY <2>1, TranscriptFacts DEF Draft
  <2>. QED BY <1>2, <2>3, <2>4 DEF new
<1>3. CASE ms # <<>> /\ f = "card"
  <2>1. new = [ms EXCEPT ![Len(ms)].card = v]
    BY <1>3 DEF Last
  <2>. HIDE DEF new
  <2>2. new \in [1 .. Len(ms) -> Draft]
    BY <1>3, <2>1, TranscriptFacts DEF Draft
  <2>3. /\ new \in Seq(Draft) /\ Len(new) = Len(ms)
        /\ DOMAIN new = DOMAIN ms
    BY <2>2, FunctionIsSequence, TranscriptFacts
  <2>4. ASSUME NEW i \in DOMAIN ms
        PROVE  /\ new[i].run = ms[i].run
               /\ new[i].text = ms[i].text
               /\ new[i].card = IF i = Len(ms) THEN v ELSE ms[i].card
    BY <2>1, TranscriptFacts DEF Draft
  <2>. QED BY <1>3, <2>3, <2>4 DEF new
<1>. QED BY <1>1, <1>2, <1>3

-----------------------------------------------------------------------------
(* Type correctness.  A request that the server may still serve, and one   *)
(* that has been cancelled, was sent to a thread: without that the server's *)
(* steps could not be typed.                                               *)

Addressed ==
  \A r \in Request :
    r \in aborted \/ InFlight(r) \/ srv[r] # "none" => th[r] \in Threads

TypeInv == TypeOK /\ Addressed

\* A draft without answer is a draft.
LEMMA NewDraftType ==
  ASSUME NEW r \in Request
  PROVE  NewDraft(r) \in Draft /\ NewDraft(r).run = r
         /\ NewDraft(r).text = None /\ NewDraft(r).card = None
BY DEF NewDraft, Draft

\* Sending a request keeps the types of what it changes.
LEMMA BeginType ==
  ASSUME NEW r \in Request, NEW d \in Doc \cup {None},
         pc[r] \in {"new", "validating"}, TypeInv, Begin(r, d),
         UNCHANGED <<screen, server, srv>>
  PROVE  /\ current' \in {q \in Request : InFlight(q)'} \cup {None}
         /\ aborted' \subseteq Request /\ loading' \in BOOLEAN
         /\ pc' \in [Request -> {"new", "validating", "sent", "refusing",
                                 "streaming", "closed"}]
         /\ doc' \in [Request -> Doc \cup {None}]
         /\ th' \in [Request -> Threads \cup {None}]
         /\ Addressed'
<1>. USE DEF TypeInv, TypeOK, Begin, InFlight, Threads
<1>1. th' \in [Request -> Threads \cup {None}] /\ th'[r] \in Threads
  OBVIOUS
<1>2. pc' \in [Request -> {"new", "validating", "sent", "refusing",
                           "streaming", "closed"}]
      /\ pc'[r] = "sent"
  OBVIOUS
<1>3. Addressed'
  BY <1>1 DEF Addressed, Cancelled, screen
<1>. QED BY <1>1, <1>2, <1>3 DEF Cancelled

\* The end of a stream keeps the types.
LEMMA CloseType ==
  ASSUME NEW r \in Request, TypeInv, Close(r), msgs' \in Seq(Draft)
  PROVE  TypeInv'
<1>. USE DEF TypeInv, TypeOK, Close, Forgotten, Ended, InFlight, screen,
             server, Threads
<1>1. pc' \in [Request -> {"new", "validating", "sent", "refusing",
                           "streaming", "closed"}]
      /\ \A q \in Request : pc'[q] = IF q = r THEN "closed" ELSE pc[q]
  OBVIOUS
<1>2. current' \in {q \in Request : InFlight(q)'} \cup {None}
  BY <1>1
<1>3. Addressed'
  BY <1>1 DEF Addressed
<1>. QED BY <1>1, <1>2, <1>3

\* A step of the server keeps the types when its own three variables keep
\* theirs.
LEMMA ServerType ==
  ASSUME NEW r \in Request, TypeInv, UNCHANGED <<client, screen>>,
         NEW s \in {"refused", "running", "final", "error", "paused", "empty",
                    "cut"},
         srv' = [srv EXCEPT ![r] = s], th[r] \in Threads,
         parked' \in [Threads -> Approval \cup {None}],
         lost' \subseteq Threads,
         analysis' \in [Doc -> Request \cup {None}]
  PROVE  TypeInv'
<1>. USE DEF TypeInv, TypeOK, client, screen, Threads, InFlight
<1>1. srv' \in [Request -> {"none", "refused", "running", "final", "error",
                            "paused", "empty", "cut"}]
  OBVIOUS
<1>2. \A q \in Request : q # r => srv'[q] = srv[q]
  OBVIOUS
<1>3. Addressed'
  BY <1>2 DEF Addressed
<1>. QED BY <1>1, <1>3

\* The run an answer belongs to is a run.
LEMMA RunOfType ==
  ASSUME NEW r \in Request, TypeInv, Continues(r), th[r] \in Threads
  PROVE  RunOf(r) \in Request /\ [id |-> r, run |-> RunOf(r)] \in Approval
BY DEF TypeInv, TypeOK, Continues, RunOf, Approval

\* Parking an approval, or dropping it, keeps the type of the memory.
LEMMA ParkType ==
  ASSUME NEW r \in Request, TypeInv, th[r] \in Threads,
         NEW a \in Approval \cup {None}
  PROVE  /\ [parked EXCEPT ![th[r]] = a] \in [Threads -> Approval \cup {None}]
         /\ [parked EXCEPT ![th[r]] = a][th[r]] = a
         /\ \A t \in Threads :
              t # th[r] => [parked EXCEPT ![th[r]] = a][t] = parked[t]
BY DEF TypeInv, TypeOK

LEMMA ServerSteps ==
  ASSUME NEW r \in Request, TypeInv, Server(r)
  PROVE  TypeInv'
<1>1. CASE Refuse(r)
  BY <1>1, ServerType
  DEF Refuse, TypeInv, TypeOK, Addressed, InFlight, server
<1>2. CASE Accept(r)
  <2>1. th[r] \in Threads
    BY <1>2 DEF Accept, TypeInv, Addressed, InFlight
  <2>2. parked' \in [Threads -> Approval \cup {None}] /\ lost' \subseteq Threads
    BY <1>2, <2>1, ParkType DEF Accept, TypeInv, TypeOK
  <2>. QED BY <1>2, <2>1, <2>2, ServerType DEF Accept, TypeInv, TypeOK
<1>3. CASE srv[r] = "running"
  <2>1. th[r] \in Threads
    BY <1>3 DEF TypeInv, Addressed
  <2>2. CASE Final(r)
    <3>1. analysis' \in [Doc -> Request \cup {None}]
      BY <2>1, <2>2, RunOfType DEF Final, TypeInv, TypeOK
    <3>. QED
      BY <2>1, <2>2, <3>1, ParkType, ServerType DEF Final, TypeInv, TypeOK
  <2>3. CASE Answered(r)
    BY <2>1, <2>3, ServerType DEF Answered, TypeInv, TypeOK, server
  <2>4. CASE Pause(r)
    BY <2>1, <2>4, RunOfType, ParkType, ServerType
    DEF Pause, TypeInv, TypeOK
  <2>5. CASE Error(r)
    <3>1. PICK a \in {None, parked[th[r]]} :
            parked' = [parked EXCEPT ![th[r]] = a]
      BY <2>5 DEF Error
    <3>2. a \in Approval \cup {None}
      BY <2>1 DEF TypeInv, TypeOK
    <3>. QED
      BY <2>1, <2>5, <3>1, <3>2, ParkType, ServerType
      DEF Error, TypeInv, TypeOK
  <2>6. CASE Nothing(r)
    BY <2>1, <2>6, ServerType DEF Nothing, TypeInv, TypeOK, server
  <2>7. CASE CutOff(r)
    <3>1. parked' \in [Threads -> Approval \cup {None}]
      BY <2>1, <2>7, RunOfType, ParkType DEF CutOff, TypeInv, TypeOK
    <3>. QED BY <2>1, <2>7, <3>1, ServerType DEF CutOff, TypeInv, TypeOK
  <2>. QED
    BY <1>3, <2>2, <2>3, <2>4, <2>5, <2>6, <2>7
    DEF Server, Refuse, Accept
<1>. QED
  BY <1>1, <1>2, <1>3
  DEF Server, Final, Answered, Pause, Error, Nothing, CutOff

\* Every step keeps the types.
LEMMA NextType == TypeInv /\ [Next]_vars => TypeInv'
<1>. SUFFICES ASSUME TypeInv, [Next]_vars PROVE TypeInv'
  OBVIOUS
<1>1. ASSUME NEW r \in Request, Submit(r) \/ Invalid(r) \/ Response(r)
      PROVE  TypeInv'
  <2>1. \E p \in {"validating", "closed", "refusing", "streaming"} :
          /\ pc' = [pc EXCEPT ![r] = p]
          /\ InFlight(r)' = InFlight(r)
    BY <1>1 DEF Submit, Invalid, Response, InFlight, TypeInv, TypeOK
  <2>2. UNCHANGED <<msgs, loading, current, aborted, run, reply, doc, th,
                    analysing, screen, server, srv>>
    BY <1>1 DEF Submit, Invalid, Response
  <2>3. \A q \in Request : InFlight(q)' = InFlight(q)
    BY <2>1 DEF InFlight, TypeInv, TypeOK
  <2>4. Addressed'
    BY <2>2, <2>3 DEF Addressed, TypeInv, Threads
  <2>5. pc' \in [Request -> {"new", "validating", "sent", "refusing",
                             "streaming", "closed"}]
    BY <2>1 DEF TypeInv, TypeOK
  <2>6. current' \in {q \in Request : InFlight(q)'} \cup {None}
    BY <2>2, <2>3 DEF TypeInv, TypeOK
  <2>. QED
    BY <2>2, <2>4, <2>5, <2>6 DEF TypeInv, TypeOK, screen, server, Threads
<1>2. ASSUME NEW r \in Request, Send(r) PROVE TypeInv'
  <2>1. msgs' \in Seq(Draft)
    BY <1>2, WithoutCardsFacts, NewDraftType, AppendFacts
    DEF Send, TypeInv, TypeOK
  <2>. QED
    BY <1>2, <2>1, BeginType
    DEF Send, TypeInv, TypeOK, ForMessage, screen, server, Threads
<1>3. ASSUME NEW r \in Request, NEW d \in Doc, Analyse(r, d) PROVE TypeInv'
  <2>1. msgs' \in Seq(Draft)
    BY <1>3, NewDraftType, AppendFacts DEF Analyse, TypeInv, TypeOK
  <2>. QED
    BY <1>3, <2>1, BeginType
    DEF Analyse, TypeInv, TypeOK, screen, server, Threads
<1>4. ASSUME NEW r \in Request, NEW i \in DOMAIN msgs, Respond(r, i)
      PROVE  TypeInv'
  <2>. DEFINE S == {j \in DOMAIN msgs :
                      msgs[j].card # None /\ msgs[j].card.id = msgs[i].card.id}
  <2>1. msgs' = [j \in DOMAIN msgs |->
                   IF j \in S THEN [msgs[j] EXCEPT !.card = None] ELSE msgs[j]]
    BY <1>4 DEF Respond
  <2>2. msgs \in Seq(Draft)
    BY DEF TypeInv, TypeOK
  <2>. HIDE DEF S
  <2>3. msgs' \in Seq(Draft)
    BY <2>1, <2>2, CutCards
  <2>4. msgs[i].card \in Approval
    BY <1>4, <2>2, TranscriptFacts DEF Respond, Draft
  <2>5. run' \in [Request -> Request] /\ reply' \in [Request -> Request \cup {None}]
    BY <1>4, <2>4 DEF Respond, TypeInv, TypeOK, Approval
  <2>6. analysing \in Doc \cup {None}
    BY DEF TypeInv, TypeOK
  <2>7. UNCHANGED <<analysing, screen, server, srv>> /\ Begin(r, analysing)
        /\ pc[r] \in {"new", "validating"}
    BY <1>4 DEF Respond
  <2>. QED
    BY <2>3, <2>5, <2>6, <2>7, BeginType
    DEF TypeInv, TypeOK, screen, server, Threads
<1>5. ASSUME NEW r \in Request, Server(r) PROVE TypeInv'
  BY <1>5, ServerSteps
<1>6. ASSUME NEW r \in Request, Abort(r) \/ ErrorBody(r) \/ Frames(r)
      PROVE  TypeInv'
  <2>1. Close(r)
    BY <1>6 DEF Abort, ErrorBody, Frames
  <2>2. CASE Abort(r)
    BY <2>1, <2>2, CloseType DEF Abort, TypeInv, TypeOK
  <2>3. CASE ErrorBody(r)
    BY <2>1, <2>3, LastFacts, CloseType
    DEF ErrorBody, Refused, TypeInv, TypeOK
  <2>4. CASE Frames(r)
    <3>1. parked[th[r]] \in Approval \cup {None}
      BY <2>4 DEF Frames, TypeInv, TypeOK, Addressed
    <3>2. Painted(r) \in Seq(Draft)
      BY <3>1, LastFacts DEF Painted, TypeInv, TypeOK
    <3>. QED BY <2>1, <2>4, <3>2, CloseType DEF Frames
  <2>. QED BY <1>6, <2>2, <2>3, <2>4
<1>7. CASE Choose
  <2>1. ASSUME NEW ms \in Seq(Draft), Replace(ms), thread' \in Threads,
               page' = page, unused' \subseteq Unsaved, opening' \subseteq Saved,
               opened' \in 0 .. Opens
        PROVE  TypeInv'
    BY <2>1
    DEF Replace, Cancelled, TypeInv, TypeOK, Addressed, InFlight, server,
        Threads
  <2>2. <<SavedDraft>> \in Seq(Draft) /\ <<>> \in Seq(Draft)
    BY DEF SavedDraft, Draft
  <2>3. CASE NewChat
    BY <2>1, <2>2, <2>3 DEF NewChat, TypeInv, TypeOK, Threads
  <2>4. ASSUME NEW t \in Saved, OpenChat(t) PROVE TypeInv'
    BY <2>4, SurfaceAssumption
    DEF OpenChat, TypeInv, TypeOK, Addressed, InFlight, client, server,
        Threads
  <2>5. ASSUME NEW t \in Saved, Loaded(t) \/ NotLoaded(t) PROVE TypeInv'
    BY <2>1, <2>2, <2>5 DEF Loaded, NotLoaded, TypeInv, TypeOK
  <2>. QED BY <1>7, <2>3, <2>4, <2>5 DEF Choose
<1>8. CASE UNCHANGED vars
  BY <1>8
  DEF vars, client, screen, server, TypeInv, TypeOK, Addressed, InFlight,
      Threads
<1>. QED
  BY <1>1, <1>2, <1>3, <1>4, <1>5, <1>6, <1>7, <1>8
  DEF Next, User, Client

\* The first state has its type.
LEMMA InitType == Init => TypeInv
<1>. SUFFICES ASSUME Init PROVE TypeInv
  OBVIOUS
<1>. USE DEF Init
<1>1. page \in Page /\ msgs \in Seq(Draft) /\ loading \in BOOLEAN
      /\ current = None /\ aborted = {}
  <2>1. msgs = <<>> /\ loading = FALSE
    OBVIOUS
  <2>2. msgs \in Seq(Draft)
    BY <2>1, EmptySeq
  <2>. QED BY <2>1, <2>2
<1>2. opening = {} /\ opened \in 0 .. Opens
  BY SurfaceAssumption
<1>3. thread \in Threads /\ unused \subseteq Unsaved
      /\ parked \in [Threads -> Approval \cup {None}] /\ lost = {}
  BY DEF Threads
<1>4. TypeOK
  BY <1>1, <1>2, <1>3 DEF TypeOK
<1>5. Addressed
  BY DEF Addressed, InFlight
<1>. QED BY <1>4, <1>5 DEF TypeInv

\* Every state of the surface has the type TypeOK gives it, whoever acts when:
\* the lock of the buttons and the abort of the request in flight are enough
\* for abortRef never to name a request that is over (useChat.ts).
THEOREM TypeCorrect == Spec => []TypeOK
<1>1. TypeInv => TypeOK
  BY DEF TypeInv
<1>. QED BY <1>1, InitType, NextType, PTL DEF Spec

-----------------------------------------------------------------------------
(* Whose run it is.  A request that answers an approval belongs to the run  *)
(* that stopped at it, and every approval, on the screen or in the memory   *)
(* of the server, names the run of the request that stopped there.  This    *)
(* holds however the user, the network and the server interleave.           *)

\* The request has been sent, or its text was refused.
Started(r) == pc[r] \notin {"new", "validating"}

Fresh ==
  \A r \in Request :
    ~Started(r) => reply[r] = None /\ srv[r] = "none" /\ r \notin aborted

Runs ==
  \A r \in Request :
    /\ reply[r] = None => run[r] = r
    /\ reply[r] # None => run[r] = run[reply[r]] /\ Started(reply[r])
    /\ Started(r) => Started(run[r])

Genuine(a) ==
  a # None => a.run = run[a.id] /\ Started(a.id) /\ Started(a.run)

Approvals ==
  /\ \A t \in Threads : Genuine(parked[t])
  /\ \A i \in DOMAIN msgs : Genuine(msgs[i].card)

RunInv == Fresh /\ Runs /\ Approvals

\* What a step does to runs and approvals: a request is given its run when
\* it is sent, the memory keeps or drops an approval or takes that of a
\* request it serves, the screen shows approvals it had or the memory has.
KeepsRuns ==
  /\ \A q \in Request : Started(q) =>
       Started(q)' /\ run'[q] = run[q] /\ reply'[q] = reply[q]
  /\ \A q \in Request : ~Started(q)' =>
       /\ run'[q] = run[q] /\ reply'[q] = reply[q] /\ srv'[q] = srv[q]
       /\ q \in aborted' => q \in aborted \/ q = current
  /\ \A q \in Request : ~Started(q) =>
       \/ run'[q] = run[q] /\ reply'[q] = reply[q]
       \/ \E i \in DOMAIN msgs :
            /\ msgs[i].card # None
            /\ run'[q] = msgs[i].card.run /\ reply'[q] = msgs[i].card.id

ParksOwn ==
  \A t \in Threads :
    \/ parked'[t] \in {None, parked[t]}
    \/ \E r \in Request :
         /\ srv[r] = "running" /\ th[r] = t /\ Continues(r)
         /\ parked'[t] = [id |-> r, run |-> RunOf(r)]

ShowsOwn ==
  \A i \in DOMAIN msgs' :
    \/ msgs'[i].card = None
    \/ \E j \in DOMAIN msgs : msgs'[i].card = msgs[j].card
    \/ \E t \in Threads : msgs'[i].card = parked[t]

\* An answer that continues a run belongs to the run of its request.
LEMMA RunOfOwn ==
  ASSUME NEW r \in Request, TypeInv, RunInv, srv[r] = "running",
         Continues(r)
  PROVE  RunOf(r) = run[r] /\ Started(r) /\ Started(run[r])
<1>1. th[r] \in Threads
  BY DEF TypeInv, Addressed
<1>2. Started(r) /\ Started(run[r])
  BY DEF RunInv, Fresh, Runs
<1>3. Genuine(parked[th[r]])
  BY <1>1 DEF RunInv, Approvals
<1>. QED
  BY <1>2, <1>3 DEF RunInv, Runs, Continues, RunOf, Genuine

LEMMA NextKeepsRuns ==
  ASSUME TypeInv, RunInv, Next
  PROVE  KeepsRuns /\ ParksOwn /\ ShowsOwn
<1>. USE DEF TypeInv, TypeOK
<1>1. ASSUME NEW r \in Request, Server(r)
      PROVE  KeepsRuns /\ ParksOwn /\ ShowsOwn
  <2>1. UNCHANGED <<client, screen>>
    BY <1>1
    DEF Server, Refuse, Accept, Final, Answered, Pause, Error, Nothing, CutOff
  <2>2. Started(r) /\ \A q \in Request : q # r => srv'[q] = srv[q]
    BY <1>1
    DEF Server, Refuse, Accept, Final, Answered, Pause, Error, Nothing, CutOff,
        Started, RunInv, Fresh
  <2>3. KeepsRuns /\ ShowsOwn
    BY <2>1, <2>2 DEF KeepsRuns, ShowsOwn, client, Started
  <2>4. ParksOwn
    BY <1>1
    DEF Server, Refuse, Accept, Final, Answered, Pause, Error, Nothing, CutOff,
        ParksOwn, server
  <2>. QED BY <2>3, <2>4
<1>2. ASSUME NEW r \in Request, Submit(r) \/ Invalid(r) \/ Response(r)
      PROVE  KeepsRuns /\ ParksOwn /\ ShowsOwn
  <2>1. UNCHANGED <<run, reply, srv, aborted, msgs, parked>>
    BY <1>2 DEF Submit, Invalid, Response, server
  <2>2. \A q \in Request : Started(q) => Started(q)'
    BY <1>2 DEF Submit, Invalid, Response, Started
  <2>. QED BY <2>1, <2>2 DEF KeepsRuns, ParksOwn, ShowsOwn
<1>3. ASSUME NEW r \in Request,
             Send(r) \/ (\E d \in Doc : Analyse(r, d))
               \/ \E i \in DOMAIN msgs : Respond(r, i)
      PROVE  KeepsRuns /\ ParksOwn /\ ShowsOwn
  <2>1. /\ ~Started(r) /\ pc' = [pc EXCEPT ![r] = "sent"]
        /\ aborted' = Cancelled
        /\ UNCHANGED <<server, srv>>
    BY <1>3 DEF Send, Analyse, Respond, Begin, Started
  <2>2. \A q \in Request : Started(q)' <=> (Started(q) \/ q = r)
    BY <2>1 DEF Started
  <2>3. \/ UNCHANGED <<run, reply>>
        \/ \E i \in DOMAIN msgs :
             /\ msgs[i].card # None
             /\ run' = [run EXCEPT ![r] = msgs[i].card.run]
             /\ reply' = [reply EXCEPT ![r] = msgs[i].card.id]
    BY <1>3 DEF Send, Analyse, Respond
  <2>4. KeepsRuns
    <3>1. \A q \in Request : Started(q) =>
            Started(q)' /\ run'[q] = run[q] /\ reply'[q] = reply[q]
      BY <2>1, <2>2, <2>3
    <3>2. \A q \in Request : ~Started(q)' =>
            /\ run'[q] = run[q] /\ reply'[q] = reply[q] /\ srv'[q] = srv[q]
            /\ q \in aborted' => q \in aborted \/ q = current
      BY <2>1, <2>2, <2>3 DEF Cancelled
    <3>3. \A q \in Request : ~Started(q) =>
            \/ run'[q] = run[q] /\ reply'[q] = reply[q]
            \/ \E i \in DOMAIN msgs :
                 /\ msgs[i].card # None
                 /\ run'[q] = msgs[i].card.run /\ reply'[q] = msgs[i].card.id
      BY <2>3
    <3>. QED BY <3>1, <3>2, <3>3 DEF KeepsRuns
  <2>5. ParksOwn
    BY <2>1 DEF ParksOwn, server
  <2>6. ShowsOwn
    <3>1. CASE Send(r)
      BY <3>1, WithoutCardsFacts, NewDraftType, AppendFacts DEF Send, ShowsOwn
    <3>2. CASE \E d \in Doc : Analyse(r, d)
      BY <3>2, NewDraftType, AppendFacts DEF Analyse, ShowsOwn
    <3>3. ASSUME NEW i \in DOMAIN msgs, Respond(r, i) PROVE ShowsOwn
      BY <3>3, TranscriptFacts DEF Respond, ShowsOwn, Draft
    <3>. QED BY <1>3, <3>1, <3>2, <3>3
  <2>. QED BY <2>4, <2>5, <2>6
<1>4. ASSUME NEW r \in Request, Abort(r) \/ ErrorBody(r) \/ Frames(r)
      PROVE  KeepsRuns /\ ParksOwn /\ ShowsOwn
  <2>1. /\ Started(r) /\ pc' = [pc EXCEPT ![r] = "closed"]
        /\ UNCHANGED <<run, reply, srv, aborted, parked>>
    BY <1>4 DEF Abort, ErrorBody, Frames, Close, Started, server
  <2>2. KeepsRuns /\ ParksOwn
    BY <2>1 DEF KeepsRuns, ParksOwn, Started
  <2>3. ShowsOwn
    <3>1. CASE Abort(r)
      BY <3>1 DEF Abort, ShowsOwn
    <3>2. CASE ErrorBody(r)
      BY <3>2, LastFacts DEF ErrorBody, Refused, ShowsOwn
    <3>3. CASE Frames(r)
      <4>1. th[r] \in Threads /\ parked[th[r]] \in Approval \cup {None}
        BY <3>3 DEF Frames, Addressed
      <4>2. \/ msgs' = msgs \/ msgs' = Last(msgs, "text", r)
            \/ parked[th[r]] # None /\ msgs' = Last(msgs, "card", parked[th[r]])
        BY <3>3 DEF Frames, Painted
      <4>. QED BY <4>1, <4>2, LastFacts DEF ShowsOwn
    <3>. QED BY <1>4, <3>1, <3>2, <3>3
  <2>. QED BY <2>2, <2>3
<1>5. CASE Choose
  <2>1. /\ UNCHANGED <<run, reply, srv, pc, parked>>
        /\ aborted' \subseteq Cancelled
    BY <1>5
    DEF Choose, NewChat, OpenChat, Loaded, NotLoaded, Replace, Cancelled,
        client, server
  <2>2. msgs' = msgs \/ msgs' = <<>> \/ msgs' = <<SavedDraft>>
    BY <1>5
    DEF Choose, NewChat, OpenChat, Loaded, NotLoaded, Replace, client
  <2>3. KeepsRuns /\ ParksOwn
    BY <2>1 DEF KeepsRuns, ParksOwn, Started, Cancelled
  <2>4. ShowsOwn
    BY <2>2 DEF ShowsOwn, SavedDraft
  <2>. QED BY <2>3, <2>4
<1>. QED BY <1>1, <1>2, <1>3, <1>4, <1>5 DEF Next, User, Client

LEMMA NextRun ==
  ASSUME TypeInv, TypeInv', RunInv, [Next]_vars
  PROVE  RunInv'
<1>. USE DEF TypeInv, TypeOK
<1>1. CASE Next
  <2>1. KeepsRuns /\ ParksOwn /\ ShowsOwn
    BY <1>1, NextKeepsRuns
  <2>2. ASSUME NEW a \in Approval \cup {None}, Genuine(a)
        PROVE  a # None => /\ a.id \in Request /\ a.run \in Request
                           /\ a.run = run'[a.id]
                           /\ Started(a.id)' /\ Started(a.run)'
    BY <2>1, <2>2 DEF KeepsRuns, Genuine, Approval
  <2>3. Fresh'
    <3>1. SUFFICES ASSUME NEW r \in Request, ~Started(r)'
                   PROVE  reply'[r] = None /\ srv'[r] = "none" /\ r \notin aborted'
      BY DEF Fresh
    <3>2. ~Started(r) /\ r # current
      BY <2>1, <3>1, SurfaceAssumption DEF KeepsRuns, Started, InFlight
    <3>3. reply[r] = None /\ srv[r] = "none" /\ r \notin aborted
      BY <3>2 DEF RunInv, Fresh
    <3>. QED BY <2>1, <3>1, <3>2, <3>3 DEF KeepsRuns
  <2>4. Runs'
    <3>1. ASSUME NEW r \in Request
          PROVE  /\ reply'[r] = None => run'[r] = r
                 /\ reply'[r] # None => run'[r] = run'[reply'[r]]
                                        /\ pc'[reply'[r]] \notin {"new", "validating"}
                 /\ Started(r)' => pc'[run'[r]] \notin {"new", "validating"}
      <4>1. CASE run'[r] = run[r] /\ reply'[r] = reply[r]
        <5>1. \A q \in Request : Started(q) => Started(q)' /\ run'[q] = run[q]
          BY <2>1 DEF KeepsRuns
        <5>2. Started(r) \/ run[r] = r
          BY DEF RunInv, Fresh, Runs
        <5>. QED BY <4>1, <5>1, <5>2 DEF RunInv, Runs, Started
      <4>2. CASE ~(run'[r] = run[r] /\ reply'[r] = reply[r])
        <5>1. ~Started(r)
          BY <2>1, <4>2 DEF KeepsRuns
        <5>2. PICK i \in DOMAIN msgs :
                /\ msgs[i].card # None
                /\ run'[r] = msgs[i].card.run /\ reply'[r] = msgs[i].card.id
          BY <2>1, <4>2, <5>1 DEF KeepsRuns
        <5>3. PICK a \in Approval : a = msgs[i].card /\ Genuine(a)
          BY <5>2, TranscriptFacts DEF Draft, RunInv, Approvals
        <5>4. a # None /\ run'[r] = a.run /\ reply'[r] = a.id
          BY <5>2, <5>3
        <5>5. /\ a.id \in Request /\ a.run \in Request
              /\ a.run = run'[a.id] /\ Started(a.id)' /\ Started(a.run)'
          BY <2>2, <5>3, <5>4
        <5>. QED BY <5>4, <5>5, SurfaceAssumption DEF Started
      <4>. QED BY <4>1, <4>2
    <3>. QED BY <3>1 DEF Runs, Started
  <2>5. Approvals'
    <3>1. ASSUME NEW t \in Threads PROVE Genuine(parked[t])'
      <4>1. CASE parked'[t] \in {None, parked[t]}
        <5>1. Genuine(parked[t]) /\ parked[t] \in Approval \cup {None}
          BY DEF RunInv, Approvals
        <5>. QED BY <2>2, <4>1, <5>1 DEF Genuine, Started
      <4>2. CASE parked'[t] \notin {None, parked[t]}
        <5>1. PICK r \in Request :
                /\ srv[r] = "running" /\ th[r] = t /\ Continues(r)
                /\ parked'[t] = [id |-> r, run |-> RunOf(r)]
          BY <2>1, <4>2 DEF ParksOwn
        <5>2. RunOf(r) = run[r] /\ Started(r) /\ Started(run[r])
          BY <5>1, RunOfOwn
        <5>3. run'[r] = run[r] /\ Started(r)' /\ pc'[run[r]] \notin {"new", "validating"}
          BY <2>1, <5>2 DEF KeepsRuns, Started
        <5>. QED BY <5>1, <5>2, <5>3 DEF Genuine, Started
      <4>. QED BY <4>1, <4>2
    <3>2. ASSUME NEW i \in DOMAIN msgs' PROVE Genuine(msgs[i].card)'
      <4>1. \E a \in Approval \cup {None} : Genuine(a) /\ msgs'[i].card = a
        <5>1. \A j \in DOMAIN msgs : msgs[j].card \in Approval \cup {None}
                                     /\ Genuine(msgs[j].card)
          BY TranscriptFacts DEF Draft, RunInv, Approvals
        <5>2. \A t \in Threads : parked[t] \in Approval \cup {None}
                                 /\ Genuine(parked[t])
          BY DEF RunInv, Approvals
        <5>3. Genuine(None)
          BY DEF Genuine
        <5>. QED BY <2>1, <5>1, <5>2, <5>3 DEF ShowsOwn
      <4>. QED BY <2>2, <4>1 DEF Genuine, Started
    <3>. QED BY <3>1, <3>2 DEF Approvals
  <2>. QED BY <2>3, <2>4, <2>5 DEF RunInv
<1>2. CASE UNCHANGED vars
  BY <1>2
  DEF vars, client, screen, server, RunInv, Fresh, Runs, Approvals, Genuine,
      Started
<1>. QED BY <1>1, <1>2

\* In the first state no request has been sent and nothing is parked.
LEMMA InitRun == Init => TypeInv /\ RunInv
<1>. SUFFICES ASSUME Init PROVE TypeInv /\ RunInv
  OBVIOUS
<1>1. TypeInv
  BY InitType
<1>2. Fresh /\ Runs
  BY DEF Init, Fresh, Runs, Started
<1>3. Approvals
  BY DEF Init, Approvals, Genuine
<1>. QED BY <1>1, <1>2, <1>3 DEF RunInv

\* Requests and approvals keep the run they belong to, whoever acts when.
THEOREM RunInvariant == Spec => [](TypeInv /\ RunInv)
<1>1. TypeInv /\ RunInv /\ [Next]_vars => TypeInv' /\ RunInv'
  BY NextType, NextRun
<1>. QED BY <1>1, InitRun, PTL DEF Spec

-----------------------------------------------------------------------------
(* One stream at a time.  From here on the user is patient: nobody acts     *)
(* while a text is being validated, which is what the lock of the buttons   *)
(* is meant to say.                                                         *)

OneStream ==
  /\ loading <=> current # None
  /\ \A r \in Request : InFlight(r) => r = current
  /\ \A r \in Request : pc[r] = "validating" => current = None
  /\ \A r, q \in Request :
       pc[r] = "validating" /\ pc[q] = "validating" => r = q

Served ==
  \A r \in Request :
    /\ srv[r] = "running" => r = current \/ r \in aborted
    /\ pc[r] = "refusing" => srv[r] = "refused"
    /\ pc[r] = "streaming" => srv[r] \notin {"none", "refused"}

FlowInv == TypeInv /\ RunInv /\ OneStream /\ Served

Starts(r) ==
  \/ Send(r) \/ \E d \in Doc : Analyse(r, d)
  \/ \E i \in DOMAIN msgs : Respond(r, i)

Closes(r) == Abort(r) \/ ErrorBody(r) \/ Frames(r)

\* A request starts when no other is in flight, and cancels none.
LEMMA StartFacts ==
  ASSUME NEW r \in Request, FlowInv, Eager = FALSE, Starts(r)
  PROVE  /\ current = None /\ ~loading /\ current' = r /\ loading'
         /\ aborted' = aborted /\ r \notin aborted
         /\ ~Started(r) /\ srv[r] = "none" /\ reply[r] = None /\ run[r] = r
         /\ pc' = [pc EXCEPT ![r] = "sent"] /\ th' = [th EXCEPT ![r] = thread]
         /\ \A q \in Request : ~InFlight(q)
         /\ \A q \in Request : q # r => pc[q] # "validating"
         /\ \A q \in Request : q # r => doc'[q] = doc[q]
         /\ UNCHANGED <<screen, server, srv>>
<1>. USE DEF FlowInv, OneStream
<1>1. Begin(r, doc'[r]) /\ UNCHANGED <<screen, server, srv>>
      /\ pc[r] \in {"new", "validating"}
  BY DEF Starts, Send, Analyse, Respond, Begin, TypeInv, TypeOK
<1>2. /\ current = None
      /\ \A q \in Request : q # r => pc[q] # "validating"
  <2>1. CASE Send(r)
    BY <2>1 DEF Send
  <2>2. CASE ~Send(r)
    BY <2>2 DEF Starts, Analyse, Respond, Unlocked
  <2>. QED BY <2>1, <2>2
<1>3. \A q \in Request : ~InFlight(q)
  BY <1>2, SurfaceAssumption
<1>4. ~Started(r) /\ srv[r] = "none" /\ reply[r] = None /\ run[r] = r
      /\ r \notin aborted
  BY <1>1 DEF Started, RunInv, Fresh, Runs
<1>5. \A q \in Request : q # r => doc'[q] = doc[q]
  BY <1>1 DEF Begin, TypeInv, TypeOK
<1>. QED BY <1>1, <1>2, <1>3, <1>4, <1>5 DEF Begin, Cancelled

\* A stream that ends is the one in flight.
LEMMA CloseFacts ==
  ASSUME NEW r \in Request, FlowInv, Closes(r)
  PROVE  /\ r = current /\ loading /\ current' = None /\ ~loading'
         /\ pc' = [pc EXCEPT ![r] = "closed"]
         /\ srv[r] # "running" \/ r \in aborted
         /\ UNCHANGED <<aborted, run, reply, doc, th, analysing, screen,
                        server, srv>>
<1>1. InFlight(r) /\ Close(r)
  BY DEF Closes, Abort, ErrorBody, Frames, InFlight
<1>2. r = current /\ loading
  BY <1>1, SurfaceAssumption DEF FlowInv, OneStream
<1>3. srv[r] # "running" \/ r \in aborted
  BY DEF Closes, Abort, ErrorBody, Frames, FlowInv, Served
<1>. QED BY <1>1, <1>2, <1>3 DEF Close, Forgotten, Ended

\* The server answers the request in flight or a cancelled one, and parks
\* nothing on another thread.
LEMMA ServerFacts ==
  ASSUME NEW r \in Request, FlowInv, Server(r)
  PROVE  /\ UNCHANGED <<client, screen>>
         /\ r = current \/ r \in aborted
         /\ th[r] \in Threads
         /\ \A q \in Request : q # r => srv'[q] = srv[q]
         /\ \A t \in Threads : t # th[r] => parked'[t] = parked[t]
         /\ srv'[r] # "none"
         /\ srv'[r] = "running" => srv[r] = "none"
         /\ srv'[r] = "refused" => srv[r] = "none" /\ pc[r] = "sent"
         /\ srv[r] \in {"none", "running"}
         /\ pc[r] # "refusing"
<1>. USE DEF FlowInv, TypeInv, TypeOK
<1>1. UNCHANGED <<client, screen>> /\ srv[r] \in {"none", "running"}
  BY DEF Server, Refuse, Accept, Final, Answered, Pause, Error, Nothing, CutOff
<1>2. \E s \in {"refused", "running", "final", "error", "paused", "empty",
                "cut"} :
        /\ srv' = [srv EXCEPT ![r] = s]
        /\ s = "running" => srv[r] = "none"
        /\ s = "refused" => srv[r] = "none" /\ pc[r] = "sent"
  BY DEF Server, Refuse, Accept, Final, Answered, Pause, Error, Nothing, CutOff
<1>3. r = current \/ r \in aborted
  <2>1. CASE srv[r] = "running"
    BY <2>1 DEF Served
  <2>2. CASE srv[r] = "none"
    <3>1. pc[r] = "sent" \/ r \in aborted
      BY <2>2
      DEF Server, Refuse, Accept, Final, Answered, Pause, Error, Nothing,
          CutOff
    <3>. QED BY <3>1 DEF OneStream, InFlight
  <2>. QED BY <1>1, <2>1, <2>2
<1>4. th[r] \in Threads
  BY <1>3, SurfaceAssumption DEF Addressed
<1>5. \A t \in Threads : t # th[r] => parked'[t] = parked[t]
  BY <1>4
  DEF Server, Refuse, Accept, Final, Answered, Pause, Error, Nothing, CutOff,
      server
<1>6. pc[r] # "refusing"
  BY <1>1 DEF Served
<1>. QED BY <1>1, <1>2, <1>3, <1>4, <1>5, <1>6

\* Choosing a conversation leaves requests alone, except that it cancels.
LEMMA ChooseFacts ==
  ASSUME FlowInv, Choose
  PROVE  /\ page = "free"
         /\ aborted' \in {aborted, Cancelled}
         /\ UNCHANGED <<page, loading, current, pc, run, reply, doc, th,
                        analysing, server, srv>>
BY DEF Choose, NewChat, OpenChat, Loaded, NotLoaded, Replace, Cancelled, client

\* At most one request is in flight, and abortRef names it.
LEMMA NextFlow ==
  ASSUME FlowInv, Eager = FALSE, TypeInv', RunInv', [Next]_vars
  PROVE  FlowInv'
<1>. USE DEF FlowInv, TypeInv, TypeOK
<1>. SUFFICES OneStream' /\ Served'
  OBVIOUS
<1>1. ASSUME NEW r \in Request, Submit(r) \/ Invalid(r) \/ Response(r)
      PROVE  OneStream' /\ Served'
  <2>1. UNCHANGED <<loading, current, aborted, srv>>
    BY <1>1 DEF Submit, Invalid, Response
  <2>2. CASE Submit(r)
    <3>1. current = None /\ \A q \in Request : pc[q] # "validating"
      BY <2>2 DEF Submit, Unlocked, OneStream
    <3>2. pc' = [pc EXCEPT ![r] = "validating"]
      BY <2>2 DEF Submit
    <3>. QED BY <2>1, <3>1, <3>2 DEF OneStream, Served, InFlight
  <2>3. CASE Invalid(r)
    BY <2>1, <2>3 DEF Invalid, OneStream, Served, InFlight
  <2>4. CASE Response(r)
    BY <2>1, <2>4 DEF Response, OneStream, Served, InFlight
  <2>. QED BY <1>1, <2>2, <2>3, <2>4
<1>2. ASSUME NEW r \in Request, Starts(r) PROVE OneStream' /\ Served'
  <2>1. /\ current = None /\ current' = r /\ loading'
        /\ aborted' = aborted /\ srv' = srv /\ srv[r] = "none"
        /\ pc' = [pc EXCEPT ![r] = "sent"]
        /\ \A q \in Request : ~InFlight(q)
        /\ \A q \in Request : q # r => pc[q] # "validating"
    BY <1>2, StartFacts
  <2>. QED BY <2>1, SurfaceAssumption DEF OneStream, Served, InFlight
<1>3. ASSUME NEW r \in Request, Closes(r) PROVE OneStream' /\ Served'
  BY <1>3, CloseFacts, SurfaceAssumption DEF OneStream, Served, InFlight
<1>4. ASSUME NEW r \in Request, Server(r) PROVE OneStream' /\ Served'
  <2>1. UNCHANGED <<loading, current, pc, aborted>>
    BY <1>4, ServerFacts DEF client
  <2>2. OneStream'
    BY <2>1 DEF OneStream, InFlight
  <2>. QED BY <1>4, <2>1, <2>2, ServerFacts DEF Served
<1>5. CASE Choose
  BY <1>5, ChooseFacts DEF OneStream, Served, InFlight, Cancelled
<1>6. CASE UNCHANGED vars
  BY <1>6 DEF vars, client, OneStream, Served, InFlight
<1>. QED
  BY <1>1, <1>2, <1>3, <1>4, <1>5, <1>6
  DEF Next, User, Client, Starts, Closes

-----------------------------------------------------------------------------
(* The conversation on the screen.  A cancelled request belongs to a thread *)
(* the user has left; while a request is in flight the server's memory of   *)
(* the thread and the last draft stay together.                             *)

Patient == Eager = FALSE /\ Opens = 0

ThreadsApart ==
  /\ thread \notin unused
  /\ \A r \in Request : th[r] \notin unused
  /\ \A r \in aborted : th[r] # thread
  /\ current # None /\ current \notin aborted => th[current] = thread

AbortedBlank == current \in aborted => msgs = <<>>

PausedLive ==
  current # None /\ current \notin aborted /\ srv[current] = "paused" =>
    parked[thread] = [id |-> current, run |-> run[current]]

\* The request answers the approval its thread is stopped at, or none.
Answers(r) ==
  reply[r] = None \/ (parked[thread] # None /\ parked[thread].id = reply[r])

\* The last draft has its answer, or shows the approval the thread is stopped
\* at, or the request in flight will bring one of them: it has a frame for it,
\* or it answers a decision that is no longer pending while the card is of the
\* approval that is, or the run it belongs to still goes on.
Awaited(m) ==
  /\ current # None
  /\ \/ srv[current] \in {"final", "error", "refused", "paused"}
     \/ /\ reply[current] # None
        /\ m.card # None /\ parked[thread] = m.card
        /\ m.card.id # reply[current]
     \/ srv[current] \in {"none", "running"} /\ Answers(current)

Settled ==
  msgs # <<>> =>
    LET m == msgs[Len(msgs)]
    IN  \/ m.run = None \/ m.text # None
        \/ current = None /\ m.card # None /\ parked[thread] = m.card
        \/ Awaited(m)

ApartInv == opening = {} /\ ThreadsApart /\ AbortedBlank /\ PausedLive

ChatInv == ApartInv /\ Settled

\* A step of the server for another request does not touch the thread.
LEMMA OtherThread ==
  ASSUME NEW r \in Request, FlowInv, ApartInv, Server(r), r # current
  PROVE  /\ parked'[thread] = parked[thread]
         /\ current # None => srv'[current] = srv[current]
<1>1. th[r] # thread
  BY ServerFacts DEF ApartInv, ThreadsApart
<1>. QED BY <1>1, ServerFacts DEF FlowInv, TypeInv, TypeOK

\* A step of the server for the request in flight is about the thread.
LEMMA OwnThread ==
  ASSUME NEW r \in Request, FlowInv, ApartInv, r = current, r \notin aborted
  PROVE  th[r] = thread /\ thread \in Threads
BY SurfaceAssumption DEF ApartInv, ThreadsApart, FlowInv, TypeInv, TypeOK

\* With no saved conversation to open, only a new one can be chosen.
LEMMA OnlyNew ==
  ASSUME FlowInv, ApartInv, Opens = 0, Choose
  PROVE  /\ msgs' = <<>> /\ aborted' = Cancelled /\ opening' = {}
         /\ thread' \in unused /\ unused' = unused \ {thread'}
<1>1. opened = 0
  BY DEF FlowInv, TypeInv, TypeOK
<1>2. NewChat
  BY <1>1 DEF Choose, OpenChat, Loaded, NotLoaded, ApartInv
<1>. QED BY <1>2 DEF NewChat, Replace, ApartInv

LEMMA NextApart ==
  ASSUME FlowInv, FlowInv', ApartInv, Patient, [Next]_vars
  PROVE  ApartInv'
<1>. USE DEF FlowInv, TypeInv, TypeOK, Patient
<1>1. ASSUME NEW r \in Request, Submit(r) \/ Invalid(r) \/ Response(r)
      PROVE  ApartInv'
  <2>1. UNCHANGED <<msgs, current, aborted, run, th, screen, server, srv>>
    BY <1>1 DEF Submit, Invalid, Response
  <2>. QED
    BY <2>1
    DEF screen, server, ApartInv, ThreadsApart, AbortedBlank, PausedLive
<1>2. ASSUME NEW r \in Request, Starts(r) PROVE ApartInv'
  <2>1. /\ current' = r /\ aborted' = aborted /\ r \notin aborted
        /\ srv' = srv /\ srv[r] = "none" /\ th' = [th EXCEPT ![r] = thread]
        /\ UNCHANGED screen
    BY <1>2, StartFacts
  <2>2. ThreadsApart'
    BY <2>1 DEF ApartInv, ThreadsApart, screen
  <2>3. AbortedBlank' /\ PausedLive' /\ opening' = {}
    BY <2>1 DEF ApartInv, AbortedBlank, PausedLive, screen
  <2>. QED BY <2>2, <2>3 DEF ApartInv
<1>3. ASSUME NEW r \in Request, Closes(r) PROVE ApartInv'
  <2>1. current' = None /\ None \notin aborted
        /\ UNCHANGED <<aborted, th, screen>>
    BY <1>3, CloseFacts, SurfaceAssumption
  <2>. QED
    BY <2>1 DEF ApartInv, ThreadsApart, AbortedBlank, PausedLive, screen
<1>4. ASSUME NEW r \in Request, Server(r) PROVE ApartInv'
  <2>1. UNCHANGED <<client, screen>>
    BY <1>4, ServerFacts
  <2>2. opening' = {} /\ ThreadsApart' /\ AbortedBlank'
    BY <2>1 DEF client, screen, ApartInv, ThreadsApart, AbortedBlank
  <2>3. PausedLive'
    <3>1. SUFFICES ASSUME current # None, current \notin aborted,
                          srv'[current] = "paused"
                   PROVE  parked'[thread] = [id |-> current, run |-> run[current]]
      BY <2>1 DEF PausedLive, client, screen
    <3>2. CASE r # current
      BY <1>4, <3>1, <3>2, OtherThread DEF ApartInv, PausedLive
    <3>3. CASE r = current
      <4>1. th[r] = thread /\ thread \in Threads
        BY <3>1, <3>3, OwnThread
      <4>2. Pause(r)
        BY <1>4, <3>1, <3>3
        DEF Server, Refuse, Accept, Final, Answered, Pause, Error, Nothing,
            CutOff
      <4>3. RunOf(r) = run[r] /\ parked' = [parked EXCEPT ![thread] =
                                              [id |-> r, run |-> RunOf(r)]]
        BY <4>1, <4>2, RunOfOwn DEF Pause
      <4>. QED BY <3>3, <4>1, <4>3
    <3>. QED BY <3>2, <3>3
  <2>. QED BY <2>2, <2>3 DEF ApartInv
<1>5. CASE Choose
  <2>1. /\ msgs' = <<>> /\ aborted' = Cancelled /\ opening' = {}
        /\ thread' \in unused /\ unused' = unused \ {thread'}
    BY <1>5, OnlyNew
  <2>2. UNCHANGED <<current, th, run, srv, server>>
    BY <1>5, ChooseFacts
  <2>3. ThreadsApart'
    BY <2>1, <2>2 DEF ApartInv, ThreadsApart, Cancelled
  <2>4. AbortedBlank' /\ PausedLive'
    BY <2>1, <2>2 DEF AbortedBlank, PausedLive, Cancelled
  <2>. QED BY <2>1, <2>3, <2>4 DEF ApartInv
<1>6. CASE UNCHANGED vars
  BY <1>6
  DEF vars, client, screen, server, ApartInv, ThreadsApart, AbortedBlank,
      PausedLive
<1>. QED
  BY <1>1, <1>2, <1>3, <1>4, <1>5, <1>6
  DEF Next, User, Client, Starts, Closes

\* The last draft of a transcript that is not empty.
LEMMA NextSettled ==
  ASSUME FlowInv, FlowInv', ChatInv, ApartInv', Patient, [Next]_vars
  PROVE  Settled'
<1>. USE DEF FlowInv, TypeInv, TypeOK, Patient, ChatInv
<1>1. ASSUME NEW r \in Request, Submit(r) \/ Invalid(r) \/ Response(r)
      PROVE  Settled'
  <2>1. UNCHANGED <<msgs, current, reply, screen, server, srv>>
    BY <1>1 DEF Submit, Invalid, Response
  <2>. QED BY <2>1 DEF screen, server, Settled, Awaited, Answers
<1>2. ASSUME NEW r \in Request, Starts(r) PROVE Settled'
  <2>1. /\ current = None /\ current' = r /\ srv'[r] = "none"
        /\ reply[r] = None /\ UNCHANGED <<thread, parked>>
    BY <1>2, StartFacts DEF screen, server
  <2>2. CASE ~\E i \in DOMAIN msgs : Respond(r, i)
    <3>1. reply'[r] = None
      BY <1>2, <2>1, <2>2 DEF Starts, Send, Analyse
    <3>2. current' # None /\ Answers(r)'
      BY <2>1, <3>1, SurfaceAssumption DEF Answers
    <3>. QED BY <2>1, <3>2 DEF Settled, Awaited
  <2>3. ASSUME NEW i \in DOMAIN msgs, Respond(r, i) PROVE Settled'
    <3>. DEFINE S == {j \in DOMAIN msgs : msgs[j].card # None
                                    /\ msgs[j].card.id = msgs[i].card.id}
    <3>1. msgs' = [j \in DOMAIN msgs |->
                     IF j \in S THEN [msgs[j] EXCEPT !.card = None]
                     ELSE msgs[j]]
      BY <2>3 DEF Respond
    <3>. HIDE DEF S
    <3>2. /\ Len(msgs') = Len(msgs) /\ DOMAIN msgs' = DOMAIN msgs
          /\ \A j \in DOMAIN msgs :
               /\ msgs'[j].run = msgs[j].run /\ msgs'[j].text = msgs[j].text
               /\ msgs'[j].card = IF j \in S THEN None ELSE msgs[j].card
      BY <3>1, CutCards
    <3>3. Len(msgs) \in DOMAIN msgs
      BY TranscriptFacts
    <3>4. reply'[r] = msgs[i].card.id /\ reply'[r] \in Request
      <4>1. msgs[i].card \in Approval
        BY <2>3, TranscriptFacts DEF Respond, Draft
      <4>. QED BY <2>3, <4>1 DEF Respond, Approval
    <3>5. msgs # <<>>
      BY <3>3
    <3>. DEFINE m == msgs[Len(msgs)]
    <3>6. \/ m.run = None \/ m.text # None
          \/ m.card # None /\ parked[thread] = m.card
      BY <2>1, <3>5 DEF Settled, Awaited
    <3>7. CASE m.run = None \/ m.text # None
      BY <3>2, <3>3, <3>7 DEF Settled
    <3>8. CASE /\ m.card # None /\ parked[thread] = m.card
               /\ m.card.id = msgs[i].card.id
      BY <2>1, <3>4, <3>8, SurfaceAssumption DEF Settled, Awaited, Answers
    <3>9. CASE /\ m.card # None /\ parked[thread] = m.card
               /\ m.card.id # msgs[i].card.id
      <4>1. msgs'[Len(msgs)].card = m.card
        BY <3>2, <3>3, <3>9 DEF S
      <4>. QED
        BY <2>1, <3>2, <3>4, <3>9, <4>1, SurfaceAssumption
        DEF Settled, Awaited
    <3>. QED BY <3>6, <3>7, <3>8, <3>9
  <2>. QED BY <2>2, <2>3
<1>3. ASSUME NEW r \in Request, Closes(r) PROVE Settled'
  <2>1. /\ r = current /\ current # None /\ current' = None
        /\ UNCHANGED <<aborted, thread, parked>>
    BY <1>3, CloseFacts, SurfaceAssumption DEF screen, server
  <2>2. CASE Abort(r)
    BY <2>1, <2>2 DEF Abort, ChatInv, ApartInv, AbortedBlank, Settled
  <2>3. CASE msgs' = Last(msgs, "text", r)
    <3>1. CASE msgs = <<>>
      BY <2>3, <3>1 DEF Last, Settled
    <3>2. CASE msgs # <<>>
      <4>1. Len(msgs) \in DOMAIN msgs
        BY <3>2, TranscriptFacts
      <4>2. Len(msgs') = Len(msgs) /\ msgs'[Len(msgs)].text = r
        BY <2>3, <4>1, LastFacts
      <4>. QED BY <4>2, SurfaceAssumption DEF Settled
    <3>. QED BY <3>1, <3>2
  <2>4. CASE Frames(r) /\ srv[r] \notin {"final", "error"}
    <3>1. th[r] = thread /\ thread \in Threads
      BY <2>1, <2>4, OwnThread DEF Frames
    <3>2. CASE msgs = <<>>
      BY <2>4, <3>2 DEF Frames, Painted, Last, Settled
    <3>3. CASE srv[r] = "paused" /\ msgs # <<>>
      <4>1. parked[thread] = [id |-> r, run |-> run[r]]
        BY <2>1, <2>4, <3>3 DEF Frames, ApartInv, PausedLive
      <4>2. parked[thread] \in Approval /\ parked[thread] # None
        BY <3>1, <4>1, NullAssumption DEF Approval
      <4>3. msgs' = Last(msgs, "card", parked[thread])
        BY <2>4, <3>1, <3>3, <4>2 DEF Frames, Painted
      <4>4. Len(msgs) \in DOMAIN msgs
        BY <3>3, TranscriptFacts
      <4>5. Len(msgs') = Len(msgs) /\ msgs'[Len(msgs)].card = parked[thread]
        BY <4>2, <4>3, <4>4, LastFacts
      <4>. QED BY <2>1, <4>2, <4>5 DEF Settled
    <3>4. CASE srv[r] = "empty"
      <4>1. msgs' = msgs
        BY <2>4, <3>4 DEF Frames, Painted
      <4>. QED BY <2>1, <3>4, <4>1 DEF Settled, Awaited
    <3>. QED BY <2>4, <3>2, <3>3, <3>4 DEF Frames
  <2>. QED
    BY <1>3, <2>2, <2>3, <2>4 DEF Closes, ErrorBody, Refused, Frames, Painted
<1>4. ASSUME NEW r \in Request, Server(r) PROVE Settled'
  <2>1. UNCHANGED <<msgs, current, aborted, reply, thread>>
    BY <1>4, ServerFacts DEF client, screen
  <2>2. CASE r # current
    <3>1. parked'[thread] = parked[thread]
          /\ (current # None => srv'[current] = srv[current])
      BY <1>4, <2>2, OtherThread
    <3>. QED BY <2>1, <3>1 DEF Settled, Awaited, Answers
  <2>3. CASE r = current /\ r \in aborted
    BY <2>1, <2>3 DEF ApartInv, AbortedBlank, Settled
  <2>4. CASE r = current /\ r \notin aborted
    <3>1. th[r] = thread /\ thread \in Threads /\ current # None
      BY <2>4, OwnThread, SurfaceAssumption
    <3>. DEFINE m == msgs[Len(msgs)]
    <3>2. SUFFICES ASSUME msgs # <<>>, m.run # None, m.text = None
                   PROVE  Awaited(m)'
      BY <2>1 DEF Settled
    <3>3. Awaited(m)
      BY <3>1, <3>2 DEF Settled
    <3>4. CASE srv'[r] \in {"final", "error", "refused", "paused"}
      BY <2>1, <2>4, <3>1, <3>4 DEF Awaited
    <3>5. CASE Accept(r)
      <4>1. reply[r] # None => parked' = parked
        BY <3>5 DEF Accept
      <4>2. srv[r] = "none" /\ srv'[r] = "running"
        BY <3>5 DEF Accept
      <4>. QED BY <2>1, <2>4, <3>3, <4>1, <4>2 DEF Awaited, Answers
    <3>6. CASE Nothing(r)
      <4>1. srv[r] = "running" /\ parked' = parked /\ ~Answers(r)
        BY <3>1, <3>6 DEF Nothing, server, Continues, Answers
      <4>. QED BY <2>1, <2>4, <3>3, <4>1 DEF Awaited
    <3>. QED
      BY <1>4, <2>4, <3>4, <3>5, <3>6
      DEF Server, Refuse, Final, Answered, Pause, Error, CutOff
  <2>. QED BY <2>2, <2>3, <2>4
<1>5. CASE Choose
  BY <1>5, OnlyNew DEF Settled
<1>6. CASE UNCHANGED vars
  BY <1>6 DEF vars, client, screen, server, Settled, Awaited, Answers
<1>. QED
  BY <1>1, <1>2, <1>3, <1>4, <1>5, <1>6
  DEF Next, User, Client, Starts, Closes

LEMMA InitChat == Init => FlowInv /\ ChatInv
<1>. SUFFICES ASSUME Init PROVE FlowInv /\ ChatInv
  OBVIOUS
<1>1. OneStream
  BY DEF Init, OneStream, InFlight
<1>2. Served
  BY DEF Init, Served
<1>3. FlowInv
  BY <1>1, <1>2, InitRun DEF FlowInv
<1>4. ThreadsApart
  BY NullAssumption DEF Init, ThreadsApart
<1>5. AbortedBlank /\ PausedLive /\ Settled
  BY DEF Init, AbortedBlank, PausedLive, Settled
<1>. QED BY <1>3, <1>4, <1>5 DEF ChatInv, ApartInv, Init

\* For a patient user: one request at a time, cancelled requests on threads
\* the user has left, a last draft that has its answer or will get it.
THEOREM ChatInvariant ==
  ASSUME Eager = FALSE, Opens = 0
  PROVE  Spec => [](FlowInv /\ ChatInv)
<1>1. FlowInv /\ ChatInv /\ [Next]_vars => FlowInv' /\ ChatInv'
  <2>. SUFFICES ASSUME FlowInv, ChatInv, [Next]_vars
                PROVE  FlowInv' /\ ChatInv'
    OBVIOUS
  <2>. Patient
    BY DEF Patient
  <2>1. TypeInv' /\ RunInv'
    BY NextType, NextRun DEF FlowInv
  <2>2. FlowInv'
    BY <2>1, NextFlow
  <2>3. ApartInv'
    BY <2>2, NextApart DEF ChatInv
  <2>. QED BY <2>2, <2>3, NextSettled DEF ChatInv
<1>. QED BY <1>1, InitChat, PTL DEF Spec

\* LastDraftSettled for every number of requests and threads: when nothing is
\* loading, the last turn the user took has a text, an error or a card
\* (applyFrame and the finally block of consumeStream), also when requests are
\* refused and conversations are left in the middle of an answer.
THEOREM LastDraftSettles ==
  ASSUME Eager = FALSE, Opens = 0
  PROVE  Spec => []LastDraftSettled
<1>1. FlowInv /\ ChatInv => LastDraftSettled
  BY DEF FlowInv, OneStream, ChatInv, Settled, Awaited, LastDraftSettled
<1>. QED BY <1>1, ChatInvariant, PTL

-----------------------------------------------------------------------------
(* The free chat shows what is its own: no letter is analysed there, so the *)
(* last draft is always one of the run in flight.                           *)

FreeInv ==
  page = "free" =>
    /\ \A i \in DOMAIN msgs :
         /\ msgs[i].text # None =>
              run[msgs[i].text] = msgs[i].run /\ Started(msgs[i].text)
         /\ msgs[i].card # None =>
              /\ i = Len(msgs) /\ ~loading
              /\ msgs[i].card = parked[thread]
              /\ msgs[i].card.run = msgs[i].run
    /\ current # None /\ msgs # <<>> => msgs[Len(msgs)].run = run[current]

LEMMA PageStays == [Next]_vars => page' = page
BY DEF Next, Choose, NewChat, OpenChat, Loaded, NotLoaded, User, Server, Client,
       Submit, Analyse, Respond, Refuse, Accept, Final, Answered, Pause, Error,
       Nothing, CutOff, Invalid, Send, Abort, Response, ErrorBody, Frames,
       Close, screen, vars

LEMMA NextFree ==
  ASSUME FlowInv, FlowInv', ChatInv, FreeInv, Patient, [Next]_vars
  PROVE  FreeInv'
<1>. USE DEF FlowInv, TypeInv, TypeOK, Patient, ChatInv
<1>. SUFFICES ASSUME page = "free", page' = "free" PROVE FreeInv'
  BY PageStays DEF FreeInv
<1>1. ASSUME NEW r \in Request, Submit(r) \/ Invalid(r) \/ Response(r)
      PROVE  FreeInv'
  <2>1. UNCHANGED <<msgs, loading, current, run, screen, server>>
    BY <1>1 DEF Submit, Invalid, Response
  <2>2. \A q \in Request : Started(q) => Started(q)'
    BY <1>1 DEF Submit, Invalid, Response, Started
  <2>. QED BY <2>1, <2>2, TranscriptFacts DEF screen, server, FreeInv, Draft
<1>2. ASSUME NEW r \in Request, Send(r) PROVE FreeInv'
  <2>1. Starts(r)
    BY <1>2 DEF Starts
  <2>2. /\ current' = r /\ ~Started(r) /\ run[r] = r /\ run' = run
        /\ pc' = [pc EXCEPT ![r] = "sent"]
    BY <1>2, <2>1, StartFacts DEF Send
  <2>. DEFINE base == WithoutCards(msgs)
  <2>3. msgs' = Append(base, NewDraft(r))
    BY <1>2 DEF Send
  <2>4. /\ base \in Seq(Draft) /\ Len(base) = Len(msgs)
        /\ DOMAIN base = DOMAIN msgs
        /\ \A i \in DOMAIN msgs :
             /\ base[i].run = msgs[i].run /\ base[i].text = msgs[i].text
             /\ base[i].card = None
    BY WithoutCardsFacts
  <2>. HIDE DEF base
  <2>5. /\ Len(msgs') = Len(msgs) + 1
        /\ DOMAIN msgs' = DOMAIN msgs \cup {Len(msgs) + 1}
        /\ \A i \in DOMAIN msgs : msgs'[i] = base[i]
        /\ msgs'[Len(msgs) + 1] = NewDraft(r)
    BY <2>3, <2>4, NewDraftType, AppendFacts
  <2>6. ASSUME NEW i \in DOMAIN msgs'
        PROVE  /\ msgs'[i].card = None
               /\ msgs'[i].text # None =>
                    /\ run'[msgs'[i].text] = msgs'[i].run
                    /\ pc'[msgs'[i].text] \notin {"new", "validating"}
    <3>1. CASE i \in DOMAIN msgs
      <4>1. msgs[i].text \in Request \cup {None}
        BY <3>1, TranscriptFacts DEF Draft
      <4>. QED BY <2>2, <2>4, <2>5, <3>1, <4>1 DEF FreeInv, Started
    <3>2. CASE i = Len(msgs) + 1
      BY <2>5, <3>2, NewDraftType
    <3>. QED BY <2>5, <3>1, <3>2
  <2>7. msgs'[Len(msgs')].run = run'[current']
    BY <2>2, <2>5, NewDraftType
  <2>. QED BY <2>6, <2>7 DEF FreeInv, Started
<1>3. ASSUME NEW r \in Request, NEW i \in DOMAIN msgs, Respond(r, i)
      PROVE  FreeInv'
  <2>1. Starts(r)
    BY <1>3 DEF Starts
  <2>2. /\ current' = r /\ ~Started(r) /\ pc' = [pc EXCEPT ![r] = "sent"]
    BY <1>3, <2>1, StartFacts
  <2>3. /\ msgs[i].card # None
        /\ run' = [run EXCEPT ![r] = msgs[i].card.run]
    BY <1>3 DEF Respond
  <2>4. i = Len(msgs) /\ msgs[i].card.run = msgs[i].run
        /\ \A j \in DOMAIN msgs : msgs[j].card # None => j = i
    BY <2>3 DEF FreeInv
  <2>. DEFINE S == {j \in DOMAIN msgs : msgs[j].card # None
                                  /\ msgs[j].card.id = msgs[i].card.id}
  <2>5. msgs' = [j \in DOMAIN msgs |->
                   IF j \in S THEN [msgs[j] EXCEPT !.card = None] ELSE msgs[j]]
    BY <1>3 DEF Respond
  <2>6. \A j \in DOMAIN msgs : j \notin S => msgs[j].card = None
    BY <2>4
  <2>. HIDE DEF S
  <2>7. /\ Len(msgs') = Len(msgs) /\ DOMAIN msgs' = DOMAIN msgs
        /\ \A j \in DOMAIN msgs :
             /\ msgs'[j].run = msgs[j].run /\ msgs'[j].text = msgs[j].text
             /\ msgs'[j].card = IF j \in S THEN None ELSE msgs[j].card
    BY <2>5, CutCards
  <2>8. ASSUME NEW j \in DOMAIN msgs'
        PROVE  /\ msgs'[j].card = None
               /\ msgs'[j].text # None =>
                    /\ run'[msgs'[j].text] = msgs'[j].run
                    /\ pc'[msgs'[j].text] \notin {"new", "validating"}
    <3>1. msgs[j].text \in Request \cup {None}
      BY <2>7, TranscriptFacts DEF Draft
    <3>2. msgs'[j].card = None
      BY <2>6, <2>7
    <3>. QED BY <2>2, <2>3, <2>7, <3>1, <3>2 DEF FreeInv, Started
  <2>9. msgs'[Len(msgs')].run = run'[current']
    BY <2>2, <2>3, <2>4, <2>7
  <2>. QED BY <2>8, <2>9 DEF FreeInv, Started
<1>4. ASSUME NEW r \in Request, Server(r) PROVE FreeInv'
  <2>1. UNCHANGED <<msgs, loading, current, run, pc, thread>>
    BY <1>4, ServerFacts DEF client, screen
  <2>2. ~loading => parked'[thread] = parked[thread]
    <3>1. ~loading => r # current
      BY SurfaceAssumption DEF OneStream
    <3>2. ApartInv
      OBVIOUS
    <3>. QED BY <1>4, <3>1, <3>2, OtherThread
  <2>. QED BY <2>1, <2>2 DEF FreeInv, Started
<1>5. ASSUME NEW r \in Request, Closes(r) PROVE FreeInv'
  <2>1. /\ r = current /\ loading /\ current' = None /\ ~loading'
        /\ pc' = [pc EXCEPT ![r] = "closed"]
        /\ UNCHANGED <<run, thread, parked>>
    BY <1>5, CloseFacts DEF screen, server
  <2>2. \A q \in Request : Started(q) => Started(q)'
    BY <2>1 DEF Started
  <2>3. \A i \in DOMAIN msgs : msgs[i].card = None
    BY <2>1 DEF FreeInv
  <2>4. CASE msgs' = msgs
    <3>1. \A i \in DOMAIN msgs : msgs[i].text # None =>
            /\ msgs[i].text \in Request
            /\ run[msgs[i].text] = msgs[i].run /\ Started(msgs[i].text)
      BY TranscriptFacts DEF FreeInv, Draft
    <3>2. \A i \in DOMAIN msgs : msgs[i].text # None =>
            pc'[msgs[i].text] \notin {"new", "validating"}
      BY <2>2, <3>1 DEF Started
    <3>. QED BY <2>1, <2>3, <2>4, <3>1, <3>2 DEF FreeInv, Started
  <2>5. CASE msgs' = Last(msgs, "text", r)
    <3>1. /\ Len(msgs') = Len(msgs) /\ DOMAIN msgs' = DOMAIN msgs
          /\ \A i \in DOMAIN msgs :
               /\ msgs'[i].run = msgs[i].run /\ msgs'[i].card = msgs[i].card
               /\ msgs'[i].text = IF i = Len(msgs) THEN r ELSE msgs[i].text
      BY <2>5, LastFacts
    <3>2. ASSUME NEW i \in DOMAIN msgs
          PROVE  msgs'[i].text # None =>
                   /\ run'[msgs'[i].text] = msgs'[i].run
                   /\ pc'[msgs'[i].text] \notin {"new", "validating"}
      <4>1. CASE i = Len(msgs)
        <5>1. msgs'[i].text = r /\ msgs'[i].run = run[r]
          BY <2>1, <3>1, <4>1, TranscriptFacts, SurfaceAssumption DEF FreeInv
        <5>. QED BY <2>1, <5>1
      <4>2. CASE i # Len(msgs)
        <5>1. msgs'[i].text = msgs[i].text /\ msgs'[i].run = msgs[i].run
              /\ msgs[i].text \in Request \cup {None}
          BY <3>1, <4>2, TranscriptFacts DEF Draft
        <5>. QED BY <2>1, <2>2, <5>1 DEF FreeInv, Started
      <4>. QED BY <4>1, <4>2
    <3>. QED BY <2>1, <2>3, <3>1, <3>2 DEF FreeInv, Started
  <2>6. CASE /\ Frames(r) /\ srv[r] = "paused" /\ parked[th[r]] # None
             /\ msgs' = Last(msgs, "card", parked[th[r]])
    <3>1. th[r] = thread /\ thread \in Threads
      BY <2>1, <2>6, OwnThread DEF Frames
    <3>2. parked[thread] = [id |-> r, run |-> run[r]]
          /\ parked[thread] \in Approval
      BY <2>1, <2>6, <3>1, SurfaceAssumption DEF Frames, ApartInv, PausedLive
    <3>3. /\ Len(msgs') = Len(msgs) /\ DOMAIN msgs' = DOMAIN msgs
          /\ \A i \in DOMAIN msgs :
               /\ msgs'[i].run = msgs[i].run /\ msgs'[i].text = msgs[i].text
               /\ msgs'[i].card =
                    IF i = Len(msgs) THEN parked[thread] ELSE msgs[i].card
      <4>1. msgs' = Last(msgs, "card", parked[thread])
        BY <2>6, <3>1
      <4>. QED BY <3>2, <4>1, LastFacts
    <3>4. ASSUME NEW i \in DOMAIN msgs
          PROVE  msgs'[i].card # None =>
                   /\ i = Len(msgs) /\ msgs'[i].card = parked[thread]
                   /\ msgs'[i].card.run = msgs'[i].run
      <4>1. CASE i = Len(msgs)
        <5>1. msgs[i].run = run[r]
          BY <2>1, <4>1, TranscriptFacts, SurfaceAssumption DEF FreeInv
        <5>. QED BY <3>2, <3>3, <4>1, <5>1
      <4>2. CASE i # Len(msgs)
        BY <2>3, <3>3, <4>2
      <4>. QED BY <4>1, <4>2
    <3>5. ASSUME NEW i \in DOMAIN msgs
          PROVE  msgs'[i].text # None =>
                   /\ run'[msgs'[i].text] = msgs'[i].run
                   /\ pc'[msgs'[i].text] \notin {"new", "validating"}
      <4>1. msgs[i].text \in Request \cup {None}
        BY TranscriptFacts DEF Draft
      <4>. QED BY <2>1, <2>2, <3>3, <4>1 DEF FreeInv, Started
    <3>. QED BY <2>1, <3>3, <3>4, <3>5 DEF FreeInv, Started
  <2>. QED
    BY <1>5, <2>4, <2>5, <2>6
    DEF Closes, Abort, ErrorBody, Refused, Frames, Painted
<1>6. CASE Choose
  BY <1>6, OnlyNew DEF FreeInv
<1>7. CASE UNCHANGED vars
  BY <1>7 DEF vars, client, screen, server, FreeInv, Started
<1>8. ASSUME NEW r \in Request, NEW d \in Doc, Analyse(r, d) PROVE FreeInv'
  BY <1>8 DEF Analyse
<1>. QED
  BY <1>1, <1>2, <1>3, <1>4, <1>5, <1>6, <1>7, <1>8
  DEF Next, User, Client, Closes

\* Both promises about the free chat, from one invariant.
THEOREM FreeInvariant ==
  ASSUME Eager = FALSE, Opens = 0
  PROVE  Spec => [](FlowInv /\ ChatInv /\ FreeInv)
<1>1. FlowInv /\ FlowInv' /\ ChatInv /\ FreeInv /\ [Next]_vars => FreeInv'
  BY NextFree DEF Patient
<1>2. Init => FreeInv
  BY DEF Init, FreeInv
<1>. QED BY <1>1, <1>2, ChatInvariant, PTL DEF Spec

\* DraftOwn for every number of requests and threads: in the free chat every
\* text and every card stands in a draft of the run that produced it, although
\* update writes into the last draft whatever request a frame belongs to
\* (useChat.ts).
THEOREM DraftsAreOwn ==
  ASSUME Eager = FALSE, Opens = 0
  PROVE  Spec => []DraftOwn
<1>1. FreeInv => DraftOwn
  BY DEF FreeInv, DraftOwn
<1>. QED BY <1>1, FreeInvariant, PTL

\* CardsLive for every number of requests and threads: a card of the free chat
\* is the approval its thread is stopped at, so a decision is never given on
\* a run that another message has replaced (respondApproval).
THEOREM CardsAreLive ==
  ASSUME Eager = FALSE, Opens = 0
  PROVE  Spec => []CardsLive
<1>1. FreeInv => CardsLive
  BY DEF FreeInv, CardsLive
<1>. QED BY <1>1, FreeInvariant, PTL

-----------------------------------------------------------------------------
(* The analyses of a case.  As long as the server accepts every request of  *)
(* the case page, the letter named by analysingDocId is the one the parked  *)
(* run analyses, so the letter sent along with a decision is the right one. *)

FreeDoc ==
  page = "free" =>
    /\ analysing = None /\ \A r \in Request : doc[r] = None
    /\ \A d \in Doc : analysis[d] = None

CaseInv ==
  page = "case" =>
    /\ aborted = {}
    /\ current # None => doc[current] = analysing /\ th[current] = thread
    /\ parked[thread] # None =>
         \/ doc[parked[thread].run] = analysing
         \/ current # None /\ reply[current] = None /\ srv[current] = "none"
    /\ \A d \in Doc : analysis[d] # None =>
         doc[analysis[d]] = d /\ Started(analysis[d])

\* The request the server serves on a case analyses the letter of its run.
LEMMA CaseRun ==
  ASSUME NEW r \in Request, FlowInv, CaseInv, page = "case",
         srv[r] = "running", Continues(r)
  PROVE  RunOf(r) \in Request /\ doc[RunOf(r)] = doc[r] /\ Started(RunOf(r))
<1>1. r = current /\ current # None
  BY SurfaceAssumption DEF FlowInv, Served, CaseInv
<1>2. th[r] = thread /\ thread \in Threads /\ doc[r] = analysing
  BY <1>1 DEF CaseInv, FlowInv, TypeInv, TypeOK
<1>3. RunOf(r) = run[r] /\ Started(run[r]) /\ run[r] \in Request
  BY RunOfOwn DEF FlowInv, TypeInv, TypeOK
<1>4. CASE reply[r] = None
  BY <1>3, <1>4 DEF RunOf
<1>5. CASE reply[r] # None
  <2>1. parked[thread] # None /\ RunOf(r) = parked[thread].run
    BY <1>2, <1>5 DEF Continues, RunOf
  <2>2. doc[parked[thread].run] = analysing
    BY <1>1, <1>5, <2>1 DEF CaseInv
  <2>. QED BY <1>2, <1>3, <2>1, <2>2
<1>. QED BY <1>4, <1>5

LEMMA NextFreeDoc ==
  ASSUME FlowInv, FreeDoc, [Next]_vars
  PROVE  FreeDoc'
<1>. USE DEF FlowInv, TypeInv, TypeOK
<1>. SUFFICES ASSUME page = "free" PROVE FreeDoc'
  BY PageStays DEF FreeDoc
<1>1. ASSUME NEW r \in Request, Server(r) PROVE FreeDoc'
  <2>1. UNCHANGED <<analysing, doc>>
    BY <1>1, ServerFacts DEF client
  <2>2. analysis' = analysis
    BY <1>1
    DEF Server, Refuse, Accept, Final, Answered, Pause, Error, Nothing, CutOff,
        server, FreeDoc
  <2>. QED BY <2>1, <2>2 DEF FreeDoc
<1>2. CASE \/ Choose \/ UNCHANGED vars
           \/ \E r \in Request : Closes(r) \/ Submit(r) \/ Invalid(r)
                                 \/ Response(r)
  <2>1. UNCHANGED <<analysing, doc, analysis>>
    BY <1>2
    DEF Choose, NewChat, OpenChat, Loaded, NotLoaded, Replace, Closes, Abort,
        ErrorBody, Frames, Close, Submit, Invalid, Response, vars, client, server
  <2>. QED BY <2>1 DEF FreeDoc
<1>3. ASSUME NEW r \in Request, Starts(r) PROVE FreeDoc'
  <2>1. analysing' = None /\ analysis' = analysis /\ doc' = [doc EXCEPT ![r] = None]
    BY <1>3
    DEF Starts, Send, Analyse, Respond, Begin, ForMessage, FreeDoc, server
  <2>. QED BY <2>1 DEF FreeDoc
<1>. QED BY <1>1, <1>2, <1>3 DEF Next, User, Client, Starts, Closes

LEMMA NextCase ==
  ASSUME FlowInv, CaseInv, Eager = FALSE, "case" \notin Refusals, [Next]_vars
  PROVE  CaseInv'
<1>. USE DEF FlowInv, TypeInv, TypeOK
<1>. SUFFICES ASSUME page = "case" PROVE CaseInv'
  BY PageStays DEF CaseInv
<1>1. ASSUME NEW r \in Request, Submit(r) \/ Invalid(r) \/ Response(r)
      PROVE  CaseInv'
  <2>1. UNCHANGED <<current, aborted, reply, doc, th, analysing, screen, server,
                    srv>>
    BY <1>1 DEF Submit, Invalid, Response
  <2>2. \A q \in Request : Started(q) => Started(q)'
    BY <1>1 DEF Submit, Invalid, Response, Started
  <2>. QED BY <2>1, <2>2 DEF screen, server, CaseInv
<1>2. ASSUME NEW r \in Request, Starts(r) PROVE CaseInv'
  <2>1. /\ current = None /\ current' = r /\ aborted' = aborted
        /\ ~Started(r) /\ srv'[r] = "none" /\ th'[r] = thread
        /\ pc' = [pc EXCEPT ![r] = "sent"]
        /\ \A q \in Request : q # r => doc'[q] = doc[q]
        /\ UNCHANGED <<thread, parked, analysis>>
    <3>1. th' = [th EXCEPT ![r] = thread] /\ UNCHANGED <<screen, server>>
      BY <1>2, StartFacts
    <3>2. th'[r] = thread /\ UNCHANGED <<thread, parked, analysis>>
      BY <3>1 DEF screen, server
    <3>. QED BY <1>2, <3>2, StartFacts
  <2>2. doc'[r] = analysing'
    BY <1>2 DEF Starts, Send, Analyse, Respond, Begin, ForMessage
  <2>3. parked[thread] # None =>
          \/ doc'[parked[thread].run] = analysing'
          \/ reply'[r] = None
    <3>1. CASE ~\E i \in DOMAIN msgs : Respond(r, i)
      <4>1. reply[r] = None
        BY <1>2, StartFacts
      <4>. QED BY <1>2, <3>1, <4>1 DEF Starts, Send, Analyse
    <3>2. ASSUME NEW i \in DOMAIN msgs, Respond(r, i), parked[thread] # None
          PROVE  doc'[parked[thread].run] = analysing'
      <4>1. doc[parked[thread].run] = analysing /\ analysing' = analysing
        BY <2>1, <3>2 DEF CaseInv, Respond
      <4>2. Started(parked[thread].run) /\ parked[thread].run \in Request
        BY <3>2 DEF RunInv, Approvals, Genuine, Approval
      <4>. QED BY <2>1, <4>1, <4>2
    <3>. QED BY <3>1, <3>2
  <2>4. ASSUME NEW d \in Doc, analysis[d] # None
        PROVE  /\ doc'[analysis[d]] = d
               /\ pc'[analysis[d]] \notin {"new", "validating"}
    BY <2>1, <2>4 DEF CaseInv, Started
  <2>5. aborted' = {}
    BY <2>1 DEF CaseInv
  <2>6. r # None
    BY SurfaceAssumption
  <2>. HIDE DEF FlowInv, TypeInv, TypeOK
  <2>. QED BY <2>1, <2>2, <2>3, <2>4, <2>5, <2>6 DEF CaseInv, Started
<1>3. ASSUME NEW r \in Request, Closes(r) PROVE CaseInv'
  <2>1. /\ r = current /\ current' = None
        /\ pc' = [pc EXCEPT ![r] = "closed"]
        /\ UNCHANGED <<aborted, doc, analysing, thread, parked, analysis>>
    BY <1>3, CloseFacts DEF screen, server
  <2>2. srv[r] # "none"
    BY <1>3 DEF Closes, Abort, ErrorBody, Frames, Served, CaseInv
  <2>3. ASSUME NEW d \in Doc, analysis[d] # None
        PROVE  /\ doc[analysis[d]] = d
               /\ pc'[analysis[d]] \notin {"new", "validating"}
    BY <2>1, <2>3 DEF CaseInv, Started
  <2>. QED BY <2>1, <2>2, <2>3 DEF CaseInv, Started
<1>4. ASSUME NEW r \in Request, Server(r) PROVE CaseInv'
  <2>1. /\ UNCHANGED <<page, current, pc, aborted, reply, doc, th, analysing,
                       thread>>
        /\ r = current /\ current # None /\ srv'[r] # "none"
    BY <1>4, ServerFacts, SurfaceAssumption DEF client, screen, CaseInv
  <2>2. th[r] = thread /\ thread \in Threads /\ doc[r] = analysing
    BY <2>1 DEF CaseInv
  <2>3. parked'[thread] # None => doc[parked'[thread].run] = analysing
    <3>1. CASE Accept(r)
      <4>1. CASE reply[r] = None
        BY <2>2, <3>1, <4>1 DEF Accept
      <4>2. CASE reply[r] # None
        <5>1. parked' = parked
          BY <3>1, <4>2 DEF Accept
        <5>. QED BY <2>1, <4>2, <5>1 DEF CaseInv
      <4>. QED BY <4>1, <4>2
    <3>2. CASE Final(r)
      BY <2>2, <3>2 DEF Final
    <3>3. CASE Pause(r) 
      <4>1. doc[RunOf(r)] = doc[r]
        BY <3>3, CaseRun DEF Pause
      <4>2. parked'[thread] = [id |-> r, run |-> RunOf(r)]
        BY <2>2, <3>3 DEF Pause
      <4>. QED BY <2>2, <4>1, <4>2
    <3>4. CASE srv[r] = "running" /\ parked'[thread] \in {None, parked[thread]}
      BY <2>1, <3>4 DEF CaseInv
    <3>5. ~Refuse(r) /\ ~CutOff(r)
      BY <2>1 DEF Refuse, CutOff, CaseInv
    <3>. QED
      BY <1>4, <2>2, <3>1, <3>2, <3>3, <3>4, <3>5
      DEF Server, Answered, Error, Nothing, server
  <2>4. ASSUME NEW d \in Doc, analysis'[d] # None
        PROVE  doc[analysis'[d]] = d /\ Started(analysis'[d])
    <3>1. CASE analysis'[d] = analysis[d]
      BY <2>4, <3>1 DEF CaseInv
    <3>2. CASE analysis'[d] # analysis[d]
      <4>1. Final(r)
        BY <1>4, <3>2
        DEF Server, Refuse, Accept, Answered, Pause, Error, Nothing, CutOff,
            server
      <4>2. doc[r] = d /\ analysis'[d] = RunOf(r)
        BY <3>2, <4>1 DEF Final
      <4>. QED BY <4>1, <4>2, CaseRun DEF Final
    <3>. QED BY <3>1, <3>2
  <2>. QED BY <2>1, <2>2, <2>3, <2>4 DEF CaseInv, Started
<1>5. CASE Choose
  BY <1>5 DEF Choose
<1>6. CASE UNCHANGED vars
  BY <1>6 DEF vars, client, screen, server, CaseInv, Started
<1>. QED
  BY <1>1, <1>2, <1>3, <1>4, <1>5, <1>6
  DEF Next, User, Client, Starts, Closes

\* AnalysisIsOwn for every number of requests and letters: the analysis stored
\* for a letter is the answer of a run that analysed it, also when the run
\* stopped at approvals and the decisions came in requests of their own
\* (document_id of respondApproval).  It takes a server that accepts every
\* request of the case page; without that the property fails.
THEOREM AnalysesAreOwn ==
  ASSUME Eager = FALSE, "case" \notin Refusals
  PROVE  Spec => []AnalysisIsOwn
<1>1. ASSUME FlowInv, FreeDoc, CaseInv, [Next]_vars
      PROVE  FlowInv' /\ FreeDoc' /\ CaseInv'
  <2>1. TypeInv' /\ RunInv'
    BY <1>1, NextType, NextRun DEF FlowInv
  <2>. QED BY <1>1, <2>1, NextFlow, NextFreeDoc, NextCase
<1>2. Init => FlowInv /\ FreeDoc /\ CaseInv
  <2>. SUFFICES ASSUME Init PROVE FlowInv /\ FreeDoc /\ CaseInv
    OBVIOUS
  <2>1. FreeDoc
    BY DEF Init, FreeDoc
  <2>2. parked[thread] = None
    BY DEF Init, Threads
  <2>3. CaseInv
    BY <2>2 DEF Init, CaseInv
  <2>. QED BY <2>1, <2>3, InitChat
<1>3. FlowInv /\ FreeDoc /\ CaseInv => AnalysisIsOwn
  <2>1. FlowInv => page \in {"free", "case"}
    BY SurfaceAssumption DEF FlowInv, TypeInv, TypeOK
  <2>. QED BY <2>1 DEF FreeDoc, CaseInv, AnalysisIsOwn
<1>. QED BY <1>1, <1>2, <1>3, PTL DEF Spec

=============================================================================
