------------------------------ MODULE ChatSurface ------------------------------
(***************************************************************************)
(* One conversation surface of the web client (frontend/src/state/         *)
(* useChat.ts): the free chat of App.tsx, or the chat of a case in         *)
(* CaseDetailView.tsx (page says which), together with what the server     *)
(* does for each of its requests as far as the client can tell             *)
(* (AgentThread has the details).                                          *)
(*                                                                         *)
(* Every request is a process that is used once.  A draft on the screen    *)
(* remembers the request that appended it (run), the request whose frames  *)
(* wrote its text, and the approval card it shows.  A run is named after   *)
(* its first request: a resumed run keeps its name.                        *)
(***************************************************************************)
EXTENDS Naturals, Sequences

CONSTANTS
  Request,   \* the streaming requests of this surface
  Page,      \* the surfaces of this instance: "free", "case"
  Doc,       \* the letters of the case
  Unsaved,   \* the threads of new conversations; the one thread of a case
  Saved,     \* saved conversations that the free chat can reopen
  Refusals,  \* surfaces whose requests may be refused: 429, 404, no network
  Eager,     \* the user may act while a text is being validated
  Opens,     \* saved conversations the user opens at most
  None

ASSUME SurfaceAssumption ==
  /\ Page \subseteq {"free", "case"} /\ Refusals \subseteq Page
  /\ Eager \in BOOLEAN
  /\ Opens \in Nat
  /\ None \notin Request /\ None \notin Doc
  /\ Unsaved \cap Saved = {}

\* None is no thread and no approval either.
ASSUME NullAssumption ==
  None \notin Unsaved /\ None \notin [id : Request, run : Request]

VARIABLES
  page,       \* the surface this behaviour is about
  msgs,       \* the drafts of the transcript, oldest first
  loading,    \* the loading flag
  current,    \* abortRef.current: the request it belongs to
  aborted,    \* requests whose signal is aborted
  pc,         \* pc[r]: where consumeStream is with request r
  srv,        \* srv[r]: what the server has answered r with
  run,        \* run[r]: the run r starts or continues
  reply,      \* reply[r]: the approval r answers, None for a new turn
  doc,        \* doc[r]: the letter r analyses, or sends along as document_id
  th,         \* th[r]: the thread r was sent to
  analysing,  \* analysingDocId.current
  thread,     \* the session's thread
  unused,     \* threads no conversation has started on
  opening,    \* saved conversations whose messages are on their way
  opened,     \* conversations opened so far
  parked,     \* parked[t]: the approval thread t is stopped at
  lost,       \* threads whose history has an unanswered tool call
  analysis    \* analysis[d]: the run whose answer is stored as the analysis

client == <<msgs, loading, current, aborted, pc, run, reply, doc, th,
            analysing>>
screen == <<page, thread, unused, opening, opened>>
server == <<parked, lost, analysis>>
vars == <<client, screen, server, srv>>

Threads  == Saved \cup Unsaved
Approval == [id : Request, run : Request]
Draft    == [run : Request \cup {None}, text : Request \cup {None},
             card : Approval \cup {None}]

Init ==
  /\ page \in Page
  /\ msgs = <<>>
  /\ loading = FALSE
  /\ current = None
  /\ aborted = {}
  /\ pc = [r \in Request |-> "new"]
  /\ srv = [r \in Request |-> "none"]
  /\ run = [r \in Request |-> r]
  /\ reply = [r \in Request |-> None]
  /\ doc = [r \in Request |-> None]
  /\ th = [r \in Request |-> None]
  /\ analysing = None
  /\ thread \in Unsaved
  /\ unused = Unsaved \ {thread}
  /\ opening = {}
  /\ opened = 0
  /\ parked = [t \in Threads |-> None]
  /\ lost = {}
  /\ analysis = [d \in Doc |-> None]

-----------------------------------------------------------------------------
(* Starting a stream. *)

NewDraft(r) == [run |-> r, text |-> None, card |-> None]

\* Mutant of WithoutCards: a message leaves the cards on the screen.
WithCards(ms) == ms

WithoutCards(ms) == [i \in DOMAIN ms |-> [ms[i] EXCEPT !.card = None]]

\* abortRef.current?.abort()
Cancelled == IF current = None THEN aborted ELSE aborted \cup {current}

\* consumeStream: it aborts the request in flight before its own.
Begin(r, d) ==
  /\ aborted' = Cancelled
  /\ current' = r
  /\ loading' = TRUE
  /\ pc' = [pc EXCEPT ![r] = "sent"]
  /\ doc' = [doc EXCEPT ![r] = d]
  /\ th' = [th EXCEPT ![r] = thread]

\* The buttons are not locked.  A patient user waits for the validation too.
Unlocked == ~loading /\ (Eager \/ \A q \in Request : pc[q] # "validating")

\* ChatView.submit looks at loading and validates the text on the server.
Submit(r) ==
  /\ pc[r] = "new" /\ Unlocked
  /\ pc' = [pc EXCEPT ![r] = "validating"]
  /\ UNCHANGED <<msgs, loading, current, aborted, run, reply, doc, th,
                 analysing, screen, server, srv>>

Invalid(r) ==
  /\ pc[r] = "validating"
  /\ pc' = [pc EXCEPT ![r] = "closed"]
  /\ UNCHANGED <<msgs, loading, current, aborted, run, reply, doc, th,
                 analysing, screen, server, srv>>

\* Mutant of ForMessage: a message leaves analysingDocId alone.
ForMessageKept == analysing

\* analysingDocId of a message: it analyses no letter.
ForMessage == None

\* send: it does not look at loading again.
Send(r) ==
  /\ pc[r] = "validating"
  /\ Begin(r, None)
  /\ analysing' = ForMessage
  /\ msgs' = Append(WithoutCards(msgs), NewDraft(r))
  /\ UNCHANGED <<run, reply, screen, server, srv>>

\* The analysis of letter d: the cards stay.
Analyse(r, d) ==
  /\ page = "case"
  /\ pc[r] = "new" /\ Unlocked
  /\ Begin(r, d)
  /\ analysing' = d
  /\ msgs' = Append(msgs, NewDraft(r))
  /\ UNCHANGED <<run, reply, screen, server, srv>>

\* respondApproval on the card of draft i: the card goes away and the
\* continuation is streamed into the last draft.
Respond(r, i) ==
  /\ pc[r] = "new" /\ Unlocked
  /\ msgs[i].card # None
  /\ Begin(r, analysing)
  /\ run' = [run EXCEPT ![r] = msgs[i].card.run]
  /\ reply' = [reply EXCEPT ![r] = msgs[i].card.id]
  /\ msgs' = [j \in DOMAIN msgs |->
                IF msgs[j].card # None /\ msgs[j].card.id = msgs[i].card.id
                THEN [msgs[j] EXCEPT !.card = None] ELSE msgs[j]]
  /\ UNCHANGED <<analysing, screen, server, srv>>

-----------------------------------------------------------------------------
(* The server. *)

\* The request never gets to run: too many requests, unknown case, no network.
Refuse(r) ==
  /\ page \in Refusals
  /\ pc[r] = "sent" /\ srv[r] = "none"
  /\ srv' = [srv EXCEPT ![r] = "refused"]
  /\ UNCHANGED <<client, screen, server>>

\* The guards have passed.  A new message drops the approval its thread is
\* stopped at; the tool call stays unanswered in the history.
Accept(r) ==
  /\ pc[r] \in {"sent", "closed"} /\ srv[r] = "none"
  /\ pc[r] = "closed" => r \in aborted
  /\ srv' = [srv EXCEPT ![r] = "running"]
  /\ IF reply[r] = None /\ parked[th[r]] # None
     THEN lost' = lost \cup {th[r]} /\ parked' = [parked EXCEPT ![th[r]] = None]
     ELSE UNCHANGED <<lost, parked>>
  /\ UNCHANGED <<client, screen, analysis>>

\* r starts a run, or continues the one its thread is stopped at.
Continues(r) == reply[r] = None \/ (parked[th[r]] # None
                                    /\ parked[th[r]].id = reply[r])

\* The run the answer belongs to.
RunOf(r) == IF reply[r] = None THEN r ELSE parked[th[r]].run

\* The final answer; on_final stores it for the letter that was named.
Final(r) ==
  /\ srv[r] = "running" /\ Continues(r)
  /\ th[r] \notin lost
  /\ srv' = [srv EXCEPT ![r] = "final"]
  /\ analysis' = IF doc[r] = None THEN analysis
                 ELSE [analysis EXCEPT ![doc[r]] = RunOf(r)]
  /\ parked' = [parked EXCEPT ![th[r]] = None]
  /\ UNCHANGED <<client, screen, lost>>

\* validate_input answers a new message itself; nothing is stored.
Answered(r) ==
  /\ srv[r] = "running" /\ reply[r] = None
  /\ srv' = [srv EXCEPT ![r] = "final"]
  /\ UNCHANGED <<client, screen, server>>

\* The model proposes a gated call: the thread stops at it.
Pause(r) ==
  /\ srv[r] = "running" /\ Continues(r)
  /\ th[r] \notin lost
  /\ srv' = [srv EXCEPT ![r] = "paused"]
  /\ parked' = [parked EXCEPT ![th[r]] = [id |-> r, run |-> RunOf(r)]]
  /\ UNCHANGED <<client, screen, lost, analysis>>

\* Something raises: a tool call may be left pending under its id.
Error(r) ==
  /\ srv[r] = "running"
  /\ Continues(r) \/ th[r] \in lost
  /\ srv' = [srv EXCEPT ![r] = "error"]
  /\ \E p \in {None, parked[th[r]]} : parked' = [parked EXCEPT ![th[r]] = p]
  /\ UNCHANGED <<client, screen, lost, analysis>>

\* A decision on a run that another message has replaced: nothing is pending
\* under its id and the stream is empty.
Nothing(r) ==
  /\ srv[r] = "running" /\ ~Continues(r)
  /\ srv' = [srv EXCEPT ![r] = "empty"]
  /\ UNCHANGED <<client, screen, server>>

\* The client is gone: the run stops at its next frame, perhaps before a tool.
CutOff(r) ==
  /\ srv[r] = "running" /\ r \in aborted
  /\ srv' = [srv EXCEPT ![r] = "cut"]
  /\ \/ UNCHANGED parked
     \/ /\ Continues(r) /\ th[r] \notin lost
        /\ parked' = [parked EXCEPT ![th[r]] = [id |-> r, run |-> RunOf(r)]]
  /\ UNCHANGED <<client, screen, lost, analysis>>

-----------------------------------------------------------------------------
(* The rest of consumeStream. *)

\* update: the last draft; an empty transcript stays empty.
Last(ms, f, v) ==
  IF ms = <<>> THEN ms
  ELSE IF f = "text" THEN [ms EXCEPT ![Len(ms)].text = v]
  ELSE [ms EXCEPT ![Len(ms)].card = v]

\* Mutant of Ended: the flag stays.
EndedNever(r) == loading

\* Mutant of Forgotten: abortRef keeps the controller of a finished request.
ForgottenNever(r) == current

Forgotten(r) == IF current = r THEN None ELSE current

\* The finally block: only the request in flight takes the flag down.
Ended(r) == IF current = r THEN FALSE ELSE loading

Close(r) ==
  /\ pc' = [pc EXCEPT ![r] = "closed"]
  /\ current' = Forgotten(r)
  /\ loading' = Ended(r)
  /\ UNCHANGED <<aborted, run, reply, doc, th, analysing, screen, server, srv>>

\* fetch, or the reader of the body, rejects with an AbortError.
Abort(r) ==
  /\ pc[r] \in {"sent", "streaming"} /\ r \in aborted
  /\ Close(r)
  /\ UNCHANGED msgs

Response(r) ==
  /\ pc[r] = "sent" /\ r \notin aborted
  /\ srv[r] # "none"
  /\ pc' = [pc EXCEPT ![r] = IF srv[r] = "refused" THEN "refusing"
                             ELSE "streaming"]
  /\ UNCHANGED <<msgs, loading, current, aborted, run, reply, doc, th,
                 analysing, screen, server, srv>>

\* Mutant of Refused: the error body is read and dropped.
RefusedSilent(r) == msgs

\* What the transcript becomes when the error body has been read.
Refused(r) == Last(msgs, "text", r)

\* The body of the error has been read, or reading it was aborted: the signal
\* is not looked at again.
ErrorBody(r) ==
  /\ pc[r] = "refusing"
  /\ msgs' = Refused(r)
  /\ Close(r)

\* applyFrame for the frame that ends the stream.
Painted(r) ==
  IF srv[r] \in {"final", "error"} THEN Last(msgs, "text", r)
  ELSE IF srv[r] = "paused" /\ parked[th[r]] # None
       THEN Last(msgs, "card", parked[th[r]])
  ELSE msgs

Frames(r) ==
  /\ pc[r] = "streaming" /\ r \notin aborted
  /\ srv[r] \in {"final", "error", "paused", "empty"}
  /\ msgs' = Painted(r)
  /\ Close(r)

-----------------------------------------------------------------------------
(* Choosing the conversation: App.onOpenChat and App.onNewChat. *)

OpenChat(t) ==
  /\ opened < Opens
  /\ thread' = t
  /\ opening' = opening \cup {t}
  /\ opened' = opened + 1
  /\ UNCHANGED <<page, unused, client, server, srv>>

\* load and reset abort the request in flight and replace the transcript.
Replace(ms) ==
  /\ aborted' = Cancelled
  /\ msgs' = ms
  /\ UNCHANGED <<loading, current, pc, run, reply, doc, th, analysing, server,
                 srv>>

SavedDraft == [run |-> None, text |-> None, card |-> None]

Loaded(t) ==
  /\ t \in opening
  /\ opening' = opening \ {t}
  /\ Replace(<<SavedDraft>>)
  /\ UNCHANGED <<page, thread, unused, opened>>

NotLoaded(t) ==
  /\ t \in opening
  /\ opening' = opening \ {t}
  /\ Replace(<<>>)
  /\ UNCHANGED <<page, thread, unused, opened>>

NewChat ==
  /\ \E t \in unused : thread' = t /\ unused' = unused \ {t}
  /\ Replace(<<>>)
  /\ UNCHANGED <<page, opening, opened>>

-----------------------------------------------------------------------------
User(r) ==
  \/ Submit(r) \/ \E d \in Doc : Analyse(r, d)
  \/ \E i \in DOMAIN msgs : Respond(r, i)

Server(r) ==
  \/ Refuse(r) \/ Accept(r) \/ Final(r) \/ Answered(r) \/ Pause(r) \/ Error(r)
  \/ Nothing(r) \/ CutOff(r)

Client(r) ==
  \/ Invalid(r) \/ Send(r) \/ Abort(r) \/ Response(r) \/ ErrorBody(r)
  \/ Frames(r)

Choose ==
  /\ page = "free"
  /\ NewChat \/ \E t \in Saved : OpenChat(t) \/ Loaded(t) \/ NotLoaded(t)

Next == Choose \/ \E r \in Request : User(r) \/ Server(r) \/ Client(r)

Spec == Init /\ [][Next]_vars

\* The network and the server answer, and the browser runs its callbacks.
FairSpec == Spec /\ \A r \in Request : WF_vars(Server(r)) /\ WF_vars(Client(r))

-----------------------------------------------------------------------------
InFlight(r) == pc[r] \in {"sent", "refusing", "streaming"}

\* Every variable has its type; abortRef names a request that is in flight.
TypeOK ==
  /\ page \in Page
  /\ msgs \in Seq(Draft)
  /\ loading \in BOOLEAN
  /\ current \in {r \in Request : InFlight(r)} \cup {None}
  /\ aborted \subseteq Request
  /\ pc \in [Request -> {"new", "validating", "sent", "refusing", "streaming",
                         "closed"}]
  /\ srv \in [Request -> {"none", "refused", "running", "final", "error",
                          "paused", "empty", "cut"}]
  /\ run \in [Request -> Request]
  /\ reply \in [Request -> Request \cup {None}]
  /\ doc \in [Request -> Doc \cup {None}]
  /\ th \in [Request -> Threads \cup {None}]
  /\ analysing \in Doc \cup {None}
  /\ thread \in Threads /\ unused \subseteq Unsaved
  /\ opening \subseteq Saved
  /\ opened \in 0 .. Opens
  /\ parked \in [Threads -> Approval \cup {None}]
  /\ lost \subseteq Threads
  /\ analysis \in [Doc -> Request \cup {None}]

\* Every draft of the free chat shows what its own run produced.
DraftOwn ==
  page = "free" => \A i \in DOMAIN msgs :
    /\ msgs[i].text # None => run[msgs[i].text] = msgs[i].run
    /\ msgs[i].card # None => msgs[i].card.run = msgs[i].run

\* The turn the user took last never keeps its spinner: when nothing is
\* loading, its draft has a text, an error or a card.
LastDraftSettled ==
  ~loading /\ msgs # <<>> =>
    LET m == msgs[Len(msgs)]
    IN  m.run # None => m.text # None \/ m.card # None

\* A card on the screen is the one its thread is stopped at: answering it
\* continues the run.
CardsLive ==
  page = "free" /\ ~loading => \A i \in DOMAIN msgs :
    msgs[i].card # None => parked[thread] = msgs[i].card

\* The analysis stored for a letter is the answer of a run that analysed it.
AnalysisIsOwn ==
  \A d \in Doc : analysis[d] # None => doc[analysis[d]] = d

\* The lock on the buttons is always released.
LoadingEnds == loading ~> ~loading
=============================================================================
