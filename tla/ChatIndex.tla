------------------------------- MODULE ChatIndex -------------------------------
(***************************************************************************)
(* The saved conversations: the table chat_threads, the routes of          *)
(* src/api/routers/chat_history.py and the way a free chat (chat,          *)
(* chat_resume in src/api/routers/chat.py) enters it.  The messages        *)
(* themselves are in the checkpointer, which knows the thread alone; who   *)
(* said what on a thread is kept here as a set of users.                   *)
(***************************************************************************)
EXTENDS Sessions

CONSTANTS Thread   \* thread ids that clients send

VARIABLES
  index,     \* index[u][t]: user u has a row for thread t
  spoken,    \* spoken[t]: the users whose words are in the history of t
  orphaned,  \* threads that have had a row or a history and then no row at all
  shown      \* shown[r]: the users whose words r was answered with

chatVars == <<index, spoken, orphaned, shown>>

OnThread == {"chat", "chat_resume", "chat_messages", "chat_rename", "chat_delete"}

ChatInit ==
  /\ index = [u \in Name |-> [t \in Thread |-> FALSE]]
  /\ spoken = [t \in Thread |-> {}]
  /\ orphaned = {}
  /\ shown = [r \in Request |-> {}]

\* Mutant of ClaimedByOther: nobody asks whose thread it is.
ClaimedByNobody(u, t) == FALSE

\* claimed_by_other
ClaimedByOther(u, t) == \E v \in Name \ {u} : index[v][t]

\* The turn is limited, then the thread must not be another user's.
ChatClaim(r) ==
  /\ pc[r] = "open" /\ call[r].op \in {"chat", "chat_resume"}
  /\ \/ Answer(r, 429)
     \/ ClaimedByOther(who[r], call[r].thread) /\ Answer(r, 404)
     \/ /\ ~ClaimedByOther(who[r], call[r].thread)
        /\ Goto(r, IF call[r].op = "chat" THEN "touch" ELSE "turn")
  /\ UNCHANGED <<chatVars, quiet>>

\* touch_thread, a second statement; a failure is logged and the turn runs.
TouchThread(r) ==
  /\ At(r, "touch", "chat")
  /\ \/ index' = [index EXCEPT ![who[r]][call[r].thread] = TRUE]
     \/ UNCHANGED index
  /\ Goto(r, "turn")
  /\ UNCHANGED <<spoken, orphaned, shown, quiet>>

\* The threads with a history that are in nobody's list.
Unlisted(ix, sp) == {t \in Thread : sp[t] # {} /\ \A u \in Name : ~ix[u][t]}

\* The turn adds the user's words to the history; a resumed one adds none, nor
\* does one whose client has left before it begins.
ChatTurn(r) ==
  /\ pc[r] = "turn"
  /\ \/ /\ call[r].op = "chat"
        /\ spoken' = [spoken EXCEPT ![call[r].thread] = @ \cup {who[r]}]
     \/ UNCHANGED spoken
  /\ orphaned' = orphaned \cup Unlisted(index, spoken')
  /\ Answer(r, 200)
  /\ UNCHANGED <<index, shown, quiet>>

\* chat_messages: owns_thread, ...
OwnsThread(r) ==
  /\ At(r, "open", "chat_messages")
  /\ IF index[who[r]][call[r].thread] THEN Goto(r, "history") ELSE Answer(r, 404)
  /\ UNCHANGED <<chatVars, quiet>>

\* ... then get_thread_messages, by the thread alone.
ThreadMessages(r) ==
  /\ At(r, "history", "chat_messages")
  /\ shown' = [shown EXCEPT ![r] = spoken[call[r].thread]]
  /\ Answer(r, 200)
  /\ UNCHANGED <<index, spoken, orphaned, quiet>>

\* chat_rename changes a title only; chats_list reads the user's own rows.
RenameThread(r) ==
  /\ At(r, "open", "chat_rename")
  /\ \/ Answer(r, 422)
     \/ Answer(r, IF index[who[r]][call[r].thread] THEN 200 ELSE 404)
  /\ UNCHANGED <<chatVars, quiet>>

ListThreads(r) ==
  /\ At(r, "open", "chats_list")
  /\ Answer(r, 200)
  /\ UNCHANGED <<chatVars, quiet>>

\* chat_delete: the row goes; the history stays, and so does a turn that has
\* touched the thread and not begun, or was cut off before it began.
DeleteThread(r) ==
  LET t == call[r].thread
  IN /\ At(r, "open", "chat_delete")
     /\ Answer(r, IF index[who[r]][t] THEN 204 ELSE 404)
     /\ index' = [index EXCEPT ![who[r]][t] = FALSE]
     /\ orphaned' = IF index[who[r]][t] /\ \A u \in Name : ~index'[u][t]
                    THEN orphaned \cup {t} ELSE orphaned
     /\ UNCHANGED <<spoken, shown, quiet>>

ChatStep(r) ==
  \/ ChatClaim(r) \/ TouchThread(r) \/ ChatTurn(r)
  \/ OwnsThread(r) \/ ThreadMessages(r)
  \/ RenameThread(r) \/ ListThreads(r) \/ DeleteThread(r)
=============================================================================
