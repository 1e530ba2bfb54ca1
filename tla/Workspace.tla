------------------------------- MODULE Workspace -------------------------------
(***************************************************************************)
(* The session of the web client and the lists beside its views           *)
(* (frontend/src/state/session.tsx, state/workspace.tsx, api/client.ts):   *)
(* who is logged in, and whose profile, cases and chats are on the screen. *)
(* A request carries the token of the moment it was sent, and is answered  *)
(* at any time later, whoever is logged in then.                           *)
(***************************************************************************)
EXTENDS Naturals

CONSTANTS
  User,      \* the users of this browser
  Nobody,
  Late,      \* a user may log in while another's answers are on their way
  MaxAsked   \* rounds of requests at most

ASSUME WorkspaceAssumption == Nobody \notin User /\ Late \in BOOLEAN /\ MaxAsked \in Nat

VARIABLES
  token,     \* whose token the client holds; localStorage has the same one
  user,      \* the user of the session, stored beside the token
  lists,     \* whose data each list shows
  waiting,   \* the requests that are not answered: [round, list, as]
  asked      \* rounds of requests so far

deskVars == <<token, user, lists, waiting, asked>>

List == {"profile", "cases", "chats"}

Empty == [l \in List |-> Nobody]

DeskInit ==
  /\ token = Nobody /\ user = Nobody
  /\ lists = Empty /\ waiting = {} /\ asked = 0

\* One request for each of the lists ls, sent with the token of t.
AskLists(t, ls) ==
  /\ asked < MaxAsked
  /\ asked' = asked + 1
  /\ waiting' = waiting \cup {[round |-> asked', list |-> l, as |-> t] : l \in ls}

\* login, once the server has answered with a token; the effect of the
\* workspace loads all lists and leaves on the screen what is there.
LogIn(u) ==
  /\ user = Nobody
  /\ Late \/ \A f \in waiting : f.as = u
  /\ token' = u /\ user' = u
  /\ AskLists(u, List)
  /\ UNCHANGED lists

\* logout, or the answer 401 to any request; the effect clears the lists.
\* Requests on their way are not cancelled.
LoggedOut == token' = Nobody /\ user' = Nobody

LogOut ==
  /\ user # Nobody
  /\ LoggedOut
  /\ lists' = Empty
  /\ UNCHANGED <<waiting, asked>>

\* setRole: a user object with another persona, which the effect takes for a
\* login, and patchPersona.
SetRole ==
  /\ user # Nobody
  /\ AskLists(token, List \cup {"persona"})
  /\ UNCHANGED <<token, user, lists>>

\* A view refreshes a list, at the end of a stream say: by a callback from the
\* time of its start, which knows a user, and with the token of now.
Refresh(l) ==
  /\ asked > 0
  /\ AskLists(token, {l})
  /\ UNCHANGED <<token, user, lists>>

\* Mutant of Landed: what cannot be loaded stays as it was.
LandedKeeping(f, a) == IF a = "ok" THEN f.as ELSE lists[f.list]

\* What a list shows after the answer a: the data of the token's user, or none.
Landed(f, a) == IF a = "ok" THEN f.as ELSE Nobody

\* json: 401, with a token that has expired or none, logs out whoever is there.
Answered(f) ==
  /\ waiting' = waiting \ {f}
  /\ UNCHANGED asked
  /\ \E a \in {"401", "failed"} \cup (IF f.as = Nobody THEN {} ELSE {"ok"}) :
       LET left == IF a = "401" /\ user # Nobody THEN Empty ELSE lists
       IN /\ IF a = "401" THEN LoggedOut ELSE UNCHANGED <<token, user>>
          /\ lists' = IF f.list = "persona" THEN left
                      ELSE [left EXCEPT ![f.list] = Landed(f, a)]

\* The page is loaded anew: loadUser trusts what is stored.
Reload ==
  /\ lists' = Empty
  /\ IF user = Nobody
     THEN waiting' = {} /\ UNCHANGED asked
     ELSE /\ asked < MaxAsked /\ asked' = asked + 1
          /\ waiting' = {[round |-> asked', list |-> l, as |-> token] : l \in List}
  /\ UNCHANGED <<token, user>>

DeskNext ==
  \/ \E u \in User : LogIn(u)
  \/ LogOut \/ SetRole \/ Reload
  \/ \E l \in List : Refresh(l)
  \/ \E f \in waiting : Answered(f)

\* Nothing is on its way and nothing more will be asked for.
DeskRests == waiting = {} /\ asked = MaxAsked

-----------------------------------------------------------------------------
(* Property. *)

\* "A new user never sees stale data" (WorkspaceProvider), as far as it goes:
\* if nobody logs in while another's answers are on their way, then every list
\* on the screen is the user's own as soon as all requests are answered, the
\* refused and failed ones and those of callbacks that outlived a logout
\* included.
ListsSettleOwn ==
  waiting = {} /\ user # Nobody => \A l \in List : lists[l] \in {user, Nobody}
=============================================================================
