------------------------------- MODULE MCAppServer -------------------------------
(* Three requests on three databases: case files, accounts and conversations. *)
EXTENDS AppServer, TLC

Users == {"ada", "bea", "eve", "new"}

Admin(a) == [role |-> "admin", active |-> a, by |-> None]
Plain == [role |-> "user", active |-> TRUE, by |-> None]

Accounts == [ada |-> Admin(TRUE), bea |-> Admin(TRUE), eve |-> Plain, new |-> None]

Paper(c, k, clauses) ==
  [case |-> c, kind |-> k, clauses |-> clauses, analysis |-> None, by |-> None]
Due(c, d, s) == [case |-> c, due |-> d, status |-> s, by |-> None]

Papers == <<Paper(1, "letter", <<>>), Paper(1, "contract", <<TRUE, FALSE, TRUE>>),
            Paper(2, "letter", <<>>), None, None, None>>
Dues == <<Due(1, 2, "open"), Due(1, 1, "open"), None, None, None>>

OnCase(u, op, c) == <<u, [op |-> op, case |-> c]>>
OnDoc(u, op, c, d) == <<u, [op |-> op, case |-> c, doc |-> d]>>

CaseCalls ==
  {OnCase("eve", o, 1) : o \in {"cases_get", "cases_delete", "case_turn"}}
  \cup {<<"eve", [op |-> "documents_upload", case |-> 1, kind |-> "contract",
                  clauses |-> <<TRUE>>]>>}
  \cup {OnDoc("eve", o, 1, 1) : o \in {"documents_delete", "documents_analyse",
                                       "documents_review"}}
  \cup {OnDoc("eve", "documents_review", 1, 2)}
  \cup {<<"eve", [op |-> "case_resume", case |-> 1, doc |-> d, tool |-> t, due |-> 1]>> :
          d \in {1}, t \in {"create_deadline", "save_draft"}}
  \cup {<<"eve", [op |-> "deadlines_create", case |-> 1, due |-> 1]>>,
        <<"eve", [op |-> "deadlines_set_status", case |-> 1, deadline |-> 2,
                  status |-> "missed"]>>,
        <<"eve", [op |-> "deadlines_delete", case |-> 1, deadline |-> 1]>>}
  \cup {OnCase("ada", o, 1) : o \in {"cases_get", "cases_delete"}}
  \cup {OnDoc("ada", "documents_analyse", 2, 1),
         OnDoc("ada", "documents_delete", 2, 3)}

AccountCalls ==
  {<<u, [op |-> "users_set_active", name |-> n, active |-> a]>> :
     u \in {"ada", "bea"}, n \in {"ada", "bea"}, a \in BOOLEAN}
  \cup {<<u, [op |-> "users_create", name |-> "new", role |-> ro]>> :
          u \in {"ada", "bea"}, ro \in {"user", "admin"}}
  \cup {<<u, [op |-> o]>> : u \in {"ada", "eve"}, o \in {"eval_run", "eval_status"}}
  \cup {<<u, [op |-> "login"]>> : u \in {"bea", "new"}}

ChatCalls ==
  {<<u, [op |-> o, thread |-> "t"]>> : u \in {"bea", "eve"}, o \in OnThread}
  \cup {<<u, [op |-> "chats_list"]>> : u \in {"bea", "eve"}}
  \cup {<<"eve", [op |-> o]>> : o \in {"cases_list", "cases_create"}}
  \cup {OnDoc("eve", "documents_get", 1, d) : d \in {1, 3}}

Rows(us, calling) ==
  [users |-> us, tokens |-> {"ada", "bea", "eve"},
   cases |-> <<"eve", "ada", None>>, docs |-> Papers, deadlines |-> Dues,
   calls |-> calling]

Scenarios ==
  {Rows(Accounts, CaseCalls), Rows(Accounts, ChatCalls)}
  \cup {[Rows([Accounts EXCEPT !["ada"] = a], AccountCalls) EXCEPT
           !.tokens = {"ada", "eve"}] : a \in {Admin(TRUE), None}}

Calls == UNION {{m[2] : m \in s.calls} : s \in Scenarios}

Symmetry == Permutations(Request)
=============================================================================
