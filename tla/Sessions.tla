-------------------------------- MODULE Sessions --------------------------------
(***************************************************************************)
(* What every request of the web service has in common: the accounts, the *)
(* session tokens, the dependency get_current_user that every route but    *)
(* login and validate runs first, and the routes of accounts and of the    *)
(* evaluation job (src/auth.py, src/api/deps.py, src/api/routers/auth.py,  *)
(* src/api/routers/admin.py).                                              *)
(*                                                                         *)
(* A request is a thread of the server that is used once.  Each statement  *)
(* it sends to the database commits by itself (autocommit), so a handler   *)
(* is a sequence of atomic statements and other requests run in between.   *)
(* The display name, the persona and the password are data no rule looks   *)
(* at; a wrong password is an answer of login.                             *)
(***************************************************************************)
EXTENDS Naturals, FiniteSets

CONSTANTS
  Request,     \* the requests of the instance
  Name,        \* user names
  Predefined,  \* config.ADMIN_USERNAME; its password is configured
  Serial,      \* routes whose requests do not overlap one another
  MaxRestarts, \* how often the process is restarted at most
  None

ASSUME SessionsAssumption ==
  /\ Predefined \in Name
  /\ MaxRestarts \in Nat
  /\ None \notin Request \cup Name

VARIABLES
  users,       \* the table users: a row, or None
  tokens,      \* the users who hold a session token that is still valid
  up,          \* the process runs
  restarts,    \* restarts so far
  pc,          \* where the handler of request r is
  who,         \* CurrentUser of request r
  call,        \* the route of request r and its arguments
  ans,         \* what request r was answered
  job,         \* eval_job: status, results and error
  worker,      \* the background thread that request r started
  poll         \* the status that request r has read of the job

accountVars == <<users, tokens>>
requestVars == <<pc, who, call, ans>>
jobVars == <<job, worker, poll>>
processVars == <<up, restarts>>
sessionVars == <<accountVars, requestVars, jobVars, processVars>>
quiet == <<accountVars, jobVars, processVars>>

NoCall == [op |-> "none"]

Row == [role : {"user", "admin"}, active : BOOLEAN, by : Request \cup {None}]

ASSUME RowAssumption == None \notin Row

AdminRoutes == {"users_create", "users_set_active", "eval_run", "eval_status"}

InFlight(r) == pc[r] \notin {"new", "ended"}

IsAdmin(u) == users[u] # None /\ users[u].role = "admin"

ActiveAdmin(u) == IsAdmin(u) /\ users[u].active

Goto(r, l) == pc' = [pc EXCEPT ![r] = l] /\ UNCHANGED <<who, call, ans>>

Answer(r, code) ==
  /\ pc' = [pc EXCEPT ![r] = "ended"]
  /\ ans' = [ans EXCEPT ![r] = code]
  /\ UNCHANGED <<who, call>>

At(r, l, route) == pc[r] = l /\ call[r].op = route

-----------------------------------------------------------------------------
(* Authentication. *)

\* Mutant of Refusal: an account keeps its access until the token expires.
RefusalByToken(u, route) ==
  IF u \notin tokens \/ users[u] = None THEN 401
  ELSE IF route \in AdminRoutes /\ users[u].role # "admin" THEN 403 ELSE 200

\* get_current_user and, for the routes of admin.py, require_admin.
Refusal(u, route) ==
  IF u \notin tokens \/ users[u] = None THEN 401
  ELSE IF ~users[u].active THEN 403
  ELSE IF route \in AdminRoutes /\ users[u].role # "admin" THEN 403
  ELSE 200

\* A request arrives with the token of u; the row of u is read.
Arrive(r, u, c) ==
  /\ up /\ pc[r] = "new"
  /\ c.op \in Serial => ~\E q \in Request : InFlight(q) /\ call[q].op = c.op
  /\ who' = [who EXCEPT ![r] = u]
  /\ call' = [call EXCEPT ![r] = c]
  /\ IF Refusal(u, c.op) = 200
     THEN pc' = [pc EXCEPT ![r] = "open"] /\ UNCHANGED ans
     ELSE /\ pc' = [pc EXCEPT ![r] = "ended"]
          /\ ans' = [ans EXCEPT ![r] = Refusal(u, c.op)]
  /\ UNCHANGED quiet

\* login: limited per address, the password is verified against the row or
\* a dummy, the token is minted.
Login(r, u, right) ==
  /\ up /\ pc[r] = "new"
  /\ pc' = [pc EXCEPT ![r] = "ended"]
  /\ \/ /\ ans' = [ans EXCEPT ![r] = 429]
        /\ UNCHANGED tokens
     \/ /\ users[u] = None \/ ~right
        /\ ans' = [ans EXCEPT ![r] = 401]
        /\ UNCHANGED tokens
     \/ /\ users[u] # None /\ right /\ ~users[u].active
        /\ ans' = [ans EXCEPT ![r] = 403]
        /\ UNCHANGED tokens
     \/ /\ users[u] # None /\ right /\ users[u].active
        /\ ans' = [ans EXCEPT ![r] = 200]
        /\ tokens' = tokens \cup {u}
  /\ UNCHANGED <<users, who, call, jobVars, processVars>>

-----------------------------------------------------------------------------
(* Accounts.  No route deletes one. *)

NewRow(r) == [role |-> call[r].role, active |-> TRUE, by |-> r]

\* auth.create_user: the name is looked up, ...
LookupName(r) ==
  /\ At(r, "open", "users_create")
  /\ \/ Answer(r, 422)
     \/ users[call[r].name] # None /\ Answer(r, 409)
     \/ users[call[r].name] = None /\ Goto(r, "insert")
  /\ UNCHANGED quiet

\* Mutant of Inserted: the row of the loser replaces the row of the winner.
InsertedAnyway(r) == [users EXCEPT ![call[r].name] = NewRow(r)]

\* username is UNIQUE.
Inserted(r) ==
  IF users[call[r].name] = None
  THEN [users EXCEPT ![call[r].name] = NewRow(r)] ELSE users

\* ... and then inserted by a second statement, which the loser of a race
\* sees fail.
InsertUser(r) ==
  /\ At(r, "insert", "users_create")
  /\ users' = Inserted(r)
  /\ Answer(r, IF Inserted(r)[call[r].name] = NewRow(r) THEN 201 ELSE 500)
  /\ UNCHANGED <<tokens, jobVars, processVars>>

\* users_set_active refuses to deactivate the account that asks.
OwnAccount(r) == call[r].name = who[r] /\ ~call[r].active

SetActive(r) ==
  LET n == call[r].name
  IN /\ At(r, "open", "users_set_active")
     /\ \/ /\ OwnAccount(r)
           /\ Answer(r, 422)
           /\ UNCHANGED users
        \/ /\ ~OwnAccount(r) /\ users[n] = None
           /\ Answer(r, 404)
           /\ UNCHANGED users
        \/ /\ ~OwnAccount(r) /\ users[n] # None
           /\ users' = [users EXCEPT ![n].active = call[r].active]
           /\ Answer(r, 200)
     /\ UNCHANGED <<tokens, jobVars, processVars>>

-----------------------------------------------------------------------------
(* The evaluation job. *)

Idle == [status |-> "idle", results |-> None, error |-> FALSE]

\* Mutant of Busy: a run in flight does not keep another from starting.
BusyNever == FALSE

Busy == job.status = "running"

\* eval_run: start() under its lock, then a thread.
EvalRun(r) ==
  /\ At(r, "open", "eval_run")
  /\ Answer(r, 202)
  /\ IF Busy
     THEN UNCHANGED <<job, worker>>
     ELSE /\ job' = [job EXCEPT !.status = "running", !.error = FALSE]
          /\ worker' = [worker EXCEPT ![r] = "computing"]
  /\ UNCHANGED <<accountVars, processVars, poll>>

\* EvalJob.run, without the lock: the results or the error first, ...
EvalResult(r) ==
  /\ worker[r] = "computing"
  /\ \/ /\ job' = [job EXCEPT !.results = r]
        /\ worker' = [worker EXCEPT ![r] = "succeeded"]
     \/ /\ job' = [job EXCEPT !.error = TRUE]
        /\ worker' = [worker EXCEPT ![r] = "failed"]
  /\ UNCHANGED <<accountVars, requestVars, processVars, poll>>

\* ... then the status, and the thread ends.
EvalStatus(r) ==
  /\ worker[r] \in {"succeeded", "failed"}
  /\ job' = [job EXCEPT !.status =
                IF worker[r] = "succeeded" THEN "done" ELSE "error"]
  /\ worker' = [worker EXCEPT ![r] = "none"]
  /\ UNCHANGED <<accountVars, requestVars, processVars, poll>>

\* eval_status reads the status, then the rest.
PollStatus(r) ==
  /\ At(r, "open", "eval_status")
  /\ poll' = [poll EXCEPT ![r] = [status |-> job.status, results |-> None]]
  /\ Goto(r, "polled")
  /\ UNCHANGED <<accountVars, processVars, job, worker>>

PollResults(r) ==
  /\ At(r, "polled", "eval_status")
  /\ poll' = [poll EXCEPT ![r].results = job.results]
  /\ Answer(r, 200)
  /\ UNCHANGED <<accountVars, processVars, job, worker>>

-----------------------------------------------------------------------------
(* The process. *)

\* setup_db: seed_admin inserts the predefined administrator if there is no
\* such row; it never changes one.
Start ==
  /\ ~up
  /\ up' = TRUE
  /\ users' = IF users[Predefined] = None
              THEN [users EXCEPT ![Predefined] =
                      [role |-> "admin", active |-> TRUE, by |-> None]]
              ELSE users
  /\ UNCHANGED <<tokens, requestVars, jobVars, restarts>>

\* The process dies: its requests, its threads and the state of the job.
Crash ==
  /\ up /\ restarts < MaxRestarts
  /\ up' = FALSE
  /\ restarts' = restarts + 1
  /\ pc' = [r \in Request |-> IF InFlight(r) THEN "ended" ELSE pc[r]]
  /\ job' = Idle
  /\ worker' = [r \in Request |-> "none"]
  /\ UNCHANGED <<accountVars, who, call, ans, poll>>

SessionsInit ==
  /\ tokens \in SUBSET Name
  /\ up = FALSE
  /\ restarts = 0
  /\ pc = [r \in Request |-> "new"]
  /\ who = [r \in Request |-> None]
  /\ call = [r \in Request |-> NoCall]
  /\ ans = [r \in Request |-> 0]
  /\ job = Idle
  /\ worker = [r \in Request |-> "none"]
  /\ poll = [r \in Request |-> None]

AccountStep(r) ==
  \/ LookupName(r) \/ InsertUser(r) \/ SetActive(r)
  \/ EvalRun(r) \/ EvalResult(r) \/ EvalStatus(r)
  \/ PollStatus(r) \/ PollResults(r)
=============================================================================
