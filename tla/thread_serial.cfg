CONSTANTS
  None = None
  q1 = q1
  q2 = q2
  q3 = q3
  q4 = q4
  c1 = c1
  c2 = c2
  Request <- Requests4
  Call <- Calls
  Batches <- Mixed
  Limit = 11
  HasCase = TRUE
  Env <- NoEvents
SPECIFICATION Spec
INVARIANTS SomeCallApproved HistoryComplete ParkedIsShown
PROPERTIES TurnsKept
\* A thread may stay parked and a request may never come.
CHECK_DEADLOCK FALSE
