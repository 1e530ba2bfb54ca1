CONSTANTS
  None = None
  q1 = q1
  q2 = q2
  q3 = q3
  q4 = q4
  c1 = c1
  c2 = c2
  Request <- Requests3
  Call <- OneCall
  Batches <- OnceOnly
  Limit = 5
  HasCase = TRUE
  Env <- Looping
SPECIFICATION FairSpec
PROPERTIES RequestsEnd ApprovalTakesEffect
\* A thread may stay parked and a request may never come.
CHECK_DEADLOCK FALSE
