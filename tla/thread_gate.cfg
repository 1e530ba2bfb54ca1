CONSTANTS
  None = None
  q1 = q1
  q2 = q2
  q3 = q3
  q4 = q4
  c1 = c1
  c2 = c2
  Request <- Requests3
  Call <- Calls
  Batches <- OneByOne
  Limit = 7
  HasCase = TRUE
  Env <- EverythingButSearch
SPECIFICATION Spec
INVARIANTS TypeOK OnlyApprovedWrites
PROPERTIES ImplementsGate
SYMMETRY Symmetry
\* A thread may stay parked and a request may never come.
CHECK_DEADLOCK FALSE
