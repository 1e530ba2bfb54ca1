CONSTANTS
  q1 = q1
  q2 = q2
  q3 = q3
  q4 = q4
  q5 = q5
  Request <- Requests
  Limit = 2
  Window = 4
  PerSecond = 2
  Delay = 1
  Horizon = 9
SPECIFICATION Spec
INVARIANTS WindowBound ToldWaitSuffices
SYMMETRY Symmetry
\* The clock stops at Horizon and every request gets one verdict.
CHECK_DEADLOCK FALSE
