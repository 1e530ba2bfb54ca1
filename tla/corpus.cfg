CONSTANTS
  None = None
  small = small
  large = large
  Chunks = 5
  BatchEnds = {2, 3, 5}
  Model <- Models
  WithParents = TRUE
  MaxRuns = 4
SPECIFICATION Spec
INVARIANTS ParentsFirst OneModel DoneIsComplete
PROPERTIES RecordedQueriesMatch
SYMMETRY Symmetry
\* The number of runs is bounded.
CHECK_DEADLOCK FALSE
