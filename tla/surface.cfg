CONSTANTS
  None = None
  r1 = r1
  r2 = r2
  r3 = r3
  r4 = r4
  r5 = r5
  d1 = d1
  d2 = d2
  n1 = n1
  n2 = n2
  s1 = s1
  Request <- Requests5
  Page = {"free", "case"}
  Doc <- Letters
  Unsaved <- OneThread
  Saved <- Nobody
  Refusals = {"free"}
  Eager = FALSE
  Opens = 0
SPECIFICATION Spec
INVARIANTS TypeOK DraftOwn LastDraftSettled CardsLive AnalysisIsOwn
SYMMETRY Symmetry
\* The number of requests is bounded.
CHECK_DEADLOCK FALSE
