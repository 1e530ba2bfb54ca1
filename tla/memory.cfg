CONSTANTS
  None = None
  k1 = k1
  k2 = k2
  u1 = u1
  u2 = u2
  w1 = w1
  w2 = w2
  t1 = t1
  t2 = t2
  Key <- Keys
  Upload <- Uploads
  Turn <- Turns
  Thread <- Threads
  Overlap = FALSE
  Failures = TRUE
SPECIFICATION Spec
INVARIANTS LabelHonest
PROPERTIES FactsKept
SYMMETRY Symmetry
\* Every writer runs once.
CHECK_DEADLOCK FALSE
