SPECIFICATION Spec
CONSTANTS
  Request = {r1, r2, r3}
  Name <- Users
  Predefined = "ada"
  Serial = {"users_set_active", "chat"}
  MaxRestarts = 1
  Thread = {"t"}
  Case = {1, 2, 3}
  Doc = {1, 2, 3, 4, 5, 6}
  Deadline = {1, 2, 3, 4, 5}
  BlockDocs = 1
  BlockDeadlines = 1
  Verdict = {"unwirksam"}
  Scenario <- Scenarios
  Call <- Calls
  None = None
  Gone = Gone
SYMMETRY Symmetry
INVARIANTS TypeOK Isolation NoOrphans ReviewComplete AnswersHold SoonestShown AdminRemains JobHonest HistoryOwn
