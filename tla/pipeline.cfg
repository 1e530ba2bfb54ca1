SPECIFICATION Spec
CONSTANTS
  TargetSlugs <- Slugs
  Law <- Laws
  NoBook = NoBook
  Retries = 3
  RateLimitRetries = 2
  MaxRuns = 3
  Chunks <- Rows
  Question <- Questions
  Variants <- Reworded
  Settings <- Switches
  CandidateK = 2
  FanoutK = 3
  RetrievalK = 2
  MultiQueryN = 1
  SourceMaxChars = 3
  SourceRows <- Pages
  NoTag = NoTag
  NoParent = NoParent
  MaxClauseChars = 4
  ParentTokens = 4
  ChildTokens = 2
  ChildOverlap = 1
  MinKeywordHits = 2
  MaxDecisions = 2
  Missing = Missing
  Refused = Refused
  Collections <- Evaluated
  Annotated = {"case_law"}
  MaxEvals = 3
  NaN = NaN
  User = {"ada", "bea"}
  Nobody = Nobody
  Late = FALSE
  MaxAsked = 3
  Contracts <- ContractTexts
  Decisions <- DecisionTexts
  Dumps <- AllDumps
  Gists <- AllGists
  NoticeQuestions <- Notices
  RentQuestions <- Rents
INVARIANTS QuietIsComplete SearchSound NothingLost DumpsFaithful FiguresRight ScoresKept ListsSettleOwn
PROPERTIES CopyKept
