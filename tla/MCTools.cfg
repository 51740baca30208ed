SPECIFICATION SuiteSpec
CONSTANTS
  Requests <- MCSuiteRequests
  Unanswered = Unanswered
  MaxAnchors = 2
  Window = 1
  Private <- MCPrivate
  Py <- MCPy
  FunctionPage = 1
  MethodLimit = 1
  TopFunctions = 1
  p1 = p1
  p2 = p2
  Servers = {p1, p2}
  Programs <- MCPrograms
  BuiltinRules <- MCBuiltin
  ProjectFiles <- MCProjects
  StreamBytes = 6
  StdoutBytes = 4
  StderrBytes = 2
  InterleavedBytes = 7
  OutputLines = 2
  PreviewLines = 1
  PidBound = 3
  FailureBound = 1
  here = here
  there = there
  Roots = {here, there}
  Edited = {here}
  Visits <- MCVisits
  PerSecond = 2
  ListingLimit = 1
  PageOfFiles = 1
  TickBound = 2
  one = one
  other = other
  Writers = {one, other}
  FirstDays <- MCFirstDays
  DayLeaps <- MCLeaps
  LastDayBound = 31
  BatchLimit = 2
  StartBound = 3
  BatchBound = 2
  FaultBound = 1
  fileA = fileA
  plainA = plainA
  linkA = linkA
  bytes0 = bytes0
  bytes1 = bytes1
  edit1 = edit1
  call1 = call1
  call2 = call2
  call3 = call3
  Absent = Absent
  NoKey = NoKey
  NoValue = NoValue
  Files = {fileA}
  Names = {plainA, linkA}
  FileOf <- OneFile
  Contents = {bytes0, bytes1}
  Empty = bytes0
  Unparsable = {}
  Unsupported = {linkA}
  Calls = {call1, call2}
  Edits = {edit1}
  Capacity = 1
  FineMtime = TRUE
  MaxVersions = 3
CHECK_DEADLOCK FALSE
SYMMETRY Symmetry
INVARIANTS RemovedIsOldText PanicsOnlyWhereMatchesAbut BatchIsItsEdits OneNamePerFile CdHonoured AcceptedHeredocs AnchorsExact WildcardAsPython
INVARIANTS CapturesWhole LinksHold LinesAccounted ListingsFresh BatchesTogether RetentionExact WalkListsFunctions
INVARIANTS AnswersFresh DiskEntriesTruthful
