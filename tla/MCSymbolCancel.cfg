SPECIFICATION Spec
CONSTANTS
  fileA = fileA
  fileB = fileB
  short = short
  long = long
  binary = binary
  call1 = call1
  call2 = call2
  Absent = Absent
  Skipped = Skipped
  Unread = Unread
  NoKey = NoKey
  NoOutput = NoOutput
  Files = {fileA, fileB}
  Contents = {short, long, binary}
  Unreadable = {binary}
  Defines = {long}
  Mentions = {short, long}
  Long = {long}
  Requests <- SiteRequests
  Calls = {call1, call2}
  CallCapacity = 1
  GraphCapacity = 1
  StoreBudget = 1
  MaxWrites = 0
CHECK_DEADLOCK FALSE
SYMMETRY Symmetry
INVARIANT AnswersComplete
