SPECIFICATION Spec
CONSTANTS
  fileA = fileA
  plainA = plainA
  linkA = linkA
  bytes0 = bytes0
  bytes1 = bytes1
  edit1 = edit1
  call1 = call1
  call2 = call2
  call3 = call3
  Absent = Absent
  NoKey = NoKey
  NoValue = NoValue
  Files = {fileA}
  Names = {plainA}
  FileOf <- OneFile
  Contents = {bytes0, bytes1}
  Empty = bytes0
  Unparsable = {}
  Unsupported = {}
  Calls = {call1, call2}
  Edits = {}
  Capacity = 2
  FineMtime = TRUE
  MaxVersions = 3
CHECK_DEADLOCK FALSE
SYMMETRY Symmetry
INVARIANT ModulesFresh
