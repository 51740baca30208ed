SPECIFICATION FairSpec
CONSTANTS
  sidA = sidA
  sidB = sidB
  fileA = fileA
  fileB = fileB
  c00 = c00
  c10 = c10
  c01 = c01
  c11 = c11
  Absent = Absent
  NoHash = NoHash
  NoLock = NoLock
  NoCall = NoCall
  NoRequest = NoRequest
  NoSnapshot = NoSnapshot
  Sid = {sidA, sidB}
  Content <- MCContent
  Edit <- MCEdits
  Apply <- MCApply
  MaxCount = 3
  Path = {fileA}
  Call = {k1, k2, k3}
  Request <- MixedRequests
  Threshold = 2
  MapCap = 2
  PanicStrategy = {"abort", "unwind"}
INVARIANTS CounterCovered
PROPERTY EveryCallAnswered
