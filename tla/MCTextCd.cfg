SPECIFICATION TextSpec
CONSTANTS
  Requests <- MCRequests
  Unanswered = Unanswered
  MaxAnchors = 2
  Window = 1
  Private <- MCPrivate
  Py <- MCPy
CHECK_DEADLOCK FALSE
INVARIANT CdAlwaysHonoured
