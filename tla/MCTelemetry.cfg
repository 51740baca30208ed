SPECIFICATION FairSpec
CONSTANTS
  call1 = call1
  call2 = call2
  Calls = {call1, call2}
  ToolsOf <- MCToolsOf
  Capacity = 2
  BatchMax = 2
  MaxInits = 2
  Binder = Binder
  NoTool = NoTool
INVARIANTS SummaryCountsCalls PairsUnique
PROPERTY CallsEnd
