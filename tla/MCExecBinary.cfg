SPECIFICATION Spec
CONSTANTS
  MaxStdin = 1
  StdinCap = 1
  PipeCap = 2
  MaxOutput = 2
  Budget <- MCBudget
  Line = {"text", "binary"}
INVARIANT UntruncatedIsComplete
