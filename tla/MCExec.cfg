SPECIFICATION FairSpec
CONSTANTS
  MaxStdin = 2
  StdinCap = 1
  PipeCap = 2
  MaxOutput = 3
  Budget <- MCBudget
  Line = {"text", "binary"}
INVARIANTS TypeOK NoChildLeft DecodedIsComplete NoBrokenPipe
PROPERTIES FittingCallAnswered CancelledCallAnswered
