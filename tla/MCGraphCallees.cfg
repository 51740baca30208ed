\* One field of the answers against what its name says.
CONSTANTS
  Bare <- MCBare
  TestPaths = {"tests/b.rs"}
  TestNames = {}
  Programs <- MCPrograms
  SymbolRequests <- MCSymbolRequests
  GraphRequests <- MCGraphRequests
  ChainPage = 2
  NodePage = 2
  MaxToolDepth = 2
  MaxGraphDepth = 2
  NoGraph = NoGraph
  NoCursor = NoCursor
  TopNames = 1
  MaxEntries = 2
SPECIFICATION Spec
CHECK_DEADLOCK FALSE
INVARIANT CalleesDirect
