\* Every program, every request; pages of two.
CONSTANTS
  Bare <- MCBare
  TestPaths = {"tests/b.rs"}
  TestNames = {}
  Programs <- MCPrograms
  SymbolRequests <- MCSymbolRequests
  GraphRequests <- MCGraphRequests
  ChainPage = 2
  NodePage = 2
  MaxToolDepth = 2
  MaxGraphDepth = 2
  NoGraph = NoGraph
  NoCursor = NoCursor
  TopNames = 1
  MaxEntries = 2
SPECIFICATION Spec
CHECK_DEADLOCK FALSE
INVARIANTS
  ChainsExact
  WalkShowsAll
  CallsResolved
  GraphWalkExact
  PagesInduced
PROPERTY CursorsAdvance
