\* create_solver_table on programs of three procedures.
SPECIFICATION TableSpec
CONSTANTS
  Procedures <- MCProc
  Order     <- MCOrder
  Bodies    <- MCBodies
  Programs  <- MCPrograms
  MaxDepth  <- MCMaxDepth
  ProcNames <- MCProcNames
INVARIANTS
  NothingButCalls
  TablesMirror
  EntriesComplete
  IndexesMirror
  SolversDecide
  StarsAreClosures
  EffectsOfAllThatRuns
PROPERTY
  ConstructorsEnd
\* The constructors return, or reach the bound on their depth.
CHECK_DEADLOCK FALSE
