\* NextBip forwards and backwards.
SPECIFICATION Spec
CONSTANTS
  Program  <- Nested
  Queries  <- MCQueries
  Points   <- FlowPoints
  Start    <- FlowStart
  Succ     <- FlowSucc
  Emit     <- FlowEmit
  NoQuery = NoQuery
  MaxAsked <- MCMaxAsked
INVARIANTS
  NextBipSolversAgree
\* Asking is bounded, and a query answered before changes nothing.
CHECK_DEADLOCK FALSE
