\* The solvers on all small programs.
SPECIFICATION FairSpec
CONSTANTS
  Program  <- MCPrograms_search
  Queries  <- MCQueries
  Points   <- FlowPoints
  Start    <- FlowStart
  Succ     <- FlowSucc
  Emit     <- FlowEmit
  NoQuery = NoQuery
  MaxAsked <- MCMaxAsked
INVARIANTS
  NextSolversAgree
  AnswersMeanRelations
  AnswersWithinPredicates
  NothingForgotten
PROPERTIES
  ImplementsSearchContract
  SearchesEnd
\* Asking is bounded, and a query answered before changes nothing.
CHECK_DEADLOCK FALSE
