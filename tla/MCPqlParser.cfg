CONSTANTS
  Names     <- MCNames
  NameRank  <- MCNameRank
  Solvers   <- MCSolvers
  Address   <- MCAddress
  ProcTable <- MCProcTable
  ProcNames <- MCProcNames
  LineTable = {1, 2, 3, 4, 5}
  Qvars     <- MCQvars
  Keywords  <- MCKeywords
  Selectors <- MCSelectors
  SuchThats <- MCSuchThats
  Withs     <- MCWiths
  Patterns  <- MCPatterns
  Program   <- MCProgram
  Matches   <- MCMatches
  MaxDeclared = 2
  MaxPhrases  = 2
  MaxTexts    = 2
SPECIFICATION SessionSpec
INVARIANTS
  ParserTypeOK
  ClausesKept
  ClausesMeanText
  QueriesApart
\* The batch ends, and a session has a bound.
CHECK_DEADLOCK FALSE
