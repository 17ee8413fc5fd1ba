\* All texts of up to seven characters.
SPECIFICATION Spec
CONSTANTS
  Vars     <- MCVars
  Ints     <- MCInts
  Patterns <- MCPatterns
  Letters  <- MCLetters
  Digits   <- MCDigits
  Marks    <- MCMarks
  Others   <- MCOthers
  MaxChars = 7
  MaxLong  = 3
INVARIANTS
  ParsesTheGrammar
  RejectsOnlyNonsense
  NothingDropped
  PatternsAgree
  TokensMeanText
PROPERTY
  ParserReturns
\* The parser returns.
CHECK_DEADLOCK FALSE
