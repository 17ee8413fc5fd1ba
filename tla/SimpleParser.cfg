\* All texts of up to five statements with two procedure names.
SPECIFICATION Spec
CONSTANTS
  Names = {1, 2}
  Vars  = {"x"}
  MaxStatements = 5
INVARIANT
  AcceptedWellFormed
\* The parser returns.
CHECK_DEADLOCK FALSE
