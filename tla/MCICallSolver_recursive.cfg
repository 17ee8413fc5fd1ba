SPECIFICATION Spec
CONSTANTS
  Procedures <- MCProc
  Order  <- MCOrder
  Bodies <- MCBodies
INVARIANT
  ClosureKnown
\* The constructor returns.
CHECK_DEADLOCK FALSE
