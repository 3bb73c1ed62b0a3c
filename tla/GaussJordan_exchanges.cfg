SPECIFICATION InverseSpec
CONSTANTS
  N = 4
  Inputs <- Exchanges4
CHECK_DEADLOCK FALSE
INVARIANT Inverts
