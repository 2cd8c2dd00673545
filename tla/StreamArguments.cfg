SPECIFICATION Spec
CONSTANTS
  Wire = {read, run}
  MaxRounds = 1
  MaxChunks = 3
INVARIANT ArgumentsAssociated
CHECK_DEADLOCK FALSE
