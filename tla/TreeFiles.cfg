SPECIFICATION TSpec
CONSTANTS
  File <- Files
  Rest <- Rests
INVARIANT TreeHoldsWritten
CHECK_DEADLOCK FALSE
