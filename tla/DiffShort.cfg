SPECIFICATION Spec
CONSTANTS
  Line = {"x", "y"}
  MaxLines = 4
INVARIANTS ScriptRight EitherSide
PROPERTY DiffEnds
CHECK_DEADLOCK FALSE
