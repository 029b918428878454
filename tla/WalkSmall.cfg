SPECIFICATION WSpec
CONSTANTS
  Size = 5
  Null = null
INVARIANTS WalkRight LogRight
PROPERTY WalkEnds
CHECK_DEADLOCK FALSE
