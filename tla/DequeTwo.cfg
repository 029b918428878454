SPECIFICATION USpec
CONSTANTS
  Value = {a, b, c, d}
  Null = null
  MaxHeld = 2
PROPERTY QueueImplemented
