SPECIFICATION USpec
CONSTANTS
  Value = {a, b, c, d}
  Null = null
  MaxHeld = 3
PROPERTY QueueImplemented
