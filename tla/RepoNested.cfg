SPECIFICATION Spec
CONSTANTS
  Rest <- NoRest
  Parts <- SpacedParts
  Stray <- NoWord
  Path <- NestedPaths
  Sorted <- LineOrder
  empty = empty
  text = text
  other = other
  Content = {empty, text, other}
  EmptyText = empty
  Edits <- FirstChanges
  Markers = markers
  NoFile = none
  Branch = {main}
  Main = main
  HeadName = HEAD
  Volatile = {}
  MaxCommits = 3
CHECK_DEADLOCK FALSE
INVARIANTS TypeOK BlobsStored SnapshotsGrow
PROPERTIES CheckoutRoundTrip
