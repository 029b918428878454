SPECIFICATION Spec
CONSTANTS
  Rest <- NoRest
  Parts <- SpacedParts
  Stray <- LostWords
  Path <- MixedPaths
  Sorted <- LineOrder
  empty = empty
  text = text
  other = other
  Content = {empty, text, other}
  EmptyText = empty
  Edits <- OneText
  Markers = markers
  NoFile = none
  Branch = {main, dev}
  Main = main
  HeadName = HEAD
  Volatile = {}
  MaxCommits = 1
CHECK_DEADLOCK FALSE
PROPERTY StagedCommitted
