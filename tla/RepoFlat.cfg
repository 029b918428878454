SPECIFICATION FlatSpec
CONSTANTS
  Rest <- NoRest
  Parts <- SpacedParts
  Stray <- NoWord
  Path <- FlatPaths
  Sorted <- LineOrder
  empty = empty
  text = text
  other = other
  Content = {empty, text, other}
  EmptyText = empty
  Edits <- TwoTexts
  Markers = markers
  NoFile = none
  Branch = {main, dev}
  Main = main
  HeadName = HEAD
  Volatile <- FlatPaths
  MaxCommits = 3
CHECK_DEADLOCK FALSE
INVARIANT HistoryClosed
PROPERTIES StagingKept TipsOnlyAdvance MergeRecorded HistoryImplemented
