SPECIFICATION Spec
CONSTANTS
  Proc = {p1, p2}
  main = main
  next = next
  old = old
  new = new
  markers = markers
  Path <- Files
  Text = {old, new, markers}
  Markers = markers
  Branch <- Branches
  Main = main
  Setups <- Repositories
  MaxCommits = 6
  Idle = idle
CHECK_DEADLOCK FALSE
INVARIANTS TypeOK HistoryReadable CommitsKept MergeKept ObjectsWhole FilesKept
