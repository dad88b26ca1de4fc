\* Every edit, undo and redo on a small tree.
SPECIFICATION Spec
CONSTANTS
  LoadedChildren <- MCChildren
  LoadedContainers <- MCContainers
  Labels = {"plain", "other"}
  Plain = "plain"
  Ops = {"edit", "sub", "tag", "addLeaf", "addForm", "copy", "remove", "up", "down"}
  MaxNodes = 7
  MaxApplies = 3
INVARIANTS WritesWhatIsThere TreeIsSound HistoryIsFaithful
CHECK_DEADLOCK FALSE
