\* Every edit, undo, redo and a save on a table of one column and two rows.
SPECIFICATION Spec
CONSTANTS
  LoadedTypes <- MCLoadedTypes
  LoadedTexts <- MCLoadedTexts
  Types <- MCTypes
  Texts <- MCTexts
  KindOf <- MCKindOf
  Reads <- MCReads
  Default <- MCDefault
  Fails = Fails
  Names = {"renamed"}
  Ops = {"edit", "import", "addRow", "addColumn", "removeRow", "removeColumn", "up", "down", "left", "right", "rename", "type"}
  MaxApplies = 3
  MaxSaves = 1
  MaxRedos = 1
INVARIANTS TableIsRectangular SavesWhatIsThere HistoryIsFaithful CascadeHasFlags
CHECK_DEADLOCK FALSE
