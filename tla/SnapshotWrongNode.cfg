\* Add a node, remove the authored one, undo.
SPECIFICATION Spec
CONSTANTS
  Authored <- MCAuthored
  Facings = {0, 1}
  Families = {"classic"}
  Kinds = {"add", "remove"}
  Hotkeys = FALSE
  Patient = TRUE
  Occupiable = FALSE
  MaxEdits = 2
  MaxScenes = 1
  MaxQueue = 1
  MaxNodes = 4
INVARIANTS RemovesItsOwnNode
