\* One add, undone while the scene goes away.
SPECIFICATION Spec
CONSTANTS
  Authored <- MCAuthored
  Facings = {0, 1}
  Families = {"classic"}
  Kinds = {"add"}
  Hotkeys = FALSE
  Patient = FALSE
  Occupiable = FALSE
  MaxEdits = 1
  MaxScenes = 2
  MaxQueue = 1
  MaxNodes = 4
INVARIANTS NoEffectInALaterScene
