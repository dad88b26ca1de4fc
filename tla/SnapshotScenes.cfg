\* Both families, an impatient user, hotkeys, and two scenes.
SPECIFICATION Spec
CONSTANTS
  Authored <- MCAuthored
  Facings = {0}
  Families = {"live", "classic"}
  Kinds = {"add", "remove"}
  Hotkeys = TRUE
  Patient = FALSE
  Occupiable = TRUE
  MaxEdits = 2
  MaxScenes = 2
  MaxQueue = 2
  MaxNodes = 2
INVARIANTS TypeOK HistoryBelongsToScene
