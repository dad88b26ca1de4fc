\* Live adds and removals, rotations, a user who waits, hotkeys, nodes somebody may stand in.
SPECIFICATION Spec
CONSTANTS
  Authored <- MCAuthored
  Facings = {0, 1}
  Families = {"live"}
  Kinds = {"add", "remove", "turn"}
  Hotkeys = TRUE
  Patient = TRUE
  Occupiable = TRUE
  MaxEdits = 3
  MaxScenes = 2
  MaxQueue = 1
  MaxNodes = 4
INVARIANTS SnapshotIsHistory IdsAreUnique
PROPERTY NobodyWaitsForever
