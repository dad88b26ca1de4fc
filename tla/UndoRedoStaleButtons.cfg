\* A change of the stacks on one thread races a refresh on the other.
SPECIFICATION RacesSpec
CONSTANTS
  c1 = c1
  c2 = c2
  c3 = c3
  ui = ui
  game = game
  None = None
  Commands <- MCTwo
  Absorbs <- MCNothing
  Callers = {ui, game}
INVARIANTS ButtonsFollowStacks
CHECK_DEADLOCK FALSE
