\* The title bar and the hotkey: both threads push, undo, redo and clear.
SPECIFICATION RacesSpec
CONSTANTS
  c1 = c1
  c2 = c2
  c3 = c3
  ui = ui
  game = game
  None = None
  Commands <- MCThree
  Absorbs <- MCMerging
  Callers = {ui, game}
INVARIANTS TypeOK NoCommandTwice StacksDescribeWorld WrongButtonsAreLate
PROPERTY OneLineOfHistory
CHECK_DEADLOCK FALSE
