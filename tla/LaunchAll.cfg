\* Two launches of the launcher, one after the other or at the same time.
SPECIFICATION Spec
CONSTANTS
  first = first
  second = second
  None = None
  Sessions = {first, second}
INVARIANTS TypeOK HookedBeforeGame NoTornEntry OldNumbersTakeTwoSlips
PROPERTIES LaunchEnds ClientGetsGoing
CHECK_DEADLOCK FALSE
