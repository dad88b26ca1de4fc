\* Both renderers, callbacks that come and go, a resized window, one poll that fails.
\* A stack that overflows ends the client.
SPECIFICATION Spec
CONSTANTS
  MaxSubscriptions = 2
  MaxFailedInits = 1
  Sizes = {0, 1, 2}
INVARIANTS TypeOK DispatchIsComplete AtMostOneLateCall SkippedMeansQuiet NoViewAcrossResize
CHECK_DEADLOCK FALSE
