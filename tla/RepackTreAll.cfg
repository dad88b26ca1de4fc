\* Two calls, a direct run, a client, and a death at any point.
SPECIFICATION Spec
CONSTANTS
  first = first
  second = second
  past = past
  None = None
  Calls = {first, second}
  Direct = {past}
  Backups = {1, 2, 3}
INVARIANTS TypeOK WholeCopyExists HostAloneIsSafe
PROPERTIES BackupsStay EveryCallIsAnswered
