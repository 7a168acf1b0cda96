CONSTANTS
  Modes = {FALSE}
  MaxFrames = 2
  MaxChunks = 2
  Drops = {}
  DialFails = FALSE
  Breaks = FALSE

SPECIFICATION Spec
CHECK_DEADLOCK FALSE
INVARIANTS
  CleanDisconnect
