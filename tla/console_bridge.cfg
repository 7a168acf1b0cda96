CONSTANTS
  Modes = {TRUE, FALSE}
  MaxFrames = 2
  MaxChunks = 2
  Drops = {"data", "control"}
  DialFails = TRUE
  Breaks = TRUE

SPECIFICATION FairSpec
CHECK_DEADLOCK FALSE
INVARIANTS
  TypeOK
PROPERTIES
  RejectionsReachTheBrowser
  BrowserTearsDown
  DataTearsDown
  PumpsEnd
