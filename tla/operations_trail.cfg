CONSTANTS
  Reqs = {r1, r2}
  Users = {u1}
  Daemons = {d1}
  Names = {n1}
  Ops <- EveryOp
  MaxId = 1
  IdsReused = TRUE
  Leavers = {}
  Moving = {}
  Remote = {d1}
  MaxCrashes = 0
  Fragile = TRUE
  Modes = {TRUE, FALSE}
  Ephemeral = {}
  NoDaemon = NoDaemon
  NoJob = NoJob

SPECIFICATION ReadingSpec
CHECK_DEADLOCK FALSE
INVARIANTS
  TypeOK
  TrailIsTrue
PROPERTIES
  SurprisesAreRaces
  OutagesStayLocal
