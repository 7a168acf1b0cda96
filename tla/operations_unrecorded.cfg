CONSTANTS
  Reqs = {r1}
  Users = {u1}
  Daemons = {d1}
  Names = {n1}
  Ops <- LifecycleOps
  MaxId = 1
  IdsReused = TRUE
  Leavers = {u1}
  Moving = {}
  Remote = {}
  MaxCrashes = 0
  Fragile = FALSE
  Modes = {FALSE}
  Ephemeral = {}
  NoDaemon = NoDaemon
  NoJob = NoJob

SPECIFICATION Spec
CHECK_DEADLOCK FALSE
INVARIANTS
  OutcomesAreRecorded
