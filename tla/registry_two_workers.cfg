CONSTANTS
  w1 = w1
  w2 = w2
  r1 = r1
  r2 = r2
  Workers = {w1, w2}
  Reqs = {r1, r2}
  WorkerOf <- OnTwoWorkers
  Ops = {"create", "register", "cluster", "delete"}
  Names = {n1, n2}
  LocalNames = {n1}
  Addresses = {local, remote}
  Socket = local
  MaxId = 4
  MaxCrashes = 1
  HandEdits = {}
  DaemonAtStart = {"uninitialized", "initialized"}
  IdsReused = FALSE
  NoRow = NoRow
  NoJob = NoJob
  Idle = Idle

SPECIFICATION FairSpec
CHECK_DEADLOCK FALSE
INVARIANTS
  UniqueNames
  AuditAttribution
  AuditTellsTheRequest
PROPERTIES
  BootCompletes
  EveryRequestEnds
