CONSTANTS
  w1 = w1
  w2 = w2
  r1 = r1
  r2 = r2
  Workers = {w1, w2}
  Reqs = {r1, r2}
  WorkerOf <- OnTwoWorkers
  Ops = {"create"}
  Names = {n1, n2}
  LocalNames = {n1}
  Addresses = {local, remote}
  Socket = local
  MaxId = 4
  MaxCrashes = 0
  HandEdits = {}
  DaemonAtStart = {"initialized"}
  IdsReused = FALSE
  NoRow = NoRow
  NoJob = NoJob
  Idle = Idle

SPECIFICATION Spec
CHECK_DEADLOCK FALSE
INVARIANT UniqueAddresses
