CONSTANTS
  w1 = w1
  w2 = w2
  r1 = r1
  r2 = r2
  Workers = {w1}
  Reqs = {r1, r2}
  WorkerOf <- OnOneWorker
  Ops = {"create", "register", "cluster", "delete"}
  Names = {n1, n2}
  LocalNames = {n1, n2}
  Addresses = {local, remote}
  Socket = local
  MaxId = 3
  MaxCrashes = 1
  HandEdits = {1}
  DaemonAtStart = {"uninitialized", "initialized"}
  IdsReused = TRUE
  NoRow = NoRow
  NoJob = NoJob
  Idle = Idle

SPECIFICATION Spec
CHECK_DEADLOCK FALSE
INVARIANTS
  TypeOK
  UniqueAddresses
  AuditAttribution
PROPERTIES
  ImplementsAtomicRegistry
