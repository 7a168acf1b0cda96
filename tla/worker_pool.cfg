CONSTANTS
  Requests = {1, 2, 3}
  Size = 2

SPECIFICATION SortedSpec

INVARIANTS
  TypeOK
  OperationsKeepTheirConnection
PROPERTIES
  EveryRequestEnds
  ConnectionsReturn

CHECK_DEADLOCK FALSE
