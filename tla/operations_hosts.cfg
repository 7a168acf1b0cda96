CONSTANTS
  Reqs = {r1}
  Users = {u1}
  Daemons = {d1, d2}
  Names = {n1}
  Ops <- LifecycleOps
  MaxId = 3
  IdsReused = FALSE
  Leavers = {u1}
  Moving = {d1, d2}
  Remote = {d2}
  MaxCrashes = 1
  Fragile = TRUE
  Modes = {FALSE}
  Ephemeral = {n1}
  NoDaemon = NoDaemon
  NoJob = NoJob
  Settings <- SomeSettings

SPECIFICATION NotifierFairSpec
CHECK_DEADLOCK FALSE
INVARIANTS
  NotifierTypeOK
  EntryNamesTheDaemon
  ChangesTheHostMeant
  NotifiedEventsLanded
  AnsweredIsRecorded
  PostsFollowTheTrail
PROPERTIES
  EveryRequestEnds
  EventsAreTried
