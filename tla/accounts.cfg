CONSTANTS
  ann = ann
  bob = bob
  annAt = annAt
  bobAt = bobAt
  old = old
  new = new
  Reqs = {r1, r2}
  Ops = {"create", "update", "reset", "delete", "login", "refresh"}
  Callers = {ann, bob}
  Names = {ann, bob, cyd}
  Emails = {annAt, bobAt, cydAt}
  Passwords = {old, new}
  MaxId = 4
  IdsReused = FALSE
  Installed <- SeedAndOne
  NoUser = NoUser
  NoJob = NoJob
  Keep = Keep

SPECIFICATION Spec
CHECK_DEADLOCK FALSE
INVARIANTS
  TypeOK
  UniqueAccounts
  RefusedChangesNothing
  LoginAttribution
PROPERTIES
  OnlyAskedChanges
  LastAdminStays
