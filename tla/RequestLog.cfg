SPECIFICATION FairSpec
CONSTANTS
  u1 = u1
  u2 = u2
  k1 = k1
  k2 = k2
  p1 = p1
  p2 = p2
  Procs = {p1, p2}
  Users <- MCUsers
  Owner <- MCOwner
  Attr <- MCAttr
  GraphqlPaths = {"/graphql"}
  Last = 2
  MaxBuffered = 1
  BatchSize = 2
  MaxBatches = 1
  Day = 1
  MaxTime = 2
  MaxFaults = 1
  NULL = NULL
INVARIANTS
  ListBounded
  LogIsFaithful
  DashboardAccounts
PROPERTY
  LogDrains
