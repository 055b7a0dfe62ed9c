SPECIFICATION SessionsSpec
CONSTANTS
  ann = ann
  bob = bob
  la = la
  lb = lb
  lc = lc
  NULL = NULL
  FirstLogin <- MCFirstLogin
  Browsers = {1, 2}
  Accounts = {ann, bob}
  Logins = {la, lb, lc}
  Callbacks = {1, 2}
  Visits = {1, 2}
  MaxStates = 2
  MaxTokens = 2
  MaxRenames = 2
  MaxClock = 1
  SessionTtl = 1
CONSTRAINT RequestsAlone
INVARIANTS
  SignInIsRight
  StateConsumedOnce
  SignOutHolds
CHECK_DEADLOCK FALSE
