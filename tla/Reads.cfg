SPECIFICATION ReadsSpec
CONSTANTS
  StaleAfter = 1
  RefreshInterval = 1
  QueryTime = 1
  RpcTimeout = 1
  MaxHeight = 1
  MaxTime = 4
  ProbeTimeout = 2
  MaxFlips = 2
  MaxMoves = 2
  MaxRequests = 3
  Slots = {r1, r2}
  Malformed = Malformed
  HasCkb = TRUE
  Block <- Blocks
  Tx = {t1, t2}
  Number <- NumberOf
  ParentHash <- ParentOf
  Txs <- TxsOf
  Chains <- Branches
  ChainHeight = 2
  g = g   a1 = a1   a2 = a2   b1 = b1   b2 = b2   t1 = t1   t2 = t2
  NULL = NULL
INVARIANTS
  FreshMeansRecent
  ProbeIsRight
  ProofIsRight
PROPERTY
  ReadsEnd
CHECK_DEADLOCK FALSE
