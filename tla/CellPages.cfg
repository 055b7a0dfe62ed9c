SPECIFICATION Spec
CONSTANTS
  g = g
  a1 = a1
  a2 = a2
  b1 = b1
  b2 = b2
  t0 = t0
  t1 = t1
  t2 = t2
  t3 = t3
  o0 = o0
  o1 = o1
  o2 = o2
  o3 = o3
  o4 = o4
  l1 = l1
  l2 = l2
  ty = ty
  NULL = NULL
  Malformed = Malformed
  Block <- MCBlock
  Tx <- MCTx
  OutPoint <- MCOutPoint
  Number <- MCNumber
  ParentHash <- MCParentHash
  Txs <- MCTxs
  Outputs <- MCOutputs
  Inputs <- MCInputs
  Chains <- MCChains
  LockHash <- MCLockHash
  TypeHash <- MCTypeHash
  Rank <- MCRank
  MaxHeight = 2
  StartBlock = 0
  MaxI64 = 1000
  DefaultPageSize = 1
  MaxPageSize = 2
  MaxMoves = 12
INVARIANTS
  PagesExact
  SurfacesAgree
CHECK_DEADLOCK FALSE
