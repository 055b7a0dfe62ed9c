SPECIFICATION FairSpec
CONSTANTS
  g = g   a1 = a1   a2 = a2   a3 = a3   b1 = b1   b2 = b2   b3 = b3   c2 = c2   c3 = c3
  t0 = t0   t1 = t1   t2 = t2   t3 = t3   t4 = t4   t5 = t5   t6 = t6
  o0 = o0   o1 = o1   o2 = o2   o3 = o3   o4 = o4   o5 = o5
  NULL = NULL
  Block <- MCBlock
  Tx <- MCTx
  OutPoint <- MCOutPoint
  Number <- MCNumber
  ParentHash <- MCParentHash
  Txs <- MCTxs
  Outputs <- MCOutputs
  Inputs <- MCInputs
  Chains <- MCChains
  MaxHeight = 3
  StartBlock = 0
  Unparseable = {}
  MaxMoves = 3
  MaxFaults = 2
  FaultKinds = {"rpc", "db", "crash", "cancel"}
INVARIANTS
  NoGaps
  CellsReplay
  InsertNeverConflicts
PROPERTIES
  RollbackDepthExact
  RollbackIsExact
  ImplementsLedger
  CatchesUp
  ShutdownCompletes
