--------------------------- MODULE IndexerProofs ----------------------------
(***************************************************************************)
(* Proofs about Indexer, for every block tree, start block and bound: what *)
(* holds of the database whatever fails, and, while every COMMIT is        *)
(* answered, that the index is exact, that rollbacks cut where they should *)
(* and that the indexer implements the ledger.                             *)
(***************************************************************************)
EXTENDS Indexer, WellFoundedInduction, TLAPS

(* parse_block's outputs and inputs are out points.                        *)
LEMMA BlockCellsType ==
  ASSUME NEW b \in Block
  PROVE  BlockOutputs(b) \subseteq OutPoint /\ BlockInputs(b) \subseteq OutPoint
BY ChainTypes DEF BlockOutputs, BlockInputs

(* Spender finds a transaction of the block that has o among its inputs.   *)
LEMMA SpenderType ==
  ASSUME NEW b \in Block, NEW o \in BlockInputs(b)
  PROVE  Spender(b, o) \in Txs[b] /\ Spender(b, o) \in Tx /\ o \in Inputs[Spender(b, o)]
<1>1. \E t \in Txs[b] : o \in Inputs[t]
  BY DEF BlockInputs
<1>2. Spender(b, o) \in Txs[b] /\ o \in Inputs[Spender(b, o)]
  BY <1>1 DEF Spender
<1>. QED  BY <1>2, ChainTypes

(* The node's block at a height has that number.                           *)
LEMMA NodeBlock ==
  ASSUME NEW c \in Chains, NEW k \in DOMAIN c
  PROVE  c[k] \in Block /\ k \in Height /\ Number[c[k]] = k
<1>1. PICK n \in Height : c \in [0..n -> Block]
  BY NodeServesABranch
<1>2. k \in 0..n
  BY <1>1
<1>. QED  BY <1>1, <1>2, NodeServesABranch, ChainTypes DEF Linked, Height

(* The transaction of one block keeps the tables well typed.               *)
LEMMA CommitBlockType ==
  ASSUME TypeOK, NEW b \in Block, CommitBlock(b)
  PROVE  /\ IsTable(blocks, Height, Block)'
         /\ IsTable(transactions, Tx, Height)'
         /\ IsTable(cells, OutPoint, CellRow)'
         /\ checkpoint' \in CheckpointRow
         /\ reorgLog' = reorgLog
<1>. DEFINE n == Number[b]
<1>n. n \in Height
  BY ChainTypes
<1>1. IsTable(blocks, Height, Block)'
  BY <1>n DEF TypeOK, TablesTypeOK, CommitBlock, InsertBlock, IsTable
<1>2. IsTable(transactions, Tx, Height)'
  BY <1>n, ChainTypes DEF TypeOK, TablesTypeOK, CommitBlock, InsertTransactions, IsTable
<1>3. IsTable(cells, OutPoint, CellRow)'
  <2>. DEFINE mid == InsertCells(cells, n, b)
  <2>1. DOMAIN mid = DOMAIN cells \cup BlockOutputs(b)
    BY DEF InsertCells
  <2>2. ASSUME NEW o \in DOMAIN mid PROVE mid[o] \in CellRow
    BY <1>n, <2>2 DEF InsertCells, LiveCell, Cell, CellRow, TypeOK, TablesTypeOK, IsTable
  <2>3. cells' = [o \in DOMAIN mid |->
                    IF o \in BlockInputs(b)
                    THEN Cell(mid[o].block_number, Spender(b, o), n)
                    ELSE mid[o]]
    BY DEF CommitBlock, MarkConsumed
  <2>4. ASSUME NEW o \in DOMAIN mid PROVE cells'[o] \in CellRow
    <3>. HIDE DEF mid
    <3>1. mid[o] \in CellRow
      BY <2>2
    <3>2. CASE o \in BlockInputs(b)
      <4>1. Spender(b, o) \in Tx
        BY <3>2, SpenderType
      <4>. QED  BY <1>n, <2>3, <3>1, <3>2, <4>1 DEF Cell, CellRow
    <3>. QED  BY <2>3, <3>1, <3>2
  <2>5. DOMAIN mid \subseteq OutPoint
    BY <2>1, BlockCellsType DEF TypeOK, TablesTypeOK, IsTable
  <2>. HIDE DEF mid
  <2>. QED  BY <2>3, <2>4, <2>5 DEF IsTable
<1>4. checkpoint' \in CheckpointRow
  BY <1>n DEF CommitBlock, CheckpointRow
<1>. QED  BY <1>1, <1>2, <1>3, <1>4 DEF CommitBlock

(* So does the transaction of a rollback.                                  *)
LEMMA CommitRollbackType ==
  ASSUME TypeOK, pc = "rollback", CommitRollback(height, nextBlock - 1)
  PROVE  /\ IsTable(blocks, Height, Block)'
         /\ IsTable(transactions, Tx, Height)'
         /\ IsTable(cells, OutPoint, CellRow)'
         /\ checkpoint' \in CheckpointRow
         /\ reorgLog' \in Seq(LogRow)
<1>0. /\ nextBlock \in 0..(MaxHeight + 1) /\ height \in 0..(nextBlock - 1)
      /\ nodeHash \in Block /\ suspectHash \in Block /\ MaxHeight \in Nat
  BY ChainTypes DEF TypeOK, ControlTypeOK
<1>1. IsTable(blocks, Height, Block)'
  BY DEF TypeOK, TablesTypeOK, CommitRollback, DeleteAbove, Restrict, IsTable
<1>2. IsTable(transactions, Tx, Height)'
  BY DEF TypeOK, TablesTypeOK, CommitRollback, CascadeTransactions, Restrict, IsTable
<1>3. IsTable(cells, OutPoint, CellRow)'
  <2>. DEFINE mid == RestoreConsumedAbove(cells, height)
  <2>1. DOMAIN mid = DOMAIN cells
    BY DEF RestoreConsumedAbove
  <2>2. ASSUME NEW o \in DOMAIN cells PROVE mid[o] \in CellRow
    <3>1. cells[o] \in CellRow
      BY DEF TypeOK, TablesTypeOK, IsTable
    <3>. QED  BY <3>1 DEF RestoreConsumedAbove, LiveCell, Cell, CellRow
  <2>. HIDE DEF mid
  <2>3. cells' = [o \in {o \in DOMAIN mid : mid[o].block_number <= height} |-> mid[o]]
    BY DEF CommitRollback, CascadeCells, Restrict, mid
  <2>. QED  BY <2>1, <2>2, <2>3 DEF TypeOK, TablesTypeOK, IsTable
<1>4. checkpoint' \in CheckpointRow
  BY <1>0 DEF CommitRollback, CheckpointRow, Height
<1>5. reorgLog' \in Seq(LogRow)
  BY <1>0 DEF TypeOK, TablesTypeOK, CommitRollback, LogRow
<1>. QED  BY <1>1, <1>2, <1>3, <1>4, <1>5

-----------------------------------------------------------------------------
(* The tables, the checkpoint and the log are well typed after a commit;   *)
(* every other action leaves them alone.                                   *)
LEMMA TablesTypeStep ==
  ASSUME TypeOK, [Next]_vars
  PROVE  TablesTypeOK'
<1>1. CASE UNCHANGED dbVars
  BY <1>1 DEF dbVars, TypeOK, TablesTypeOK, IsTable
<1>2. CASE pc = "insert" /\ CommitBlock(fetched)
  <2>1. fetched \in Block
    BY <1>2 DEF TypeOK, ControlTypeOK
  <2>. QED  BY <1>2, <2>1, CommitBlockType DEF TypeOK, TablesTypeOK
<1>3. CASE pc = "rollback" /\ CommitRollback(height, nextBlock - 1)
  BY <1>3, CommitRollbackType DEF TablesTypeOK
<1>. QED
  BY <1>1, <1>2, <1>3, Zenon
  DEF Next, vars, Poll, Faulty, NodeMove, Boot, Stop, WaitForTip, FetchBlock,
      DetectReorg, ParseBlock, ParseFails, IndexBlock, InsertConflict,
      AnnounceBlock, WalkDown, WalkFails, FindAncestor, Rollback,
      AnnounceReorg, Restart, BootFails, Cancel, Crash, StepFails,
      IndexBlockUnacknowledged, RollbackUnacknowledged

(* The rest of TypeOK: the node, the loop and the locals of a step.        *)
LEMMA ControlTypeStep ==
  ASSUME TypeOK, [Next]_vars
  PROVE  ControlTypeOK'
<1>. USE IndexerConstants
<1>0. ControlTypeOK /\ MaxHeight \in Nat
  BY ChainTypes DEF TypeOK
<1>1. CASE NodeMove
  BY <1>0, <1>1 DEF NodeMove, ControlTypeOK, stepVars
<1>2. CASE Boot
  <2>1. ResumeBlock \in 0..(MaxHeight + 1)
    BY ChainTypes DEF ResumeBlock, TypeOK, TablesTypeOK, CheckpointRow, Height
  <2>. QED  BY <1>0, <1>2, <2>1 DEF Boot, Loop, ResetStep, ControlTypeOK, chainVars
<1>3. CASE Stop \/ Crash \/ BootFails
  BY <1>0, <1>3 DEF Stop, Crash, BootFails, Halt, Fault, ResetStep, ControlTypeOK, chainVars
<1>4. CASE Cancel \/ Restart
  <2>1. cancelled' \in BOOLEAN
    BY <1>4, Zenon DEF Cancel, Restart
  <2>. QED  BY <1>0, <1>4, <2>1 DEF Cancel, Restart, Fault, ControlTypeOK, chainVars, stepVars
<1>5. CASE WaitForTip \/ UNCHANGED vars
  BY <1>0, <1>5 DEF WaitForTip, ControlTypeOK, vars, chainVars, stepVars
<1>6. CASE FetchBlock
  <2>1. node[nextBlock] \in Block /\ Number[node[nextBlock]] = nextBlock
    BY <1>0, <1>6, NodeBlock, Zenon DEF FetchBlock, ControlTypeOK
  <2>. QED  BY <1>0, <1>6, <2>1, Zenon DEF FetchBlock, ControlTypeOK
<1>7. CASE DetectReorg
  <2>1. blocks[nextBlock - 1] \in Block
    BY <1>7 DEF DetectReorg, ParentMismatch, TypeOK, TablesTypeOK, IsTable
  <2>. QED  BY <1>0, <1>7, <2>1 DEF DetectReorg, ParentMismatch, ControlTypeOK, chainVars
<1>8. CASE ParseBlock \/ IndexBlock
  BY <1>0, <1>8 DEF ParseBlock, IndexBlock, ControlTypeOK, chainVars, stepVars
<1>9. CASE ParseFails \/ InsertConflict \/ IndexBlockUnacknowledged \/ WalkFails
           \/ RollbackUnacknowledged \/ StepFails
  BY <1>0, <1>9
  DEF ParseFails, InsertConflict, IndexBlockUnacknowledged, WalkFails,
      RollbackUnacknowledged, StepFails, Fault, Loop, ResetStep, ControlTypeOK, chainVars
<1>10. CASE AnnounceBlock
  <2>1. nextBlock \in Height
    BY <1>0, <1>10, ChainTypes DEF AnnounceBlock, ControlTypeOK
  <2>. QED  BY <1>0, <1>10, <2>1 DEF AnnounceBlock, Loop, ResetStep, ControlTypeOK, chainVars, Height
<1>11. CASE WalkDown
  BY <1>0, <1>11 DEF WalkDown, ControlTypeOK, chainVars
<1>12. CASE FindAncestor
  <2>1. node[height] \in Block
    BY <1>0, <1>12, NodeBlock, Zenon DEF FindAncestor, ControlTypeOK
  <2>. QED  BY <1>0, <1>12, <2>1 DEF FindAncestor, Loop, ResetStep, ControlTypeOK, chainVars
<1>13. CASE Rollback
  BY <1>0, <1>13 DEF Rollback, ControlTypeOK, chainVars, stepVars
<1>14. CASE AnnounceReorg
  BY <1>0, <1>14 DEF AnnounceReorg, Loop, ResetStep, ControlTypeOK, chainVars
<1>. QED
  BY <1>1, <1>2, <1>3, <1>4, <1>5, <1>6, <1>7, <1>8, <1>9, <1>10, <1>11, <1>12,
     <1>13, <1>14
  DEF Next, Poll, Faulty

(* An empty database and a process about to boot are well typed.           *)
LEMMA TypeInit == Init => TypeOK
<1>. SUFFICES ASSUME Init PROVE TypeOK
  OBVIOUS
<1>1. TablesTypeOK
  BY DEF Init, NoRows, TablesTypeOK, IsTable
<1>2. moved \in BOOLEAN /\ cancelled \in BOOLEAN
  BY Zenon DEF Init
<1>3. ControlTypeOK
  BY <1>2, IndexerConstants DEF Init, ControlTypeOK
<1>. QED  BY <1>1, <1>3 DEF TypeOK

(* Every reachable state of the indexer is well typed, and step's and      *)
(* handle_reorg's locals exist exactly where the code uses them.           *)
THEOREM TypeCorrect == Spec => []TypeOK
<1>1. TypeOK /\ [Next]_vars => TypeOK'
  BY TablesTypeStep, ControlTypeStep DEF TypeOK
<1>. QED  BY <1>1, TypeInit, PTL DEF Spec

-----------------------------------------------------------------------------
(* What readers see at any time, also when a reply to a COMMIT is lost.    *)

(* What a commit of b does to the cells table.                             *)
LEMMA CommitCells ==
  ASSUME NEW b \in Block, CommitBlock(b)
  PROVE  /\ DOMAIN cells' = DOMAIN cells \cup BlockOutputs(b)
         /\ \A o \in DOMAIN cells' :
              /\ cells'[o].block_number =
                   IF o \in BlockOutputs(b) THEN Number[b] ELSE cells[o].block_number
              /\ cells'[o].consumed_by =
                   IF o \in BlockInputs(b) THEN Spender(b, o)
                   ELSE IF o \in BlockOutputs(b) THEN NULL ELSE cells[o].consumed_by
              /\ cells'[o].consumed_at =
                   IF o \in BlockInputs(b) THEN Number[b]
                   ELSE IF o \in BlockOutputs(b) THEN NULL ELSE cells[o].consumed_at
<1>. DEFINE mid == InsertCells(cells, Number[b], b)
<1>1. cells' = [o \in DOMAIN mid |->
                  IF o \in BlockInputs(b)
                  THEN Cell(mid[o].block_number, Spender(b, o), Number[b])
                  ELSE mid[o]]
  BY DEF CommitBlock, MarkConsumed
<1>2. /\ DOMAIN mid = DOMAIN cells \cup BlockOutputs(b)
      /\ \A o \in DOMAIN mid :
           mid[o] = IF o \in BlockOutputs(b) THEN LiveCell(Number[b]) ELSE cells[o]
  BY DEF InsertCells
<1>. HIDE DEF mid
<1>. QED  BY <1>1, <1>2 DEF LiveCell, Cell

(* What a commit of the fetched block does to the blocks table.            *)
LEMMA CommitBlockEffect ==
  ASSUME DurableInv, pc = "insert", CommitBlock(fetched)
  PROVE  /\ fetched \in Block /\ nextBlock \in Height /\ Number[fetched] = nextBlock
         /\ \A k \in DOMAIN blocks : k \in Height /\ k < nextBlock /\ blocks[k] \in Block
         /\ DOMAIN blocks' = DOMAIN blocks \cup {nextBlock}
         /\ blocks'[nextBlock] = fetched
         /\ \A k \in DOMAIN blocks : blocks'[k] = blocks[k]
<1>1. fetched \in Block /\ nextBlock \in Height /\ Number[fetched] = nextBlock
  BY ChainTypes DEF DurableInv, TypeOK, ControlTypeOK
<1>2. \A k \in DOMAIN blocks : k \in Height /\ blocks[k] \in Block
  BY DEF DurableInv, TypeOK, TablesTypeOK, IsTable
<1>3. nextBlock \notin DOMAIN blocks
  BY <1>1, Zenon DEF CommitBlock, Conflicts
<1>4. ASSUME NEW k \in DOMAIN blocks PROVE k < nextBlock
  <2>1. checkpoint # NULL /\ k <= checkpoint.last_indexed_block
    BY DEF DurableInv, CheckpointMatches
  <2>2. checkpoint.last_indexed_block <= nextBlock /\ checkpoint.last_indexed_block \in Height
    BY <2>1 DEF DurableInv, StepInv, TypeOK, TablesTypeOK, CheckpointRow
  <2>3. k \in Height /\ k # nextBlock
    BY <1>2, <1>3
  <2>. QED  BY <1>1, <2>1, <2>2, <2>3 DEF Height
<1>5. blocks' = [k \in DOMAIN blocks \cup {nextBlock} |->
                   IF k = nextBlock THEN fetched ELSE blocks[k]]
  BY <1>1, Zenon DEF CommitBlock, InsertBlock
<1>. QED  BY <1>1, <1>2, <1>3, <1>4, <1>5

(* The transaction of one block keeps the database durable: checkpoint,    *)
(* rows and parent links move together.                                    *)
LEMMA CommitBlockDurable ==
  ASSUME DurableInv, pc = "insert", CommitBlock(fetched)
  PROVE  CheckpointMatches' /\ NoPartialBlock' /\ StoredChainLinked'
<1>. DEFINE n == nextBlock  b == fetched
<1>0. /\ b \in Block /\ n \in Height /\ Number[b] = n
      /\ \A k \in DOMAIN blocks : k \in Height /\ k < n /\ blocks[k] \in Block
      /\ DOMAIN blocks' = DOMAIN blocks \cup {n}
      /\ blocks'[n] = b
      /\ \A k \in DOMAIN blocks : blocks'[k] = blocks[k]
  BY CommitBlockEffect
<1>1. CheckpointMatches'
  <2>1. checkpoint' = [last_indexed_block |-> n, last_indexed_hash |-> b]
    BY <1>0, Zenon DEF CommitBlock
  <2>2. checkpoint' # NULL
    <3>1. checkpoint' \in CheckpointRow
      BY <1>0, CommitBlockType DEF DurableInv
    <3>. QED  BY <3>1, IndexerConstants
  <2>. QED  BY <1>0, <2>1, <2>2 DEF CheckpointMatches, Height
<1>2. StoredChainLinked'
  <2>1. (n - 1) \in DOMAIN blocks => ParentHash[b] = blocks[n - 1]
    BY DEF DurableInv, StepInv
  <2>2. Linked(blocks)
    BY DEF DurableInv, StoredChainLinked
  <2>. SUFFICES ASSUME NEW k \in DOMAIN blocks'
                PROVE  /\ Number[blocks'[k]] = k
                       /\ (k - 1) \in DOMAIN blocks' => ParentHash[blocks'[k]] = blocks'[k - 1]
    BY DEF StoredChainLinked, Linked
  <2>3. CASE k = n
    BY <1>0, <2>1, <2>3 DEF Height
  <2>4. CASE k \in DOMAIN blocks
    <3>1. k - 1 # n
      BY <1>0, <2>4 DEF Height
    <3>. QED  BY <1>0, <2>2, <2>4, <3>1, Zenon DEF Linked
  <2>. QED  BY <1>0, <2>3, <2>4, Zenon
<1>3. NoPartialBlock'
  <2>0. /\ Txs[b] \cap DOMAIN transactions = {}
        /\ BlockOutputs(b) \cap DOMAIN cells = {}
    BY Zenon DEF CommitBlock, Conflicts
  <2>1. transactions' = [t \in DOMAIN transactions \cup Txs[b] |->
                           IF t \in Txs[b] THEN n ELSE transactions[t]]
    BY <1>0, Zenon DEF CommitBlock, InsertTransactions
  <2>2. /\ DOMAIN cells' = DOMAIN cells \cup BlockOutputs(b)
        /\ \A o \in DOMAIN cells' : cells'[o].block_number =
             IF o \in BlockOutputs(b) THEN n ELSE cells[o].block_number
    BY <1>0, CommitCells, Zenon
  <2>3. /\ \A t \in Tx : t \in DOMAIN transactions <=> \E k \in DOMAIN blocks : t \in Txs[blocks[k]]
        /\ \A o \in OutPoint : o \in DOMAIN cells <=>
             \E k \in DOMAIN blocks : o \in BlockOutputs(blocks[k])
        /\ \A k \in DOMAIN blocks :
             /\ \A t \in Txs[blocks[k]] : transactions[t] = k
             /\ \A o \in BlockOutputs(blocks[k]) : cells[o].block_number = k
    BY Zenon DEF DurableInv, NoPartialBlock
  <2>4. ASSUME NEW t \in Tx
        PROVE  t \in DOMAIN transactions' <=> \E k \in DOMAIN blocks' : t \in Txs[blocks'[k]]
    BY <1>0, <2>1, <2>3, Zenon
  <2>5. ASSUME NEW o \in OutPoint
        PROVE  o \in DOMAIN cells' <=> \E k \in DOMAIN blocks' : o \in BlockOutputs(blocks'[k])
    BY <1>0, <2>2, <2>3, Zenon
  <2>6. ASSUME NEW k \in DOMAIN blocks'
        PROVE  /\ \A t \in Txs[blocks'[k]] : transactions'[t] = k
               /\ \A o \in BlockOutputs(blocks'[k]) : cells'[o].block_number = k
    <3>1. CASE k = n
      BY <1>0, <2>1, <2>2, <3>1, Zenon
    <3>2. CASE k \in DOMAIN blocks
      <4>1. Txs[blocks[k]] \subseteq DOMAIN transactions
        BY <1>0, <2>3, <3>2, ChainTypes, Zenon
      <4>2. BlockOutputs(blocks[k]) \subseteq DOMAIN cells
        BY <1>0, <2>3, <3>2, BlockCellsType, Zenon
      <4>. QED  BY <1>0, <2>0, <2>1, <2>2, <2>3, <3>2, <4>1, <4>2, Zenon
    <3>. QED  BY <1>0, <3>1, <3>2, Zenon
  <2>. QED  BY <2>4, <2>5, <2>6, Zenon DEF NoPartialBlock
<1>. QED  BY <1>1, <1>2, <1>3

(* What a rollback to the ancestor does to the tables.                     *)
LEMMA RollbackEffect ==
  ASSUME DurableInv, pc = "rollback", CommitRollback(height, nextBlock - 1)
  PROVE  /\ height \in Height /\ height \in DOMAIN blocks
         /\ \A k \in DOMAIN blocks : k \in Height /\ blocks[k] \in Block
         /\ DOMAIN blocks' = {k \in DOMAIN blocks : k <= height}
         /\ \A k \in DOMAIN blocks' : blocks'[k] = blocks[k]
         /\ checkpoint' = [last_indexed_block |-> height, last_indexed_hash |-> blocks[height]]
         /\ checkpoint' # NULL
<1>1. \A k \in DOMAIN blocks : k \in Height /\ blocks[k] \in Block
  BY DEF DurableInv, TypeOK, TablesTypeOK, IsTable
<1>2. height \in DOMAIN blocks /\ blocks[height] = nodeHash
  BY DEF DurableInv, StepInv
<1>3. checkpoint' = [last_indexed_block |-> height, last_indexed_hash |-> nodeHash]
  BY DEF CommitRollback
<1>4. checkpoint' # NULL
  BY <1>1, <1>2, <1>3, IndexerConstants DEF CheckpointRow
<1>5. blocks' = [k \in {k \in DOMAIN blocks : k <= height} |-> blocks[k]]
  BY Zenon DEF CommitRollback, DeleteAbove, Restrict
<1>. QED  BY <1>1, <1>2, <1>3, <1>4, <1>5

(* What it does to the cells: those of kept blocks stay, live again if an  *)
(* orphaned block spent them.                                              *)
LEMMA RollbackCells ==
  ASSUME CommitRollback(height, nextBlock - 1)
  PROVE  /\ DOMAIN cells' = {o \in DOMAIN cells : cells[o].block_number <= height}
         /\ \A o \in DOMAIN cells' :
              /\ cells'[o].block_number = cells[o].block_number
              /\ IF cells[o].consumed_at # NULL /\ cells[o].consumed_at > height
                 THEN cells'[o].consumed_by = NULL /\ cells'[o].consumed_at = NULL
                 ELSE cells'[o] = cells[o]
<1>. DEFINE mid == RestoreConsumedAbove(cells, height)
<1>1. /\ DOMAIN mid = DOMAIN cells
      /\ \A o \in DOMAIN cells :
           mid[o] = IF cells[o].consumed_at # NULL /\ cells[o].consumed_at > height
                    THEN LiveCell(cells[o].block_number) ELSE cells[o]
  BY SMTT(20) DEF RestoreConsumedAbove
<1>2. cells' = [o \in {o \in DOMAIN mid : mid[o].block_number <= height} |-> mid[o]]
  BY Zenon DEF CommitRollback, CascadeCells, Restrict
<1>. HIDE DEF mid
<1>3. \A o \in DOMAIN cells : mid[o].block_number = cells[o].block_number
  BY <1>1 DEF LiveCell, Cell
<1>. QED  BY <1>1, <1>2, <1>3 DEF LiveCell, Cell

(* So does the transaction of rollback_to, with its cascades.              *)
LEMMA RollbackDurable ==
  ASSUME DurableInv, pc = "rollback", CommitRollback(height, nextBlock - 1)
  PROVE  CheckpointMatches' /\ NoPartialBlock' /\ StoredChainLinked'
<1>0. /\ height \in Height /\ height \in DOMAIN blocks
      /\ \A k \in DOMAIN blocks : k \in Height /\ blocks[k] \in Block
      /\ DOMAIN blocks' = {k \in DOMAIN blocks : k <= height}
      /\ \A k \in DOMAIN blocks' : blocks'[k] = blocks[k]
      /\ checkpoint' = [last_indexed_block |-> height, last_indexed_hash |-> blocks[height]]
      /\ checkpoint' # NULL
  BY RollbackEffect, Zenon
<1>1. CheckpointMatches'
  BY <1>0 DEF CheckpointMatches, Height
<1>2. StoredChainLinked'
  BY <1>0, Zenon DEF DurableInv, StoredChainLinked, Linked
<1>3. NoPartialBlock'
  <2>1. transactions' = [t \in {t \in DOMAIN transactions : transactions[t] <= height} |->
                           transactions[t]]
    BY Zenon DEF CommitRollback, CascadeTransactions, Restrict
  <2>2. /\ DOMAIN cells' = {o \in DOMAIN cells : cells[o].block_number <= height}
        /\ \A o \in DOMAIN cells' : cells'[o].block_number = cells[o].block_number
    BY RollbackCells
  <2>3. /\ \A t \in Tx : t \in DOMAIN transactions <=> \E k \in DOMAIN blocks : t \in Txs[blocks[k]]
        /\ \A o \in OutPoint : o \in DOMAIN cells <=>
             \E k \in DOMAIN blocks : o \in BlockOutputs(blocks[k])
        /\ \A k \in DOMAIN blocks :
             /\ \A t \in Txs[blocks[k]] : transactions[t] = k
             /\ \A o \in BlockOutputs(blocks[k]) : cells[o].block_number = k
    BY Zenon DEF DurableInv, NoPartialBlock
  <2>4. ASSUME NEW t \in Tx
        PROVE  t \in DOMAIN transactions' <=> \E k \in DOMAIN blocks' : t \in Txs[blocks'[k]]
    BY <1>0, <2>1, <2>3
  <2>5. ASSUME NEW o \in OutPoint
        PROVE  o \in DOMAIN cells' <=> \E k \in DOMAIN blocks' : o \in BlockOutputs(blocks'[k])
    BY <1>0, <2>2, <2>3
  <2>6. ASSUME NEW k \in DOMAIN blocks'
        PROVE  /\ \A t \in Txs[blocks'[k]] : transactions'[t] = k
               /\ \A o \in BlockOutputs(blocks'[k]) : cells'[o].block_number = k
    <3>1. blocks[k] \in Block /\ k \in DOMAIN blocks /\ k <= height /\ blocks'[k] = blocks[k]
      BY <1>0, Zenon
    <3>2. Txs[blocks[k]] \subseteq Tx
      BY <3>1, ChainTypes
    <3>3. BlockOutputs(blocks[k]) \subseteq OutPoint
      BY <3>1, BlockCellsType
    <3>. QED  BY <2>1, <2>2, <2>3, <3>1, <3>2, <3>3, Zenon
  <2>. QED  BY <2>4, <2>5, <2>6, Zenon DEF NoPartialBlock
<1>. QED  BY <1>1, <1>2, <1>3

(* An action commits a block, commits a rollback or leaves the database.   *)
LEMMA StepKinds ==
  ASSUME [Next]_vars
  PROVE  \/ UNCHANGED dbVars
         \/ pc = "insert" /\ CommitBlock(fetched) /\ (IndexBlock \/ IndexBlockUnacknowledged)
         \/ /\ pc = "rollback" /\ CommitRollback(height, nextBlock - 1)
            /\ (Rollback \/ RollbackUnacknowledged)
BY Zenon DEF Next, vars, Poll, Faulty, NodeMove, Boot, Stop, WaitForTip, FetchBlock,
       DetectReorg, ParseBlock, ParseFails, IndexBlock, InsertConflict,
       AnnounceBlock, WalkDown, WalkFails, FindAncestor, Rollback,
       AnnounceReorg, Restart, BootFails, Cancel, Crash, StepFails,
       IndexBlockUnacknowledged, RollbackUnacknowledged

(* No action disturbs what the running step relies on.                     *)
LEMMA StepInvStep ==
  ASSUME DurableInv, [Next]_vars
  PROVE  StepInv'
<1>0. StepInv /\ ControlTypeOK /\ MaxHeight \in Nat
  BY ChainTypes, Zenon DEF DurableInv, TypeOK
<1>c. checkpoint # NULL => checkpoint.last_indexed_block \in Height
  BY DEF DurableInv, TypeOK, TablesTypeOK, CheckpointRow
<1>1. CASE NodeMove \/ Cancel \/ WaitForTip \/ UNCHANGED vars
  BY <1>0, <1>1, Zenon DEF NodeMove, Cancel, WaitForTip, vars, dbVars, stepVars, StepInv
<1>2. CASE Boot
  BY <1>c, <1>2 DEF Boot, Loop, ResumeBlock, StepInv, dbVars, Height
<1>3. CASE Stop \/ Crash \/ BootFails \/ Restart
  BY <1>3, Zenon DEF Stop, Crash, BootFails, Restart, Halt, StepInv
<1>4. CASE ParseFails \/ InsertConflict \/ WalkFails \/ StepFails
  <2>1. pc \notin {"down", "boot"} /\ pc' = "loop" /\ nextBlock' = nextBlock /\ checkpoint' = checkpoint
    BY <1>4, Zenon DEF ParseFails, InsertConflict, WalkFails, StepFails, Loop, dbVars
  <2>. QED  BY <1>0, <2>1, Zenon DEF StepInv
<1>5. CASE FetchBlock \/ DetectReorg \/ WalkDown
  <2>1. pc \notin {"down", "boot"} /\ pc' \in {"check", "walk"}
        /\ nextBlock' = nextBlock /\ checkpoint' = checkpoint
    BY <1>5, Zenon DEF FetchBlock, DetectReorg, WalkDown, dbVars
  <2>. QED  BY <1>0, <2>1 DEF StepInv
<1>6. CASE ParseBlock
  <2>1. (nextBlock - 1) \in DOMAIN blocks => nextBlock > 0
    BY <1>0, <1>6 DEF ParseBlock, ControlTypeOK, DurableInv, TypeOK, TablesTypeOK, IsTable, Height
  <2>. QED  BY <1>0, <1>6, <2>1, Zenon DEF ParseBlock, ParentMismatch, StepInv, dbVars, stepVars
<1>7. CASE AnnounceBlock
  BY <1>0, <1>c, <1>7 DEF AnnounceBlock, Loop, StepInv, ControlTypeOK, dbVars, Height
<1>8. CASE AnnounceReorg
  BY <1>0, <1>c, <1>8 DEF AnnounceReorg, Loop, StepInv, ControlTypeOK, dbVars, Height
<1>9. CASE FindAncestor
  BY <1>0, <1>9, Zenon DEF FindAncestor, AgreeAt, Loop, StepInv, dbVars
<1>10. CASE IndexBlock \/ IndexBlockUnacknowledged
  <2>1. CommitBlock(fetched) /\ pc = "insert"
    BY <1>10 DEF IndexBlock, IndexBlockUnacknowledged
  <2>2. checkpoint'.last_indexed_block = nextBlock /\ nextBlock \in Height
    BY <2>1, CommitBlockEffect, Zenon DEF CommitBlock
  <2>. QED
    BY <1>10, <2>2 DEF IndexBlock, IndexBlockUnacknowledged, Loop, StepInv, Height
<1>11. CASE Rollback \/ RollbackUnacknowledged
  <2>1. CommitRollback(height, nextBlock - 1) /\ pc = "rollback"
    BY <1>11 DEF Rollback, RollbackUnacknowledged
  <2>2. checkpoint'.last_indexed_block = height /\ checkpoint' # NULL
    BY <2>1, RollbackEffect
  <2>3. nextBlock \in Nat /\ height \in 0..(nextBlock - 1)
    BY <1>0, <2>1 DEF ControlTypeOK
  <2>. QED
    BY <1>11, <2>2, <2>3 DEF Rollback, RollbackUnacknowledged, Loop, StepInv, stepVars
<1>. QED
  BY <1>1, <1>2, <1>3, <1>4, <1>5, <1>6, <1>7, <1>8, <1>9, <1>10, <1>11, Zenon
  DEF Next, Poll, Faulty

(* DurableInv is inductive.                                                *)
LEMMA DurableStep ==
  ASSUME DurableInv, [Next]_vars
  PROVE  DurableInv'
<1>1. TypeOK'
  BY TablesTypeStep, ControlTypeStep DEF DurableInv, TypeOK
<1>2. StepInv'
  BY StepInvStep
<1>3. CheckpointMatches' /\ NoPartialBlock' /\ StoredChainLinked'
  <2>1. CASE UNCHANGED dbVars
    BY <2>1, Zenon DEF DurableInv, dbVars, CheckpointMatches, NoPartialBlock, StoredChainLinked, Linked
  <2>. QED  BY <2>1, StepKinds, CommitBlockDurable, RollbackDurable
<1>. QED  BY <1>1, <1>2, <1>3 DEF DurableInv

(* An empty database is durable.                                           *)
LEMMA DurableInit == Init => DurableInv
<1>. SUFFICES ASSUME Init PROVE DurableInv
  OBVIOUS
<1>1. TypeOK
  BY TypeInit
<1>2. DOMAIN blocks = {} /\ DOMAIN transactions = {} /\ DOMAIN cells = {}
  BY DEF Init, NoRows
<1>. QED
  BY <1>1, <1>2, Zenon
  DEF Init, DurableInv, StepInv, CheckpointMatches, NoPartialBlock, StoredChainLinked, Linked

(* Whatever fails, commit replies included, and wherever the process dies: *)
(* the checkpoint row is the highest stored block, transactions and cells  *)
(* are those of the stored blocks, and stored neighbours are parent and    *)
(* child.                                                                  *)
THEOREM DatabaseDurable ==
  Spec => [](CheckpointMatches /\ NoPartialBlock /\ StoredChainLinked)
<1>1. DurableInv => CheckpointMatches /\ NoPartialBlock /\ StoredChainLinked
  BY DEF DurableInv
<1>2. DurableInv /\ [Next]_vars => DurableInv'
  BY DurableStep
<1>. QED  BY <1>1, <1>2, DurableInit, PTL DEF Spec

\* The checkpoint is the highest stored block: blocks and checkpoint are written
\* in one transaction by index_block and by rollback_to, lost answers included.
THEOREM CheckpointFollows == Spec => []CheckpointMatches
BY DatabaseDurable, PTL

\* A stored block has all of its transactions and cells, and no other block's:
\* a crash or a failed statement leaves no part of one behind.
THEOREM BlocksAreWhole == Spec => []NoPartialBlock
BY DatabaseDurable, PTL

-----------------------------------------------------------------------------
(* The stored chain is whole while no reply to a COMMIT is lost.           *)

(* A stored chain that is not empty goes up to the checkpoint.             *)
LEMMA StoredInterval ==
  ASSUME WholeInv, NEW h \in DOMAIN blocks
  PROVE  /\ checkpoint # NULL /\ checkpoint.last_indexed_block \in Height
         /\ DOMAIN blocks = StartBlock..checkpoint.last_indexed_block
<1>1. checkpoint # NULL
  BY DEF WholeInv, DurableInv, CheckpointMatches
<1>2. checkpoint \in CheckpointRow
  BY <1>1 DEF WholeInv, DurableInv, TypeOK, TablesTypeOK
<1>. QED  BY <1>1, <1>2 DEF WholeInv, NoGaps, CheckpointRow

(* The block about to be inserted is the one above the stored chain.       *)
LEMMA NextIsOnTop ==
  ASSUME WholeInv, pc = "insert"
  PROVE  /\ nextBlock \in Height /\ nextBlock >= StartBlock
         /\ DOMAIN blocks = StartBlock..(nextBlock - 1)
<1>. DEFINE n == nextBlock
<1>1. n \in Height
  BY ChainTypes DEF WholeInv, DurableInv, TypeOK, ControlTypeOK
<1>2. StartBlock \in Height /\ MaxHeight \in Nat
  BY IndexerConstants, ChainTypes
<1>3. n >= StartBlock /\ DOMAIN blocks = StartBlock..(n - 1)
  <2>1. n = ResumeBlock
    BY DEF WholeInv, ResumeInv
  <2>2. CASE checkpoint = NULL
    BY <1>2, <2>1, <2>2 DEF ResumeBlock, WholeInv, DurableInv, CheckpointMatches, Height
  <2>3. CASE checkpoint # NULL
    <3>. DEFINE hi == checkpoint.last_indexed_block
    <3>1. hi \in Height /\ DOMAIN blocks = StartBlock..hi /\ hi \in DOMAIN blocks
      BY <2>3, Zenon DEF WholeInv, NoGaps, DurableInv, CheckpointMatches, TypeOK, TablesTypeOK, CheckpointRow
    <3>. QED  BY <1>2, <2>1, <2>3, <3>1 DEF ResumeBlock, Height
  <2>. QED  BY <2>2, <2>3
<1>. QED  BY <1>1, <1>3

(* A commit of the next block, and a rollback, leave no hole.              *)
LEMMA CommitNoGaps ==
  ASSUME WholeInv, pc = "insert", CommitBlock(fetched)
  PROVE  NoGaps'
<1>1. /\ nextBlock \in Height /\ nextBlock >= StartBlock
      /\ DOMAIN blocks = StartBlock..(nextBlock - 1)
  BY NextIsOnTop, Zenon
<1>2. DOMAIN blocks' = DOMAIN blocks \cup {nextBlock} /\ Number[fetched] = nextBlock
  BY CommitBlockEffect, Zenon DEF WholeInv
<1>3. DOMAIN blocks' = StartBlock..nextBlock
  BY <1>1, <1>2, IndexerConstants DEF Height
<1>4. checkpoint'.last_indexed_block = nextBlock
  BY <1>2, Zenon DEF CommitBlock
<1>. QED  BY <1>3, <1>4, Zenon DEF NoGaps

(* A rollback leaves the heights up to the ancestor.                       *)
LEMMA RollbackNoGaps ==
  ASSUME WholeInv, pc = "rollback", CommitRollback(height, nextBlock - 1)
  PROVE  NoGaps'
<1>1. /\ height \in Height /\ height \in DOMAIN blocks
      /\ DOMAIN blocks' = {k \in DOMAIN blocks : k <= height}
      /\ checkpoint'.last_indexed_block = height
  BY RollbackEffect DEF WholeInv
<1>2. /\ checkpoint.last_indexed_block \in Height
      /\ DOMAIN blocks = StartBlock..checkpoint.last_indexed_block
  BY <1>1, StoredInterval
<1>3. DOMAIN blocks' = StartBlock..height
  BY <1>1, <1>2, IndexerConstants DEF Height
<1>. QED  BY <1>1, <1>3 DEF NoGaps

(* next_block stays the block a restart would resume at across a step that *)
(* loses no reply to a COMMIT.                                             *)
LEMMA ResumeStep ==
  ASSUME WholeInv, [Next]_vars,
         UNCHANGED dbVars \/ IndexBlock \/ Rollback
  PROVE  ResumeInv'
<1>0. /\ ResumeInv /\ StepInv /\ ControlTypeOK /\ MaxHeight \in Nat
      /\ StartBlock \in Height
  BY ChainTypes, IndexerConstants, Zenon DEF WholeInv, DurableInv, TypeOK
<1>c. checkpoint # NULL => checkpoint.last_indexed_block \in Height
  BY Zenon DEF WholeInv, DurableInv, TypeOK, TablesTypeOK, CheckpointRow
<1>1. CASE NodeMove \/ Cancel \/ WaitForTip \/ UNCHANGED vars
  BY <1>0, <1>1, Zenon DEF NodeMove, Cancel, WaitForTip, vars, dbVars, stepVars, ResumeInv, ResumeBlock
<1>2. CASE Boot
  BY <1>2, Zenon DEF Boot, Loop, ResumeBlock, ResumeInv, dbVars
<1>3. CASE Stop \/ Crash \/ BootFails \/ Restart
  BY <1>3, Zenon DEF Stop, Crash, BootFails, Restart, Halt, ResumeInv
<1>4. CASE ParseFails \/ InsertConflict \/ WalkFails \/ StepFails
  BY <1>0, <1>4, Zenon
  DEF ParseFails, InsertConflict, WalkFails, StepFails, Loop, ResumeInv, ResumeBlock, dbVars
<1>5. CASE FetchBlock \/ DetectReorg \/ WalkDown \/ ParseBlock
  BY <1>0, <1>5, Zenon DEF FetchBlock, DetectReorg, WalkDown, ParseBlock, ResumeInv, ResumeBlock, dbVars
<1>6. CASE AnnounceBlock
  BY <1>0, <1>6, Zenon DEF AnnounceBlock, Loop, ResumeInv, ResumeBlock, dbVars
<1>7. CASE AnnounceReorg
  BY <1>0, <1>7, Zenon DEF AnnounceReorg, Loop, ResumeInv, ResumeBlock, StepInv, dbVars
<1>8. CASE FindAncestor
  <2>1. nextBlock \in Nat /\ height \in 0..(nextBlock - 1)
    BY <1>0, <1>8 DEF FindAncestor, ControlTypeOK
  <2>. QED
    BY <1>0, <1>8, <2>1 DEF FindAncestor, IsInconsistentNode, Loop, ResumeInv, ResumeBlock, dbVars
<1>9. CASE IndexBlock
  <2>1. nextBlock \in Height /\ checkpoint' # NULL /\ checkpoint'.last_indexed_block = nextBlock
    <3>1. CommitBlock(fetched) /\ pc = "insert" /\ fetched \in Block
      BY <1>0, <1>9, Zenon DEF IndexBlock, ControlTypeOK
    <3>2. checkpoint' \in CheckpointRow
      BY <3>1, CommitBlockType, Zenon DEF WholeInv, DurableInv
    <3>. QED  BY <3>1, <3>2, CommitBlockEffect, IndexerConstants, Zenon DEF CommitBlock, WholeInv
  <2>. QED  BY <1>9, <2>1, SMTT(20) DEF IndexBlock, ResumeInv, ResumeBlock
<1>10. CASE Rollback
  BY <1>10, Zenon DEF Rollback, ResumeInv
<1>11. CASE IndexBlockUnacknowledged \/ RollbackUnacknowledged
  <2>1. pc \in {"insert", "rollback"} /\ pc' = "loop" /\ nextBlock' = nextBlock
    BY <1>11, Zenon DEF IndexBlockUnacknowledged, RollbackUnacknowledged, Loop
  <2>2. UNCHANGED dbVars
    BY <2>1 DEF IndexBlock, Rollback
  <2>. QED  BY <1>0, <2>1, <2>2, Zenon DEF ResumeInv, ResumeBlock, dbVars
<1>. QED
  BY <1>1, <1>2, <1>3, <1>4, <1>5, <1>6, <1>7, <1>8, <1>9, <1>10, <1>11
  DEF Next, Poll, Faulty

(* The stored chain stays whole across a step that loses no reply.         *)
LEMMA WholeStep ==
  ASSUME WholeInv, [Next]_vars,
         UNCHANGED dbVars \/ IndexBlock \/ Rollback
  PROVE  WholeInv'
<1>1. DurableInv' /\ ResumeInv'
  BY DurableStep, ResumeStep DEF WholeInv
<1>2. NoGaps'
  <2>1. CASE UNCHANGED dbVars
    BY <2>1, Zenon DEF WholeInv, dbVars, NoGaps
  <2>. QED  BY <2>1, StepKinds, CommitNoGaps, RollbackNoGaps, Zenon
<1>. QED  BY <1>1, <1>2 DEF WholeInv

(* WholeInv holds in every reachable state.                                *)
LEMMA WholeAlways ==
  ASSUME "ack" \notin FaultKinds
  PROVE  Spec => []WholeInv
<1>1. Init => WholeInv
  BY DurableInit DEF Init, WholeInv, ResumeInv, NoGaps
<1>2. WholeInv /\ [Next]_vars => WholeInv'
  <2>. SUFFICES ASSUME WholeInv, [Next]_vars PROVE WholeInv'
    OBVIOUS
  <2>1. UNCHANGED dbVars \/ IndexBlock \/ Rollback
    BY StepKinds, Zenon DEF IndexBlockUnacknowledged, RollbackUnacknowledged, Fault
  <2>. QED  BY <2>1, WholeStep
<1>. QED  BY <1>1, <1>2, PTL DEF Spec

\* The stored heights are an interval from the start block to the checkpoint.
THEOREM StoredWithoutGaps ==
  ASSUME "ack" \notin FaultKinds
  PROVE  Spec => []NoGaps
<1>1. WholeInv => NoGaps
  BY DEF WholeInv
<1>. QED  BY <1>1, WholeAlways, PTL

-----------------------------------------------------------------------------
(* While every reply to a COMMIT arrives.                                  *)

(* The stored chain, and the stored chain with the block about to be       *)
(* inserted on top, obey the consensus rules.                              *)
LEMMA StoredChainValid ==
  ASSUME WholeInv
  PROVE  ConsensusValid(blocks)
<1>1. CASE checkpoint = NULL
  BY <1>1 DEF WholeInv, DurableInv, CheckpointMatches, ConsensusValid
<1>2. CASE checkpoint # NULL
  <2>. DEFINE hi == checkpoint.last_indexed_block
  <2>1. hi \in Height /\ DOMAIN blocks = StartBlock..hi
    BY <1>2, Zenon DEF WholeInv, NoGaps, DurableInv, TypeOK, TablesTypeOK, CheckpointRow
  <2>2. blocks \in [StartBlock..hi -> Block] /\ Linked(blocks)
    BY <2>1 DEF WholeInv, DurableInv, TypeOK, TablesTypeOK, IsTable, StoredChainLinked
  <2>. QED  BY <2>1, <2>2, ConsensusRules, IndexerConstants
<1>. QED  BY <1>1, <1>2

(* The stored chain with the fetched block on top is linked and obeys      *)
(* the consensus rules.                                                    *)
LEMMA ExtendedChainValid ==
  ASSUME WholeInv, pc = "insert"
  PROVE  LET c == InsertBlock(blocks, nextBlock, fetched) IN
         /\ nextBlock \in Height /\ nextBlock >= StartBlock
         /\ DOMAIN blocks = StartBlock..(nextBlock - 1)
         /\ DOMAIN c = StartBlock..nextBlock
         /\ Linked(c) /\ ConsensusValid(c)
<1>. DEFINE n == nextBlock  c == InsertBlock(blocks, nextBlock, fetched)
<1>1. fetched \in Block /\ n \in Height /\ Number[fetched] = n
  BY ChainTypes DEF WholeInv, DurableInv, TypeOK, ControlTypeOK
<1>2. StartBlock \in Height /\ MaxHeight \in Nat
  BY IndexerConstants, ChainTypes
<1>3. n >= StartBlock /\ DOMAIN blocks = StartBlock..(n - 1)
  BY NextIsOnTop
<1>4. /\ DOMAIN c = StartBlock..n /\ c[n] = fetched
      /\ \A k \in DOMAIN blocks : c[k] = blocks[k]
  <2>1. c = [k \in DOMAIN blocks \cup {n} |-> IF k = n THEN fetched ELSE blocks[k]]
    BY <1>1, Zenon DEF InsertBlock
  <2>2. DOMAIN blocks \cup {n} = StartBlock..n /\ n \notin DOMAIN blocks
    BY <1>1, <1>2, <1>3 DEF Height
  <2>. QED  BY <2>1, <2>2, Zenon
<1>5. \A k \in DOMAIN blocks : blocks[k] \in Block
  BY Zenon DEF WholeInv, DurableInv, TypeOK, TablesTypeOK, IsTable
<1>6. c \in [StartBlock..n -> Block]
  BY <1>1, <1>2, <1>3, <1>4, <1>5 DEF InsertBlock, Height
<1>. HIDE DEF c
<1>7. Linked(c)
  <2>1. (n - 1) \in DOMAIN blocks => ParentHash[fetched] = blocks[n - 1]
    BY Zenon DEF WholeInv, DurableInv, StepInv
  <2>2. Linked(blocks)
    BY DEF WholeInv, DurableInv, StoredChainLinked
  <2>. SUFFICES ASSUME NEW k \in StartBlock..n
                PROVE  /\ Number[c[k]] = k
                       /\ (k - 1) \in StartBlock..n => ParentHash[c[k]] = c[k - 1]
    BY <1>4 DEF Linked
  <2>3. CASE k = n
    BY <1>1, <1>2, <1>3, <1>4, <2>1, <2>3 DEF Height
  <2>4. CASE k # n
    <3>1. k \in DOMAIN blocks /\ ((k - 1) \in StartBlock..n => (k - 1) \in DOMAIN blocks)
      BY <1>1, <1>2, <1>3, <2>4 DEF Height
    <3>. QED  BY <1>4, <2>2, <3>1 DEF Linked
  <2>. QED  BY <2>3, <2>4, Zenon
<1>8. ConsensusValid(c)
  BY <1>1, <1>2, <1>6, <1>7, ConsensusRules, Zenon
<1>. QED  BY <1>1, <1>3, <1>4, <1>7, <1>8 DEF c

(* The inserts of a step meet no row with a key of their own.              *)
LEMMA NoConflict ==
  ASSUME ExactInv
  PROVE  InsertNeverConflicts
<1>. SUFFICES ASSUME pc = "insert"
              PROVE  ~Conflicts(blocks, transactions, cells, nextBlock, fetched)
  BY Zenon DEF InsertNeverConflicts, ExactInv, WholeInv, DurableInv, TypeOK, ControlTypeOK
<1>. DEFINE n == nextBlock  c == InsertBlock(blocks, nextBlock, fetched)
<1>1. /\ n \in Height /\ n >= StartBlock
      /\ DOMAIN blocks = StartBlock..(n - 1) /\ DOMAIN c = StartBlock..n
      /\ Linked(c) /\ ConsensusValid(c)
  BY ExtendedChainValid, Zenon DEF ExactInv
<1>2. StartBlock \in Height /\ MaxHeight \in Nat
  BY IndexerConstants, ChainTypes
<1>3. n \notin DOMAIN blocks /\ n \in DOMAIN c /\ c[n] = fetched
  BY <1>1, <1>2 DEF Height, InsertBlock
<1>4. \A k \in DOMAIN blocks : k \in DOMAIN c /\ k # n /\ c[k] = blocks[k]
  BY <1>1, <1>2, <1>3, Zenon DEF Height, InsertBlock
<1>. HIDE DEF c
<1>5. \A k \in DOMAIN blocks : blocks[k] # fetched
  BY <1>1, <1>3, <1>4 DEF Linked
<1>6. \A k \in DOMAIN blocks : /\ Txs[blocks[k]] \cap Txs[fetched] = {}
                               /\ BlockOutputs(blocks[k]) \cap BlockOutputs(fetched) = {}
  BY <1>1, <1>3, <1>4, Zenon DEF ConsensusValid
<1>7. /\ DOMAIN transactions \subseteq Tx /\ DOMAIN cells \subseteq OutPoint
      /\ NoPartialBlock
  BY Zenon DEF ExactInv, WholeInv, DurableInv, TypeOK, TablesTypeOK, IsTable
<1>8. Txs[fetched] \cap DOMAIN transactions = {}
  BY <1>6, <1>7, Zenon DEF NoPartialBlock
<1>9. BlockOutputs(fetched) \cap DOMAIN cells = {}
  BY <1>6, <1>7, Zenon DEF NoPartialBlock
<1>. QED  BY <1>3, <1>5, <1>8, <1>9, Zenon DEF Conflicts

(* A commit of the next block keeps the cells a replay of the chain.       *)
LEMMA CommitBlockExact ==
  ASSUME ExactInv, pc = "insert", CommitBlock(fetched)
  PROVE  CellsReplay'
<1>. DEFINE n == nextBlock  b == fetched
<1>1. /\ n \in Height /\ n >= StartBlock
      /\ DOMAIN blocks = StartBlock..(n - 1) /\ DOMAIN blocks' = StartBlock..n
      /\ ConsensusValid(blocks')
  <2>1. blocks' = InsertBlock(blocks, n, b)
    BY Zenon DEF CommitBlock, ExactInv, WholeInv, DurableInv, TypeOK, ControlTypeOK
  <2>. QED  BY <2>1, ExtendedChainValid, Zenon DEF ExactInv
<1>2. /\ b \in Block /\ Number[b] = n /\ blocks'[n] = b
      /\ \A k \in DOMAIN blocks : k < n /\ blocks[k] \in Block /\ blocks'[k] = blocks[k]
      /\ DOMAIN blocks' = DOMAIN blocks \cup {n}
  BY CommitBlockEffect, SMTT(20) DEF ExactInv, WholeInv
<1>3. /\ DOMAIN cells' = DOMAIN cells \cup BlockOutputs(b)
      /\ \A o \in DOMAIN cells' :
           /\ cells'[o].consumed_by =
                IF o \in BlockInputs(b) THEN Spender(b, o)
                ELSE IF o \in BlockOutputs(b) THEN NULL ELSE cells[o].consumed_by
           /\ cells'[o].consumed_at =
                IF o \in BlockInputs(b) THEN n
                ELSE IF o \in BlockOutputs(b) THEN NULL ELSE cells[o].consumed_at
  BY <1>2, CommitCells, Zenon
<1>. SUFFICES ASSUME NEW o \in DOMAIN cells'
              PROVE  IF SpentAt(o)' = {}
                     THEN cells'[o].consumed_by = NULL /\ cells'[o].consumed_at = NULL
                     ELSE \E k \in SpentAt(o)' : /\ cells'[o].consumed_at = k
                                                 /\ cells'[o].consumed_by = Spender(blocks'[k], o)
  BY Zenon DEF CellsReplay
<1>4. SpentAt(o)' = {k \in DOMAIN blocks' : o \in BlockInputs(blocks'[k])}
  BY Zenon DEF SpentAt
<1>5. CASE o \in BlockInputs(b)
  BY <1>2, <1>3, <1>4, <1>5
<1>6. CASE o \notin BlockInputs(b) /\ o \in BlockOutputs(b)
  <2>1. ASSUME NEW k \in DOMAIN blocks PROVE o \notin BlockInputs(blocks[k])
    BY <1>1, <1>2, <1>6, Zenon DEF ConsensusValid
  <2>2. SpentAt(o)' = {}
    BY <1>2, <1>4, <1>6, <2>1, SMTT(20)
  <2>. QED  BY <1>3, <1>6, <2>2, Zenon
<1>7. CASE o \notin BlockInputs(b) /\ o \notin BlockOutputs(b)
  <2>1. o \in DOMAIN cells
    BY <1>3, <1>7, Zenon
  <2>2. SpentAt(o)' = SpentAt(o)
    BY <1>2, <1>4, <1>7, Zenon DEF SpentAt
  <2>3. \A k \in SpentAt(o) : blocks'[k] = blocks[k]
    BY <1>2, Zenon DEF SpentAt
  <2>. QED  BY <1>3, <1>7, <2>1, <2>2, <2>3, Zenon DEF ExactInv, WholeInv, CellsReplay
<1>. QED  BY <1>5, <1>6, <1>7, Zenon

(* So does a rollback: a cell has one spender on a chain, so a spender     *)
(* above the ancestor leaves none at or below it.                          *)
LEMMA RollbackExact ==
  ASSUME ExactInv, pc = "rollback", CommitRollback(height, nextBlock - 1)
  PROVE  CellsReplay'
<1>0. /\ height \in Height /\ height \in DOMAIN blocks
      /\ \A k \in DOMAIN blocks : k \in Height /\ blocks[k] \in Block
      /\ DOMAIN blocks' = {k \in DOMAIN blocks : k <= height}
      /\ \A k \in DOMAIN blocks' : blocks'[k] = blocks[k]
      /\ checkpoint'.last_indexed_block = height
  BY RollbackEffect DEF ExactInv, WholeInv
<1>1. /\ DOMAIN cells' \subseteq DOMAIN cells
      /\ \A o \in DOMAIN cells' :
           IF cells[o].consumed_at # NULL /\ cells[o].consumed_at > height
           THEN cells'[o].consumed_by = NULL /\ cells'[o].consumed_at = NULL
           ELSE cells'[o] = cells[o]
  BY RollbackCells, Zenon
<1>. SUFFICES ASSUME NEW o \in DOMAIN cells'
              PROVE  IF SpentAt(o)' = {}
                     THEN cells'[o].consumed_by = NULL /\ cells'[o].consumed_at = NULL
                     ELSE \E k \in SpentAt(o)' : /\ cells'[o].consumed_at = k
                                                 /\ cells'[o].consumed_by = Spender(blocks'[k], o)
  BY Zenon DEF CellsReplay
<1>2. SpentAt(o)' = {k \in SpentAt(o) : k <= height}
  BY <1>0 DEF SpentAt
<1>3. CASE SpentAt(o) = {}
  <2>1. cells[o].consumed_by = NULL /\ cells[o].consumed_at = NULL
    BY <1>1, <1>3, Zenon DEF ExactInv, WholeInv, CellsReplay
  <2>. QED  BY <1>1, <1>2, <1>3, <2>1, Zenon
<1>4. CASE SpentAt(o) # {}
  <2>1. PICK k \in SpentAt(o) : /\ cells[o].consumed_at = k
                                /\ cells[o].consumed_by = Spender(blocks[k], o)
    BY <1>1, <1>4, Zenon DEF ExactInv, WholeInv, CellsReplay
  <2>2. \A j \in SpentAt(o) : j = k
    BY StoredChainValid, Zenon DEF ExactInv, ConsensusValid, SpentAt
  <2>3. k \in Height /\ k # NULL
    BY <1>0, NullIsNoValue DEF SpentAt, Height
  <2>4. CASE k > height
    <3>1. SpentAt(o)' = {}
      BY <1>0, <1>2, <2>2, <2>3, <2>4 DEF Height
    <3>. QED  BY <1>1, <2>1, <2>3, <2>4, <3>1, Zenon
  <2>5. CASE k <= height
    <3>1. k \in SpentAt(o)' /\ blocks'[k] = blocks[k]
      BY <1>0, <1>2, <2>5, SMTT(20) DEF SpentAt
    <3>2. cells'[o] = cells[o]
      BY <1>0, <1>1, <2>1, <2>3, <2>5 DEF Height
    <3>. QED  BY <2>1, <3>1, <3>2, Zenon
  <2>. QED  BY <1>0, <2>3, <2>4, <2>5 DEF Height
<1>. QED  BY <1>3, <1>4, Zenon

(* ExactInv is inductive when no reply to a COMMIT is lost.                *)
LEMMA ExactStep ==
  ASSUME ExactInv, [Next]_vars, "ack" \notin FaultKinds
  PROVE  ExactInv'
<1>1. UNCHANGED dbVars \/ IndexBlock \/ Rollback
  BY StepKinds, Zenon DEF IndexBlockUnacknowledged, RollbackUnacknowledged, Fault
<1>2. WholeInv'
  BY <1>1, WholeStep, Zenon DEF ExactInv
<1>3. CellsReplay'
  <2>1. CASE UNCHANGED dbVars
    BY <2>1, Zenon DEF ExactInv, dbVars, CellsReplay, SpentAt
  <2>. QED  BY <2>1, StepKinds, CommitBlockExact, RollbackExact, Zenon
<1>. QED  BY <1>2, <1>3, Zenon DEF ExactInv

(* An empty database is an exact index of nothing.                         *)
LEMMA ExactInit == Init => ExactInv
<1>. SUFFICES ASSUME Init PROVE ExactInv
  OBVIOUS
<1>1. DOMAIN cells = {}
  BY DEF Init, NoRows
<1>. QED  BY <1>1, DurableInit, Zenon DEF Init, ExactInv, WholeInv, ResumeInv, NoGaps, CellsReplay

(* ExactInv holds in every reachable state.                                *)
LEMMA ExactAlways ==
  ASSUME "ack" \notin FaultKinds
  PROVE  Spec => []ExactInv
<1>1. ExactInv /\ [Next]_vars => ExactInv'
  BY ExactStep, Zenon
<1>. QED  BY <1>1, ExactInit, PTL DEF Spec

(* As long as every COMMIT is answered, and through any reorgs, failed     *)
(* steps, crashes and shutdowns: the stored chain has no hole, the cells   *)
(* table is the replay of that chain, and no insert meets a duplicate key. *)
THEOREM IndexExact ==
  ASSUME "ack" \notin FaultKinds
  PROVE  Spec => [](NoGaps /\ CellsReplay /\ InsertNeverConflicts)
<1>1. ExactInv => NoGaps /\ CellsReplay /\ InsertNeverConflicts
  BY NoConflict, Zenon DEF ExactInv, WholeInv
<1>. QED  BY <1>1, ExactAlways, PTL

\* No INSERT of index_block meets a row that is already there, so a primary key
\* never aborts the transaction and stops the poller.
THEOREM InsertsAreFresh ==
  ASSUME "ack" \notin FaultKinds
  PROVE  Spec => []InsertNeverConflicts
BY IndexExact, PTL

-----------------------------------------------------------------------------
(* Refinement of ChainLedger                                               *)

(* The rows readers see as live are the live cells of the stored chain.    *)
LEMMA LiveRowsAreLive ==
  ASSUME ExactInv
  PROVE  LiveRows = Ledger!LiveCells(blocks)
<1>. SUFFICES ASSUME NEW o
              PROVE  o \in LiveRows <=> o \in Ledger!LiveCells(blocks)
  BY Zenon
<1>1. DOMAIN cells \subseteq OutPoint /\ \A k \in DOMAIN blocks : blocks[k] \in Block
  BY Zenon DEF ExactInv, WholeInv, DurableInv, TypeOK, TablesTypeOK, IsTable
<1>2. o \in Ledger!LiveCells(blocks) <=>
        /\ o \in OutPoint
        /\ \E k \in DOMAIN blocks : o \in BlockOutputs(blocks[k])
        /\ \A k \in DOMAIN blocks : o \notin BlockInputs(blocks[k])
  BY Zenon DEF Ledger!LiveCells, Ledger!BlockOutputs, Ledger!BlockInputs, BlockOutputs, BlockInputs
<1>3. o \in DOMAIN cells <=>
        o \in OutPoint /\ \E k \in DOMAIN blocks : o \in BlockOutputs(blocks[k])
  BY <1>1, Zenon DEF ExactInv, WholeInv, DurableInv, NoPartialBlock
<1>4. ASSUME o \in DOMAIN cells
      PROVE  cells[o].consumed_by = NULL <=> SpentAt(o) = {}
  <2>1. ASSUME NEW k \in SpentAt(o) PROVE Spender(blocks[k], o) # NULL
    <3>1. blocks[k] \in Block /\ o \in BlockInputs(blocks[k])
      BY <1>1, Zenon DEF SpentAt
    <3>2. Spender(blocks[k], o) \in Tx
      BY <3>1, SpenderType, Zenon
    <3>. QED  BY <3>2, NullIsNoValue, Zenon
  <2>. QED  BY <1>4, <2>1, Zenon DEF ExactInv, WholeInv, CellsReplay
<1>5. SpentAt(o) = {} <=> \A k \in DOMAIN blocks : o \notin BlockInputs(blocks[k])
  BY Zenon DEF SpentAt
<1>. QED  BY <1>2, <1>3, <1>4, <1>5, Zenon DEF LiveRows

(* A step of the indexer extends the ledger, truncates it or is not seen.  *)
LEMMA LedgerStep ==
  ASSUME ExactInv, [Next]_vars, ExactInv'
  PROVE  [Ledger!Next]_<<blocks, LiveRows>>
<1>1. CASE UNCHANGED dbVars
  BY <1>1, Zenon DEF dbVars, LiveRows
<1>2. LiveRows' = Ledger!LiveCells(blocks')
  <2>1. (LiveRows = Ledger!LiveCells(blocks))'
    BY LiveRowsAreLive, PTL
  <2>. QED  BY <2>1
<1>3. CASE pc = "insert" /\ CommitBlock(fetched)
  <2>1. fetched \in Block /\ Number[fetched] = nextBlock
    BY <1>3, Zenon DEF ExactInv, WholeInv, DurableInv, TypeOK, ControlTypeOK
  <2>2. /\ nextBlock \in Height /\ nextBlock >= StartBlock
        /\ DOMAIN blocks = StartBlock..(nextBlock - 1)
    BY <1>3, ExtendedChainValid, Zenon DEF ExactInv
  <2>3. nextBlock > StartBlock => ParentHash[fetched] = blocks[nextBlock - 1]
    <3>1. nextBlock > StartBlock => (nextBlock - 1) \in DOMAIN blocks
      BY <2>2, IndexerConstants DEF Height
    <3>. QED  BY <1>3, <3>1, Zenon DEF ExactInv, WholeInv, DurableInv, StepInv
  <2>4. blocks' = [k \in StartBlock..nextBlock |-> IF k = nextBlock THEN fetched ELSE blocks[k]]
    <3>1. DOMAIN blocks \cup {nextBlock} = StartBlock..nextBlock
      BY <2>2, IndexerConstants, SMTT(20) DEF Height
    <3>2. blocks' = [k \in DOMAIN blocks \cup {nextBlock} |->
                       IF k = nextBlock THEN fetched ELSE blocks[k]]
      BY <1>3, <2>1, Zenon DEF CommitBlock, InsertBlock
    <3>. QED  BY <3>1, <3>2, Zenon
  <2>5. Ledger!Extend(fetched)
    BY <2>1, <2>2, <2>3, <2>4, Zenon DEF Ledger!Extend
  <2>. QED  BY <1>2, <2>1, <2>5, Zenon DEF Ledger!Next
<1>4. CASE pc = "rollback" /\ CommitRollback(height, nextBlock - 1)
  <2>1. height \in Height /\ height \in DOMAIN blocks
    BY <1>4, RollbackEffect, Zenon DEF ExactInv, WholeInv
  <2>2. checkpoint # NULL /\ checkpoint.last_indexed_block \in Height
    BY <2>1, StoredInterval, Zenon DEF ExactInv
  <2>3. DOMAIN blocks = StartBlock..checkpoint.last_indexed_block
    BY <2>1, StoredInterval, Zenon DEF ExactInv
  <2>4. height < checkpoint.last_indexed_block
    BY <1>4, <2>1, <2>2 DEF ExactInv, WholeInv, ResumeInv, ResumeBlock, Height
  <2>5. blocks' = [k \in StartBlock..height |-> blocks[k]]
    <3>1. blocks' = [k \in {k \in DOMAIN blocks : k <= height} |-> blocks[k]]
      BY <1>4, Zenon DEF CommitRollback, DeleteAbove, Restrict
    <3>2. {k \in DOMAIN blocks : k <= height} = StartBlock..height
      BY <2>1, <2>2, <2>3, IndexerConstants DEF Height
    <3>. QED  BY <3>1, <3>2, Zenon
  <2>6. height + 1 \in DOMAIN blocks
    BY <2>1, <2>2, <2>3, <2>4, IndexerConstants DEF Height
  <2>7. Ledger!Truncate(height)
    BY <2>5, <2>6, Zenon DEF Ledger!Truncate
  <2>. QED  BY <1>2, <2>1, <2>7, Zenon DEF Ledger!Next
<1>. QED  BY <1>1, <1>3, <1>4, StepKinds, Zenon

(* As long as every COMMIT is answered, the database is a ledger: readers  *)
(* only ever see a chain that grows by a child or loses its top, with the  *)
(* live cells that belong to it.                                           *)
THEOREM IndexerImplementsLedger ==
  ASSUME "ack" \notin FaultKinds
  PROVE  Spec => ImplementsLedger
<1>1. Init => Ledger!Init
  BY Zenon DEF Init, NoRows, Ledger!Init, LiveRows
<1>2. ExactInv /\ [Next]_vars /\ ExactInv' => [Ledger!Next]_<<blocks, LiveRows>>
  BY LedgerStep, Zenon
<1>. QED  BY <1>1, <1>2, ExactAlways, PTL DEF Spec, ImplementsLedger, Ledger!Spec

-----------------------------------------------------------------------------
(* A rollback keeps what the node serves.                                  *)


(* A set of natural numbers that is not empty has a least element.         *)
LEMMA LeastNatural ==
  ASSUME NEW T, T \subseteq Nat, T # {}
  PROVE  \E x \in T : \A y \in T : x <= y
<1>. DEFINE R == OpToRel(<, Nat)
<1>1. IsWellFoundedOn(R, Nat)
  BY NatLessThanWellFounded, Zenon
<1>2. \A x, y \in Nat : y < x => <<y, x>> \in R
  BY Zenon DEF OpToRel
<1>. HIDE DEF R
<1>3. PICK x \in T : \A y \in T : ~(<<y, x>> \in R)
  BY <1>1, WFMin, Zenon
<1>4. ASSUME NEW y \in T PROVE x <= y
  <2>1. x \in Nat /\ y \in Nat
    OBVIOUS
  <2>2. ~(y < x)
    BY <1>2, <1>3, <2>1, Zenon
  <2>. QED  BY <2>1, <2>2
<1>. QED  BY <1>4

(* Two chains that have the same block at a height have the same blocks    *)
(* below it: a block names its parent.                                     *)
LEMMA SameBelow ==
  ASSUME NEW c, NEW d, NEW lo \in Nat, NEW h \in Nat, Linked(c), Linked(d),
         lo..h \subseteq DOMAIN c, lo..h \subseteq DOMAIN d, c[h] = d[h]
  PROVE  \A k \in lo..h : c[k] = d[k]
<1>. DEFINE T == {x \in 0..(h - lo) : c[h - x] # d[h - x]}
<1>1. SUFFICES T = {}
  <2>1. ASSUME NEW k \in lo..h, T = {} PROVE c[k] = d[k]
    <3>1. h - k \in 0..(h - lo) /\ h - (h - k) = k
      OBVIOUS
    <3>. QED  BY <2>1, <3>1, Zenon
  <2>. QED  BY <2>1, Zenon
<1>2. SUFFICES ASSUME T # {} PROVE FALSE
  OBVIOUS
<1>3. PICK x \in T : \A y \in T : x <= y
  <2>1. T \subseteq Nat
    OBVIOUS
  <2>. HIDE DEF T
  <2>. QED  BY <1>2, <2>1, LeastNatural, Zenon
<1>4. /\ x \in 0..(h - lo) /\ c[h - x] # d[h - x] /\ x - 1 \notin T
      /\ x # 0
  BY <1>3
<1>5. /\ x - 1 \in 0..(h - lo) /\ h - (x - 1) \in lo..h /\ h - x \in lo..h
      /\ (h - (x - 1)) - 1 = h - x
  BY <1>4
<1>6. c[h - (x - 1)] = d[h - (x - 1)]
  BY <1>4, <1>5, Zenon
<1>. HIDE DEF T
<1>7. /\ ParentHash[c[h - (x - 1)]] = c[h - x]
      /\ ParentHash[d[h - (x - 1)]] = d[h - x]
  BY <1>5 DEF Linked
<1>. QED  BY <1>4, <1>6, <1>7, Zenon

(* The walk's invariant is kept by every step.                             *)
LEMMA WalkStep ==
  ASSUME TypeOK, WalkInv, [Next]_vars
  PROVE  WalkInv'
<1>0. DOMAIN blocks \subseteq Int
  BY DEF TypeOK, TablesTypeOK, IsTable, Height
<1>1. CASE UNCHANGED vars \/ WaitForTip \/ Cancel
  BY <1>1, Zenon DEF WaitForTip, Cancel, WalkInv, AgreeAt, vars, chainVars, dbVars, stepVars
<1>2. CASE NodeMove
  BY <1>2, Zenon DEF NodeMove, WalkInv
<1>3. CASE DetectReorg
  <2>1. nextBlock \in Nat
    BY <1>3 DEF DetectReorg, TypeOK, ControlTypeOK
  <2>2. \A h \in DOMAIN blocks : ~(nextBlock - 1 < h /\ h < nextBlock)
    BY <1>0, <2>1
  <2>3. /\ blocks' = blocks /\ height' = nextBlock - 1 /\ nextBlock' = nextBlock
        /\ pc' = "walk"
    BY <1>3, Zenon DEF DetectReorg, dbVars
  <2>. QED  BY <2>2, <2>3, Zenon DEF WalkInv
<1>4. CASE WalkDown
  <2>1. height \in Int
    BY <1>4 DEF WalkDown, TypeOK, ControlTypeOK
  <2>2. \A h \in DOMAIN blocks : height - 1 < h => h = height \/ height < h
    BY <1>0, <2>1
  <2>. QED  BY <1>4, <2>2, Zenon DEF WalkDown, WalkInv, AgreeAt, chainVars, dbVars
<1>5. CASE FindAncestor
  BY <1>5, Zenon DEF FindAncestor, WalkInv, AgreeAt, Loop, chainVars, dbVars
<1>6. CASE ~(UNCHANGED vars \/ WaitForTip \/ Cancel \/ NodeMove \/ DetectReorg
              \/ WalkDown \/ FindAncestor)
  <2>1. pc' \notin {"walk", "rollback"}
    BY <1>6
    DEF Next, Poll, Faulty, Boot, Stop, FetchBlock, ParseBlock, ParseFails, IndexBlock,
        InsertConflict, AnnounceBlock, WalkFails, Rollback, AnnounceReorg, Restart,
        BootFails, Crash, StepFails, IndexBlockUnacknowledged, RollbackUnacknowledged,
        Loop, Halt
  <2>. QED  BY <2>1, Zenon DEF WalkInv
<1>. QED  BY <1>1, <1>2, <1>3, <1>4, <1>5, <1>6

(* A rollback in a step during which the node kept its branch deletes what *)
(* the node does not serve, and nothing else.                              *)
LEMMA RollbackKeepsShared ==
  ASSUME WholeInv, WalkInv, ~moved, pc = "rollback",
         CommitRollback(height, nextBlock - 1)
  PROVE  DOMAIN blocks' = {h \in DOMAIN blocks \cap DOMAIN node : AgreeAt(h)}
<1>. DEFINE tip == checkpoint.last_indexed_block
<1>1. /\ height \in Height /\ height \in DOMAIN blocks
      /\ DOMAIN blocks' = {k \in DOMAIN blocks : k <= height}
  BY RollbackEffect, Zenon DEF WholeInv
<1>2. checkpoint # NULL /\ tip \in Height /\ DOMAIN blocks = StartBlock..tip
  BY <1>1, StoredInterval
<1>3. nextBlock = tip + 1
  BY <1>2, Zenon DEF WholeInv, ResumeInv, ResumeBlock
<1>. HIDE DEF tip
<1>4. /\ height \in DOMAIN node /\ blocks[height] = node[height]
      /\ \A h \in DOMAIN blocks \cap DOMAIN node : height < h /\ h < nextBlock => ~AgreeAt(h)
  BY Zenon DEF WalkInv, AgreeAt
<1>5. Linked(blocks) /\ node \in Chains
  BY Zenon DEF WholeInv, DurableInv, StoredChainLinked, TypeOK, ControlTypeOK
<1>6. PICK n \in Height : node \in [0..n -> Block]
  BY <1>5, NodeServesABranch
<1>7. StartBlock..height \subseteq DOMAIN blocks /\ StartBlock..height \subseteq DOMAIN node
  BY <1>1, <1>2, <1>4, <1>6, IndexerConstants DEF Height
<1>8. \A k \in StartBlock..height : blocks[k] = node[k]
  <2>1. StartBlock \in Nat /\ height \in Nat /\ Linked(node)
    BY <1>1, <1>5, IndexerConstants, NodeServesABranch DEF Height
  <2>2. PICK lo \in Nat, h \in Nat : lo = StartBlock /\ h = height
    BY <2>1, Zenon
  <2>3. PICK c, d : c = blocks /\ d = node
    BY Zenon
  <2>4. \A k \in lo..h : c[k] = d[k]
    <3>1. /\ Linked(c) /\ Linked(d) /\ lo..h \subseteq DOMAIN c /\ lo..h \subseteq DOMAIN d
          /\ c[h] = d[h]
      BY <1>4, <1>5, <1>7, <2>1, <2>2, <2>3, Zenon
    <3>. QED  BY <3>1, SameBelow
  <2>. QED  BY <2>2, <2>3, <2>4, Zenon
<1>9. \A k \in DOMAIN blocks : k \in StartBlock..height \/ (height < k /\ k < nextBlock)
  BY <1>1, <1>2, <1>3, IndexerConstants DEF Height
<1>10. \A k \in StartBlock..height : k <= height /\ ~(height < k)
  BY <1>1, IndexerConstants DEF Height
<1>11. \A k \in DOMAIN blocks : height < k => ~(k <= height)
  BY <1>1, <1>2, IndexerConstants DEF Height
<1>. QED  BY <1>1, <1>4, <1>7, <1>8, <1>9, <1>10, <1>11, Zenon DEF AgreeAt

(* As long as every COMMIT is answered: if the node serves one branch      *)
(* throughout a step, the blocks its rollback keeps are precisely the      *)
(* stored ones on that branch, so the ancestor find_common_ancestor        *)
(* returns is the highest one.                                             *)
THEOREM RollbacksAreExact ==
  ASSUME "ack" \notin FaultKinds
  PROVE  Spec => RollbackIsExact
<1>. DEFINE Shared == {h \in DOMAIN blocks \cap DOMAIN node : AgreeAt(h)}
            Exact == DOMAIN blocks' = Shared
<1>1. Init => WalkInv
  BY Zenon DEF Init, WalkInv
<1>2. ExactInv /\ WalkInv /\ [Next]_vars => WalkInv'
  BY WalkStep DEF ExactInv, WholeInv, DurableInv
<1>3. ExactInv /\ WalkInv /\ [Next]_vars => [reorgLog' # reorgLog /\ ~moved => Exact]_vars
  <2>. SUFFICES ASSUME ExactInv, WalkInv, [Next]_vars, reorgLog' # reorgLog, ~moved
                PROVE  Exact
    OBVIOUS
  <2>1. pc = "rollback" /\ CommitRollback(height, nextBlock - 1)
    BY StepKinds, Zenon DEF dbVars, CommitBlock
  <2>. QED  BY <2>1, RollbackKeepsShared, Zenon DEF ExactInv
<1>. QED  BY <1>1, <1>2, <1>3, ExactAlways, PTL DEF Spec, RollbackIsExact
=============================================================================
