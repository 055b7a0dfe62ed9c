------------------------------ MODULE Indexer -------------------------------
(***************************************************************************)
(* The indexer process: Poller::run, step and handle_reorg                 *)
(* (crates/indexer/src/poller.rs) with find_common_ancestor and            *)
(* rollback_to (reorg.rs), the node it polls and the Postgres tables it    *)
(* alone writes.                                                           *)
(*                                                                         *)
(* One poll step is split where the code awaits something another party    *)
(* can change or that can fail: each RPC, the read of the stored parent,   *)
(* each transaction, and what follows a commit.  A transaction is one      *)
(* action, because nobody sees it before its commit.  The walk reads the   *)
(* node and the stored hash in one action: only this process writes the    *)
(* table, so the two reads cannot be told apart.                           *)
(***************************************************************************)
EXTENDS Tables, Sequences, FiniteSets

CONSTANTS
  StartBlock,   \* config.indexer_start_block
  Unparseable,  \* the blocks parse_block rejects
  MaxMoves,     \* bound: how often the node changes what it serves
  MaxFaults,    \* bound: how many faults happen
  FaultKinds    \* which: "rpc", "db", "ack", "crash", "cancel"

VARIABLES
  node,          \* the branch the node serves, height -> block
  moves,         \* how often it changed
  moved,         \* history: it changed since the running step's first fetch
  blocks, transactions, cells,   \* the tables, see Tables
  checkpoint,    \* the row of indexer_state, or NULL
  reorgLog,      \* the rows of reorg_log, oldest first
  pc,            \* where the process is
  nextBlock,     \* run's next_block
  fetched,       \* step's block
  suspectHash,   \* handle_reorg's indexed_hash_at_suspect
  height,        \* find_common_ancestor's height, then ancestor.block_number
  nodeHash,      \* ancestor.node_hash
  cancelled,     \* the cancellation token
  faults         \* how many faults happened

chainVars == <<node, moves, moved>>
dbVars    == <<blocks, transactions, cells, checkpoint, reorgLog>>
stepVars  == <<fetched, suspectHash, height, nodeHash>>
vars      == <<chainVars, dbVars, stepVars, pc, nextBlock, cancelled, faults>>

(* A row of indexer_state.                                                 *)
CheckpointRow == [last_indexed_block : Height, last_indexed_hash : Block]

ASSUME IndexerConstants ==
  /\ StartBlock \in Height
  /\ Unparseable \subseteq Block
  /\ MaxMoves \in Nat
  /\ MaxFaults \in Nat
  /\ FaultKinds \subseteq {"rpc", "db", "ack", "crash", "cancel"}
  /\ NULL \notin CheckpointRow

-----------------------------------------------------------------------------

Init ==
  /\ node \in Chains /\ moves = 0 /\ moved = FALSE
  /\ blocks = NoRows /\ transactions = NoRows /\ cells = NoRows
  /\ checkpoint = NULL /\ reorgLog = <<>>
  /\ pc = "boot" /\ nextBlock = NULL
  /\ fetched = NULL /\ suspectHash = NULL /\ height = NULL /\ nodeHash = NULL
  /\ cancelled = FALSE /\ faults = 0

(* The node's chain grows, shrinks (a node that resyncs) or switches to    *)
(* another branch.                                                         *)
NodeMove ==
  /\ moves < MaxMoves
  /\ node' \in Chains \ {node}
  /\ moves' = moves + 1
  /\ moved' = TRUE
  /\ UNCHANGED <<dbVars, stepVars, pc, nextBlock, cancelled, faults>>

Fault(kind) ==
  /\ kind \in FaultKinds
  /\ faults < MaxFaults
  /\ faults' = faults + 1

ResetStep ==
  fetched' = NULL /\ suspectHash' = NULL /\ height' = NULL /\ nodeHash' = NULL

(* The step is over and the loop goes on with block n: after an outcome    *)
(* that advances, or with the same block after an Err, an InconsistentNode *)
(* or a backoff.                                                           *)
Loop(n) == pc' = "loop" /\ nextBlock' = n /\ ResetStep

-----------------------------------------------------------------------------
(* Poller::run                                                             *)

(* next_block, from the checkpoint the process reads when it starts.       *)
ResumeBlock ==
  IF checkpoint = NULL THEN StartBlock ELSE checkpoint.last_indexed_block + 1

Boot ==
  /\ pc = "boot"
  /\ Loop(ResumeBlock)
  /\ UNCHANGED <<chainVars, dbVars, cancelled, faults>>

Halt == pc' = "down" /\ nextBlock' = NULL /\ ResetStep

(* The checkpoint read fails: run returns the error and the process exits. *)
BootFails ==
  /\ pc = "boot"
  /\ Fault("db")
  /\ Halt
  /\ UNCHANGED <<chainVars, dbVars, cancelled>>

(* Mutant of Stop: the loop is left, but run starts over.                  *)
StopStartsOver ==
  /\ pc = "loop" /\ cancelled
  /\ pc' = "boot" /\ nextBlock' = NULL /\ ResetStep
  /\ UNCHANGED <<chainVars, dbVars, cancelled, faults>>

(* `while !cancel.is_cancelled()` is the only place a shutdown is seen.    *)
Stop ==
  /\ pc = "loop" /\ cancelled
  /\ Halt
  /\ UNCHANGED <<chainVars, dbVars, cancelled, faults>>

Cancel ==
  /\ pc # "down" /\ ~cancelled
  /\ Fault("cancel")
  /\ cancelled' = TRUE
  /\ UNCHANGED <<chainVars, dbVars, stepVars, pc, nextBlock>>

(* The process dies anywhere; an open transaction is rolled back.          *)
Crash ==
  /\ pc # "down"
  /\ Fault("crash")
  /\ Halt
  /\ UNCHANGED <<chainVars, dbVars, cancelled>>

Restart ==
  /\ pc = "down"
  /\ pc' = "boot" /\ cancelled' = FALSE
  /\ UNCHANGED <<chainVars, dbVars, stepVars, nextBlock, faults>>

-----------------------------------------------------------------------------
(* Poller::step                                                            *)

WaitForTip ==
  /\ pc = "loop" /\ ~cancelled
  /\ nextBlock \notin DOMAIN node
  /\ UNCHANGED vars

FetchBlock ==
  /\ pc = "loop" /\ ~cancelled
  /\ nextBlock \in DOMAIN node
  /\ fetched' = node[nextBlock]
  /\ moved' = FALSE
  /\ pc' = "check"
  /\ UNCHANGED <<node, moves, dbVars, suspectHash, height, nodeHash,
                 nextBlock, cancelled, faults>>

(* Mutant of ParentMismatch: no reorg detection.                           *)
NoReorgDetection == FALSE

(* The fetched block does not sit on the block stored below it.            *)
ParentMismatch ==
  /\ nextBlock > 0
  /\ (nextBlock - 1) \in DOMAIN blocks
  /\ ParentHash[fetched] # blocks[nextBlock - 1]

DetectReorg ==
  /\ pc = "check" /\ ParentMismatch
  /\ suspectHash' = blocks[nextBlock - 1]
  /\ height' = nextBlock - 1
  /\ pc' = "walk"
  /\ UNCHANGED <<chainVars, dbVars, fetched, nodeHash, nextBlock, cancelled, faults>>

ParseBlock ==
  /\ pc = "check" /\ ~ParentMismatch /\ fetched \notin Unparseable
  /\ pc' = "insert"
  /\ UNCHANGED <<chainVars, dbVars, stepVars, nextBlock, cancelled, faults>>

ParseFails ==
  /\ pc = "check" /\ ~ParentMismatch /\ fetched \in Unparseable
  /\ Loop(nextBlock)
  /\ UNCHANGED <<chainVars, dbVars, cancelled, faults>>

(* Mutant of CommitBlock: the checkpoint is not part of the transaction.   *)
CommitBlockOnly(b) ==
  LET n == Number[b] IN
  /\ ~Conflicts(blocks, transactions, cells, n, b)
  /\ blocks' = InsertBlock(blocks, n, b)
  /\ transactions' = InsertTransactions(transactions, n, b)
  /\ cells' = MarkConsumed(InsertCells(cells, n, b), n, b)
  /\ UNCHANGED <<checkpoint, reorgLog>>

(* The transaction of one block: block, transactions, cells, spent inputs  *)
(* and checkpoint, under the number in the block's header.                 *)
CommitBlock(b) ==
  LET n == Number[b] IN
  /\ ~Conflicts(blocks, transactions, cells, n, b)
  /\ blocks' = InsertBlock(blocks, n, b)
  /\ transactions' = InsertTransactions(transactions, n, b)
  /\ cells' = MarkConsumed(InsertCells(cells, n, b), n, b)
  /\ checkpoint' = [last_indexed_block |-> n, last_indexed_hash |-> b]
  /\ UNCHANGED reorgLog

IndexBlock ==
  /\ pc = "insert"
  /\ CommitBlock(fetched)
  /\ pc' = "announce"
  /\ UNCHANGED <<chainVars, stepVars, nextBlock, cancelled, faults>>

(* A duplicate key: the transaction is dropped and the step is an Err.     *)
InsertConflict ==
  /\ pc = "insert"
  /\ Conflicts(blocks, transactions, cells, Number[fetched], fetched)
  /\ Loop(nextBlock)
  /\ UNCHANGED <<chainVars, dbVars, cancelled, faults>>

(* The commit takes effect, but the connection fails before its reply:     *)
(* commit() is an Err, and the loop retries the block it has stored.       *)
IndexBlockUnacknowledged ==
  /\ pc = "insert"
  /\ CommitBlock(fetched)
  /\ Fault("ack")
  /\ Loop(nextBlock)
  /\ UNCHANGED <<chainVars, cancelled>>

(* publish_block_and_cells and the metrics; neither can fail the step.     *)
AnnounceBlock ==
  /\ pc = "announce"
  /\ Loop(nextBlock + 1)
  /\ UNCHANGED <<chainVars, dbVars, cancelled, faults>>

-----------------------------------------------------------------------------
(* Poller::handle_reorg                                                    *)

(* The node's block at height is the one stored there.                     *)
AgreeAt(h) == h \in DOMAIN blocks /\ blocks[h] = node[h]

(* Mutant of WalkDown: strides of two heights.                             *)
WalkDownByTwo ==
  /\ pc = "walk"
  /\ height \in DOMAIN node /\ ~AgreeAt(height)
  /\ height > 0
  /\ height' = IF height > 1 THEN height - 2 ELSE 0
  /\ UNCHANGED <<chainVars, dbVars, fetched, suspectHash, nodeHash, pc,
                 nextBlock, cancelled, faults>>

(* One iteration of find_common_ancestor that goes on, an iteration lower. *)
WalkDown ==
  /\ pc = "walk"
  /\ height \in DOMAIN node /\ ~AgreeAt(height)
  /\ height > 0
  /\ height' = height - 1
  /\ UNCHANGED <<chainVars, dbVars, fetched, suspectHash, nodeHash, pc,
                 nextBlock, cancelled, faults>>

(* The node no longer has the height, or the walk went past block 0        *)
(* (NoCommonAncestor): an Err.                                             *)
WalkFails ==
  /\ pc = "walk"
  /\ \/ height \notin DOMAIN node
     \/ height = 0 /\ ~AgreeAt(height)
  /\ Loop(nextBlock)
  /\ UNCHANGED <<chainVars, dbVars, cancelled, faults>>

(* Mutant of IsInconsistentNode: off by one, a one-block reorg is ignored. *)
IgnoresDepthOne(suspectHeight, ancestorHeight) ==
  ancestorHeight + 1 >= suspectHeight

(* is_inconsistent_node(suspect_height, ancestor_height)                   *)
IsInconsistentNode(suspectHeight, ancestorHeight) ==
  ancestorHeight >= suspectHeight

FindAncestor ==
  /\ pc = "walk"
  /\ height \in DOMAIN node /\ AgreeAt(height)
  /\ IF IsInconsistentNode(nextBlock - 1, height)
     THEN Loop(nextBlock)
     ELSE /\ nodeHash' = node[height]
          /\ pc' = "rollback"
          /\ UNCHANGED <<fetched, suspectHash, height, nextBlock>>
  /\ UNCHANGED <<chainVars, dbVars, cancelled, faults>>

(* Mutant of CommitRollback: counts the ancestor as rolled back.           *)
RollbackDepthPlusOne(ancestor, previousTip) ==
  /\ reorgLog' = Append(reorgLog,
       [divergence_block_number |-> ancestor + 1,
        divergence_node_hash    |-> nodeHash,
        divergence_indexed_hash |-> suspectHash,
        depth                   |-> previousTip - ancestor + 1,
        status                  |-> "completed"])
  /\ cells' = CascadeCells(RestoreConsumedAbove(cells, ancestor), ancestor)
  /\ transactions' = CascadeTransactions(transactions, ancestor)
  /\ blocks' = DeleteAbove(blocks, ancestor)
  /\ checkpoint' = [last_indexed_block |-> ancestor, last_indexed_hash |-> nodeHash]

(* The transaction of rollback_to, previous_tip being the suspect height.  *)
CommitRollback(ancestor, previousTip) ==
  /\ reorgLog' = Append(reorgLog,
       [divergence_block_number |-> ancestor + 1,
        divergence_node_hash    |-> nodeHash,
        divergence_indexed_hash |-> suspectHash,
        depth                   |-> previousTip - ancestor,
        status                  |-> "completed"])
  /\ cells' = CascadeCells(RestoreConsumedAbove(cells, ancestor), ancestor)
  /\ transactions' = CascadeTransactions(transactions, ancestor)
  /\ blocks' = DeleteAbove(blocks, ancestor)
  /\ checkpoint' = [last_indexed_block |-> ancestor, last_indexed_hash |-> nodeHash]

Rollback ==
  /\ pc = "rollback"
  /\ CommitRollback(height, nextBlock - 1)
  /\ pc' = "announce_reorg"
  /\ UNCHANGED <<chainVars, stepVars, nextBlock, cancelled, faults>>

RollbackUnacknowledged ==
  /\ pc = "rollback"
  /\ CommitRollback(height, nextBlock - 1)
  /\ Fault("ack")
  /\ Loop(nextBlock)
  /\ UNCHANGED <<chainVars, cancelled>>

(* Mutant of AnnounceReorg: resumes at the polled height.                  *)
ResumeAtPollHeight ==
  /\ pc = "announce_reorg"
  /\ Loop(nextBlock)
  /\ UNCHANGED <<chainVars, dbVars, cancelled, faults>>

(* The metrics and publish_reorg, then ReorgHandled { new_tip: ancestor }. *)
AnnounceReorg ==
  /\ pc = "announce_reorg"
  /\ Loop(height + 1)
  /\ UNCHANGED <<chainVars, dbVars, cancelled, faults>>

(* An RPC or a statement fails, and with it the step.                      *)
StepFails ==
  /\ \/ pc = "loop" /\ ~cancelled /\ Fault("rpc")
     \/ pc = "walk" /\ Fault("rpc")
     \/ pc \in {"check", "insert", "walk", "rollback"} /\ Fault("db")
  /\ Loop(nextBlock)
  /\ UNCHANGED <<chainVars, dbVars, cancelled>>

-----------------------------------------------------------------------------

Poll ==
  \/ Boot \/ Stop \/ WaitForTip \/ FetchBlock
  \/ DetectReorg \/ ParseBlock \/ ParseFails
  \/ IndexBlock \/ InsertConflict \/ AnnounceBlock
  \/ WalkDown \/ WalkFails \/ FindAncestor \/ Rollback \/ AnnounceReorg

Faulty ==
  \/ BootFails \/ Cancel \/ Crash \/ StepFails
  \/ IndexBlockUnacknowledged \/ RollbackUnacknowledged

Next == NodeMove \/ Poll \/ Restart \/ Faulty

Spec == Init /\ [][Next]_vars

(* The process runs (tokio polls its only task), and is restarted.         *)
FairSpec == Spec /\ WF_vars(Poll) /\ WF_vars(Restart)

-----------------------------------------------------------------------------
(* What the indexer promises.                                              *)

LogRow == [divergence_block_number : Nat, divergence_node_hash : Block,
           divergence_indexed_hash : Block, depth : Nat, status : {"completed"}]

IsTable(f, Key, Row) == f \in [DOMAIN f -> Row] /\ DOMAIN f \subseteq Key

TablesTypeOK ==
  /\ IsTable(blocks, Height, Block)
  /\ IsTable(transactions, Tx, Height)
  /\ IsTable(cells, OutPoint, CellRow)
  /\ checkpoint \in CheckpointRow \cup {NULL}
  /\ reorgLog \in Seq(LogRow)

ControlTypeOK ==
  /\ node \in Chains /\ moves \in 0..MaxMoves /\ moved \in BOOLEAN
  /\ pc \in {"down", "boot", "loop", "check", "insert", "announce",
             "walk", "rollback", "announce_reorg"}
  /\ IF pc \in {"down", "boot"} THEN nextBlock = NULL
                                ELSE nextBlock \in 0..(MaxHeight + 1)
  /\ IF pc \in {"down", "boot", "loop"} THEN fetched = NULL
                                        ELSE fetched \in Block /\ Number[fetched] = nextBlock
  /\ IF pc \in {"walk", "rollback", "announce_reorg"}
     THEN suspectHash \in Block /\ height \in 0..(nextBlock - 1)
     ELSE suspectHash = NULL /\ height = NULL
  /\ IF pc \in {"rollback", "announce_reorg"} THEN nodeHash \in Block
                                              ELSE nodeHash = NULL
  /\ cancelled \in BOOLEAN /\ faults \in 0..MaxFaults

(* The type invariant.  It also says which locals of step and handle_reorg *)
(* exist at which point: next_block while the loop runs, the fetched block *)
(* until the step is over, the walk's height below the polled height, and  *)
(* the ancestor's hash once it is found.                                   *)
TypeOK == TablesTypeOK /\ ControlTypeOK

(* The checkpoint row is written exactly with the data: it names the       *)
(* highest stored block and its hash, and is absent only from an empty     *)
(* database, whatever fails in between and wherever the process dies       *)
(* (poller.rs step, reorg.rs rollback_to).                                 *)
CheckpointMatches ==
  /\ checkpoint = NULL <=> DOMAIN blocks = {}
  /\ checkpoint # NULL =>
       /\ checkpoint.last_indexed_block \in DOMAIN blocks
       /\ blocks[checkpoint.last_indexed_block] = checkpoint.last_indexed_hash
       /\ \A k \in DOMAIN blocks : k <= checkpoint.last_indexed_block

(* No reader sees part of a block: the transactions and cells in the       *)
(* tables are those of the stored blocks, each under its block's number,   *)
(* before and after every commit, cascade and failed insert.               *)
NoPartialBlock ==
  /\ \A t \in Tx : t \in DOMAIN transactions <=> \E k \in DOMAIN blocks : t \in Txs[blocks[k]]
  /\ \A o \in OutPoint : o \in DOMAIN cells <=> \E k \in DOMAIN blocks : o \in BlockOutputs(blocks[k])
  /\ \A k \in DOMAIN blocks :
       /\ \A t \in Txs[blocks[k]] : transactions[t] = k
       /\ \A o \in BlockOutputs(blocks[k]) : cells[o].block_number = k

(* The stored blocks are a chain: a stored block is the child of the block *)
(* stored one height below, across reorgs, restarts and a node that        *)
(* changes its branch in the middle of a step.                             *)
StoredChainLinked == Linked(blocks)

(* The indexer never skips a block: what it stores runs from the start     *)
(* block to the checkpoint without a hole.  (A hole is never filled: the   *)
(* loop only goes up from the checkpoint.)                                 *)
NoGaps ==
  checkpoint # NULL => DOMAIN blocks = StartBlock..checkpoint.last_indexed_block

(* Heights of the stored blocks that spend o.                              *)
SpentAt(o) == {k \in DOMAIN blocks : o \in BlockInputs(blocks[k])}

(* The consumed_* columns of every cell are those a replay of the stored   *)
(* chain from its first block gives: live iff no stored block spends it,   *)
(* else spent by that block's transaction.  Rollbacks leave neither a cell *)
(* spent by an orphaned block nor a live one that a kept block spends.     *)
CellsReplay ==
  \A o \in DOMAIN cells :
    IF SpentAt(o) = {}
    THEN cells[o].consumed_by = NULL /\ cells[o].consumed_at = NULL
    ELSE \E k \in SpentAt(o) : /\ cells[o].consumed_at = k
                               /\ cells[o].consumed_by = Spender(blocks[k], o)

(* The INSERTs of a step never meet a row of their own: a transaction that *)
(* two branches share was removed with the block of the other branch       *)
(* before the new block is inserted.                                       *)
InsertNeverConflicts ==
  pc = "insert" => ~Conflicts(blocks, transactions, cells, Number[fetched], fetched)

(* The depth a rollback logs (and gates the oversized alert with) is the   *)
(* number of block rows it deletes, and it deletes at least one.           *)
RollbackDepthExact ==
  [][reorgLog' # reorgLog =>
       LET deleted == DOMAIN blocks \ DOMAIN blocks'
       IN  /\ deleted # {}
           /\ reorgLog'[Len(reorgLog')].depth = Cardinality(deleted)]_vars

(* A rollback is exact: if the node served one branch throughout the step, *)
(* the blocks kept are precisely the stored ones on that branch.           *)
RollbackIsExact ==
  [][reorgLog' # reorgLog /\ ~moved =>
       DOMAIN blocks' = {h \in DOMAIN blocks \cap DOMAIN node : AgreeAt(h)}]_vars

InSync == blocks = Restrict(node, StartBlock..(Cardinality(DOMAIN node) - 1))

(* The indexer catches up: once the node has settled on a branch that has  *)
(* the block the loop polls next, the stored chain becomes that branch,    *)
(* whichever reorgs, failed steps, crashes and shutdowns came before or    *)
(* come on the way.  (An orphaned tip of the node's own height, or a tip   *)
(* fetched just before the node settled, is found only when it grows.)     *)
CatchesUp ==
  (moves = MaxMoves /\ pc = "loop" /\ nextBlock \in DOMAIN node) ~> InSync

(* A shutdown request ends the process, whatever step it arrives in.       *)
ShutdownCompletes == cancelled ~> pc = "down"

(* The out points readers see as live.                                     *)
LiveRows == {o \in DOMAIN cells : cells[o].consumed_by = NULL}

Ledger == INSTANCE ChainLedger WITH chain <- blocks, live <- LiveRows

(* Readers see a ledger: each commit of the indexer extends the chain by   *)
(* one child or cuts its top off, live cells included, and nothing else    *)
(* the process does is visible to them.                                    *)
ImplementsLedger == Ledger!Spec

-----------------------------------------------------------------------------
(* Inductive strengthenings, for the proofs.                               *)

(* What a running step relies on and nobody else can change: it polls no   *)
(* height below the checkpoint, the block to insert was compared with the  *)
(* block below it, the ancestor is stored with the hash the node gave.     *)
StepInv ==
  /\ pc \notin {"down", "boot"} /\ checkpoint # NULL =>
       nextBlock >= checkpoint.last_indexed_block
  /\ pc = "insert" /\ (nextBlock - 1) \in DOMAIN blocks =>
       ParentHash[fetched] = blocks[nextBlock - 1]
  /\ pc = "rollback" => height \in DOMAIN blocks /\ blocks[height] = nodeHash
  /\ pc = "announce_reorg" =>
       checkpoint # NULL /\ checkpoint.last_indexed_block = height

DurableInv ==
  TypeOK /\ StepInv /\ CheckpointMatches /\ NoPartialBlock /\ StoredChainLinked

(* While no reply to a COMMIT is lost, next_block is what a restart would  *)
(* resume at, and the walk ends below the suspect height.                  *)
ResumeInv ==
  /\ pc \in {"loop", "check", "insert", "walk", "rollback"} => nextBlock = ResumeBlock
  /\ pc = "announce" => nextBlock + 1 = ResumeBlock
  /\ pc = "rollback" => height < nextBlock - 1

WholeInv == DurableInv /\ ResumeInv /\ NoGaps

ExactInv == WholeInv /\ CellsReplay

(* While the node keeps its branch, the walk has passed no height at which *)
(* the node and the table agree, and it stops at one.                      *)
WalkInv ==
  ~moved =>
    /\ pc \in {"walk", "rollback"} =>
         \A h \in DOMAIN blocks \cap DOMAIN node :
           height < h /\ h < nextBlock => ~AgreeAt(h)
    /\ pc = "rollback" => height \in DOMAIN node /\ AgreeAt(height)
=============================================================================
