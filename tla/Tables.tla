------------------------------- MODULE Tables -------------------------------
(***************************************************************************)
(* The statements of crates/db that the indexer runs, as functions from    *)
(* the contents of a table to its contents after the statement.  A table   *)
(* is a function from primary keys to rows:                                *)
(*   blocks        block number -> block hash                              *)
(*   transactions  tx hash      -> block number                            *)
(*   cells         out point    -> block number and the consumed_* columns *)
(***************************************************************************)
EXTENDS CkbChain, Functions

NoRows == [key \in {} |-> NULL]

Cell(n, by, at) == [block_number |-> n, consumed_by |-> by, consumed_at |-> at]

(* An out point's row right after cells::insert_batch: live.               *)
LiveCell(n) == Cell(n, NULL, NULL)

CellRow == [block_number : Height,
            consumed_by  : Tx \cup {NULL},
            consumed_at  : Height \cup {NULL}]

InsertBlock(blocks, n, b) ==
  [k \in DOMAIN blocks \cup {n} |-> IF k = n THEN b ELSE blocks[k]]

InsertTransactions(transactions, n, b) ==
  [t \in DOMAIN transactions \cup Txs[b] |->
     IF t \in Txs[b] THEN n ELSE transactions[t]]

InsertCells(cells, n, b) ==
  [o \in DOMAIN cells \cup BlockOutputs(b) |->
     IF o \in BlockOutputs(b) THEN LiveCell(n) ELSE cells[o]]

(* The transaction of b that spends o.                                     *)
Spender(b, o) == CHOOSE t \in Txs[b] : o \in Inputs[t]

(* Mutant of MarkConsumed: run before the block's own cells are inserted,  *)
(* it misses a cell created and spent in one block.                        *)
MarkConsumedBeforeInsert(cells, n, b) ==
  [o \in DOMAIN cells |->
     IF o \in BlockInputs(b) \ BlockOutputs(b)
     THEN Cell(cells[o].block_number, Spender(b, o), n)
     ELSE cells[o]]

(* An UPDATE of the rows that exist: an input whose cell is not indexed    *)
(* (created below the start block) matches no row and changes nothing.     *)
MarkConsumed(cells, n, b) ==
  [o \in DOMAIN cells |->
     IF o \in BlockInputs(b)
     THEN Cell(cells[o].block_number, Spender(b, o), n)
     ELSE cells[o]]

(* The primary keys and UNIQUE(hash) that make the inserts of b fail.      *)
Conflicts(blocks, transactions, cells, n, b) ==
  \/ n \in DOMAIN blocks
  \/ \E k \in DOMAIN blocks : blocks[k] = b
  \/ Txs[b] \cap DOMAIN transactions # {}
  \/ BlockOutputs(b) \cap DOMAIN cells # {}

(* Mutant of RestoreConsumedAbove: off by one at the first orphaned block. *)
RestoreConsumedTooHigh(cells, ancestor) ==
  [o \in DOMAIN cells |->
     IF cells[o].consumed_at # NULL /\ cells[o].consumed_at > ancestor + 1
     THEN LiveCell(cells[o].block_number)
     ELSE cells[o]]

RestoreConsumedAbove(cells, ancestor) ==
  [o \in DOMAIN cells |->
     IF cells[o].consumed_at # NULL /\ cells[o].consumed_at > ancestor
     THEN LiveCell(cells[o].block_number)
     ELSE cells[o]]

(* DELETE FROM blocks WHERE number > ancestor, and its ON DELETE CASCADE.  *)
DeleteAbove(blocks, ancestor) ==
  Restrict(blocks, {k \in DOMAIN blocks : k <= ancestor})

(* Mutants of the cascades: a foreign key without ON DELETE CASCADE.       *)
KeepTransactions(transactions, ancestor) == transactions
KeepCells(cells, ancestor) == cells

CascadeTransactions(transactions, ancestor) ==
  Restrict(transactions, {t \in DOMAIN transactions : transactions[t] <= ancestor})

CascadeCells(cells, ancestor) ==
  Restrict(cells, {o \in DOMAIN cells : cells[o].block_number <= ancestor})
=============================================================================
