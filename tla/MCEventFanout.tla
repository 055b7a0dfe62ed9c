--------------------------- MODULE MCEventFanout ----------------------------
(* Blocks and cells of a short chain, a subscription and a webhook.         *)
EXTENDS EventFanout

CONSTANTS alice, l1, l2

Block == [channel |-> "cellora:blocks", lock |-> NULL]
Cell(l) == [channel |-> "cellora:cells", lock |-> l]
Reorg == [channel |-> "cellora:reorg", lock |-> NULL]

\* A block's cell of the lock alice asks for, a reorg, a block and its cells.
MCMessage == <<Cell(l1), Reorg, Block, Cell(l1), Cell(l2)>>

MCWants == [s \in Subs |-> [type |-> "cell_created", lock |-> <<"bare", l1>>]]

MCHookEvents == [w \in Hooks |-> {"cell_created"}]
=============================================================================
