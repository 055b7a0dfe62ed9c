---------------------------- MODULE ChainLedger -----------------------------
(***************************************************************************)
(* What the indexer's database promises its readers, without the poller:   *)
(* at every moment one contiguous chain from the start block, which grows  *)
(* by one child block or loses blocks from its top, and the cells that are *)
(* live at its end.  Indexer implements this specification.                *)
(***************************************************************************)
EXTENDS CkbChain

CONSTANT StartBlock   \* the height of the first block of the chain

VARIABLES chain,      \* height -> block
          live        \* the out points created and not spent by the chain

(* Cells of blocks below the chain are unknown to it, spent or not.        *)
LiveCells(c) ==
  {o \in OutPoint : /\ \E k \in DOMAIN c : o \in BlockOutputs(c[k])
                    /\ \A k \in DOMAIN c : o \notin BlockInputs(c[k])}

Init ==
  /\ DOMAIN chain = {}
  /\ live = {}

Extend(b) ==
  LET n == Number[b] IN
  /\ n >= StartBlock
  /\ DOMAIN chain = StartBlock..(n - 1)
  /\ n > StartBlock => ParentHash[b] = chain[n - 1]
  /\ chain' = [k \in StartBlock..n |-> IF k = n THEN b ELSE chain[k]]

(* h becomes the tip; at least one block goes.                             *)
Truncate(h) ==
  /\ h + 1 \in DOMAIN chain
  /\ chain' = [k \in StartBlock..h |-> chain[k]]

Next ==
  /\ \/ \E b \in Block : Extend(b)
     \/ \E h \in DOMAIN chain : Truncate(h)
  /\ live' = LiveCells(chain')

Spec == Init /\ [][Next]_<<chain, live>>
=============================================================================
