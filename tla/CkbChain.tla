------------------------------ MODULE CkbChain ------------------------------
(***************************************************************************)
(* The CKB chain as the indexer sees it: a tree of blocks, of which the    *)
(* node serves one branch at a time through get_block_by_number.  The node *)
(* is not part of the repository; it is modelled from how                  *)
(* crates/indexer reads a BlockView: a block is its hash, and has a        *)
(* number, a parent_hash and transactions, which create and spend cells.   *)
(***************************************************************************)
EXTENDS Integers

CONSTANTS
  Block,       \* the block hashes of every branch
  Tx,          \* transaction hashes
  OutPoint,    \* (tx_hash, output_index) pairs
  MaxHeight,   \* bound: the greatest block number of any branch
  Number,      \* Number[b]      header.inner.number
  ParentHash,  \* ParentHash[b]  header.inner.parent_hash
  Txs,         \* Txs[b]         the transactions of b
  Outputs,     \* Outputs[t]     the out points t creates
  Inputs,      \* Inputs[t]      the out points t spends (cellbase: none)
  Chains,      \* the chains a node can serve, functions from heights to blocks
  NULL         \* SQL NULL and Rust None

Height == 0..MaxHeight

BlockOutputs(b) == UNION {Outputs[t] : t \in Txs[b]}
BlockInputs(b)  == UNION {Inputs[t] : t \in Txs[b]}

(* c, a function from heights to blocks, has every block at its number, on *)
(* top of its parent wherever c also has a block at the height below.      *)
Linked(c) ==
  \A k \in DOMAIN c :
    /\ Number[c[k]] = k
    /\ (k - 1) \in DOMAIN c => ParentHash[c[k]] = c[k - 1]

(* The consensus rules the indexer relies on, for any contiguous piece c   *)
(* of a branch: a transaction is committed once, a cell is created once,   *)
(* spent at most once, and not before it was created.                      *)
ConsensusValid(c) ==
  \A i, j \in DOMAIN c :
    /\ i # j => /\ Txs[c[i]] \cap Txs[c[j]] = {}
                /\ BlockOutputs(c[i]) \cap BlockOutputs(c[j]) = {}
                /\ BlockInputs(c[i]) \cap BlockInputs(c[j]) = {}
    /\ j < i => BlockOutputs(c[i]) \cap BlockInputs(c[j]) = {}

-----------------------------------------------------------------------------

ASSUME ChainTypes ==
  /\ MaxHeight \in Nat
  /\ Number \in [Block -> Height]
  /\ ParentHash \in [Block -> Block \cup {NULL}]
  /\ Txs \in [Block -> SUBSET Tx]
  /\ Outputs \in [Tx -> SUBSET OutPoint]
  /\ Inputs \in [Tx -> SUBSET OutPoint]

(* A node serves a branch of the tree from genesis up to some tip.         *)
ASSUME NodeServesABranch ==
  \A c \in Chains : (\E n \in Height : c \in [0..n -> Block]) /\ Linked(c)

ASSUME NullIsNoValue == NULL \notin Block \cup Tx \cup OutPoint \cup Int

ASSUME ConsensusRules ==
  /\ \A lo, hi \in Height : \A c \in [lo..hi -> Block] :
       Linked(c) => ConsensusValid(c)
  /\ \A b \in Block : \A t, u \in Txs[b] :
       t # u => Inputs[t] \cap Inputs[u] = {} /\ Outputs[t] \cap Outputs[u] = {}
=============================================================================
