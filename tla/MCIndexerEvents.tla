--------------------------- MODULE MCIndexerEvents ---------------------------
(***************************************************************************)
(* Instances of IndexerEvents for TLC, over the tree of MCIndexer.         *)
(***************************************************************************)
EXTENDS MCIndexer, IndexerEvents
=============================================================================
