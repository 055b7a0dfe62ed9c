----------------------------- MODULE MCIndexer ------------------------------
(***************************************************************************)
(* Instances of Indexer for TLC, over one tree of nine blocks:             *)
(*                                                                         *)
(*            a1 -- a2 -- a3       t1 (spends o0) and t2 (spends o1) are   *)
(*          /    \                 in branch a at heights 1 and 2, and in  *)
(*   genesis      c2 -- c3         branch b at heights 2 and 3; c2 spends  *)
(*          \                      what a2 spends; a3 creates and spends   *)
(*            b1 -- b2 -- b3       o5 in one block.                        *)
(***************************************************************************)
EXTENDS Indexer

CONSTANTS g, a1, a2, a3, b1, b2, b3, c2, c3,
          t0, t1, t2, t3, t4, t5, t6,
          o0, o1, o2, o3, o4, o5

MCBlock    == {g, a1, a2, a3, b1, b2, b3, c2, c3}
MCTx       == {t0, t1, t2, t3, t4, t5, t6}
MCOutPoint == {o0, o1, o2, o3, o4, o5}

MCNumber ==
  [b \in MCBlock |-> CASE b = g -> 0
                       [] b \in {a1, b1} -> 1
                       [] b \in {a2, b2, c2} -> 2
                       [] OTHER -> 3]

MCParentHash ==
  [b \in MCBlock |-> CASE b = g -> NULL
                       [] b \in {a1, b1} -> g
                       [] b \in {a2, c2} -> a1
                       [] b = a3 -> a2
                       [] b = b2 -> b1
                       [] b = b3 -> b2
                       [] b = c3 -> c2]

MCTxs ==
  [b \in MCBlock |-> CASE b = g  -> {t0}
                       [] b = a1 -> {t1}
                       [] b = a2 -> {t2}
                       [] b = a3 -> {t5, t6}
                       [] b = b1 -> {}
                       [] b = b2 -> {t1}
                       [] b = b3 -> {t2}
                       [] b = c2 -> {t3}
                       [] b = c3 -> {t4}]

MCOutputs ==
  [t \in MCTx |-> CASE t = t0 -> {o0}
                    [] t = t1 -> {o1}
                    [] t = t2 -> {o2}
                    [] t = t3 -> {o3}
                    [] t = t4 -> {o4}
                    [] t = t5 -> {o5}
                    [] t = t6 -> {}]

MCInputs ==
  [t \in MCTx |-> CASE t = t1 -> {o0}
                    [] t \in {t2, t3} -> {o1}
                    [] t = t4 -> {o3}
                    [] t = t6 -> {o5}
                    [] OTHER -> {}]

MCChains ==
  {[h \in 0..n |-> branch[h + 1]] :
     n \in 0..3, branch \in {<<g, a1, a2, a3>>, <<g, a1, c2, c3>>, <<g, b1, b2, b3>>}}
=============================================================================
