----------------------------- MODULE MCCellPages -----------------------------
(***************************************************************************)
(* Two branches; t1, with two outputs, is at height 1 in branch a and at   *)
(* height 2 in branch b; a2 spends one of its outputs.                     *)
(***************************************************************************)
EXTENDS CellPages

CONSTANTS g, a1, a2, b1, b2, t0, t1, t2, t3, o0, o1, o2, o3, o4, l1, l2, ty

MCBlock == {g, a1, a2, b1, b2}
MCTx == {t0, t1, t2, t3}
MCOutPoint == {o0, o1, o2, o3, o4}
MCNumber == [b \in MCBlock |-> CASE b = g -> 0 [] b \in {a1, b1} -> 1 [] OTHER -> 2]
MCParentHash ==
  [b \in MCBlock |-> CASE b = g -> NULL [] b \in {a1, b1} -> g [] b = a2 -> a1 [] OTHER -> b1]
MCTxs ==
  [b \in MCBlock |-> CASE b = g -> {t0} [] b = a1 -> {t1} [] b = a2 -> {t2}
                       [] b = b1 -> {t3} [] OTHER -> {t1}]
MCOutputs ==
  [t \in MCTx |-> CASE t = t0 -> {o0} [] t = t1 -> {o1, o2} [] t = t2 -> {o3} [] OTHER -> {o4}]
MCInputs == [t \in MCTx |-> IF t = t2 THEN {o1} ELSE {}]
MCChains == {[h \in 0..n |-> branch[h + 1]] : n \in 0..2, branch \in {<<g, a1, a2>>, <<g, b1, b2>>}}
MCLockHash == [o \in MCOutPoint |-> IF o = o3 THEN l2 ELSE l1]
MCTypeHash == [o \in MCOutPoint |-> IF o \in {o2, o3} THEN ty ELSE NULL]
MCRank == [o \in MCOutPoint |-> CASE o = o0 -> 4 [] o = o1 -> 1 [] o = o2 -> 2 [] o = o3 -> 3 [] OTHER -> 5]
=============================================================================
