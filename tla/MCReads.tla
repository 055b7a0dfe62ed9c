------------------------------- MODULE MCReads -------------------------------
(***************************************************************************)
(* Reads for TLC.  The proofs are over two branches of a genesis, on which *)
(* the transaction t1 is in a1 (height 1) or in b2 (height 2), and t2 only *)
(* in b1.                                                                  *)
(***************************************************************************)
EXTENDS Reads, Sequences

CONSTANTS g, a1, a2, b1, b2, t1, t2

Blocks == {g, a1, a2, b1, b2}
NumberOf == [b \in Blocks |-> CASE b = g -> 0 [] b \in {a1, b1} -> 1
                                [] OTHER -> 2]
ParentOf == [b \in Blocks |-> CASE b = g -> NULL [] b \in {a1, b1} -> g
                                [] b = a2 -> a1 [] OTHER -> b1]
TxsOf == [b \in Blocks |-> CASE b \in {a1, b2} -> {t1} [] b = b1 -> {t2}
                             [] OTHER -> {}]
Branches == {[h \in 0..n |-> branch[h + 1]] :
               n \in 1..2, branch \in {<<g, a1, a2>>, <<g, b1, b2>>}}
=============================================================================
