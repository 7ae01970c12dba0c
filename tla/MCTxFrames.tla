----------------------------- MODULE MCTxFrames -----------------------------
(* TxFrames on small instances: the constants are given in the .cfg files. *)
EXTENDS TxFrames, TLC

Symmetry == Permutations(Task)
AllPanics == {"error", "other"}
ErrorPanics == {"error"}
=============================================================================
