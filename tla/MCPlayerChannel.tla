-------------------------- MODULE MCPlayerChannel --------------------------
(* Small instances of PlayerChannel. *)
EXTENDS PlayerChannel, TLC

CONSTANTS w1, w2

OneWorker == {w1}
TwoWorkers == {w1, w2}

Symmetric == Permutations(TwoWorkers)
=============================================================================
