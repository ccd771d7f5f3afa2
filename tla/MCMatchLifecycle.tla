-------------------------- MODULE MCMatchLifecycle --------------------------
(* Small instances of MatchLifecycle.                                      *)
EXTENDS MatchLifecycle, TLC

CONSTANTS e1, e2, e3, w1, w2

TwoEndpoints == {e1, e2}
OneWorker == {w1}
TwoWorkers == {w1, w2}

\* Two clients, one endpoint each.
TwoClients == (e1 :> 0) @@ (e2 :> 1)

\* A third endpoint, from which the first client may come back.
ThreeEndpoints == {e1, e2, e3}
Reconnecting == (e1 :> 0) @@ (e2 :> 1) @@ (e3 :> 0)

SymmetricWorkers == Permutations(TwoWorkers)
=============================================================================
