--------------------------- MODULE MCInputRelay ---------------------------
(* A small instance of InputRelay: every client plays a different value in *)
(* every frame, so each invented input differs from the real one.          *)
EXTENDS InputRelay, TLC

CONSTANTS p1, p2, w1, w2

MCPlayers == {p1, p2}
OneWorker == {w1}
TwoWorkers == {w1, w2}
MCClientInput == [p \in Peers |-> [f \in 0..MaxFrame |-> f + 1]]

Message(first, last, frame) ==
  [first |-> first, last |-> last, clientFrame |-> frame]

\* p1 plays on far ahead of p2, whose inputs come late, out of order or twice.
Ahead == (p1 :> {Message(0, 0, 3)}) @@ (p2 :> {Message(0, 1, 1), Message(1, 2, 2)})

\* The same in one message, which leaves more room for the second worker.
AheadOnce == (p1 :> {Message(0, 0, 3)}) @@ (p2 :> {Message(1, 2, 1)})

Symmetric == Permutations(TwoWorkers)
=============================================================================
