---------------------------- MODULE FrameLedger ----------------------------
(***************************************************************************)
(* What the input relay promises, with no packets, acknowledgements,       *)
(* predictions or threads: for every player a ledger of inputs, one per    *)
(* frame, that is only ever added to.  A reader is handed the frames of a  *)
(* ledger in order and without a gap, as often as the server likes, and no *)
(* two readings of one frame differ.  A frame is let off that promise only *)
(* by being made exempt, and an exemption is never taken back.             *)
(***************************************************************************)
EXTENDS Integers

CONSTANTS Readers, Writers, Frames

VARIABLES
  seen,     \* seen[r][p]: every <<frame, value>> pair of p handed to reader r
  exempt    \* exempt[p]: frames of p whose readings may differ

vars == <<seen, exempt>>

FramesSeen(r, p) == {e[1] : e \in seen[r][p]}

InOrder(r) ==
  \A p \in Writers : \A f \in FramesSeen(r, p) : 1..f \subseteq FramesSeen(r, p)

OneValueEach ==
  \A p \in Writers, q, r \in Readers :
    \A d \in seen[q][p], e \in seen[r][p] :
      d[1] = e[1] /\ d[1] \notin exempt[p] => d[2] = e[2]

Init ==
  /\ seen = [r \in Readers |-> [p \in Writers |-> {}]]
  /\ exempt = [p \in Writers |-> {0}]

\* Reader r is handed more pairs of any of the ledgers.
Deliver(r) ==
  /\ \A q \in Readers \ {r} : seen'[q] = seen[q]
  /\ \A p \in Writers : seen[r][p] \subseteq seen'[r][p]
  /\ InOrder(r)' /\ OneValueEach'
  /\ UNCHANGED exempt

\* Some frames are let off.
Forfeit ==
  /\ \A p \in Writers : exempt[p] \subseteq exempt'[p]
  /\ UNCHANGED seen

Next == Forfeit \/ \E r \in Readers : Deliver(r)

Spec == Init /\ [][Next]_vars
=============================================================================
