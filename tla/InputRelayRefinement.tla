------------------------ MODULE InputRelayRefinement ------------------------
(***************************************************************************)
(* The input relay implements FrameLedger, for any number of players and   *)
(* workers, any inputs and any values of the limits.                       *)
(***************************************************************************)
EXTENDS InputRelayProofs

FramesPacked(p) == {e[1] : e \in packet[p]}

\* The invariant behind NoGapsServed: what is packed continues what was sent,
\* and the prediction loop leaves no gap behind it.
PackedInOrder ==
  /\ NoGapsServed
  /\ Serving => \A p \in Peers : \A f \in FramesPacked(p) :
                  1..f \subseteq FramesSent(recipient, p) \cup FramesPacked(p)
  /\ tickPc = "predict" =>
       ackCopy[guess.peer] + 1 .. guess.frame - 1 \subseteq FramesPacked(guess.peer)

-----------------------------------------------------------------------------
(* Frames reach every client in order.                                     *)

\* Steps that neither pack nor send preserve it.
LEMMA NothingPacked ==
  ASSUME PackedInOrder, UNCHANGED <<packet, sent, recipient, ackCopy, guess>>,
         Serving' => Serving, tickPc' = "predict" => tickPc = "predict"
  PROVE  PackedInOrder'
BY DEF PackedInOrder, NoGapsServed, FramesPacked, FramesSent

\* Replacing what is packed about p by frames that continue what was sent.
LEMMA PackInOrder ==
  ASSUME TypeOK, PackedInOrder, NEW p \in Peers, NEW new,
         tickPc' = "build", packet' = [packet EXCEPT ![p] = new],
         UNCHANGED <<sent, recipient>>, Serving,
         \A e \in new : 1..e[1] \subseteq
            FramesSent(recipient, p) \cup {d[1] : d \in new}
  PROVE  PackedInOrder'
<1>1. NoGapsServed'
  BY DEF PackedInOrder, NoGapsServed, FramesSent
<1>2. FramesPacked(p)' = {d[1] : d \in new}
  BY DEF TypeOK, FramesPacked
<1>3. \A q \in Peers \ {p} : FramesPacked(q)' = FramesPacked(q)
  BY DEF TypeOK, FramesPacked
<1>4. \A q \in Peers : FramesSent(recipient, q)' = FramesSent(recipient, q)
  BY DEF FramesSent
<1>5. \A f \in FramesPacked(p)' :
        1..f \subseteq FramesSent(recipient, p)' \cup FramesPacked(p)'
  BY <1>2, <1>4
<1>6. \A q \in Peers \ {p} : \A f \in FramesPacked(q)' :
        1..f \subseteq FramesSent(recipient, q)' \cup FramesPacked(q)'
  BY <1>3, <1>4 DEF PackedInOrder
<1>7. QED BY <1>1, <1>5, <1>6 DEF PackedInOrder

\* Each step of the tick that serves a recipient preserves it.
LEMMA ServingPacksInOrder ==
  ASSUME TypeOK, RelayInv, PackedInOrder,
         \/ \E r \in Players : BeginRecipient(r)
         \/ \E p \in Peers : ServeReal(p) \/ ServeRepeat(p) \/ BeginPredict(p)
         \/ PredictFrame \/ EndPredict
         \/ \E ok \in BOOLEAN : Send(ok)
  PROVE  PackedInOrder'
<1>1. ASSUME NEW r \in Players, BeginRecipient(r) PROVE PackedInOrder'
  <2>1. packet = NoPacket /\ packet' = NoPacket /\ sent' = sent /\ tickPc' = "build"
    BY <1>1 DEF BeginRecipient, RelayInv, AcksFollowSends, Serving, ghosts
  <2>2. \A p \in Peers : FramesPacked(p)' = {}
    BY <2>1 DEF FramesPacked, NoPacket
  <2>3. QED BY <2>1, <2>2 DEF PackedInOrder, NoGapsServed, FramesSent
<1>2. ASSUME NEW p \in Peers, ServeReal(p) PROVE PackedInOrder'
  <2> DEFINE new == {<<f, inputs[p][f]>> : f \in Run(p, NextFrame(p))}
  <2>1. /\ Serving /\ tickPc' = "build" /\ packet' = [packet EXCEPT ![p] = new]
        /\ UNCHANGED <<sent, recipient>>
    BY <1>2 DEF ServeReal, Serving, ghosts
  <2>2. 1..ackCopy[p] \subseteq FramesSent(recipient, p)
    BY <2>1 DEF RelayInv, AcksFollowSends
  <2>3. ackCopy[p] \in Nat /\ ackCopy[p] \in Frames
    BY Constants DEF TypeOK, Frames
  <2>4. {d[1] : d \in new} = Run(p, NextFrame(p))
    <3>1. ASSUME NEW f \in Run(p, NextFrame(p)) PROVE \E d \in new : d[1] = f
      <4>1. <<f, inputs[p][f]>> \in new
        OBVIOUS
      <4>2. QED BY <4>1, Zenon
    <3>2. \A d \in new : d[1] \in Run(p, NextFrame(p))
      OBVIOUS
    <3>3. QED BY <3>1, <3>2
  <2>5. ASSUME NEW g \in Run(p, NextFrame(p)), NEW h \in 1..g, h > ackCopy[p]
        PROVE  h \in Run(p, NextFrame(p))
    <3>1. /\ g \in Frames /\ g < NextFrame(p) + MaxPerPacket
          /\ \A k \in NextFrame(p)..g : k \in Stored(p)
      BY DEF Run
    <3>2. g \in Nat /\ h \in Frames /\ NextFrame(p) <= h /\ h <= g
      BY <2>3, <2>5, <3>1, Constants DEF Frames, NextFrame
    <3>3. h < NextFrame(p) + MaxPerPacket
      BY <2>3, <3>1, <3>2, LimitsAssumption DEF NextFrame, Frames
    <3>4. \A k \in NextFrame(p)..h : k \in Stored(p)
      BY <2>3, <3>1, <3>2, Constants DEF NextFrame, Frames
    <3>5. QED BY <3>2, <3>3, <3>4 DEF Run
  <2>6. \A g \in Run(p, NextFrame(p)) :
          1..g \subseteq FramesSent(recipient, p) \cup Run(p, NextFrame(p))
    <3> SUFFICES ASSUME NEW g \in Run(p, NextFrame(p)), NEW h \in 1..g
                 PROVE  h \in FramesSent(recipient, p) \cup Run(p, NextFrame(p))
      OBVIOUS
    <3>1. CASE h > ackCopy[p]
      BY <2>5, <3>1
    <3>2. CASE h <= ackCopy[p]
      <4>1. h \in 1..ackCopy[p]
        BY <2>3, <3>2
      <4>2. QED BY <2>2, <4>1
    <3>3. QED BY <2>3, <3>1, <3>2
  <2>7. \A e \in new : 1..e[1] \subseteq
          FramesSent(recipient, p) \cup {d[1] : d \in new}
    BY <2>4, <2>6
  <2> HIDE DEF new
  <2>8. QED BY <2>1, <2>7, PackInOrder
<1>3. ASSUME NEW p \in Peers, ServeRepeat(p) PROVE PackedInOrder'
  <2> DEFINE new == {<<ackCopy[p], Held(p, ackCopy[p])>>}
  <2>1. /\ Serving /\ tickPc' = "build" /\ packet' = [packet EXCEPT ![p] = new]
        /\ UNCHANGED <<sent, recipient>>
    BY <1>3 DEF ServeRepeat, Serving, ghosts
  <2>2. 1..ackCopy[p] \subseteq FramesSent(recipient, p)
    BY <2>1 DEF RelayInv, AcksFollowSends
  <2>3. \A e \in new : 1..e[1] \subseteq
          FramesSent(recipient, p) \cup {d[1] : d \in new}
    BY <2>2
  <2> HIDE DEF new
  <2>4. QED BY <2>1, <2>3, PackInOrder
<1>4. ASSUME NEW p \in Peers, BeginPredict(p) PROVE PackedInOrder'
  <2>1. /\ Serving /\ tickPc' = "predict"
        /\ guess'.peer = p /\ guess'.frame = ackCopy[p] + 1
        /\ UNCHANGED <<packet, sent, recipient, ackCopy>>
    BY <1>4 DEF BeginPredict, NextFrame, Serving, ghosts
  <2>2. ackCopy[p] \in Nat
    BY Constants DEF TypeOK, Frames
  <2>3. ackCopy[p] + 1 .. (ackCopy[p] + 1) - 1 = {}
    BY <2>2
  <2>4. guess.peer' = p /\ guess.frame' = ackCopy[p] + 1
    BY <2>1
  <2>5. QED
    BY <2>1, <2>3, <2>4 DEF PackedInOrder, NoGapsServed, FramesPacked, FramesSent
<1>5. CASE PredictFrame
  <2> PICK p, f, v : p = guess.peer /\ f = guess.frame /\ v = guess.value
    OBVIOUS
  <2>1. /\ p \in Peers /\ ackCopy[p] \in Nat /\ f \in Nat /\ f > ackCopy[p]
    <3>1. p \in Peers /\ f > ackCopy[p]
      BY <1>5 DEF PredictFrame, RelayInv, PredictionIsNew
    <3>2. QED BY <3>1, Constants DEF TypeOK, Frames, ClientFrames
  <2>2. /\ Serving /\ Serving' /\ tickPc = "predict" /\ tickPc' = "predict"
        /\ packet' = [packet EXCEPT ![p] = @ \cup {<<f, v>>}]
        /\ guess' = [guess EXCEPT !.frame = f + 1]
        /\ UNCHANGED <<sent, recipient, ackCopy>>
    BY <1>5 DEF PredictFrame, Serving, ghosts
  <2>3. guess'.peer = p /\ guess'.frame = f + 1
    BY <2>2 DEF TypeOK
  <2>4. FramesPacked(p)' = FramesPacked(p) \cup {f}
    <3>1. packet'[p] = packet[p] \cup {<<f, v>>}
      BY <2>1, <2>2 DEF TypeOK
    <3>2. \A e \in packet'[p] : e[1] \in FramesPacked(p) \cup {f}
      BY <3>1 DEF FramesPacked
    <3>3. <<f, v>> \in packet'[p] /\ packet[p] \subseteq packet'[p]
      BY <3>1
    <3>4. FramesPacked(p) \subseteq FramesPacked(p)' /\ f \in FramesPacked(p)'
      <4>1. <<f, v>>[1] = f
        OBVIOUS
      <4>2. QED BY <3>3, <4>1 DEF FramesPacked
    <3>5. QED BY <3>2, <3>4 DEF FramesPacked
  <2>5. \A q \in Peers : FramesSent(recipient, q)' = FramesSent(recipient, q)
    BY <2>2 DEF FramesSent
  <2>6. ackCopy[p] + 1 .. f - 1 \subseteq FramesPacked(p)
    BY <2>2 DEF PackedInOrder
  <2>7. 1..ackCopy[p] \subseteq FramesSent(recipient, p)
    BY <2>1, <2>2 DEF RelayInv, AcksFollowSends
  <2>8. 1..f \subseteq FramesSent(recipient, p) \cup FramesPacked(p)'
    <3> SUFFICES ASSUME NEW h \in 1..f
                 PROVE  h \in FramesSent(recipient, p) \cup FramesPacked(p)'
      OBVIOUS
    <3>1. h \in 1..ackCopy[p] \/ h \in ackCopy[p] + 1 .. f - 1 \/ h = f
      BY <2>1
    <3>2. QED BY <2>4, <2>6, <2>7, <3>1
  <2>9. \A g \in FramesPacked(p)' :
          1..g \subseteq FramesSent(recipient, p)' \cup FramesPacked(p)'
    BY <2>1, <2>2, <2>4, <2>5, <2>8 DEF PackedInOrder
  <2>10. \A q \in Peers \ {p} : \A g \in FramesPacked(q)' :
           1..g \subseteq FramesSent(recipient, q)' \cup FramesPacked(q)'
    <3>1. \A q \in Peers \ {p} : FramesPacked(q)' = FramesPacked(q)
      BY <2>2 DEF FramesPacked, TypeOK
    <3>2. QED BY <2>2, <2>5, <3>1 DEF PackedInOrder
  <2>11. ackCopy[p] + 1 .. (f + 1) - 1 \subseteq FramesPacked(p)'
    BY <2>1, <2>4, <2>6
  <2>12. guess.peer' = p /\ guess.frame' = f + 1 /\ ackCopy' = ackCopy
    BY <2>2, <2>3
  <2>13. NoGapsServed'
    BY <2>2 DEF PackedInOrder, NoGapsServed, FramesSent
  <2>14. QED BY <2>9, <2>10, <2>11, <2>12, <2>13 DEF PackedInOrder
<1>6. CASE EndPredict
  BY <1>6 DEF EndPredict, PackedInOrder, NoGapsServed, FramesPacked, FramesSent,
     Serving, ghosts
<1>7. ASSUME NEW ok \in BOOLEAN, Send(ok) PROVE PackedInOrder'
  <2>1. /\ tickPc = "build" /\ recipient \in Players
        /\ tickPc' \in {"cleanup", "serve"}
        /\ \/ sent' = sent
           \/ sent' = [sent EXCEPT ![recipient] =
                         [p \in Peers |-> @[p] \cup packet[p]]]
    BY <1>7 DEF Send, RelayInv, AcksFollowSends, Serving
  <2>2. CASE sent' = sent
    BY <2>1, <2>2 DEF PackedInOrder, NoGapsServed, FramesSent, Serving
  <2>3. CASE sent' = [sent EXCEPT ![recipient] =
                        [p \in Peers |-> @[p] \cup packet[p]]]
    <3>1. \A r \in Players, p \in Peers :
            sent'[r][p] = IF r = recipient THEN sent[r][p] \cup packet[p]
                                           ELSE sent[r][p]
      BY <2>1, <2>3 DEF TypeOK
    <3>2. \A r \in Players, p \in Peers :
            FramesSent(r, p)' = IF r = recipient
                                THEN FramesSent(r, p) \cup FramesPacked(p)
                                ELSE FramesSent(r, p)
      BY <3>1 DEF FramesSent, FramesPacked
    <3>3. \A r \in Players, p \in Peers : \A f \in FramesSent(r, p)' :
            1..f \subseteq FramesSent(r, p)'
      <4> SUFFICES ASSUME NEW r \in Players, NEW p \in Peers,
                          NEW f \in FramesSent(r, p)'
                   PROVE  1..f \subseteq FramesSent(r, p)'
        OBVIOUS
      <4>1. CASE f \in FramesSent(r, p)
        BY <3>2, <4>1 DEF PackedInOrder, NoGapsServed
      <4>2. CASE r = recipient /\ f \in FramesPacked(p)
        BY <2>1, <3>2, <4>2 DEF PackedInOrder, Serving
      <4>3. QED BY <3>2, <4>1, <4>2
    <3>4. NoGapsServed'
      BY <3>3 DEF NoGapsServed
    <3>5. QED BY <2>1, <3>4 DEF PackedInOrder, Serving
  <2>4. QED BY <2>1, <2>2, <2>3
<1>8. QED BY <1>1, <1>2, <1>3, <1>4, <1>5, <1>6, <1>7

\* The packet and what was sent are in order in every reachable state.
THEOREM PackedInOrderInvariant == Spec => []PackedInOrder
<1>1. Init => PackedInOrder
  BY DEF Init, PackedInOrder, NoGapsServed, FramesSent, Serving, NoPacket
<1>2. TypeOK /\ RelayInv /\ PackedInOrder /\ [Next]_vars => PackedInOrder'
  <2> SUFFICES ASSUME TypeOK, RelayInv, PackedInOrder, [Next]_vars
               PROVE  PackedInOrder'
    OBVIOUS
  <2>1. ASSUME UNCHANGED <<tickPc, locals, ghosts>> PROVE PackedInOrder'
    BY <2>1, NothingPacked DEF Serving, locals, ghosts
  <2>2. ASSUME NEW w \in Workers, InsertInput(w) PROVE PackedInOrder'
    BY <2>2, NothingPacked DEF InsertInput, Serving, locals
  <2>3. ASSUME NEW silent \in SUBSET Players, TickStart(silent) PROVE PackedInOrder'
    BY <2>3, NothingPacked DEF TickStart, Serving, ghosts
  <2>4. ASSUME NEW r \in Players, NEW ok \in BOOLEAN, SendStartGame(r, ok)
        PROVE  PackedInOrder'
    BY <2>4, NothingPacked DEF SendStartGame, Serving, ghosts
  <2>5. ASSUME NEW due \in BOOLEAN, Cleanup(due) PROVE PackedInOrder'
    BY <2>5, NothingPacked DEF Cleanup, Serving, locals
  <2>6. CASE TickCheck
    BY <2>6, NothingPacked DEF TickCheck, Serving, locals, ghosts
  <2>7. QED
    BY <2>1, <2>2, <2>3, <2>4, <2>5, <2>6, ServingPacksInOrder
    DEF Next, Tick, Handle, ReceiveInput, FindInput, ReceiveAck, WriteAck,
        Disconnecting, vars
<1>3. QED
  BY <1>1, <1>2, TypeCorrect, RelayInvariant, PTL DEF Spec

\* No client ever receives a frame before all earlier ones were sent to it.
THEOREM NoGapsEverServed == Spec => []NoGapsServed
<1>1. PackedInOrder => NoGapsServed
  BY DEF PackedInOrder
<1>2. QED BY <1>1, PackedInOrderInvariant, PTL

-----------------------------------------------------------------------------
(* The refinement.                                                         *)

\* The frames of p that the ledger lets off.
Exempt(p) ==
  IF overPruned[p] THEN Frames \cup {0} ELSE clobbered[p] \cup {0}

\* The ledger's two promises, of a state of the relay.
Promises ==
  /\ \A r \in Players : Ledger!InOrder(r)
  /\ Ledger!OneValueEach

\* The invariants of the relay keep them.
LEMMA PromisesKept ==
  ASSUME TypeOK, RelayInv, PackedInOrder
  PROVE  Promises
<1>1. \A r \in Players : Ledger!InOrder(r)
  BY DEF PackedInOrder, NoGapsServed, FramesSent, Ledger!InOrder, Ledger!FramesSeen
<1>2. Ledger!OneValueEach
  <2> SUFFICES ASSUME NEW p \in Peers, NEW q \in Players, NEW r \in Players,
                      NEW d \in sent[q][p], NEW e \in sent[r][p],
                      d[1] = e[1], d[1] \notin Exempt(p)
               PROVE  d[2] = e[2]
    BY DEF Ledger!OneValueEach, Exempt
  <2>1. d \in Published(p) /\ e \in Published(p)
    BY DEF Published
  <2>2. d[1] \in Frames /\ d[1] \in Nat
    BY <2>1, PublishedType
  <2>3. ~overPruned[p] /\ d[1] \notin clobbered[p] /\ d[1] >= 1
    BY <2>2 DEF Exempt
  <2>4. QED BY <2>1, <2>3 DEF RelayInv, PublishedAgrees
<1>3. QED BY <1>1, <1>2 DEF Promises

\* A packet that goes out is a delivery.
LEMMA SendDelivers ==
  ASSUME TypeOK, RelayInv, Promises', NEW ok \in BOOLEAN, Send(ok)
  PROVE  [Ledger!Next]_(Ledger!vars)
<1>1. PICK r \in Players : r = recipient
  BY DEF Send, RelayInv, AcksFollowSends, Serving
<1>2. UNCHANGED <<clobbered, overPruned>>
  BY DEF Send
<1>3. CASE sent' = sent
  BY <1>2, <1>3 DEF Ledger!vars
<1>4. CASE sent' = [sent EXCEPT ![recipient] =
                      [p \in Peers |-> @[p] \cup packet[p]]]
  <2>1. \A q \in Players \ {r} : sent'[q] = sent[q]
    BY <1>1, <1>4 DEF TypeOK
  <2>2. \A p \in Peers : sent[r][p] \subseteq sent'[r][p]
    BY <1>1, <1>4 DEF TypeOK
  <2>3. Ledger!Deliver(r)
    BY <1>2, <2>1, <2>2 DEF Promises, Ledger!Deliver
  <2>4. QED BY <2>3 DEF Ledger!Next
<1>5. QED BY <1>3, <1>4 DEF Send

\* An overwritten entry and a cleanup let frames off.
LEMMA FaultsForfeit ==
  ASSUME TypeOK, TypeOK',
         \/ \E w \in Workers : InsertInput(w)
         \/ \E due \in BOOLEAN : Cleanup(due)
  PROVE  [Ledger!Next]_(Ledger!vars)
<1>1. UNCHANGED sent
  BY DEF InsertInput, Cleanup
<1>2. ASSUME NEW p \in Peers
      PROVE  clobbered[p] \subseteq clobbered'[p] /\ (overPruned[p] => overPruned'[p])
  <2>1. ASSUME NEW w \in Workers, InsertInput(w)
        PROVE  clobbered[p] \subseteq clobbered'[p] /\ overPruned' = overPruned
    BY <2>1 DEF InsertInput, TypeOK
  <2>2. ASSUME NEW due \in BOOLEAN, Cleanup(due)
        PROVE  clobbered' = clobbered /\ (overPruned[p] => overPruned'[p])
    BY <2>2 DEF Cleanup
  <2>3. QED BY <2>1, <2>2
<1>3. \A p \in Peers : clobbered[p] \subseteq Frames /\ clobbered'[p] \subseteq Frames
  BY DEF TypeOK
<1>4. Ledger!Forfeit
  BY <1>1, <1>2, <1>3 DEF Ledger!Forfeit
<1>5. QED BY <1>4 DEF Ledger!Next

\* The relay implements the ledger.
THEOREM LedgerImplemented == Spec => ImplementsLedger
<1>1. Init => Ledger!Init
  BY DEF Init, Ledger!Init, NoPacket
<1>2. TypeOK /\ RelayInv /\ PackedInOrder => Promises
  BY PromisesKept
<1>3. TypeOK /\ TypeOK' /\ RelayInv /\ Promises' /\ [Next]_vars
        => [Ledger!Next]_(Ledger!vars)
  <2> SUFFICES ASSUME TypeOK, TypeOK', RelayInv, Promises', [Next]_vars
               PROVE  [Ledger!Next]_(Ledger!vars)
    OBVIOUS
  <2>1. CASE UNCHANGED ghosts
    BY <2>1 DEF ghosts, Ledger!vars
  <2>2. QED
    BY <2>1, SendDelivers, FaultsForfeit
    DEF Next, Tick, Handle, ReceiveInput, FindInput, ReceiveAck, WriteAck,
        Disconnecting, TickStart, SendStartGame, BeginRecipient, ServeReal,
        ServeRepeat, BeginPredict, PredictFrame, EndPredict, TickCheck, vars, ghosts
<1>4. QED
  BY <1>1, <1>2, <1>3, TypeCorrect, RelayInvariant, PackedInOrderInvariant, PTL
  DEF Spec, ImplementsLedger, Ledger!Spec
=============================================================================
