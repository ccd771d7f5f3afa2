-------------------------- MODULE InputRelayProofs --------------------------
(***************************************************************************)
(* Proofs about InputRelay, for any number of players and workers, any     *)
(* inputs and any values of the limits.                                    *)
(***************************************************************************)
EXTENDS InputRelay, TLAPS, FiniteSetTheorems, WellFoundedInduction

\* The constants' assumptions, for citing in one name.
LEMMA Constants ==
  /\ MaxFrame \in Nat /\ MissLimit \in Nat
  /\ Peers \subseteq Players /\ NoPlayer \notin Players
  /\ ClientInput \in [Peers -> [Frames -> Value]]
  /\ Datagrams \in
       [Players -> SUBSET [first : Frames, last : Frames, clientFrame : ClientFrames]]
BY MaxFrameAssumption, PlayersAssumption, ClientInputAssumption,
   DatagramsAssumption, LimitsAssumption

\* Updating a function at one place with a value of its range.
LEMMA UpdateType ==
  ASSUME NEW S, NEW T, NEW g \in [S -> T], NEW x, NEW v \in T
  PROVE  [g EXCEPT ![x] = v] \in [S -> T]
OBVIOUS

\* The handler's loop yields a well-formed job.
LEMMA HandleFrameType ==
  ASSUME NEW p \in Players, NEW f \in Nat, NEW last \in Frames
  PROVE  HandleFrame(p, f, last) \in Job \cup {Idle}
BY Constants DEF HandleFrame, Job, Idle, Frames

\* A read of the map that falls back to 0 yields an input value.
LEMMA HeldType ==
  ASSUME TypeOK, NEW p \in Peers, NEW f \in Frames
  PROVE  Held(p, f) \in Value
BY DEF TypeOK, Held, Stored, Entry, Value, NoInput

\* What a job is can be told from where it is.
LEMMA JobShape ==
  ASSUME TypeOK, NEW w \in Workers
  PROVE  /\ job[w].at \in {"find", "insert"} => job[w] \in Job
         /\ job[w].at = "ack" => job[w] \in AckJob
<1>1. job[w] \in Jobs
  BY DEF TypeOK
<1>2. CASE job[w] \in Job
  BY <1>2 DEF Job
<1>3. CASE job[w] \in AckJob
  BY <1>3 DEF AckJob
<1>4. CASE job[w] = Idle
  BY <1>4 DEF Idle
<1>5. QED BY <1>1, <1>2, <1>3, <1>4 DEF Jobs

\* Every variable of the relay stays in its type.
THEOREM TypeCorrect == Spec => []TypeOK
<1>1. Init => TypeOK
  BY Constants DEF Init, TypeOK, NoAck, NoPacket, NoGuess, Frames, ClientFrames,
     Entry, Value, NoInput, Jobs
<1>2. TypeOK /\ [Next]_vars => TypeOK'
  <2> SUFFICES ASSUME TypeOK, [Next]_vars PROVE TypeOK'
    OBVIOUS
  <2> USE Constants DEF TypeOK
  <2>1. ASSUME NEW w \in Workers, NEW p \in Players, NEW d \in Datagrams[p],
               ReceiveInput(w, p, d)
        PROVE  TypeOK'
    <3>1. d \in [first : Frames, last : Frames, clientFrame : ClientFrames]
      BY <2>1
    <3>2. HandleFrame(p, d.first, d.last) \in Job \cup {Idle}
      BY <3>1, HandleFrameType DEF Frames
    <3>3. job' \in [Workers -> Jobs]
      BY <2>1, <3>2 DEF ReceiveInput, Jobs
    <3>4. QED BY <2>1, <3>1, <3>3 DEF ReceiveInput, locals, ghosts
  <2>2. ASSUME NEW w \in Workers, FindInput(w) PROVE TypeOK'
    <3>1. job[w] \in Job
      BY <2>2, JobShape DEF FindInput
    <3>2. HandleFrame(job[w].player, job[w].frame + 1, job[w].last) \in Job \cup {Idle}
      BY <3>1, HandleFrameType DEF Job, Frames
    <3>3. [job[w] EXCEPT !.at = "insert"] \in Job
      BY <3>1 DEF Job
    <3>4. job' \in [Workers -> Jobs]
      BY <2>2, <3>2, <3>3 DEF FindInput, Jobs
    <3>5. QED BY <2>2, <3>4 DEF FindInput, relay, locals, ghosts
  <2>3. ASSUME NEW w \in Workers, InsertInput(w) PROVE TypeOK'
    <3>1. job[w] \in Job
      BY <2>3, JobShape DEF InsertInput
    <3> DEFINE p == job[w].player
               f == job[w].frame
    <3>2. p \in Peers /\ f \in Frames
      BY <3>1 DEF Job
    <3>3. HandleFrame(p, f + 1, job[w].last) \in Job \cup {Idle}
      BY <3>1, <3>2, HandleFrameType DEF Job, Frames
    <3>4. inputs' \in [Peers -> [Frames -> Entry]]
      BY <2>3, <3>2 DEF InsertInput, Entry
    <3>5. clobbered' \in [Peers -> SUBSET Frames]
      BY <2>3, <3>2 DEF InsertInput
    <3>6. job' \in [Workers -> Jobs]
      BY <2>3, <3>3 DEF InsertInput, Jobs
    <3>7. QED BY <2>3, <3>4, <3>5, <3>6 DEF InsertInput, locals
  <2>4. ASSUME NEW w \in Workers, NEW r \in Players, NEW p \in Peers,
               NEW a \in Frames, ReceiveAck(w, r, p, a)
        PROVE  TypeOK'
    <3>1. [at |-> "ack", player |-> r, peer |-> p, frame |-> a] \in AckJob
      BY DEF AckJob
    <3>2. job' \in [Workers -> Jobs]
      BY <2>4, <3>1 DEF ReceiveAck, Jobs
    <3>3. QED BY <2>4, <3>2 DEF ReceiveAck, relay, locals, ghosts
  <2>5. ASSUME NEW w \in Workers, NEW p \in Players, Disconnecting(w, p)
        PROVE  TypeOK'
    BY <2>5 DEF Disconnecting, locals, ghosts
  <2>6. ASSUME NEW silent \in SUBSET Players, TickStart(silent) PROVE TypeOK'
    BY <2>6 DEF TickStart, ghosts
  <2>7. ASSUME NEW r \in Players, NEW ok \in BOOLEAN, SendStartGame(r, ok)
        PROVE  TypeOK'
    BY <2>7 DEF SendStartGame, ghosts
  <2>8. ASSUME NEW r \in Players, BeginRecipient(r) PROVE TypeOK'
    BY <2>8 DEF BeginRecipient, relay, ghosts
  <2>9. ASSUME NEW p \in Peers, ServeReal(p) PROVE TypeOK'
    <3>1. {<<f, inputs[p][f]>> : f \in Run(p, NextFrame(p))}
            \in SUBSET (Frames \X Value)
      <4> SUFFICES ASSUME NEW f \in Run(p, NextFrame(p))
                   PROVE  f \in Frames /\ inputs[p][f] \in Value
        OBVIOUS
      <4>1. f \in Frames /\ NextFrame(p) \in Nat /\ NextFrame(p) <= f
        BY DEF Run, NextFrame, Frames
      <4>2. f \in NextFrame(p)..f
        BY <4>1 DEF Frames
      <4>3. f \in Stored(p)
        BY <4>2 DEF Run
      <4>4. QED BY <4>1, <4>3 DEF Stored, Entry, Value, NoInput
    <3>2. packet' \in [Peers -> SUBSET (Frames \X Value)]
      BY <2>9, <3>1 DEF ServeReal
    <3>3. missedInputs' \in [Players -> [Peers -> 0..MissLimit]]
      <4>1. missedInputs' = [missedInputs EXCEPT ![recipient][p] = 0]
        BY <2>9 DEF ServeReal
      <4>2. CASE recipient \in Players
        <5>1. [missedInputs[recipient] EXCEPT ![p] = 0] \in [Peers -> 0..MissLimit]
          BY <4>2
        <5>2. QED BY <4>1, <4>2, <5>1
      <4>3. QED BY <4>1, <4>2
    <3>4. QED BY <2>9, <3>2, <3>3 DEF ServeReal, ghosts
  <2>10. ASSUME NEW p \in Peers, ServeRepeat(p) PROVE TypeOK'
    <3>1. <<ackCopy[p], Held(p, ackCopy[p])>> \in Frames \X Value
      BY HeldType
    <3>2. packet' \in [Peers -> SUBSET (Frames \X Value)]
      BY <2>10, <3>1 DEF ServeRepeat
    <3>3. missedInputs' \in [Players -> [Peers -> 0..MissLimit]]
      <4>1. missedInputs' = [missedInputs EXCEPT ![recipient][p] = @ + 1]
        BY <2>10 DEF ServeRepeat
      <4>2. CASE recipient \in Players
        <5>1. missedInputs[recipient][p] + 1 \in 0..MissLimit
          BY <2>10, <4>2 DEF ServeRepeat, GivenUp
        <5>2. [missedInputs[recipient] EXCEPT ![p] = @ + 1] \in [Peers -> 0..MissLimit]
          BY <4>2, <5>1
        <5>3. QED BY <4>1, <4>2, <5>2
      <4>3. QED BY <4>1, <4>2
    <3>4. QED BY <2>10, <3>2, <3>3 DEF ServeRepeat, ghosts
  <2>11. ASSUME NEW p \in Peers, BeginPredict(p) PROVE TypeOK'
    <3>1. NextFrame(p) \in ClientFrames
      <4>1. ackCopy[p] \in Frames
        OBVIOUS
      <4> HIDE DEF TypeOK
      <4>2. QED BY <4>1 DEF NextFrame, Frames, ClientFrames
    <3>2. Held(p, ackCopy[p]) \in Value
      BY HeldType
    <3>3. QED BY <2>11, <3>1, <3>2 DEF BeginPredict, relay, ghosts
  <2>12. ASSUME PredictFrame PROVE TypeOK'
    <3>1. guess.frame \in Frames /\ guess.frame + 1 \in ClientFrames
      BY <2>12 DEF PredictFrame, MorePredictions, Frames, ClientFrames
    <3>2. inputs' \in [Peers -> [Frames -> Entry]]
      BY <2>12 DEF PredictFrame, Entry
    <3>3. packet' \in [Peers -> SUBSET (Frames \X Value)]
      <4>1. packet' = [packet EXCEPT
                         ![guess.peer] = @ \cup {<<guess.frame, guess.value>>}]
        BY <2>12 DEF PredictFrame
      <4>2. CASE guess.peer \in Peers
        <5>1. packet[guess.peer] \cup {<<guess.frame, guess.value>>}
                \in SUBSET (Frames \X Value)
          BY <3>1, <4>2
        <5>2. QED BY <4>1, <4>2, <5>1
      <4>3. QED BY <4>1, <4>2
    <3>4. QED BY <2>12, <3>1, <3>2, <3>3 DEF PredictFrame, ghosts
  <2>13. ASSUME EndPredict PROVE TypeOK'
    BY <2>13 DEF EndPredict, NoGuess, ClientFrames, Value, relay, ghosts
  <2>14. ASSUME NEW ok \in BOOLEAN, Send(ok) PROVE TypeOK'
    <3>1. sent' \in [Players -> [Peers -> SUBSET (Frames \X Value)]]
      <4>1. ASSUME NEW r \in Players
            PROVE  [p \in Peers |-> sent[r][p] \cup packet[p]]
                     \in [Peers -> SUBSET (Frames \X Value)]
        OBVIOUS
      <4>2. \/ sent' = sent
            \/ sent' = [sent EXCEPT ![recipient] =
                           [p \in Peers |-> sent[recipient][p] \cup packet[p]]]
        BY <2>14 DEF Send
      <4>3. CASE recipient \in Players
        BY <4>1, <4>2, <4>3, UpdateType
      <4>4. CASE recipient \notin Players
        BY <4>2, <4>4
      <4>5. QED BY <4>3, <4>4
    <3>2. packet' \in [Peers -> SUBSET (Frames \X Value)]
      BY <2>14 DEF Send, NoPacket
    <3>3. ackCopy' \in [Peers -> Frames] /\ frameCopy' \in ClientFrames
      BY <2>14 DEF Send, NoAck, Frames, ClientFrames
    <3>4. disconnected' \in [Players -> BOOLEAN]
      BY <2>14 DEF Send
    <3>5. todo' \in SUBSET Players /\ tickPc' \in {"cleanup", "serve"}
      BY <2>14 DEF Send
    <3>6. QED BY <2>14, <3>1, <3>2, <3>3, <3>4, <3>5 DEF Send
  <2>15. ASSUME NEW due \in BOOLEAN, Cleanup(due) PROVE TypeOK'
    <3>1. inputs' \in [Peers -> [Frames -> Entry]]
      BY <2>15 DEF Cleanup, Entry
    <3>2. overPruned' \in [Peers -> BOOLEAN]
      BY <2>15 DEF Cleanup
    <3>3. QED BY <2>15, <3>1, <3>2 DEF Cleanup, locals
  <2>16. ASSUME TickCheck PROVE TypeOK'
    BY <2>16 DEF TickCheck, Entry, locals, ghosts
  <2>17. ASSUME NEW w \in Workers, WriteAck(w) PROVE TypeOK'
    <3>1. job[w] \in AckJob
      BY <2>17, JobShape DEF WriteAck
    <3>2. ackedFrames' \in [Players -> [Peers -> Frames]]
      BY <2>17, <3>1 DEF WriteAck, AckJob
    <3>3. job' \in [Workers -> Jobs]
      BY <2>17 DEF WriteAck, Jobs
    <3>4. QED BY <2>17, <3>2, <3>3 DEF WriteAck, locals, ghosts
  <2>18. ASSUME UNCHANGED vars PROVE TypeOK'
    BY <2>18 DEF vars, relay, locals, ghosts
  <2> HIDE DEF TypeOK
  <2>19. QED
    BY <2>1, <2>2, <2>3, <2>4, <2>5, <2>6, <2>7, <2>8, <2>9, <2>10, <2>11,
       <2>12, <2>13, <2>14, <2>15, <2>16, <2>17, <2>18 DEF Next, Tick, Handle
<1>3. QED
  BY <1>1, <1>2, PTL DEF Spec

-----------------------------------------------------------------------------
(* Agreement.                                                              *)

\* What is published about p is well-formed.
LEMMA PublishedType ==
  ASSUME TypeOK, NEW p \in Peers, NEW e \in Published(p)
  PROVE  e \in Frames \X Value /\ e[1] \in Nat
BY Constants DEF TypeOK, Published, Frames

\* A step that starts no acknowledgement.
NoNewAcks == \A w \in Workers : job'[w].at = "ack" => job'[w] = job[w]

\* A handler of inputs that moves on, or returns, starts no acknowledgement.
LEMMA InputJob ==
  ASSUME TypeOK, NEW w \in Workers, NEW j \in Job \cup {Idle},
         job' = [job EXCEPT ![w] = j]
  PROVE  NoNewAcks
BY DEF TypeOK, NoNewAcks, Job, Idle, Jobs

\* Without a new acknowledgement no further frame can be needed.
LEMMA NeededShrinks ==
  ASSUME NoNewAcks, ackedFrames' = ackedFrames,
         ackCopy' = ackCopy, Serving' => Serving, NEW p \in Peers
  PROVE  Needed(p)' \subseteq Needed(p)
<1>1. AcksInHand(p)' \subseteq AcksInHand(p)
  BY DEF NoNewAcks, AcksInHand
<1>2. \A f \in Frames : MayBeNeeded(p, f)' => MayBeNeeded(p, f)
  BY <1>1 DEF MayBeNeeded
<1>3. QED BY <1>2 DEF Needed

\* Every frame that has been sent about p has been published.
LEMMA SentPublished ==
  ASSUME NEW r \in Players, NEW p \in Peers, NEW f \in FramesSent(r, p)
  PROVE  \E e \in Published(p) : e[1] = f
<1>1. PICK e \in sent[r][p] : e[1] = f
  BY DEF FramesSent
<1>2. e \in Published(p)
  BY <1>1 DEF Published
<1>3. QED BY <1>1, <1>2

\* While a recipient is served, the needed frames of p up to the copy of its
\* acknowledgement are stored.
LEMMA AckedStored ==
  ASSUME TypeOK, RelayInv, Serving, NEW p \in Peers, ~overPruned[p],
         NEW f \in Needed(p), f <= ackCopy[p]
  PROVE  f \in Stored(p)
<1>1. recipient \in Players /\ 1..ackCopy[p] \subseteq FramesSent(recipient, p)
  BY DEF RelayInv, AcksFollowSends
<1>2. ackCopy[p] \in Nat /\ f \in Nat /\ f >= 1
  BY Constants DEF TypeOK, Needed, MayBeNeeded, Frames
<1>3. ackCopy[p] \in FramesSent(recipient, p)
  BY <1>1, <1>2
<1>4. PICK e \in Published(p) : e[1] = ackCopy[p]
  BY <1>1, <1>3, SentPublished
<1>5. tickPc # "ended"
  BY DEF Serving
<1>6. QED BY <1>4, <1>5 DEF RelayInv, PublishedIsStored

\* Steps that touch nothing the invariant speaks of preserve it.
LEMMA Unaffected ==
  ASSUME RelayInv, NoNewAcks,
         UNCHANGED <<inputs, ackedFrames, recipient, ackCopy, packet, guess,
                     sent, clobbered, overPruned>>,
         tickPc' = tickPc \/ (tickPc \in {"wait", "startGame", "told", "check"}
                              /\ tickPc' \in {"wait", "startGame", "told", "serve", "check"})
  PROVE  RelayInv'
<1>1. AcksFollowSends'
  BY DEF RelayInv, AcksFollowSends, NoNewAcks, FramesSent, Serving, NoPacket
<1>2. PublishedIsStored'
  <2>1. \A p \in Peers : Needed(p)' \subseteq Needed(p)
    BY NeededShrinks DEF Serving
  <2>2. QED BY <2>1 DEF RelayInv, PublishedIsStored, Published, Stored
<1>3. PredictionIsNew'
  BY DEF RelayInv, PredictionIsNew, Published, Stored
<1>4. PublishedAgrees'
  BY DEF RelayInv, PublishedAgrees, Published
<1>5. QED BY <1>1, <1>2, <1>3, <1>4 DEF RelayInv

\* Putting into the packet entries that the map holds preserves it.
LEMMA PackStored ==
  ASSUME TypeOK, TypeOK', RelayInv, NEW p \in Peers, NEW new,
         tickPc = "build", tickPc' = "build",
         packet' = [packet EXCEPT ![p] = new],
         UNCHANGED <<inputs, ackedFrames, job, recipient, ackCopy, sent, clobbered,
                     overPruned>>,
         ~overPruned[p] =>
           \A e \in new : e[1] >= 1 =>
             /\ e[1] >= ackCopy[p] /\ e[2] = inputs[p][e[1]]
             /\ \A f \in Frames : ackCopy[p] < f /\ f <= e[1] => f \in Stored(p)
  PROVE  RelayInv'
<1>1. Serving /\ Serving'
  BY DEF Serving
<1>2. AcksFollowSends'
  BY <1>1 DEF RelayInv, AcksFollowSends, FramesSent
<1>3. PredictionIsNew'
  BY DEF PredictionIsNew
<1>4. \A q \in Peers : Needed(q)' = Needed(q) /\ Stored(q)' = Stored(q)
  BY <1>1 DEF Needed, MayBeNeeded, AcksInHand, Stored
<1>5. \A q \in Peers : \A e \in Published(q)' :
        e \in Published(q) \/ (q = p /\ e \in new)
  BY DEF Published, TypeOK
<1>6. \A e \in new : e \in Frames \X Value
  BY DEF TypeOK
<1>7. \A e \in new : ~overPruned[p] =>
        /\ \A f \in Needed(p) : f <= e[1] => f \in Stored(p)
        /\ e[1] \in Needed(p) => inputs[p][e[1]] = e[2]
  <2> SUFFICES ASSUME NEW e \in new, ~overPruned[p]
               PROVE  /\ \A f \in Needed(p) : f <= e[1] => f \in Stored(p)
                      /\ e[1] \in Needed(p) => inputs[p][e[1]] = e[2]
    OBVIOUS
  <2>1. ASSUME NEW f \in Needed(p), f <= e[1] PROVE f \in Stored(p)
    <3>1. f \in Frames /\ f >= 1 /\ f \in Nat /\ e[1] \in Nat /\ ackCopy[p] \in Nat
      BY <1>6, Constants DEF Needed, MayBeNeeded, Frames, TypeOK
    <3>2. CASE f <= ackCopy[p]
      BY <1>1, <3>2, AckedStored
    <3>3. CASE f > ackCopy[p]
      BY <2>1, <3>1, <3>3
    <3>4. QED BY <3>1, <3>2, <3>3
  <2>2. ASSUME e[1] \in Needed(p) PROVE inputs[p][e[1]] = e[2]
    <3>1. e[1] >= 1
      BY <2>2 DEF Needed, MayBeNeeded
    <3>2. QED BY <3>1
  <2>3. QED BY <2>1, <2>2
<1>8. PublishedIsStored'
  BY <1>1, <1>4, <1>5, <1>7 DEF RelayInv, PublishedIsStored, Serving
<1>9. PublishedAgrees'
  <2> SUFFICES ASSUME NEW q \in Peers, ~overPruned[q],
                      NEW d \in Published(q)', NEW e \in Published(q)',
                      d[1] = e[1], d[1] >= 1, d[1] \notin clobbered[q]
               PROVE  d[2] = e[2]
    BY DEF PublishedAgrees
  <2>1. CASE d \in Published(q) /\ e \in Published(q)
    BY <2>1 DEF RelayInv, PublishedAgrees
  <2>2. CASE q = p /\ d \in new /\ e \in new
    BY <2>2
  <2>3. ASSUME NEW old \in Published(p), NEW e1 \in new, q = p,
               old[1] = e1[1], e1[1] >= 1, e1[1] \notin clobbered[p]
        PROVE  old[2] = e1[2]
    <3>1. e1[1] \in Frames \ {0} /\ e1[1] >= ackCopy[p]
      BY <1>6, <2>3
    <3>2. e1[1] \in Needed(p)
      <4>1. e1[1] >= 1
        BY <2>3
      <4>2. QED BY <1>1, <3>1, <4>1 DEF Needed
    <3>3. inputs[p][old[1]] = old[2]
      BY <2>3, <3>2 DEF RelayInv, PublishedIsStored
    <3>4. QED BY <2>3, <3>3
  <2>4. QED BY <1>5, <2>1, <2>2, <2>3
<1>10. QED BY <1>2, <1>3, <1>8, <1>9 DEF RelayInv

\* A handler's insert preserves it: an entry it changes was either missing,
\* so not published, or becomes clobbered.
LEMMA InsertPreserves ==
  ASSUME TypeOK, RelayInv, NEW w \in Workers, InsertInput(w)
  PROVE  RelayInv'
<1> DEFINE p == job[w].player
           f == job[w].frame
<1>1. p \in Peers /\ f \in Frames
  BY JobShape DEF InsertInput, Job
<1>2. inputs' = [inputs EXCEPT ![p][f] = ClientInput[p][f]]
  BY DEF InsertInput
<1>3. ClientInput[p][f] # NoInput
  BY <1>1, Constants DEF Value, NoInput
<1>4. UNCHANGED <<ackedFrames, recipient, ackCopy, packet, guess, sent, overPruned,
                  tickPc>>
  BY DEF InsertInput, locals
<1>5. NoNewAcks
  <2>1. job[w].frame \in Nat /\ job[w].last \in Frames
    <3>1. job[w] \in Job
      BY JobShape DEF InsertInput
    <3>2. QED BY <3>1, Constants DEF Job, Frames
  <2>2. HandleFrame(p, f + 1, job[w].last) \in Job \cup {Idle}
    BY <1>1, <2>1, Constants, HandleFrameType
  <2>3. QED BY <2>2, InputJob DEF InsertInput
<1>6. \A q \in Peers : Published(q)' = Published(q) /\ Needed(q)' \subseteq Needed(q)
  BY <1>4, <1>5, NeededShrinks DEF Published, Serving
<1>7. \A q \in Peers : Stored(q) \subseteq Stored(q)'
  BY <1>1, <1>2, <1>3 DEF Stored, TypeOK
<1>8. \A q \in Peers : clobbered[q] \subseteq clobbered'[q]
  BY <1>1 DEF InsertInput, TypeOK
<1>9. AcksFollowSends'
  BY <1>4, <1>5 DEF RelayInv, AcksFollowSends, NoNewAcks, FramesSent, Serving, NoPacket
<1>10. PublishedIsStored'
  <2> SUFFICES ASSUME tickPc # "ended", NEW q \in Peers, ~overPruned[q],
                      NEW e \in Published(q)
               PROVE  /\ \A g \in Needed(q) : g <= e[1] => g \in Stored(q)'
                      /\ e[1] \in Needed(q) \ clobbered'[q] => inputs'[q][e[1]] = e[2]
    BY <1>4, <1>6 DEF PublishedIsStored
  <2>1. \A g \in Needed(q) : g <= e[1] => g \in Stored(q)'
    BY <1>7 DEF RelayInv, PublishedIsStored
  <2>2. ASSUME e[1] \in Needed(q) \ clobbered'[q] PROVE inputs'[q][e[1]] = e[2]
    <3>1. inputs[q][e[1]] = e[2]
      BY <1>8, <2>2 DEF RelayInv, PublishedIsStored
    <3>2. e[1] \in Stored(q)
      BY <2>2, PublishedType DEF RelayInv, PublishedIsStored
    <3>3. CASE q = p /\ e[1] = f
      <4>1. inputs[p][f] # NoInput /\ f \notin clobbered'[p]
        BY <2>2, <3>2, <3>3 DEF Stored
      <4>2. inputs[p][f] = ClientInput[p][f]
        BY <1>1, <4>1 DEF InsertInput, TypeOK
      <4>3. QED BY <1>1, <1>2, <3>1, <3>3, <4>2 DEF TypeOK
    <3>4. CASE ~(q = p /\ e[1] = f)
      BY <1>1, <1>2, <3>1, <3>4 DEF TypeOK
    <3>5. QED BY <3>3, <3>4
  <2>3. QED BY <2>1, <2>2
<1>11. PredictionIsNew'
  <2> SUFFICES ASSUME tickPc = "predict"
               PROVE  /\ guess.peer \in Peers
                      /\ guess.frame > ackCopy[guess.peer]
                      /\ \A g \in ackCopy[guess.peer] + 1 .. guess.frame - 1 :
                           g \in Stored(guess.peer)'
                      /\ ~overPruned[guess.peer] =>
                           \A e \in Published(guess.peer)' : e[1] < guess.frame
    BY <1>4 DEF PredictionIsNew
  <2>1. QED BY <1>4, <1>6, <1>7 DEF RelayInv, PredictionIsNew
<1>12. PublishedAgrees'
  BY <1>4, <1>6, <1>8 DEF RelayInv, PublishedAgrees
<1>13. QED BY <1>9, <1>10, <1>11, <1>12 DEF RelayInv

\* An acknowledgement that passed the comparison needs only frames that its
\* recipient needed already: it is greater than the entry it was compared with.
LEMMA AckReceived ==
  ASSUME TypeOK, RelayInv, NEW w \in Workers, NEW r \in Players, NEW p \in Peers,
         NEW a \in Frames, ReceiveAck(w, r, p, a)
  PROVE  RelayInv'
<1>1. /\ 1..a \subseteq FramesSent(r, p) /\ a > ackedFrames[r][p]
      /\ job' = [job EXCEPT ![w] =
                   [at |-> "ack", player |-> r, peer |-> p, frame |-> a]]
      /\ UNCHANGED <<inputs, ackedFrames, recipient, ackCopy, packet, guess, sent,
                     clobbered, overPruned, tickPc>>
  BY DEF ReceiveAck, Contiguous, Newer, relay, locals, ghosts
<1>2. \A x \in Workers : job'[x] =
        IF x = w THEN [at |-> "ack", player |-> r, peer |-> p, frame |-> a] ELSE job[x]
  BY <1>1 DEF TypeOK
<1>3. \A q \in Peers : \A b \in AcksInHand(q)' :
        b \in AcksInHand(q) \/ (q = p /\ b = a)
  BY <1>2 DEF AcksInHand
<1>4. \A q \in Peers, f \in Frames : MayBeNeeded(q, f)' => MayBeNeeded(q, f)
  <2>1. \A f \in Frames : f >= a => f >= ackedFrames[r][p]
    BY <1>1, Constants DEF TypeOK, Frames
  <2>2. QED BY <1>1, <1>3, <2>1 DEF MayBeNeeded
<1>5. \A q \in Peers : /\ Published(q)' = Published(q) /\ Stored(q)' = Stored(q)
                       /\ Needed(q)' \subseteq Needed(q)
  BY <1>1, <1>4 DEF Published, Stored, Needed, Serving
<1>6. AcksFollowSends'
  BY <1>1, <1>2 DEF RelayInv, AcksFollowSends, FramesSent, Serving, NoPacket
<1>7. PublishedIsStored'
  BY <1>1, <1>5 DEF RelayInv, PublishedIsStored
<1>8. PredictionIsNew' /\ PublishedAgrees'
  BY <1>1, <1>5 DEF RelayInv, PredictionIsNew, PublishedAgrees
<1>9. QED BY <1>6, <1>7, <1>8 DEF RelayInv

\* Writing it, even over a greater one that another worker wrote meanwhile,
\* needs only frames that the acknowledgement in hand already kept.
LEMMA AckWritten ==
  ASSUME TypeOK, RelayInv, NEW w \in Workers, WriteAck(w)
  PROVE  RelayInv'
<1>1. PICK r \in Players, p \in Peers, a \in Frames :
        job[w] = [at |-> "ack", player |-> r, peer |-> p, frame |-> a]
  <2>1. job[w] \in AckJob
    BY JobShape DEF WriteAck
  <2>2. QED BY <2>1, Zenon DEF AckJob
<1>2. /\ ackedFrames' = [ackedFrames EXCEPT ![r][p] = a]
      /\ job' = [job EXCEPT ![w] = Idle]
      /\ UNCHANGED <<inputs, recipient, ackCopy, packet, guess, sent,
                     clobbered, overPruned, tickPc>>
  BY <1>1 DEF WriteAck, locals, ghosts
<1>3. \A q \in Players, x \in Peers :
        ackedFrames'[q][x] = IF q = r /\ x = p THEN a ELSE ackedFrames[q][x]
  BY <1>2 DEF TypeOK
<1>4. \A x \in Workers : job'[x].at = "ack" => x # w /\ job'[x] = job[x]
  BY <1>2 DEF TypeOK, Idle
<1>5. a \in AcksInHand(p) /\ \A q \in Peers : AcksInHand(q)' \subseteq AcksInHand(q)
  BY <1>1, <1>4 DEF AcksInHand
<1>6. \A q \in Peers, f \in Frames : MayBeNeeded(q, f)' => MayBeNeeded(q, f)
  BY <1>3, <1>5 DEF MayBeNeeded
<1>7. \A q \in Peers : /\ Published(q)' = Published(q) /\ Stored(q)' = Stored(q)
                       /\ Needed(q)' \subseteq Needed(q)
  BY <1>2, <1>6 DEF Published, Stored, Needed, Serving
<1>8. AcksFollowSends'
  <2>1. 1..a \subseteq FramesSent(r, p)
    BY <1>1 DEF RelayInv, AcksFollowSends
  <2>2. \A q \in Players, x \in Peers : 1..ackedFrames'[q][x] \subseteq FramesSent(q, x)'
    BY <1>2, <1>3, <2>1 DEF RelayInv, AcksFollowSends, FramesSent
  <2>3. QED
    BY <1>2, <1>4, <2>2 DEF RelayInv, AcksFollowSends, FramesSent, Serving, NoPacket
<1>9. PublishedIsStored'
  BY <1>2, <1>7 DEF RelayInv, PublishedIsStored
<1>10. PredictionIsNew' /\ PublishedAgrees'
  BY <1>2, <1>7 DEF RelayInv, PredictionIsNew, PublishedAgrees
<1>11. QED BY <1>8, <1>9, <1>10 DEF RelayInv

\* The prediction loop preserves it: what it overwrites was not published.
LEMMA PredictPreserves ==
  ASSUME TypeOK, TypeOK', RelayInv, PredictFrame
  PROVE  RelayInv'
<1> PICK p, f, v : p = guess.peer /\ f = guess.frame /\ v = guess.value
  OBVIOUS
<1>1. /\ p \in Peers /\ f > ackCopy[p]
      /\ \A g \in ackCopy[p] + 1 .. f - 1 : g \in Stored(p)
      /\ ~overPruned[p] => \A e \in Published(p) : e[1] < f
  BY DEF RelayInv, PredictionIsNew, PredictFrame
<1>2. f \in Frames /\ v \in Nat /\ f \in Nat /\ ackCopy[p] \in Nat
  BY <1>1, Constants
  DEF PredictFrame, MorePredictions, TypeOK, Frames, ClientFrames, Value
<1>3. /\ inputs' = [inputs EXCEPT ![p][f] = v]
      /\ packet' = [packet EXCEPT ![p] = @ \cup {<<f, v>>}]
      /\ guess' = [guess EXCEPT !.frame = f + 1]
      /\ tickPc = "predict" /\ tickPc' = "predict"
      /\ UNCHANGED <<ackedFrames, job, recipient, ackCopy, sent, clobbered, overPruned>>
  BY DEF PredictFrame, ghosts
<1>4. Serving /\ Serving' /\ \A q \in Peers : Needed(q)' = Needed(q)
  BY <1>3 DEF Serving, Needed, MayBeNeeded, AcksInHand
<1>5. \A q \in Peers, g \in Frames :
        inputs'[q][g] = IF q = p /\ g = f THEN v ELSE inputs[q][g]
  BY <1>1, <1>2, <1>3 DEF TypeOK
<1>6. \A q \in Peers : Stored(q)' = IF q = p THEN Stored(q) \cup {f} ELSE Stored(q)
  BY <1>2, <1>5 DEF Stored, NoInput
<1>7. \A q \in Peers : Published(q)' =
        IF q = p THEN Published(q) \cup {<<f, v>>} ELSE Published(q)
  BY <1>1, <1>3 DEF Published, TypeOK
<1>8. AcksFollowSends'
  BY <1>3, <1>4 DEF RelayInv, AcksFollowSends, FramesSent
<1>9. PredictionIsNew'
  <2>1. guess'.peer = p /\ guess'.frame = f + 1
    BY <1>3 DEF TypeOK
  <2>2. \A g \in ackCopy[p] + 1 .. f : g \in Stored(p)'
    BY <1>1, <1>2, <1>6
  <2>3. ~overPruned[p] => \A e \in Published(p)' : e[1] < f + 1
    <3> SUFFICES ASSUME ~overPruned[p], NEW e \in Published(p)'
                 PROVE  e[1] < f + 1
      OBVIOUS
    <3>1. CASE e \in Published(p)
      BY <1>1, <1>2, <3>1, PublishedType
    <3>2. CASE e = <<f, v>>
      BY <1>2, <3>2
    <3>3. QED BY <1>1, <1>7, <3>1, <3>2
  <2>4. guess.peer' = p /\ guess.frame' = f + 1
    BY <2>1
  <2>5. QED BY <1>1, <1>2, <1>3, <2>2, <2>3, <2>4 DEF PredictionIsNew
<1>10. PublishedIsStored'
  <2> SUFFICES ASSUME NEW q \in Peers, ~overPruned[q], NEW e \in Published(q)'
               PROVE  /\ \A g \in Needed(q) : g <= e[1] => g \in Stored(q)'
                      /\ e[1] \in Needed(q) \ clobbered[q] => inputs'[q][e[1]] = e[2]
    BY <1>3, <1>4 DEF PublishedIsStored
  <2>1. CASE e \in Published(q)
    <3>1. /\ \A g \in Needed(q) : g <= e[1] => g \in Stored(q)
          /\ e[1] \in Needed(q) \ clobbered[q] => inputs[q][e[1]] = e[2]
      BY <1>3, <2>1 DEF RelayInv, PublishedIsStored
    <3>2. q = p => e[1] # f
      BY <1>1, <1>2, <2>1, PublishedType
    <3>3. inputs'[q][e[1]] = inputs[q][e[1]]
      BY <1>5, <2>1, <3>2, PublishedType
    <3>4. QED BY <1>6, <3>1, <3>3
  <2>2. CASE q = p /\ e = <<f, v>>
    <3>1. ASSUME NEW g \in Needed(p), g <= f PROVE g \in Stored(p)'
      <4>1. g \in Nat /\ g >= 1
        BY Constants DEF Needed, MayBeNeeded, Frames
      <4>2. CASE g = f
        BY <1>1, <1>6, <4>2
      <4>3. CASE g < f /\ g > ackCopy[p]
        BY <1>1, <1>2, <1>6, <4>1, <4>3
      <4>4. CASE g <= ackCopy[p]
        BY <1>1, <1>4, <1>6, <2>2, <4>4, AckedStored
      <4>5. QED BY <1>2, <3>1, <4>1, <4>2, <4>3, <4>4
    <3>2. inputs'[q][e[1]] = e[2]
      BY <1>1, <1>2, <1>5, <2>2
    <3>3. QED BY <2>2, <3>1, <3>2
  <2>3. QED BY <1>7, <2>1, <2>2
<1>11. PublishedAgrees'
  <2> SUFFICES ASSUME NEW q \in Peers, ~overPruned[q],
                      NEW d \in Published(q)', NEW e \in Published(q)',
                      d[1] = e[1], d[1] >= 1, d[1] \notin clobbered[q]
               PROVE  d[2] = e[2]
    BY <1>3 DEF PublishedAgrees
  <2>1. CASE d \in Published(q) /\ e \in Published(q)
    BY <2>1 DEF RelayInv, PublishedAgrees
  <2>2. CASE q = p /\ d = <<f, v>> /\ e = <<f, v>>
    BY <2>2
  <2>3. ~(q = p /\ d = <<f, v>> /\ e \in Published(p))
    BY <1>1, <1>2, PublishedType
  <2>4. ~(q = p /\ e = <<f, v>> /\ d \in Published(p))
    BY <1>1, <1>2, PublishedType
  <2>5. QED BY <1>7, <2>1, <2>2, <2>3, <2>4
<1>12. QED BY <1>8, <1>9, <1>10, <1>11 DEF RelayInv

\* The remaining steps that touch what the invariant speaks of.
LEMMA TickPreserves ==
  ASSUME TypeOK, TypeOK', RelayInv,
         \/ \E r \in Players : BeginRecipient(r)
         \/ \E p \in Peers : ServeReal(p) \/ ServeRepeat(p) \/ BeginPredict(p)
         \/ EndPredict
         \/ \E ok \in BOOLEAN : Send(ok)
         \/ \E due \in BOOLEAN : Cleanup(due)
         \/ TickCheck
  PROVE  RelayInv'
<1>1. ASSUME NEW r \in Players, BeginRecipient(r) PROVE RelayInv'
  <2>1. /\ tickPc = "serve" /\ tickPc' = "build" /\ recipient' = r
        /\ ackCopy' = ackedFrames[r]
        /\ UNCHANGED <<inputs, ackedFrames, job, packet, sent, clobbered, overPruned>>
    BY <1>1 DEF BeginRecipient, relay, ghosts
  <2>2. \A p \in Peers : /\ Published(p)' = Published(p)
                         /\ Stored(p)' = Stored(p)
                         /\ Needed(p)' \subseteq Needed(p)
    BY <2>1 DEF Published, Stored, Needed, MayBeNeeded, AcksInHand
  <2>3. AcksFollowSends'
    <3>1. Serving' /\ recipient' \in Players
      BY <2>1 DEF Serving
    <3>2. QED BY <2>1, <3>1 DEF RelayInv, AcksFollowSends, FramesSent
  <2>4. PublishedIsStored'
    BY <2>1, <2>2 DEF RelayInv, PublishedIsStored
  <2>5. PredictionIsNew' /\ PublishedAgrees'
    BY <2>1, <2>2 DEF RelayInv, PredictionIsNew, PublishedAgrees
  <2>6. QED BY <2>3, <2>4, <2>5 DEF RelayInv
<1>2. ASSUME NEW p \in Peers, ServeReal(p) PROVE RelayInv'
  <2> DEFINE new == {<<f, inputs[p][f]>> : f \in Run(p, NextFrame(p))}
  <2>1. \A e \in new :
          /\ e[1] >= ackCopy[p] /\ e[2] = inputs[p][e[1]]
          /\ \A f \in Frames : ackCopy[p] < f /\ f <= e[1] => f \in Stored(p)
    <3> SUFFICES ASSUME NEW g \in Run(p, NextFrame(p))
                 PROVE  /\ g >= ackCopy[p]
                        /\ \A f \in Frames : ackCopy[p] < f /\ f <= g => f \in Stored(p)
      OBVIOUS
    <3>1. g \in Nat /\ g >= ackCopy[p] + 1 /\ \A h \in ackCopy[p] + 1 .. g : h \in Stored(p)
      BY Constants DEF Run, NextFrame, Frames
    <3>2. ackCopy[p] \in Nat
      BY Constants DEF TypeOK, Frames
    <3>3. QED BY <3>1, <3>2, Constants DEF Frames
  <2>2. /\ tickPc = "build" /\ tickPc' = "build"
        /\ packet' = [packet EXCEPT ![p] = new]
        /\ UNCHANGED <<inputs, ackedFrames, job, recipient, ackCopy, sent,
                       clobbered, overPruned>>
    BY <1>2 DEF ServeReal, ghosts
  <2> HIDE DEF new
  <2>3. QED BY <2>1, <2>2, PackStored
<1>3. ASSUME NEW p \in Peers, ServeRepeat(p) PROVE RelayInv'
  <2> DEFINE new == {<<ackCopy[p], Held(p, ackCopy[p])>>}
  <2>1. ackCopy[p] \in Frames /\ ackCopy[p] \in Nat
    BY Constants DEF TypeOK, Frames
  <2>2. Serving
    BY <1>3 DEF ServeRepeat, Serving
  <2>3. ASSUME ~overPruned[p], ackCopy[p] >= 1
        PROVE  Held(p, ackCopy[p]) = inputs[p][ackCopy[p]]
    <3>1. ackCopy[p] \in Needed(p)
      BY <2>1, <2>2, <2>3 DEF Needed
    <3>2. ackCopy[p] \in Stored(p)
      BY <2>1, <2>2, <2>3, <3>1, AckedStored
    <3>3. QED BY <3>2 DEF Held
  <2>4. ~overPruned[p] =>
          \A e \in new : e[1] >= 1 =>
            /\ e[1] >= ackCopy[p] /\ e[2] = inputs[p][e[1]]
            /\ \A f \in Frames : ackCopy[p] < f /\ f <= e[1] => f \in Stored(p)
    BY <2>1, <2>3, Constants DEF Frames
  <2>5. /\ tickPc = "build" /\ tickPc' = "build"
        /\ packet' = [packet EXCEPT ![p] = new]
        /\ UNCHANGED <<inputs, ackedFrames, job, recipient, ackCopy, sent,
                       clobbered, overPruned>>
    BY <1>3 DEF ServeRepeat, ghosts
  <2> HIDE DEF new
  <2>6. QED BY <2>4, <2>5, PackStored
<1>4. ASSUME NEW p \in Peers, BeginPredict(p) PROVE RelayInv'
  <2>1. /\ tickPc = "build" /\ tickPc' = "predict"
        /\ guess'.peer = p /\ guess'.frame = ackCopy[p] + 1
        /\ ackCopy[p] + 1 \notin Stored(p)
        /\ UNCHANGED <<inputs, ackedFrames, job, recipient, ackCopy, packet,
                       sent, clobbered, overPruned>>
    BY <1>4 DEF BeginPredict, NextMissing, NextFrame, relay, ghosts
  <2>2. Serving /\ Serving'
    BY <2>1 DEF Serving
  <2>3. \A q \in Peers : /\ Published(q)' = Published(q)
                         /\ Stored(q)' = Stored(q) /\ Needed(q)' = Needed(q)
    BY <2>1, <2>2 DEF Published, Stored, Needed, MayBeNeeded, AcksInHand
  <2>4. AcksFollowSends'
    BY <2>1, <2>2 DEF RelayInv, AcksFollowSends, FramesSent
  <2>5. PublishedIsStored' /\ PublishedAgrees'
    BY <2>1, <2>3 DEF RelayInv, PublishedIsStored, PublishedAgrees
  <2>6. ackCopy[p] \in Nat
    BY Constants DEF TypeOK, Frames
  <2>7. ASSUME ~overPruned[p], NEW e \in Published(p) PROVE e[1] < ackCopy[p] + 1
    <3>1. e[1] \in Nat /\ e[1] \in Frames
      BY PublishedType
    <3>2. SUFFICES ASSUME ackCopy[p] + 1 <= e[1] PROVE FALSE
      BY <2>6, <3>1
    <3>3. ackCopy[p] + 1 \in Needed(p)
      BY <2>2, <2>6, <3>1, <3>2, Constants DEF Needed, Frames
    <3>4. ackCopy[p] + 1 \in Stored(p)
      BY <2>1, <2>7, <3>2, <3>3 DEF RelayInv, PublishedIsStored
    <3>5. QED BY <2>1, <3>4
  <2>8. guess.peer' = p /\ guess.frame' = ackCopy[p] + 1
    BY <2>1
  <2>9. PredictionIsNew'
    BY <2>1, <2>3, <2>6, <2>7, <2>8 DEF PredictionIsNew
  <2>10. QED BY <2>4, <2>5, <2>9 DEF RelayInv
<1>5. ASSUME EndPredict PROVE RelayInv'
  <2>1. /\ tickPc = "predict" /\ tickPc' = "build"
        /\ UNCHANGED <<inputs, ackedFrames, job, recipient, ackCopy, packet,
                       sent, clobbered, overPruned>>
    BY <1>5 DEF EndPredict, relay, ghosts
  <2>2. AcksFollowSends'
    BY <2>1 DEF RelayInv, AcksFollowSends, FramesSent, Serving
  <2>3. PublishedIsStored'
    BY <2>1 DEF RelayInv, PublishedIsStored, Published, Stored, Needed,
       MayBeNeeded, AcksInHand, Serving
  <2>4. PredictionIsNew' /\ PublishedAgrees'
    BY <2>1 DEF RelayInv, PredictionIsNew, PublishedAgrees, Published
  <2>5. QED BY <2>2, <2>3, <2>4 DEF RelayInv
<1>6. ASSUME NEW ok \in BOOLEAN, Send(ok) PROVE RelayInv'
  <2>1. /\ tickPc = "build" /\ tickPc' \in {"cleanup", "serve"}
        /\ packet' = NoPacket
        /\ UNCHANGED <<inputs, ackedFrames, job, clobbered, overPruned>>
    BY <1>6 DEF Send
  <2>2. /\ recipient \in Players
        /\ \/ sent' = sent
           \/ sent' = [sent EXCEPT ![recipient] =
                         [p \in Peers |-> sent[recipient][p] \cup packet[p]]]
    BY <1>6 DEF Send, RelayInv, AcksFollowSends, Serving
  <2>3. \A r \in Players, p \in Peers :
          /\ sent[r][p] \subseteq sent'[r][p]
          /\ sent'[r][p] \subseteq sent[r][p] \cup packet[p]
    BY <2>2 DEF TypeOK
  <2>4. \A p \in Peers : /\ Published(p)' \subseteq Published(p)
                         /\ Stored(p)' = Stored(p)
                         /\ Needed(p)' \subseteq Needed(p)
    <3>1. \A p \in Peers, f \in Frames : MayBeNeeded(p, f)' <=> MayBeNeeded(p, f)
      BY <2>1 DEF MayBeNeeded, AcksInHand
    <3>2. \A p \in Peers : Needed(p)' \subseteq Needed(p)
      BY <2>1, <3>1 DEF Needed, Serving
    <3>3. QED BY <2>1, <2>3, <3>2 DEF Published, Stored, NoPacket
  <2>5. AcksFollowSends'
    <3>1. \A r \in Players, p \in Peers : FramesSent(r, p) \subseteq FramesSent(r, p)'
      BY <2>3 DEF FramesSent
    <3>2. \A r \in Players, p \in Peers :
            1..ackedFrames'[r][p] \subseteq FramesSent(r, p)'
      BY <2>1, <3>1 DEF RelayInv, AcksFollowSends
    <3>3. \A w \in Workers : job[w].at = "ack" =>
            \A r \in Players, p \in Peers : r = job[w].player /\ p = job[w].peer =>
              1..job[w].frame \subseteq FramesSent(r, p)'
      BY <3>1 DEF RelayInv, AcksFollowSends
    <3>4. \A w \in Workers : job[w].at = "ack" =>
            job[w].player \in Players /\ job[w].peer \in Peers
      BY JobShape DEF AckJob
    <3>5. ~Serving' /\ packet' = NoPacket'
      BY <2>1 DEF Serving, NoPacket
    <3>6. job' = job
      BY <2>1
    <3>7. QED BY <3>2, <3>3, <3>4, <3>5, <3>6 DEF AcksFollowSends
  <2>6. PublishedIsStored'
    BY <2>1, <2>4 DEF RelayInv, PublishedIsStored
  <2>7. PredictionIsNew' /\ PublishedAgrees'
    BY <2>1, <2>4 DEF RelayInv, PredictionIsNew, PublishedAgrees
  <2>8. QED BY <2>5, <2>6, <2>7 DEF RelayInv
<1>7. ASSUME NEW due \in BOOLEAN, Cleanup(due) PROVE RelayInv'
  <2> DEFINE gone(p) == IF due THEN Outdated(p) ELSE {}
  <2>1. /\ tickPc = "cleanup" /\ tickPc' = "check"
        /\ UNCHANGED <<ackedFrames, job, recipient, ackCopy, packet, sent, clobbered>>
    BY <1>7 DEF Cleanup, locals
  <2>2. \A p \in Peers, f \in Frames :
          inputs'[p][f] = IF f \in gone(p) THEN NoInput ELSE inputs[p][f]
    BY <1>7 DEF Cleanup
  <2>3. \A p \in Peers : ~overPruned'[p] =>
          /\ ~overPruned[p]
          /\ \A f \in gone(p) : ~MayBeNeeded(p, f)
    BY <1>7 DEF Cleanup
  <2>4. \A p \in Peers : Published(p)' = Published(p) /\ Needed(p)' = Needed(p)
    BY <2>1 DEF Published, Needed, MayBeNeeded, AcksInHand, Serving
  <2>5. \A p \in Peers : ~overPruned'[p] =>
          \A f \in Needed(p) : f \notin gone(p) /\ inputs'[p][f] = inputs[p][f]
    <3> SUFFICES ASSUME NEW p \in Peers, ~overPruned'[p], NEW f \in Needed(p)
                 PROVE  f \notin gone(p) /\ inputs'[p][f] = inputs[p][f]
      OBVIOUS
    <3>1. f \in Frames /\ MayBeNeeded(p, f)
      BY <2>1 DEF Needed, Serving
    <3>2. f \notin gone(p)
      BY <2>3, <3>1
    <3>3. QED BY <2>2, <3>1, <3>2
  <2> HIDE DEF gone
  <2>6. \A p \in Peers : ~overPruned'[p] =>
          \A f \in Needed(p) : f \in Stored(p) => f \in Stored(p)'
    BY <2>5 DEF Stored
  <2>7. AcksFollowSends'
    BY <2>1 DEF RelayInv, AcksFollowSends, FramesSent, Serving, NoPacket
  <2>8. PublishedIsStored'
    BY <2>1, <2>3, <2>4, <2>5, <2>6 DEF RelayInv, PublishedIsStored
  <2>9. PredictionIsNew' /\ PublishedAgrees'
    BY <2>1, <2>3, <2>4 DEF RelayInv, PredictionIsNew, PublishedAgrees
  <2>10. QED BY <2>7, <2>8, <2>9 DEF RelayInv
<1>8. ASSUME TickCheck PROVE RelayInv'
  <2>1. /\ tickPc \in {"check", "told"}
        /\ UNCHANGED <<ackedFrames, job, recipient, ackCopy, packet, guess, sent,
                       clobbered, overPruned>>
    BY <1>8 DEF TickCheck, locals, ghosts
  <2>2. CASE tickPc' = "wait" /\ UNCHANGED inputs
    <3>1. AcksFollowSends'
      BY <2>1, <2>2 DEF RelayInv, AcksFollowSends, FramesSent, Serving, NoPacket
    <3>2. PublishedIsStored'
      BY <2>1, <2>2 DEF RelayInv, PublishedIsStored, Published, Stored, Needed,
         MayBeNeeded, AcksInHand, Serving
    <3>3. PredictionIsNew' /\ PublishedAgrees'
      BY <2>1, <2>2 DEF RelayInv, PredictionIsNew, PublishedAgrees, Published
    <3>4. QED BY <3>1, <3>2, <3>3 DEF RelayInv
  <2>3. CASE tickPc' = "ended"
    <3>1. AcksFollowSends'
      BY <2>1, <2>3 DEF RelayInv, AcksFollowSends, FramesSent, Serving, NoPacket
    <3>2. PublishedIsStored' /\ PredictionIsNew' /\ PublishedAgrees'
      BY <2>1, <2>3 DEF RelayInv, PublishedIsStored, PredictionIsNew,
         PublishedAgrees, Published
    <3>3. QED BY <3>1, <3>2 DEF RelayInv
  <2>4. QED BY <1>8, <2>2, <2>3 DEF TickCheck
<1>9. QED BY <1>1, <1>2, <1>3, <1>4, <1>5, <1>6, <1>7, <1>8

\* The four facts together are invariant.
THEOREM RelayInvariant == Spec => []RelayInv
<1>1. Init => RelayInv
  <2> SUFFICES ASSUME Init PROVE RelayInv
    OBVIOUS
  <2>1. AcksFollowSends
    BY Constants DEF Init, AcksFollowSends, NoAck, Serving, Idle
  <2>2. \A p \in Peers : Published(p) = {}
    BY DEF Init, Published, NoPacket
  <2>3. PublishedIsStored /\ PublishedAgrees
    BY <2>2 DEF PublishedIsStored, PublishedAgrees
  <2>4. PredictionIsNew
    BY DEF Init, PredictionIsNew
  <2>5. QED BY <2>1, <2>3, <2>4 DEF RelayInv
<1>2. TypeOK /\ TypeOK' /\ RelayInv /\ [Next]_vars => RelayInv'
  <2> SUFFICES ASSUME TypeOK, TypeOK', RelayInv, [Next]_vars PROVE RelayInv'
    OBVIOUS
  <2>1. ASSUME NEW w \in Workers, NEW p \in Players, NEW d \in Datagrams[p],
               ReceiveInput(w, p, d)
        PROVE  RelayInv'
    <3>1. d \in [first : Frames, last : Frames, clientFrame : ClientFrames]
      BY <2>1, Constants
    <3>2. HandleFrame(p, d.first, d.last) \in Job \cup {Idle}
      BY <3>1, Constants, HandleFrameType DEF Frames
    <3>3. NoNewAcks
      BY <2>1, <3>2, InputJob DEF ReceiveInput
    <3>4. /\ UNCHANGED <<inputs, ackedFrames, recipient, ackCopy, packet, guess,
                         sent, clobbered, overPruned>>
          /\ tickPc' = tickPc
      BY <2>1 DEF ReceiveInput, locals, ghosts
    <3>5. QED BY <3>3, <3>4, Unaffected
  <2>2. ASSUME NEW w \in Workers, FindInput(w) PROVE RelayInv'
    <3>1. job[w] \in Job
      BY <2>2, JobShape DEF FindInput
    <3>2. HandleFrame(job[w].player, job[w].frame + 1, job[w].last) \in Job \cup {Idle}
      BY <3>1, Constants, HandleFrameType DEF Job, Frames
    <3>3. [job[w] EXCEPT !.at = "insert"] \in Job
      BY <3>1 DEF Job
    <3>4. NoNewAcks
      <4>1. PICK j \in Job \cup {Idle} : job' = [job EXCEPT ![w] = j]
        BY <2>2, <3>2, <3>3 DEF FindInput
      <4>2. QED BY <4>1, InputJob
    <3>5. QED BY <2>2, <3>4, Unaffected DEF FindInput, relay, locals, ghosts
  <2>3. ASSUME NEW w \in Workers, NEW r \in Players, NEW p \in Peers,
               NEW a \in Frames, ReceiveAck(w, r, p, a)
        PROVE  RelayInv'
    BY <2>3, AckReceived
  <2>4. ASSUME NEW w \in Workers, NEW p \in Players, Disconnecting(w, p)
        PROVE  RelayInv'
    BY <2>4, Unaffected DEF NoNewAcks, Disconnecting, locals, ghosts
  <2>5. ASSUME NEW silent \in SUBSET Players, TickStart(silent) PROVE RelayInv'
    BY <2>5, Unaffected DEF NoNewAcks, TickStart, ghosts
  <2>6. ASSUME NEW r \in Players, NEW ok \in BOOLEAN, SendStartGame(r, ok)
        PROVE  RelayInv'
    BY <2>6, Unaffected DEF NoNewAcks, SendStartGame, ghosts
  <2>7. ASSUME UNCHANGED vars PROVE RelayInv'
    BY <2>7, Unaffected DEF NoNewAcks, vars, relay, locals, ghosts
  <2>8. QED
    BY <2>1, <2>2, <2>3, <2>4, <2>5, <2>6, <2>7, InsertPreserves, AckWritten,
       PredictPreserves, TickPreserves DEF Next, Tick, Handle
<1>3. QED
  BY <1>1, <1>2, TypeCorrect, PTL DEF Spec

\* Clients never disagree about the past.
THEOREM AgreementHolds == Spec => []Agreement
<1>1. RelayInv => Agreement
  BY DEF RelayInv, PublishedAgrees, Published, Agreement
<1>2. QED BY <1>1, RelayInvariant, PTL

\* A frame that has been sent keeps its stored value.
THEOREM SentFramesStay == Spec => SentFramesImmutable
<1> DEFINE Stays(p, f) ==
      (/\ inputs[p][f] # NoInput
       /\ \E r \in Players : f \in FramesSent(r, p)
       /\ ~overPruned[p] /\ f \notin clobbered'[p])
        => inputs'[p][f] \in {inputs[p][f], NoInput}
<1>1. TypeOK /\ RelayInv /\ [Next]_vars =>
        [\A p \in Peers, f \in Frames \ {0} : Stays(p, f)]_vars
  <2> SUFFICES ASSUME TypeOK, RelayInv, Next,
                      NEW p \in Peers, NEW f \in Frames \ {0},
                      inputs[p][f] # NoInput, ~overPruned[p], f \notin clobbered'[p],
                      NEW r \in Players, f \in FramesSent(r, p)
               PROVE  inputs'[p][f] \in {inputs[p][f], NoInput}
    OBVIOUS
  <2>1. CASE UNCHANGED inputs
    BY <2>1
  <2>2. ASSUME NEW w \in Workers, InsertInput(w)
        PROVE  inputs'[p][f] \in {inputs[p][f], NoInput}
    <3>1. job[w].player \in Peers /\ job[w].frame \in Frames
      BY <2>2, JobShape DEF InsertInput, Job
    <3>2. QED BY <2>2, <3>1 DEF InsertInput, TypeOK
  <2>3. CASE PredictFrame
    <3>1. PICK e \in sent[r][p] : e[1] = f
      BY DEF FramesSent
    <3>2. guess.peer = p => f < guess.frame
      BY <2>3, <3>1 DEF PredictFrame, RelayInv, PredictionIsNew, Published
    <3>3. guess.frame \in Nat /\ f \in Nat
      BY Constants DEF TypeOK, ClientFrames, Frames
    <3>4. QED BY <2>3, <3>2, <3>3 DEF PredictFrame, TypeOK
  <2>4. ASSUME NEW due \in BOOLEAN, Cleanup(due)
        PROVE  inputs'[p][f] \in {inputs[p][f], NoInput}
    BY <2>4 DEF Cleanup
  <2>5. CASE TickCheck
    BY <2>5 DEF TickCheck
  <2>6. QED
    BY <2>1, <2>2, <2>3, <2>4, <2>5
    DEF Next, Tick, Handle, ReceiveInput, FindInput, ReceiveAck, WriteAck, Disconnecting,
        TickStart, SendStartGame, BeginRecipient, ServeReal, ServeRepeat,
        BeginPredict, EndPredict, Send, relay
<1>2. QED
  BY <1>1, TypeCorrect, RelayInvariant, PTL DEF Spec, SentFramesImmutable
-----------------------------------------------------------------------------
(* The gate.                                                               *)

\* Every set of natural numbers that is not empty has a least element.
LEMMA LeastElement ==
  ASSUME NEW S \in SUBSET Nat, S # {}
  PROVE  \E m \in S : \A n \in S : m <= n
<1> DEFINE R == OpToRel(<, Nat)
<1>1. IsWellFoundedOn(R, Nat)
  BY NatLessThanWellFounded
<1> HIDE DEF R
<1>2. PICK m \in S : \A n \in S : <<n, m>> \notin R
  BY <1>1, WFMin
<1>3. \A n \in S : ~(n < m)
  BY <1>2 DEF R, OpToRel
<1>4. QED BY <1>2, <1>3

\* ... and if it is bounded, a greatest one.
LEMMA GreatestElement ==
  ASSUME NEW b \in Nat, NEW S \in SUBSET (0..b), S # {}
  PROVE  \E m \in S : \A n \in S : n <= m
<1> DEFINE T == {b - n : n \in S}
<1>1. T \in SUBSET Nat
  <2>1. \A n \in S : b - n \in Nat
    OBVIOUS
  <2>2. QED BY <2>1
<1>2. T # {}
  <2>1. PICK n \in S : TRUE
    OBVIOUS
  <2>2. b - n \in T
    OBVIOUS
  <2>3. QED BY <2>2
<1>3. PICK t \in T : \A u \in T : t <= u
  BY <1>1, <1>2, LeastElement
<1>4. PICK m \in S : t = b - m
  BY <1>3
<1>5. \A n \in S : b - m <= b - n
  BY <1>3, <1>4
<1>6. QED BY <1>4, <1>5

\* Sets of frames are finite, and a part is not larger than the whole.
LEMMA FiniteParts ==
  ASSUME NEW S \in SUBSET Frames
  PROVE  IsFiniteSet(S) /\ Cardinality(S) \in Nat
<1>1. IsFiniteSet(Frames)
  BY MaxFrameAssumption, FS_Interval DEF Frames
<1>2. QED BY <1>1, FS_Subset, FS_CardinalityType

LEMMA SmallerPart ==
  ASSUME NEW S \in SUBSET Frames, NEW T \in SUBSET S
  PROVE  Cardinality(T) <= Cardinality(S)
BY FiniteParts, FS_Subset

\* What the cleanup keeps of a map: everything, or at least PruneKeep entries.
LEMMA CleanupKeeps ==
  ASSUME TypeOK, NEW p \in Peers
  PROVE  \/ Outdated(p) = {}
         \/ Cardinality(Stored(p) \ Outdated(p)) >= PruneKeep
<1>1. Stored(p) \in SUBSET (0..MaxFrame) /\ Outdated(p) \in SUBSET (0..MaxFrame)
  BY DEF Stored, Outdated, Frames
<1>2. SUFFICES ASSUME Outdated(p) # {}
               PROVE  Cardinality(Stored(p) \ Outdated(p)) >= PruneKeep
  OBVIOUS
<1>3. PICK m \in Outdated(p) : \A f \in Outdated(p) : f <= m
  BY <1>1, <1>2, GreatestElement, MaxFrameAssumption
<1> DEFINE Later == {g \in Stored(p) : g > m}
<1>4. Later \in SUBSET (Stored(p) \ Outdated(p))
  BY <1>1, <1>3
<1>5. Cardinality(Later) >= PruneKeep
  BY <1>3 DEF Outdated
<1>6. Cardinality(Later) <= Cardinality(Stored(p) \ Outdated(p))
  BY <1>1, <1>4, SmallerPart DEF Frames
<1>7. Cardinality(Later) \in Nat /\ Cardinality(Stored(p) \ Outdated(p)) \in Nat
  BY <1>1, FiniteParts DEF Frames
<1> HIDE DEF Later
<1>8. QED BY <1>5, <1>6, <1>7, LimitsAssumption

\* The cleanup removes what is outdated; every other step that does not end the
\* match leaves each entry of the maps in place, perhaps with another value.
LEMMA StoredAfter ==
  ASSUME TypeOK, [Next]_vars, tickPc' # "ended", NEW p \in Peers
  PROVE  \/ Stored(p) \subseteq Stored(p)'
         \/ Stored(p)' = Stored(p) \ Outdated(p)
<1>1. CASE \E w \in Workers : InsertInput(w)
  <2>1. PICK w \in Workers : InsertInput(w)
    BY <1>1
  <2>2. job[w] \in Job
    BY <2>1, JobShape DEF InsertInput
  <2>3. ClientInput[job[w].player][job[w].frame] # NoInput
    BY <2>2, Constants DEF Job, Value, NoInput
  <2>4. QED BY <2>1, <2>3 DEF InsertInput, Stored, TypeOK
<1>2. CASE PredictFrame
  <2>1. guess.value # NoInput
    BY DEF TypeOK, Value, NoInput
  <2>2. QED BY <1>2, <2>1 DEF PredictFrame, Stored, TypeOK
<1>3. CASE \E due \in BOOLEAN : Cleanup(due)
  <2>1. PICK due \in BOOLEAN : Cleanup(due)
    BY <1>3
  <2>2. CASE due
    BY <2>1, <2>2 DEF Cleanup, Stored, Outdated
  <2>3. CASE ~due
    BY <2>1, <2>3 DEF Cleanup, Stored
  <2>4. QED BY <2>2, <2>3
<1>4. CASE TickCheck
  BY <1>4 DEF TickCheck, Stored
<1>5. CASE UNCHANGED inputs
  BY <1>5 DEF Stored
<1>6. \/ \E w \in Workers : InsertInput(w)
      \/ PredictFrame \/ (\E due \in BOOLEAN : Cleanup(due)) \/ TickCheck
      \/ UNCHANGED inputs
  BY DEF Next, Handle, Tick, ReceiveInput, FindInput, WriteAck, ReceiveAck, Disconnecting,
     TickStart, SendStartGame, BeginRecipient, ServeReal, ServeRepeat, BeginPredict,
     EndPredict, Send, vars, relay
<1>7. QED BY <1>1, <1>2, <1>3, <1>4, <1>5, <1>6

\* Once relaying has begun, no cleanup and no other step closes the gate again,
\* provided that the cleanup keeps as many inputs as the gate asks for (150, 10).
THEOREM RelayStaysOpen ==
  ASSUME MinHistory <= PruneKeep
  PROVE  Spec => GateStaysOpen
<1>1. TypeOK /\ [Next]_vars => [GateOpen /\ tickPc' # "ended" => GateOpen']_vars
  <2> SUFFICES ASSUME TypeOK, [Next]_vars, GateOpen, tickPc' # "ended", NEW p \in Peers
               PROVE  Cardinality(Stored(p)') >= MinHistory
    BY DEF GateOpen
  <2>1. Stored(p) \in SUBSET Frames /\ Stored(p)' \in SUBSET Frames
    BY DEF Stored
  <2>2. Cardinality(Stored(p)) \in Nat /\ Cardinality(Stored(p)') \in Nat
    BY <2>1, FiniteParts
  <2>3. Cardinality(Stored(p)) >= MinHistory
    BY DEF GateOpen
  <2>4. CASE Stored(p) \subseteq Stored(p)'
    <3>1. Cardinality(Stored(p)) <= Cardinality(Stored(p)')
      BY <2>1, <2>4, SmallerPart
    <3>2. QED BY <2>2, <2>3, <3>1, LimitsAssumption
  <2>5. CASE Stored(p)' = Stored(p) \ Outdated(p)
    <3>1. CASE Outdated(p) = {}
      <4>1. Stored(p)' = Stored(p)
        BY <2>5, <3>1
      <4>2. QED BY <2>3, <4>1
    <3>2. CASE Cardinality(Stored(p) \ Outdated(p)) >= PruneKeep
      BY <2>2, <2>5, <3>2, LimitsAssumption
    <3>3. QED BY <3>1, <3>2, CleanupKeeps
  <2>6. QED BY <2>4, <2>5, StoredAfter
<1>2. QED BY <1>1, TypeCorrect, PTL DEF Spec, GateStaysOpen

-----------------------------------------------------------------------------
(* What it takes to overwrite an entry.                                    *)

\* While a handler is about to insert a frame it found missing, the prediction
\* loop is not about to store that frame.
PredictsApart ==
  \A w \in Workers : job[w].at = "insert" =>
    ~ /\ tickPc = "predict" /\ MorePredictions
      /\ guess.peer = job[w].player /\ guess.frame = job[w].frame

\* The entry is then still missing, or another handler stored the same input.
InsertsFit ==
  /\ \A w \in Workers : job[w].at = "insert" =>
       inputs[job[w].player][job[w].frame] \in
         {NoInput, ClientInput[job[w].player][job[w].frame]}
  /\ StoredInputsSkipped

LEMMA InsertsFitStep ==
  ASSUME TypeOK, InsertsFit, PredictsApart, [Next]_vars
  PROVE  InsertsFit'
<1>1. /\ job \in [Workers -> Jobs] /\ inputs \in [Peers -> [Frames -> Entry]]
  BY DEF TypeOK
<1>2. ASSUME NEW w \in Workers, job[w].at = "insert"
      PROVE  job[w] \in Job
  BY <1>2, JobShape
<1>3. CASE UNCHANGED <<inputs, clobbered>> /\ \A w \in Workers : job'[w].at = "insert" => job'[w] = job[w]
  BY <1>3 DEF InsertsFit, StoredInputsSkipped
<1>4. ASSUME NEW w \in Workers,
             \/ \E p \in Players : \E d \in Datagrams[p] : ReceiveInput(w, p, d)
             \/ \E r \in Players, p \in Peers, a \in Frames : ReceiveAck(w, r, p, a)
             \/ \E p \in Players : Disconnecting(w, p)
             \/ WriteAck(w)
      PROVE  InsertsFit'
  <2>1. UNCHANGED <<inputs, clobbered>>
    BY <1>4 DEF ReceiveInput, ReceiveAck, Disconnecting, WriteAck, relay, ghosts
  <2>2. \A x \in Workers : job'[x].at = "insert" => job'[x] = job[x]
    BY <1>1, <1>4 DEF ReceiveInput, ReceiveAck, Disconnecting, WriteAck, HandleFrame, Idle
  <2>3. QED BY <1>3, <2>1, <2>2
<1>5. ASSUME NEW w \in Workers, FindInput(w)
      PROVE  InsertsFit'
  <2>1. UNCHANGED <<inputs, clobbered>>
    BY <1>5 DEF FindInput, relay, ghosts
  <2>2. job[w] \in Job
    BY <1>5, JobShape DEF FindInput
  <2>3. job'[w].at = "insert" => inputs[job'[w].player][job'[w].frame] = NoInput
    <3>1. CASE AlreadyStored(job[w])
      BY <1>1, <1>5, <3>1 DEF FindInput, HandleFrame, Idle
    <3>2. CASE ~AlreadyStored(job[w])
      <4>1. job'[w].player = job[w].player /\ job'[w].frame = job[w].frame
        BY <1>1, <1>5, <2>2, <3>2 DEF FindInput, Job
      <4>2. QED BY <3>2, <4>1 DEF AlreadyStored
    <3>3. QED BY <3>1, <3>2
  <2>4. \A x \in Workers \ {w} : job'[x] = job[x]
    BY <1>1, <1>5 DEF FindInput
  <2>5. QED BY <2>1, <2>3, <2>4 DEF InsertsFit, StoredInputsSkipped
<1>6. ASSUME NEW w \in Workers, InsertInput(w)
      PROVE  InsertsFit'
  <2> DEFINE p == job[w].player
             f == job[w].frame
  <2>1. job[w].at = "insert" /\ p \in Peers /\ f \in Frames
    BY <1>2, <1>6 DEF InsertInput, Job
  <2>2. clobbered' = clobbered
    BY <1>6, <2>1 DEF InsertInput, InsertsFit
  <2>3. job'[w].at # "insert"
    BY <1>1, <1>6 DEF InsertInput, HandleFrame, Idle
  <2>4. inputs' = [inputs EXCEPT ![p][f] = ClientInput[p][f]]
    BY <1>6 DEF InsertInput
  <2>5. ASSUME NEW x \in Workers \ {w}, job'[x].at = "insert"
        PROVE  inputs'[job'[x].player][job'[x].frame] \in
                 {NoInput, ClientInput[job'[x].player][job'[x].frame]}
    <3>1. job'[x] = job[x]
      BY <1>1, <1>6 DEF InsertInput
    <3>2. job[x].player \in Peers /\ job[x].frame \in Frames
      BY <1>2, <2>5, <3>1 DEF Job
    <3>3. inputs[job[x].player][job[x].frame] \in {NoInput, ClientInput[job[x].player][job[x].frame]}
      BY <2>5, <3>1 DEF InsertsFit
    <3> HIDE DEF p, f
    <3>4. inputs'[job[x].player][job[x].frame] =
            IF job[x].player = p /\ job[x].frame = f THEN ClientInput[p][f]
                                                     ELSE inputs[job[x].player][job[x].frame]
      BY <1>1, <2>1, <2>4, <3>2
    <3>5. QED BY <3>1, <3>3, <3>4
  <2>6. QED BY <2>2, <2>3, <2>5 DEF InsertsFit, StoredInputsSkipped
<1>7. CASE PredictFrame
  <2>1. /\ tickPc = "predict" /\ MorePredictions /\ job' = job /\ clobbered' = clobbered
        /\ inputs' = [inputs EXCEPT ![guess.peer][guess.frame] = guess.value]
    BY <1>7 DEF PredictFrame, ghosts
  <2>2. ASSUME NEW x \in Workers, job[x].at = "insert"
        PROVE  inputs'[job[x].player][job[x].frame] = inputs[job[x].player][job[x].frame]
    <3>1. job[x].player \in Peers /\ job[x].frame \in Frames
      BY <1>2, <2>2 DEF Job
    <3>2. guess.peer # job[x].player \/ guess.frame # job[x].frame
      BY <2>1, <2>2 DEF PredictsApart
    <3>3. QED BY <1>1, <2>1, <3>1, <3>2
  <2>3. QED BY <2>1, <2>2 DEF InsertsFit, StoredInputsSkipped
<1>8. CASE (\E due \in BOOLEAN : Cleanup(due)) \/ TickCheck
  <2>1. job' = job /\ clobbered' = clobbered
    BY <1>8 DEF Cleanup, TickCheck, ghosts
  <2>2. \A q \in Peers, g \in Frames : inputs'[q][g] \in {NoInput, inputs[q][g]}
    BY <1>8 DEF Cleanup, TickCheck
  <2>3. \A x \in Workers : job[x].at = "insert" => job[x].player \in Peers /\ job[x].frame \in Frames
    BY <1>2 DEF Job
  <2>4. QED BY <2>1, <2>2, <2>3 DEF InsertsFit, StoredInputsSkipped
<1>9. CASE \/ \E silent \in SUBSET Players : TickStart(silent)
           \/ \E r \in Players, ok \in BOOLEAN : SendStartGame(r, ok)
           \/ \E r \in Players : BeginRecipient(r)
           \/ \E p \in Peers : ServeReal(p) \/ ServeRepeat(p) \/ BeginPredict(p)
           \/ EndPredict \/ \E ok \in BOOLEAN : Send(ok)
           \/ UNCHANGED vars
  <2>1. UNCHANGED <<inputs, clobbered, job>>
    BY <1>9 DEF TickStart, SendStartGame, BeginRecipient, ServeReal, ServeRepeat,
      BeginPredict, EndPredict, Send, vars, relay, ghosts
  <2>2. QED BY <1>3, <2>1
<1>10. QED BY <1>4, <1>5, <1>6, <1>7, <1>8, <1>9 DEF Next, Handle, Tick

\* The one way to overwrite a stored input is the race with the prediction loop:
\* without it no handler does, however many workers run handlers side by side.
THEOREM OnlyPredictionsOverwritten == Spec /\ []PredictsApart => []StoredInputsSkipped
<1>1. Init => InsertsFit
  BY DEF Init, InsertsFit, StoredInputsSkipped, NoPacket, Idle
<1>2. TypeOK /\ InsertsFit /\ PredictsApart /\ [Next]_vars => InsertsFit'
  BY InsertsFitStep
<1>3. InsertsFit => StoredInputsSkipped
  BY DEF InsertsFit
<1>4. QED BY <1>1, <1>2, <1>3, TypeCorrect, PTL DEF Spec
=============================================================================
