---------------------------- MODULE InputRelay ----------------------------
(***************************************************************************)
(* The input relay of one running match (rollback_server.cpp: the Input,   *)
(* PlayerInputAck and Disconnecting handlers, tick() and the end of        *)
(* runTickLoop()).                                                         *)
(*                                                                         *)
(* Clients send the server the inputs of their own frames; on every tick   *)
(* the server sends every client the frames of every player that the       *)
(* client has not acknowledged.  When a player's next frame is missing the *)
(* server first repeats the last acknowledged frame and, after MissLimit   *)
(* misses, invents the missing frames, stores its inventions as if the     *)
(* player had sent them, and relays them.  Rollback netcode works only if  *)
(* every client ends up with the same input for the same frame.            *)
(*                                                                         *)
(* Two io_context worker threads run the datagram handlers and the tick    *)
(* coroutine.  A handler keeps its worker until it returns; the tick keeps *)
(* its worker from one co_await to the next.  Each access to an input map  *)
(* is atomic (ThreadSafeMap locks it); sequences of accesses are not.      *)
(***************************************************************************)
EXTENDS Integers, FiniteSets

CONSTANTS
  Players,       \* the players of the match, already joined and ready
  Peers,         \* those whose inputs are followed: Players, or fewer to check
                 \* a slice, since the maps of two players never interact
  NoPlayer,      \* no recipient is being served
  Workers,       \* the threads that run the io_context
  MaxFrame,      \* bound: the highest frame number the clients reach
  ClientInput,   \* ClientInput[p][f]: what p's client plays in frame f
  Datagrams,     \* Datagrams[p]: the Input messages that p's client sends
  MinHistory,    \* inputs each player must have stored before relaying: 10
  MissLimit,     \* ticks a missing frame is repeated before it is invented: 10
  MaxPerPacket,  \* MAX_INPUTS_PER_FRAME: 30
  PruneKeep      \* entries of an input map that the periodic cleanup keeps: 150

Frames == 0..MaxFrame
ClientFrames == 0..MaxFrame + 1      \* what a client may say it is in
NoInput == -1                       \* the map has no entry for the frame
Value == Nat
Entry == Value \cup {NoInput}

ASSUME MaxFrameAssumption == MaxFrame \in Nat
ASSUME PlayersAssumption == Peers \subseteq Players /\ NoPlayer \notin Players
ASSUME ClientInputAssumption == ClientInput \in [Peers -> [Frames -> Value]]
ASSUME DatagramsAssumption ==
  Datagrams \in
    [Players -> SUBSET [first : Frames, last : Frames, clientFrame : ClientFrames]]
ASSUME LimitsAssumption ==
  /\ MinHistory \in Nat /\ MissLimit \in Nat
  /\ MaxPerPacket \in Nat \ {0} /\ PruneKeep \in Nat

VARIABLES
  inputs,          \* inputs[p][f]: match->inputs, one map per player
  ackedFrames,     \* ackedFrames[r][p]: highest frame of p that r acknowledged
  missedInputs,    \* missedInputs[r][p]: consecutive repeats of p's frame to r
  lastClientFrame, \* lastClientFrame[p]: the frame p's client says it is in
  disconnected,    \* disconnected[p]
  job,             \* job[w]: the handler that worker w is running
  tickPc,          \* where the tick coroutine is
  todo,            \* recipients this tick has still to serve
  recipient,       \* the recipient being served
  ackCopy,         \* tick()'s copy of recipient->ackedFrames
  frameCopy,       \* tick()'s copy of recipient->lastClientFrame
  peers,           \* peers whose frames are not yet in the packet
  packet,          \* packet[p]: <<frame, value>> pairs put in the packet
  guess,           \* the prediction loop: the peer, the frame and the value
  sent,            \* history: sent[r][p], every pair ever sent to r about p
  clobbered,       \* history: frames of p that a handler overwrote
  overPruned       \* history: the cleanup removed a frame of p that a
                   \* recipient may still need

relay  == <<inputs, ackedFrames, missedInputs, lastClientFrame, disconnected>>
locals == <<todo, recipient, ackCopy, frameCopy, peers, packet, guess>>
ghosts == <<sent, clobbered, overPruned>>
vars   == <<relay, job, tickPc, locals, ghosts>>

-----------------------------------------------------------------------------
(* Helpers.                                                                *)

Stored(p) == {f \in Frames : inputs[p][f] # NoInput}

\* tick() relays only when every player has enough inputs stored.
GateOpen == \A p \in Peers : Cardinality(Stored(p)) >= MinHistory

FramesSent(r, p) == {e[1] : e \in sent[r][p]}

\* The acknowledgements of p's frames that handlers are about to write.
AcksInHand(p) ==
  {job[w].frame : w \in {x \in Workers : job[x].at = "ack" /\ job[x].peer = p}}

\* A frame of p from some recipient's acknowledgement on.
MayBeNeeded(p, f) ==
  f >= 1 /\ (\/ \E r \in Players : f >= ackedFrames[r][p]
             \/ \E a \in AcksInHand(p) : f >= a)

\* What a client that received every packet so far could acknowledge.
Contiguous(r, p) == {a \in Frames : 1..a \subseteq FramesSent(r, p)}

Idle == [at |-> "idle"]
Job  == [at : {"find", "insert"}, player : Peers, frame : Frames, last : Frames]
AckJob == [at : {"ack"}, player : Players, peer : Peers, frame : Frames]
Jobs == Job \cup AckJob \cup {Idle}

\* The handler's loop: on to frame f, or back to the io_context.
HandleFrame(p, f, last) ==
  IF f > last \/ p \notin Peers THEN Idle
  ELSE [at |-> "find", player |-> p, frame |-> f, last |-> last]

\* Elsewhere the tick waits: for the timer, or for a send to complete.
OnCpu == tickPc \in {"build", "predict", "check"}

\* A worker other than the one the tick occupies is free to take w's place.
CanRun(w) == job[w] = Idle /\ (OnCpu => \E x \in Workers \ {w} : job[x] = Idle)

NoAck    == [p \in Peers |-> 0]
NoPacket == [p \in Peers |-> {}]
NoGuess  == [peer |-> NoPlayer, frame |-> 0, value |-> 0]

Init ==
  /\ inputs = [p \in Peers |-> [f \in Frames |-> NoInput]]
  /\ ackedFrames = [r \in Players |-> NoAck]
  /\ missedInputs = [r \in Players |-> NoAck]
  /\ lastClientFrame = [p \in Players |-> 0]
  /\ disconnected = [p \in Players |-> FALSE]
  /\ job = [w \in Workers |-> Idle]
  /\ tickPc = "wait"
  /\ todo = {} /\ peers = {}
  /\ recipient = NoPlayer
  /\ ackCopy = NoAck /\ frameCopy = 0
  /\ packet = NoPacket /\ guess = NoGuess
  /\ sent = [r \in Players |-> NoPacket]
  /\ clobbered = NoPacket
  /\ overPruned = [p \in Peers |-> FALSE]

-----------------------------------------------------------------------------
(* The datagram handlers.  After the match ends its players are gone from  *)
(* players_, so handleMessage drops whatever they send.                    *)

\* handleClientInput up to the loop over the frames.
ReceiveInput(w, p, d) ==
  /\ tickPc # "ended" /\ CanRun(w)
  /\ lastClientFrame' = [lastClientFrame EXCEPT ![p] = d.clientFrame]
  /\ disconnected' = [disconnected EXCEPT ![p] = FALSE]
  /\ job' = [job EXCEPT ![w] = HandleFrame(p, d.first, d.last)]
  /\ UNCHANGED <<inputs, ackedFrames, missedInputs, tickPc, locals, ghosts>>

AlreadyStored_never(j) == FALSE

AlreadyStored(j) == inputs[j.player][j.frame] # NoInput

\* histMap.find(f): a frame that is already stored is skipped.
FindInput(w) ==
  /\ job[w].at = "find"
  /\ LET j == job[w] IN
       job' = [job EXCEPT ![w] =
                 IF AlreadyStored(j)
                 THEN HandleFrame(j.player, j.frame + 1, j.last)
                 ELSE [j EXCEPT !.at = "insert"]]
  /\ UNCHANGED <<relay, tickPc, locals, ghosts>>

\* histMap.insert_or_assign(f, ...): by now the map may have an entry for f.
InsertInput(w) ==
  /\ job[w].at = "insert"
  /\ LET p == job[w].player
         f == job[w].frame
     IN /\ inputs' = [inputs EXCEPT ![p][f] = ClientInput[p][f]]
        /\ clobbered' = IF inputs[p][f] \in {NoInput, ClientInput[p][f]}
                        THEN clobbered
                        ELSE [clobbered EXCEPT ![p] = @ \cup {f}]
        /\ job' = [job EXCEPT ![w] = HandleFrame(p, f + 1, job[w].last)]
  /\ UNCHANGED <<ackedFrames, missedInputs, lastClientFrame, disconnected,
                 tickPc, locals, sent, overPruned>>

Newer_orOlder(r, p, a) == a # ackedFrames[r][p]

Newer(r, p, a) == a > ackedFrames[r][p]

\* handlePlayerInputAck: an entry is replaced by a greater one only; a zero
\* is ignored.  The handler holds the player's lock in shared mode, so another
\* acknowledgement can be handled between the comparison and the assignment.
\* External: a client acknowledges a frame once it has all frames up to it.
ReceiveAck(w, r, p, a) ==
  /\ tickPc # "ended" /\ CanRun(w)
  /\ a \in Contiguous(r, p) /\ Newer(r, p, a)
  /\ job' = [job EXCEPT ![w] = [at |-> "ack", player |-> r, peer |-> p, frame |-> a]]
  /\ UNCHANGED <<relay, tickPc, locals, ghosts>>

WriteAck(w) ==
  /\ job[w].at = "ack"
  /\ ackedFrames' = [ackedFrames EXCEPT ![job[w].player][job[w].peer] = job[w].frame]
  /\ job' = [job EXCEPT ![w] = Idle]
  /\ UNCHANGED <<inputs, missedInputs, lastClientFrame, disconnected,
                 tickPc, locals, ghosts>>

\* The Disconnecting message.
Disconnecting(w, p) ==
  /\ tickPc # "ended" /\ CanRun(w)
  /\ disconnected' = [disconnected EXCEPT ![p] = TRUE]
  /\ UNCHANGED <<inputs, ackedFrames, missedInputs, lastClientFrame,
                 job, tickPc, locals, ghosts>>

-----------------------------------------------------------------------------
(* The tick coroutine.                                                     *)

FreeWorker == \E w \in Workers : job[w] = Idle

\* The timer fires.  Any player may have been silent for DISCONECT_TIMEOUT.
\* With too little history the tick only tells everyone to start the game.
TickStart(silent) ==
  /\ tickPc = "wait" /\ FreeWorker
  /\ disconnected' = [p \in Players |-> disconnected[p] \/ p \in silent]
  /\ tickPc' = IF GateOpen THEN "serve" ELSE "startGame"
  /\ todo' = Players
  /\ UNCHANGED <<inputs, ackedFrames, missedInputs, lastClientFrame, job,
                 recipient, ackCopy, frameCopy, peers, packet, guess, ghosts>>

\* sendServerMessage(StartGame): a send that throws disconnects the player.
\* Its co_await gives the worker back, also after the last player was told.
SendStartGame(r, ok) ==
  /\ tickPc = "startGame" /\ FreeWorker
  /\ r \in todo
  /\ disconnected' = [disconnected EXCEPT ![r] = @ \/ ~ok]
  /\ todo' = todo \ {r}
  /\ tickPc' = IF todo' = {} THEN "told" ELSE "startGame"
  /\ UNCHANGED <<inputs, ackedFrames, missedInputs, lastClientFrame, job,
                 recipient, ackCopy, frameCopy, peers, packet, guess, ghosts>>

\* The next recipient's fields are copied under its lock.
BeginRecipient(r) ==
  /\ tickPc = "serve" /\ FreeWorker
  /\ r \in todo
  /\ tickPc' = "build"
  /\ recipient' = r
  /\ ackCopy' = ackedFrames[r]
  /\ frameCopy' = lastClientFrame[r]
  /\ peers' = Peers
  /\ UNCHANGED <<relay, job, todo, packet, guess, ghosts>>

\* The frames of p from f on that the map holds without a gap.
Run(p, f) ==
  {g \in Frames : /\ f <= g /\ g < f + MaxPerPacket
                  /\ \A h \in f..g : h \in Stored(p)}

Held_asZero(p, f) == 0

Held(p, f) == IF f \in Stored(p) THEN inputs[p][f] ELSE 0

NextFrame_skipping(p) == ackCopy[p] + 2

NextFrame(p) == ackCopy[p] + 1

GivenUp_late(p) == missedInputs[recipient][p] > MissLimit

GivenUp(p) == missedInputs[recipient][p] >= MissLimit

NextMissing_orGivenUp(p) == NextFrame(p) \notin Stored(p) \/ GivenUp(p)

NextMissing(p) == NextFrame(p) \notin Stored(p)

\* The next frame is stored: send it and whatever follows it without a gap.
ServeReal(p) ==
  /\ tickPc = "build" /\ p \in peers
  /\ ~NextMissing(p)
  /\ packet' = [packet EXCEPT ![p] =
                  {<<f, inputs[p][f]>> : f \in Run(p, NextFrame(p))}]
  /\ missedInputs' = [missedInputs EXCEPT ![recipient][p] = 0]
  /\ peers' = peers \ {p}
  /\ UNCHANGED <<inputs, ackedFrames, lastClientFrame, disconnected, job, tickPc,
                 todo, recipient, ackCopy, frameCopy, guess, ghosts>>

\* It is missing, but not for long: repeat the last acknowledged frame.
ServeRepeat(p) ==
  /\ tickPc = "build" /\ p \in peers
  /\ NextMissing(p) /\ ~GivenUp(p)
  /\ packet' = [packet EXCEPT ![p] = {<<ackCopy[p], Held(p, ackCopy[p])>>}]
  /\ missedInputs' = [missedInputs EXCEPT ![recipient][p] = @ + 1]
  /\ peers' = peers \ {p}
  /\ UNCHANGED <<inputs, ackedFrames, lastClientFrame, disconnected, job, tickPc,
                 todo, recipient, ackCopy, frameCopy, guess, ghosts>>

\* It has been missing for too long: invent it, up to the recipient's frame.
BeginPredict(p) ==
  /\ tickPc = "build" /\ p \in peers
  /\ NextMissing(p) /\ GivenUp(p)
  /\ tickPc' = "predict"
  /\ guess' = [peer |-> p, frame |-> NextFrame(p),
               value |-> Held(p, ackCopy[p])]
  /\ UNCHANGED <<relay, job, todo, recipient, ackCopy, frameCopy, peers,
                 packet, ghosts>>

MorePredictions_oneShort ==
  /\ guess.frame + 1 < frameCopy
  /\ guess.frame <= ackCopy[guess.peer] + MaxPerPacket

MorePredictions ==
  /\ guess.frame < frameCopy
  /\ guess.frame <= ackCopy[guess.peer] + MaxPerPacket

PredictFrame_notStored ==
  /\ tickPc = "predict" /\ MorePredictions
  /\ packet' = [packet EXCEPT ![guess.peer] = @ \cup {<<guess.frame, guess.value>>}]
  /\ guess' = [guess EXCEPT !.frame = @ + 1]
  /\ UNCHANGED <<relay, job, tickPc, todo, recipient, ackCopy, frameCopy, peers, ghosts>>

\* One iteration: the map has its own lock, so handlers run in between.
PredictFrame ==
  /\ tickPc = "predict" /\ MorePredictions
  /\ inputs' = [inputs EXCEPT ![guess.peer][guess.frame] = guess.value]
  /\ packet' = [packet EXCEPT ![guess.peer] = @ \cup {<<guess.frame, guess.value>>}]
  /\ guess' = [guess EXCEPT !.frame = @ + 1]
  /\ UNCHANGED <<ackedFrames, missedInputs, lastClientFrame, disconnected, job,
                 tickPc, todo, recipient, ackCopy, frameCopy, peers, ghosts>>

EndPredict ==
  /\ tickPc = "predict" /\ ~MorePredictions
  /\ tickPc' = "build"
  /\ peers' = peers \ {guess.peer}
  /\ guess' = NoGuess
  /\ UNCHANGED <<relay, job, todo, recipient, ackCopy, frameCopy, packet, ghosts>>

\* sendServerMessage: nothing goes to a disconnected player, and a send that
\* throws disconnects it.  co_await gives the worker back, also after the last
\* recipient, before the cleanup.
Send(ok) ==
  /\ tickPc = "build" /\ peers = {}
  /\ LET r == recipient
         delivered == ok /\ ~disconnected[r]
     IN /\ sent' = IF delivered
                   THEN [sent EXCEPT ![r] = [p \in Peers |-> @[p] \cup packet[p]]]
                   ELSE sent
        /\ disconnected' = [disconnected EXCEPT ![r] = @ \/ ~ok]
        /\ todo' = todo \ {r}
  /\ tickPc' = IF todo' = {} THEN "cleanup" ELSE "serve"
  /\ recipient' = NoPlayer
  /\ ackCopy' = NoAck /\ frameCopy' = 0
  /\ packet' = NoPacket
  /\ UNCHANGED <<inputs, ackedFrames, missedInputs, lastClientFrame, job,
                 peers, guess, clobbered, overPruned>>

Outdated_all(p) == IF Cardinality(Stored(p)) > PruneKeep THEN Stored(p) ELSE {}

\* The frames of p that have PruneKeep later entries.
Outdated(p) ==
  {f \in Stored(p) : Cardinality({g \in Stored(p) : g > f}) >= PruneKeep}

\* Every 200th frame the maps are cut to their last PruneKeep entries.
Cleanup(due) ==
  /\ tickPc = "cleanup" /\ FreeWorker
  /\ LET gone(p) == IF due THEN Outdated(p) ELSE {} IN
     /\ inputs' = [p \in Peers |-> [f \in Frames |->
                     IF f \in gone(p) THEN NoInput ELSE inputs[p][f]]]
     /\ overPruned' = [p \in Peers |->
          \/ overPruned[p]
          \/ \E f \in gone(p) : MayBeNeeded(p, f)]
  /\ tickPc' = "check"
  /\ UNCHANGED <<ackedFrames, missedInputs, lastClientFrame, disconnected, job,
                 locals, sent, clobbered>>

\* runTickLoop after tick(), on the same worker: the match ends when everyone is disconnected.
TickCheck ==
  /\ tickPc = "check" \/ (tickPc = "told" /\ FreeWorker)
  /\ IF \A p \in Players : disconnected[p]
     THEN /\ tickPc' = "ended"
          /\ inputs' = [p \in Peers |-> [f \in Frames |-> NoInput]]
     ELSE /\ tickPc' = "wait"
          /\ UNCHANGED inputs
  /\ UNCHANGED <<ackedFrames, missedInputs, lastClientFrame, disconnected, job,
                 locals, ghosts>>

-----------------------------------------------------------------------------
Handle(w) == FindInput(w) \/ InsertInput(w) \/ WriteAck(w)

Tick ==
  \/ \E silent \in SUBSET Players : TickStart(silent)
  \/ \E r \in Players, ok \in BOOLEAN : SendStartGame(r, ok)
  \/ \E r \in Players : BeginRecipient(r)
  \/ \E p \in Peers : ServeReal(p) \/ ServeRepeat(p) \/ BeginPredict(p)
  \/ PredictFrame \/ EndPredict
  \/ \E ok \in BOOLEAN : Send(ok)
  \/ \E due \in BOOLEAN : Cleanup(due)
  \/ TickCheck

Next ==
  \/ \E w \in Workers :
       \/ \E p \in Players : \E d \in Datagrams[p] : ReceiveInput(w, p, d)
       \/ \E r \in Players, p \in Peers, a \in Frames : ReceiveAck(w, r, p, a)
       \/ \E p \in Players : Disconnecting(w, p)
       \/ Handle(w)
  \/ Tick

Spec == Init /\ [][Next]_vars

\* A worker that runs a handler finishes it; the io_context queues whatever
\* is ready, so a tick that keeps finding a free worker is resumed; a client
\* that keeps being sent frames gets acknowledgements through in the end.
Fairness ==
  /\ \A w \in Workers : WF_vars(Handle(w))
  /\ SF_vars(Tick)
  /\ \A r \in Players, p \in Peers, f \in Frames :
       SF_vars(\E w \in Workers, a \in f..MaxFrame : ReceiveAck(w, r, p, a))

FairSpec == Spec /\ Fairness

-----------------------------------------------------------------------------
(* Properties.                                                             *)

\* Every variable stays in its type.
TypeOK ==
  /\ inputs \in [Peers -> [Frames -> Entry]]
  /\ ackedFrames \in [Players -> [Peers -> Frames]]
  /\ missedInputs \in [Players -> [Peers -> 0..MissLimit]]
  /\ lastClientFrame \in [Players -> ClientFrames]
  /\ disconnected \in [Players -> BOOLEAN]
  /\ job \in [Workers -> Jobs]
  /\ tickPc \in {"wait", "startGame", "told", "serve", "build", "predict", "cleanup",
                 "check", "ended"}
  /\ todo \in SUBSET Players /\ peers \in SUBSET Peers
  /\ recipient \in Players \cup {NoPlayer}
  /\ ackCopy \in [Peers -> Frames] /\ frameCopy \in ClientFrames
  /\ packet \in [Peers -> SUBSET (Frames \X Value)]
  /\ guess \in [peer : Peers \cup {NoPlayer}, frame : ClientFrames, value : Value]
  /\ sent \in [Players -> [Peers -> SUBSET (Frames \X Value)]]
  /\ clobbered \in [Peers -> SUBSET Frames]
  /\ overPruned \in [Peers -> BOOLEAN]

\* Clients never disagree about the past: whatever was lost, repeated,
\* invented or resent, all values the server ever sent for one frame of one
\* player, to any recipient and at any time, are the same.  Two things break
\* it and are excluded here: a handler overwriting an entry it had found
\* missing, and the cleanup removing a frame that a recipient has not
\* acknowledged.  (Frame 0 is the placeholder of the repeat branch.)
Agreement ==
  \A p \in Peers : ~overPruned[p] =>
    \A q, r \in Players : \A d \in sent[q][p], e \in sent[r][p] :
      (d[1] = e[1] /\ d[1] >= 1 /\ d[1] \notin clobbered[p]) => d[2] = e[2]

\* A frame that some client may have seen keeps its stored value: the
\* prediction loop, which overwrites without looking, never reaches it.
SentFramesImmutable ==
  [][\A p \in Peers, f \in Frames \ {0} :
       /\ inputs[p][f] # NoInput
       /\ \E r \in Players : f \in FramesSent(r, p)
       /\ ~overPruned[p] /\ f \notin clobbered'[p]
       => inputs'[p][f] \in {inputs[p][f], NoInput}]_vars

\* No client ever receives a frame before all earlier ones were sent to it.
NoGapsServed ==
  \A r \in Players, p \in Peers :
    \A f \in FramesSent(r, p) : 1..f \subseteq FramesSent(r, p)

\* Once relaying has begun the cleanup never closes the gate again, so a
\* running match is not thrown back to StartGame messages.
GateStaysOpen == [][GateOpen /\ tickPc' # "ended" => GateOpen']_vars

\* A silent peer does not stall the others: once relaying has begun, a client
\* that stays connected and plays on past frame f is sent frame f of every
\* player.  That GateOpen holds is a premise: a peer that falls silent before it
\* has MinHistory inputs stored stalls everyone (lines 919-937).
EventuallyServed ==
  \A r \in Players, p \in Peers, f \in Frames \ {0} :
    <>[](GateOpen /\ ~disconnected[r] /\ lastClientFrame[r] > f)
      => <>(f \in FramesSent(r, p))

\* A handler never overwrites an entry ("If we already have an input for
\* this frame, skip it").
StoredInputsSkipped == \A p \in Peers : clobbered[p] = {}

\* The relay implements the ledger: each packet that goes out extends one
\* client's gapless history, with values nobody contradicts before or after.
\* Frame 0 (the placeholder), frames a handler overwrote and players whose
\* needed frames the cleanup removed are exempt.
Ledger ==
  INSTANCE FrameLedger WITH
    Readers <- Players, Writers <- Peers, seen <- sent,
    exempt <- [p \in Peers |-> IF overPruned[p] THEN Frames \cup {0}
                                               ELSE clobbered[p] \cup {0}]

ImplementsLedger == Ledger!Spec

-----------------------------------------------------------------------------
(* The inductive invariant behind Agreement.                               *)

Serving == tickPc \in {"build", "predict"}

\* Whatever some client has seen of p's frames, or is about to be sent.
Published(p) == packet[p] \cup UNION {sent[r][p] : r \in Players}

\* The frames of p that some recipient, or the one being served, may need.
Needed(p) ==
  {f \in Frames : MayBeNeeded(p, f) \/ (Serving /\ f >= 1 /\ f >= ackCopy[p])}

\* An acknowledged frame, and all before it, were sent, and so were those of
\* the tick's copy and those that handlers are about to write; outside the
\* serving phase nothing is packed.
AcksFollowSends ==
  /\ \A r \in Players, p \in Peers : 1..ackedFrames[r][p] \subseteq FramesSent(r, p)
  /\ \A w \in Workers : job[w].at = "ack" =>
       1..job[w].frame \subseteq FramesSent(job[w].player, job[w].peer)
  /\ Serving => /\ recipient \in Players
                /\ \A p \in Peers : 1..ackCopy[p] \subseteq FramesSent(recipient, p)
  /\ ~Serving => packet = NoPacket

\* The map still holds every needed frame up to the last published one, and
\* holds it with the value that was published.
PublishedIsStored ==
  tickPc # "ended" =>
    \A p \in Peers : ~overPruned[p] =>
      \A e \in Published(p) :
        /\ \A f \in Needed(p) : f <= e[1] => f \in Stored(p)
        /\ e[1] \in Needed(p) \ clobbered[p] => inputs[p][e[1]] = e[2]

\* The prediction loop is past everything published and leaves no gap.
PredictionIsNew ==
  tickPc = "predict" =>
    /\ guess.peer \in Peers
    /\ guess.frame > ackCopy[guess.peer]
    /\ \A f \in ackCopy[guess.peer] + 1 .. guess.frame - 1 : f \in Stored(guess.peer)
    /\ ~overPruned[guess.peer] =>
         \A e \in Published(guess.peer) : e[1] < guess.frame

\* Agreement, extended to the packet being built.
PublishedAgrees ==
  \A p \in Peers : ~overPruned[p] =>
    \A d, e \in Published(p) :
      (d[1] = e[1] /\ d[1] >= 1 /\ d[1] \notin clobbered[p]) => d[2] = e[2]

RelayInv ==
  /\ AcksFollowSends /\ PublishedIsStored /\ PredictionIsNew /\ PublishedAgrees
=============================================================================
