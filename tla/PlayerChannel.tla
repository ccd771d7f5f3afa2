--------------------------- MODULE PlayerChannel ---------------------------
(***************************************************************************)
(* The messages between the server and one player of a match, in both      *)
(* directions (rollback_server.cpp: handleMessage's sequence filter,       *)
(* QualityData, the ping part of handlePlayerInputAck, startPingPhase,     *)
(* broadcastRequestQuality, the send of tick() and sendServerMessage).     *)
(*                                                                         *)
(* The server numbers its messages from one counter per match and files    *)
(* the time of a send under the message's number; the client's answer      *)
(* quotes the number, and the time that has passed since is its ping.      *)
(* Clients number their messages too, and the server drops every message   *)
(* that is not newer than the last one it handled.                         *)
(*                                                                         *)
(* Time is only compared, so the clock is the counter itself: a time stamp *)
(* is the number of the last message numbered before it was taken.  To     *)
(* this player the match's other players are nothing but other sends that  *)
(* use up numbers (SendOther).                                             *)
(***************************************************************************)
EXTENDS Integers, Sequences

CONSTANTS
  Workers,      \* the threads that run the io_context
  PingTotal,    \* rounds of the ping phase: 20
  MaxSeq,       \* bound: the server's message numbers
  MaxClientSeq  \* bound: the client's message numbers

ASSUME BoundsAssumption ==
  PingTotal \in Nat /\ MaxSeq \in Nat /\ MaxClientSeq \in Nat

NoStamp == -2                  \* pendingPings has no entry
Numbers == 0..MaxSeq
Stamps  == -1..MaxSeq          \* the counter starts one below 0

VARIABLES
  sequenceCounter,  \* match->sequenceCounter
  disconnected,     \* player->disconnected
  pendingPings,     \* player->pendingPings: the time filed under a number
  lastSeqRecv,      \* player->lastSeqRecv: the last client message let through
  tick,             \* where the tick coroutine is with its send to the player
  ping,             \* where the ping phase is with its request to the player
  pingPhaseCount,   \* match->pingPhaseCount
  job,              \* job[w]: the handler that worker w runs
  asked,            \* external: the numbers that the client can answer
  handled,          \* history: the client's messages handled, in order
  samples,          \* history: <<number, stamp>> of every ping measured
  wasLost           \* history: the player was marked disconnected before

player == <<disconnected, lastSeqRecv>>
sends  == <<tick, ping, pingPhaseCount>>
ghosts == <<handled, samples, wasLost>>
vars   == <<sequenceCounter, pendingPings, player, sends, job, asked, ghosts>>

Idle == [at |-> "idle"]

Message == [seq : 1..MaxClientSeq, kind : {"answer", "input", "disconnecting"},
            answers : Numbers]

Init ==
  /\ sequenceCounter = -1
  /\ disconnected = FALSE
  /\ pendingPings = [s \in Numbers |-> NoStamp]
  /\ lastSeqRecv = 0
  /\ tick = Idle /\ ping = Idle
  /\ pingPhaseCount = 0
  /\ job = [w \in Workers |-> Idle]
  /\ asked = {}
  /\ handled = <<>>
  /\ samples = {}
  /\ wasLost = FALSE

\* A coroutine resumes on a worker that runs no handler.
FreeWorker == \E w \in Workers : job[w] = Idle

\* Before anything was numbered the key is 2^32 - 1, which no client quotes.
File(number, stamp) ==
  pendingPings' = IF number \in Numbers THEN [pendingPings EXCEPT ![number] = stamp]
                  ELSE pendingPings

\* A send that the socket refused disconnects the player.
SendResult(ok) ==
  /\ disconnected' = (disconnected \/ ~ok)
  /\ wasLost' = (wasLost \/ ~ok)

-----------------------------------------------------------------------------
(* Sending.                                                                *)

NextNumber_after == sequenceCounter

\* The number of the next message, taken under the lock of the match.
NextNumber == sequenceCounter + 1

\* sendServerMessage up to its co_await: a disconnected player is sent
\* nothing and no number is used.
Number ==
  IF disconnected THEN UNCHANGED <<sequenceCounter, asked>>
  ELSE /\ sequenceCounter < MaxSeq
       /\ sequenceCounter' = sequenceCounter + 1
       /\ asked' = asked \cup {NextNumber}

\* Messages that this client does not answer: StartGame, NewConnectionReply,
\* PlayersConfigurationData, and everything sent to other players.
SendOther ==
  /\ FreeWorker
  /\ sequenceCounter < MaxSeq
  /\ sequenceCounter' = sequenceCounter + 1
  /\ UNCHANGED <<pendingPings, player, sends, job, asked, ghosts>>

\* The time is taken, then the PlayerInput is numbered and handed to the
\* socket; co_await lets other coroutines run.
TickSend ==
  /\ FreeWorker
  /\ tick.at = "idle"
  /\ Number
  /\ tick' = [at |-> "file", stamp |-> sequenceCounter]
  /\ UNCHANGED <<pendingPings, player, ping, pingPhaseCount, job, ghosts>>

TickKey_before == tick.stamp

\* The time is filed under whatever the counter has reached by now.
TickKey == sequenceCounter

TickFile(ok) ==
  /\ FreeWorker
  /\ tick.at = "file"
  /\ File(TickKey, tick.stamp)
  /\ SendResult(ok)
  /\ tick' = Idle
  /\ UNCHANGED <<sequenceCounter, lastSeqRecv, ping, pingPhaseCount, job, asked, handled,
                 samples>>

\* A round of the ping phase takes one time for the requests to all players.
BeginRound ==
  /\ FreeWorker
  /\ ping.at = "idle" /\ pingPhaseCount < PingTotal
  /\ ping' = [at |-> "check", stamp |-> sequenceCounter]
  /\ UNCHANGED <<sequenceCounter, pendingPings, player, tick, pingPhaseCount, job, asked,
                 ghosts>>

EndRound == ping' = Idle /\ pingPhaseCount' = pingPhaseCount + 1

\* A disconnected player is passed over ...
PingCheck ==
  /\ FreeWorker
  /\ ping.at = "check"
  /\ IF disconnected THEN EndRound
     ELSE ping' = [ping EXCEPT !.at = "send"] /\ UNCHANGED pingPhaseCount
  /\ UNCHANGED <<sequenceCounter, pendingPings, player, tick, job, asked, ghosts>>

\* ... and sendServerMessage looks again.
PingSend ==
  /\ FreeWorker
  /\ ping.at = "send"
  /\ Number
  /\ ping' = [at |-> "file", stamp |-> ping.stamp,
              number |-> IF disconnected THEN 0 ELSE NextNumber]
  /\ UNCHANGED <<pendingPings, player, tick, pingPhaseCount, job, ghosts>>

\* The time is filed under the number that sendServerMessage returned: 0 if
\* nothing was sent or the socket refused it.
PingFile(ok) ==
  /\ FreeWorker
  /\ ping.at = "file"
  /\ File(IF ok THEN ping.number ELSE 0, ping.stamp)
  /\ SendResult(ok)
  /\ EndRound
  /\ UNCHANGED <<sequenceCounter, lastSeqRecv, tick, job, asked, handled, samples>>

-----------------------------------------------------------------------------
(* The datagram handlers.                                                  *)

\* External: the client numbers its messages from 1 and answers only what it
\* was asked; a datagram may be late, lost or doubled, so any of them can
\* arrive at any time.
Receive(w, msg) ==
  /\ job[w] = Idle
  /\ msg.answers \in IF msg.kind = "answer" THEN asked ELSE {0}
  /\ job' = [job EXCEPT ![w] = [at |-> "filter", msg |-> msg]]
  /\ UNCHANGED <<sequenceCounter, pendingPings, player, sends, asked, ghosts>>

Outdated_equalPasses(msg) == msg.seq < lastSeqRecv

Outdated(msg) == msg.seq <= lastSeqRecv

\* The filter: lastSeqRecv is read ...
Filter(w) ==
  /\ job[w].at = "filter"
  /\ job' = [job EXCEPT ![w] = IF Outdated(@.msg) THEN Idle ELSE [@ EXCEPT !.at = "pass"]]
  /\ UNCHANGED <<sequenceCounter, pendingPings, player, sends, asked, ghosts>>

\* ... and written, without a lock.
Pass(w) ==
  /\ job[w].at = "pass"
  /\ lastSeqRecv' = job[w].msg.seq
  /\ job' = [job EXCEPT ![w].at = job[w].msg.kind]
  /\ UNCHANGED <<sequenceCounter, pendingPings, disconnected, sends, asked, ghosts>>

\* Input and Disconnecting set the connection flag.
SetConnection(w) ==
  /\ job[w].at \in {"input", "disconnecting"}
  /\ disconnected' = (job[w].at = "disconnecting")
  /\ wasLost' = (wasLost \/ disconnected')
  /\ handled' = Append(handled, job[w].msg.seq)
  /\ job' = [job EXCEPT ![w] = Idle]
  /\ UNCHANGED <<sequenceCounter, pendingPings, lastSeqRecv, sends, asked, samples>>

\* QualityData and PlayerInputAck: find the time filed under the number ...
FindPing(w) ==
  /\ job[w].at = "answer"
  /\ LET number == job[w].msg.answers
         stamp  == pendingPings[number]
     IN IF stamp = NoStamp
        THEN job' = [job EXCEPT ![w] = Idle] /\ UNCHANGED samples
        ELSE /\ samples' = samples \cup {<<number, stamp>>}
             /\ job' = [job EXCEPT ![w].at = "erase"]
  /\ handled' = Append(handled, job[w].msg.seq)
  /\ UNCHANGED <<sequenceCounter, pendingPings, player, sends, asked, wasLost>>

\* ... and, once the ping is computed, erase it.
ErasePing(w) ==
  /\ job[w].at = "erase"
  /\ File(job[w].msg.answers, NoStamp)
  /\ job' = [job EXCEPT ![w] = Idle]
  /\ UNCHANGED <<sequenceCounter, player, sends, asked, ghosts>>

-----------------------------------------------------------------------------
Next ==
  \/ SendOther \/ TickSend \/ BeginRound \/ PingCheck \/ PingSend
  \/ \E ok \in BOOLEAN : TickFile(ok) \/ PingFile(ok)
  \/ \E w \in Workers :
       \/ \E msg \in Message : Receive(w, msg)
       \/ Filter(w) \/ Pass(w) \/ SetConnection(w) \/ FindPing(w) \/ ErasePing(w)

Spec == Init /\ [][Next]_vars

-----------------------------------------------------------------------------
(* Properties.                                                             *)

TypeOK ==
  /\ sequenceCounter \in Stamps
  /\ pingPhaseCount \in 0..PingTotal
  /\ disconnected \in BOOLEAN /\ wasLost \in BOOLEAN
  /\ pendingPings \in [Numbers -> Stamps \cup {NoStamp}]
  /\ lastSeqRecv \in 0..MaxClientSeq
  /\ tick = Idle \/ tick \in [at : {"file"}, stamp : Stamps]
  /\ \/ ping = Idle
     \/ ping \in [at : {"check", "send"}, stamp : Stamps]
     \/ ping \in [at : {"file"}, stamp : Stamps, number : Numbers]
  /\ job \in [Workers -> {Idle} \cup
       [at : {"filter", "pass", "answer", "input", "disconnecting", "erase"}, msg : Message]]
  /\ asked \subseteq Numbers
  /\ handled \in Seq(1..MaxClientSeq)
  /\ samples \subseteq Numbers \X Stamps

\* Whatever the network does, the client's messages are handled in the order
\* it sent them, each at most once ("Filter out-of-order packets").
HandledInOrder ==
  \A i, j \in DOMAIN handled : i < j => handled[i] < handled[j]

\* A measured ping is never shorter than the message it answers took: its
\* time was taken before that message was numbered, although tick() files it
\* under a number it reads after the send.  (While the player is disconnected
\* nothing is sent to it, yet the times go on being filed.)
PingNotUnderstated ==
  \A sample \in samples : wasLost \/ sample[2] < sample[1]
=============================================================================
