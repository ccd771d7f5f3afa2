----------------------------- MODULE MatchClock -----------------------------
(***************************************************************************)
(* What the server knows of a client's clock: the ping and the rift of one *)
(* player, measured against the frames of the tick loop                    *)
(* (handlePlayerInputAck, handleClientInput, calcRiftVariableTick).        *)
(*                                                                         *)
(* The client and the network are external: a client that runs at the      *)
(* server's speed, lead frames ahead, sends each of its frames as it       *)
(* begins, and acknowledges every message at once, perhaps twice; a        *)
(* datagram takes Delay units one way.  Handlers run on the other worker,  *)
(* when their datagram arrives.                                            *)
(*                                                                         *)
(* Rifts are in grains, Scale of which make a frame, pings in grains, Scale *)
(* of which make a unit of time; this stands for the floats of the code.   *)
(***************************************************************************)
EXTENDS TickPacing

CONSTANTS
  FrameTime,     \* TARGET_FRAME_TIME: a little less than Interval
  MaxPing,       \* 255 ms
  MaxRift,       \* 20 frames
  EarlyFrames,   \* 500: up to here every tick refreshes the rift ...
  RiftPeriod,    \* 60: ... and later one in a frame divisible by this
  PingShare,     \* 10: PING_ALPHA is one in so many
  RiftShare,     \* 20: RIFT_ALPHA likewise
  Scale,
  Delay, Jitters, MaxJitter,  \* an acknowledgement takes 2 * Delay and a jitter
  MaxLost,       \* bound: inputs lost in a row
  Leads,         \* how far ahead the client may be
  Horizon        \* bound: no time passes beyond it

ASSUME ClockAssumption ==
  /\ FrameTime \in 1..Interval
  /\ {RiftPeriod, PingShare, MaxRift, RiftShare, Scale} \subseteq Nat \ {0}
  /\ {MaxPing, EarlyFrames, Delay, MaxJitter, MaxLost, Horizon} \subseteq Nat
  /\ Jitters \subseteq 0..MaxJitter /\ Leads \subseteq Int

VARIABLES
  lead,             \* the client's frame is the server's plus this
  nextInput,        \* the client frame whose Input arrives next
  lost,             \* how many were lost since one arrived
  acks,             \* the acknowledgements on their way
  pendingPings,     \* the times of the messages whose acknowledgement is to come
  pingInitialized, smoothedPing, hasNewPing,
  lastClientFrame, hasNewFrame,
  riftInit, smoothRift

network == <<nextInput, lost, acks>>
frame   == <<lastClientFrame, hasNewFrame>>
ping    == <<pendingPings, pingInitialized, smoothedPing, hasNewPing>>
rift    == <<riftInit, smoothRift>>
vars    == <<clock, pacing, lead, network, frame, ping, rift>>

Init ==
  /\ PacingInit
  /\ lead \in Leads /\ nextInput = (IF lead > 0 THEN lead + 1 ELSE 1)
  /\ lost = 0 /\ acks = {}
  /\ pendingPings = {} /\ smoothedPing = 0
  /\ pingInitialized = FALSE /\ hasNewPing = FALSE
  /\ lastClientFrame = 0 /\ hasNewFrame = FALSE /\ riftInit = FALSE /\ smoothRift = 0

Abs(n) == IF n >= 0 THEN n ELSE -n

\* A float division, rounded towards zero to whole grains.
Part(n, d) == IF n >= 0 THEN n \div d ELSE -((-n) \div d)

Clamp(n, max) == IF n > max THEN max ELSE IF n < -max THEN -max ELSE n

Int16(n) == ((n + 2^15) % 2^16) - 2^15

-----------------------------------------------------------------------------
(* The handlers.                                                           *)

InputDue == (nextInput - lead) * Interval + Delay

ReceiveInput ==
  /\ clock = InputDue
  /\ lastClientFrame' = nextInput /\ hasNewFrame' = TRUE
  /\ nextInput' = nextInput + 1 /\ lost' = 0
  /\ UNCHANGED <<clock, pacing, lead, acks, ping, rift>>

LoseInput ==
  /\ clock = InputDue /\ lost < MaxLost
  /\ nextInput' = nextInput + 1 /\ lost' = lost + 1
  /\ UNCHANGED <<clock, pacing, lead, acks, frame, ping, rift>>

Capped(roundTrip) == IF roundTrip > MaxPing THEN MaxPing ELSE roundTrip

\* A ping sample: the milliseconds in an int16, at most MaxPing.
Sample(sent) == Capped(Int16(clock - sent))

\* The first sample is taken as it is, later ones count for PING_ALPHA.
SmoothPing(sample) ==
  IF pingInitialized
    THEN Clamp(Part(Scale * sample + (PingShare - 1) * smoothedPing, PingShare), Scale * MaxPing)
    ELSE Scale * sample

TakeSample_keepsPending(sent) ==
  /\ smoothedPing' = SmoothPing(Sample(sent))
  /\ pingInitialized' = TRUE /\ hasNewPing' = TRUE
  /\ UNCHANGED pendingPings

\* The message is pending no more; a sample below zero is not used.
TakeSample(sent) ==
  /\ \/ /\ Sample(sent) > -1
        /\ smoothedPing' = SmoothPing(Sample(sent))
        /\ pingInitialized' = TRUE /\ hasNewPing' = TRUE
     \/ /\ Sample(sent) <= -1
        /\ UNCHANGED <<pingInitialized, smoothedPing, hasNewPing>>
  /\ pendingPings' = pendingPings \ {sent}

\* The acknowledgement may come once more, an interval later.
ReceiveAck ==
  \E a \in acks :
    /\ a.due = clock
    /\ IF a.sent \in pendingPings THEN TakeSample(a.sent) ELSE UNCHANGED ping
    /\ \/ acks' = acks \ {a}
       \/ /\ ~a.again
          /\ acks' = (acks \ {a}) \cup {[sent |-> a.sent, due |-> a.due + Interval, again |-> TRUE]}
    /\ UNCHANGED <<clock, pacing, lead, nextInput, lost, frame, rift>>

-----------------------------------------------------------------------------
(* The tick.                                                               *)

\* Half the ping, in frames, has passed since the client was in its frame.
RawRift == Scale * (lastClientFrame - currentFrame) + Part(smoothedPing, 2 * FrameTime)

\* Less than a frame halves what is left of the rift; more counts for
\* RIFT_ALPHA; and the rift never exceeds the last measurement.
SmoothRift(raw) ==
  LET blended == IF Abs(raw) < Scale THEN Part(smoothRift, 2)
                                     ELSE Part(raw + (RiftShare - 1) * smoothRift, RiftShare)
  IN IF Abs(raw) < Abs(blended) THEN raw ELSE blended

RefreshDue == currentFrame % RiftPeriod = 0 \/ currentFrame <= EarlyFrames

calcRiftVariableTick_anyFrame ==
  IF RefreshDue /\ hasNewPing
    THEN /\ smoothRift' = Clamp(IF riftInit THEN SmoothRift(RawRift) ELSE RawRift, Scale * MaxRift)
         /\ riftInit' = TRUE /\ hasNewPing' = FALSE /\ hasNewFrame' = FALSE
    ELSE UNCHANGED <<rift, hasNewPing, hasNewFrame>>

calcRiftVariableTick_unclamped ==
  IF RefreshDue /\ hasNewPing /\ hasNewFrame
    THEN /\ smoothRift' = IF riftInit THEN SmoothRift(RawRift) ELSE RawRift
         /\ riftInit' = TRUE /\ hasNewPing' = FALSE /\ hasNewFrame' = FALSE
    ELSE UNCHANGED <<rift, hasNewPing, hasNewFrame>>

calcRiftVariableTick ==
  IF RefreshDue /\ hasNewPing /\ hasNewFrame
    THEN /\ smoothRift' = Clamp(IF riftInit THEN SmoothRift(RawRift) ELSE RawRift, Scale * MaxRift)
         /\ riftInit' = TRUE /\ hasNewPing' = FALSE /\ hasNewFrame' = FALSE
    ELSE UNCHANGED <<rift, hasNewPing, hasNewFrame>>

\* The message is filed as pending.  It or its answer may get lost, or its time
\* be filed under another number, read after the send (see PlayerChannel): such
\* an entry is never looked at again, and left out.
SendPlayerInput ==
  \/ UNCHANGED <<pendingPings, acks>>
  \/ /\ pendingPings' = pendingPings \cup {clock}
     /\ \E j \in Jitters :
          acks' = acks \cup {[sent |-> clock, due |-> clock + 2 * Delay + j, again |-> FALSE]}

Tick ==
  /\ BeginTick /\ calcRiftVariableTick /\ SendPlayerInput
  /\ UNCHANGED <<clock, lead, nextInput, lost, lastClientFrame, pingInitialized, smoothedPing>>

TickEnds == (Pace \/ Wake) /\ UNCHANGED <<clock, lead, network, frame, ping, rift>>

Due == {until, InputDue} \cup {a.due : a \in acks}

\* Time passes until something is due, after all that is due now.
Pass ==
  /\ phase # "tick" /\ clock \notin Due
  /\ clock' \in Due \cap (clock + 1..Horizon) /\ \A t \in Due : clock' <= t
  /\ UNCHANGED <<pacing, lead, network, frame, ping, rift>>

Next == ReceiveInput \/ LoseInput \/ ReceiveAck \/ Tick \/ TickEnds \/ Pass

Spec == Init /\ [][Next]_vars

-----------------------------------------------------------------------------
(* Properties.                                                             *)

TypeOK ==
  /\ PacingTypeOK
  /\ lead \in Leads /\ nextInput \in Nat /\ lost \in 0..MaxLost
  /\ pendingPings \subseteq 0..clock
  /\ acks \subseteq [sent : 0..clock, due : Nat, again : BOOLEAN]
  /\ {pingInitialized, hasNewPing, hasNewFrame, riftInit} \subseteq BOOLEAN
  /\ lastClientFrame \in Nat
  /\ smoothedPing \in 0..Scale * MaxPing /\ smoothRift \in -Scale * MaxRift..Scale * MaxRift

\* The smoothed ping lies between the shortest and the longest round trip of an
\* acknowledgement, each counted as no more than MaxPing, whichever were lost,
\* late or doubled (lines 540-578).
PingWithinSamples ==
  pingInitialized =>
    smoothedPing \in Scale * Capped(2 * Delay)..Scale * Capped(2 * Delay + MaxJitter)

\* How far a measurement of a client may be off, in grains: low, by the age of
\* its latest Input and by what half the ping, which is cut at MaxPing, leaves of
\* Delay; high, by the age of currentFrame and by what half the ping says beyond
\* Delay.
HalfInFrames(roundTrip) == (Scale * roundTrip) \div (2 * FrameTime)

TooLow  == Scale * (1 + MaxLost)
           + (Scale * Delay) \div Interval - HalfInFrames(Capped(2 * Delay))
TooHigh == Scale + (Scale * (2 * Interval + MaxLate)) \div Interval
           + HalfInFrames(Capped(2 * Delay + MaxJitter)) - (Scale * Delay) \div Interval

\* The rift that clients adjust their speed to is never further from zero than
\* the client's distance and the error of a measurement (lines 666-711) ...
RiftNotExaggerated ==
  /\ smoothRift > 0 => smoothRift <= Scale * lead + TooHigh
  /\ smoothRift < 0 => smoothRift >= Scale * lead - TooLow

\* ... and tells a client that is clearly ahead from one that is clearly behind.
\* (What the cap cuts off a ping is part of TooLow: a client with a long round
\* trip has to be that much further ahead.)
RiftPointsRight ==
  riftInit =>
    /\ Scale * lead >= TooLow + Scale => smoothRift > 0
    /\ Scale * lead <= -TooHigh - Scale => smoothRift < 0
=============================================================================
