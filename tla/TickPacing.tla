----------------------------- MODULE TickPacing -----------------------------
(***************************************************************************)
(* The pacing of a match's ticks (runTickLoop, rollback_server.cpp         *)
(* 730-885): when the loop runs its next tick, and which frame the match   *)
(* is in.  MatchClock composes this with a client and the network.         *)
(*                                                                         *)
(* Time is counted in units of which Interval make a tick interval; the    *)
(* loop starts at 0.  A tick takes as long as it takes, and a timer never  *)
(* fires before its time, but late.                                        *)
(***************************************************************************)
EXTENDS Integers

CONSTANTS
  Interval,   \* targetInterval
  Works,      \* how long a tick may take
  Lates,      \* how late the timer may fire
  MaxWork,    \* the largest of each
  MaxLate

ASSUME PacingAssumption ==
  /\ Interval \in Nat \ {0} /\ MaxWork \in Nat /\ MaxLate \in Nat
  /\ Works \subseteq 1..MaxWork /\ Lates \subseteq 0..MaxLate

VARIABLES
  clock,             \* steady_clock::now()
  phase,             \* "tick": about to start; "busy": in tick(); "wait": for the timer
  until,             \* when the tick ends, or the timer fires
  nextTickTime,
  accumulatedError,
  currentFrame,
  hurried            \* history: rounds in a row without a wait; those after the
                     \* first had ticks of at most half the interval

pacing == <<phase, until, nextTickTime, accumulatedError, currentFrame, hurried>>

\* The first tick runs at once; nextTickTime is an interval ahead of it.
PacingInit ==
  /\ clock = 0 /\ phase = "tick" /\ until = 0
  /\ nextTickTime = Interval /\ accumulatedError = 0
  /\ currentFrame = 0 /\ hurried = 0

Quarter_whole(n) == n

\* accumulatedError / 4: towards zero.
Quarter(n) == IF n >= 0 THEN n \div 4 ELSE -((-n) \div 4)

MaxError == Interval * 3

BeginTick ==
  /\ phase = "tick"
  /\ \E work \in Works :
       /\ until' = clock + work
       /\ hurried' = IF 2 * work <= Interval THEN hurried ELSE 0
  /\ phase' = "busy"
  /\ UNCHANGED <<nextTickTime, accumulatedError, currentFrame>>

FrameNow_perTick == currentFrame + 1

\* The frame is taken from the time, not from the number of ticks.
FrameNow == clock \div Interval

\* The correction is a part of the error; what is left of it stays.
Planned   == nextTickTime + Interval - Quarter(accumulatedError)
Remaining == accumulatedError - Quarter(accumulatedError)

HurryOn_unlimited ==
  /\ Planned < clock
  /\ nextTickTime' = clock
  /\ accumulatedError' = Remaining + (Planned - clock)
  /\ phase' = "tick" /\ hurried' = hurried + 1
  /\ UNCHANGED until

HurryOn_catchUp ==
  /\ Planned < clock
  /\ nextTickTime' = Planned
  /\ LET error == Remaining + (Planned - clock)
     IN accumulatedError' = IF error < -MaxError THEN -MaxError ELSE error
  /\ phase' = "tick" /\ hurried' = hurried + 1
  /\ UNCHANGED until

\* Behind schedule: the schedule restarts from now and the delay counts as error.
HurryOn ==
  /\ Planned < clock
  /\ nextTickTime' = clock
  /\ LET error == Remaining + (Planned - clock)
     IN accumulatedError' = IF error < -MaxError THEN -MaxError ELSE error
  /\ phase' = "tick" /\ hurried' = hurried + 1
  /\ UNCHANGED until

Sleep ==
  /\ Planned >= clock
  /\ nextTickTime' = Planned /\ accumulatedError' = Remaining
  /\ \E late \in Lates : until' = Planned + late
  /\ phase' = "wait" /\ hurried' = 0

Pace ==
  /\ phase = "busy" /\ clock = until
  /\ currentFrame' = FrameNow
  /\ HurryOn \/ Sleep

\* The timer fired; how late it was counts as error.
Wake ==
  /\ phase = "wait" /\ clock = until
  /\ accumulatedError' = accumulatedError + (clock - nextTickTime)
  /\ phase' = "tick"
  /\ UNCHANGED <<until, nextTickTime, currentFrame, hurried>>

-----------------------------------------------------------------------------
(* Properties.                                                             *)

PacingTypeOK ==
  /\ clock \in Nat /\ until \in Nat /\ currentFrame \in Nat /\ hurried \in Nat
  /\ phase \in {"tick", "busy", "wait"}
  /\ nextTickTime \in Int /\ accumulatedError \in Int

\* The error that is still to be corrected does not pile up: not below the
\* limit of line 823, nor, though nothing limits it there, above four times
\* what a timer can be late.
ErrorBounded == accumulatedError \in -MaxError..4 * MaxLate + 3

\* After no stall does the correction, which has the same sign for early and for
\* late ticks (line 809), hold a match up for more than two intervals.
PauseBounded ==
  [][phase = "busy" /\ phase' = "wait" => nextTickTime' - clock <= 2 * Interval]_pacing

\* The ticks missed in a stall are not run back to back (line 820): after a
\* round without a wait comes one with a wait, if its tick is quick.
NoBurst == hurried <= 1

\* However ticks are delayed or hurried, the frame that clients are measured
\* against is never ahead of the time, and behind it by little more than a round.
FrameFollowsClock ==
  /\ currentFrame * Interval <= clock
  /\ clock < (currentFrame + 3) * Interval + MaxLate + MaxWork
=============================================================================
