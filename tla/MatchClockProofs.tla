-------------------------- MODULE MatchClockProofs --------------------------
(***************************************************************************)
(* Proofs about MatchClock: the pacing of ticks, for every interval and     *)
(* whatever ticks and timers take; and what the ping and the rift say of a *)
(* client, whichever messages are lost, late or doubled.                   *)
(***************************************************************************)
EXTENDS MatchClock, TLAPS

-----------------------------------------------------------------------------
(* Arithmetic.                                                             *)

LEMMA QuarterBounds ==
  ASSUME NEW n \in Int
  PROVE  /\ Quarter(n) \in Int
         /\ n >= 0 => 4 * Quarter(n) <= n /\ n <= 4 * Quarter(n) + 3
         /\ n < 0 => 4 * Quarter(n) >= n /\ n >= 4 * Quarter(n) - 3 /\ Quarter(n) <= 0
  BY DEF Quarter

LEMMA PacingConstants ==
  /\ Interval \in Nat /\ Interval > 0 /\ MaxWork \in Nat /\ MaxLate \in Nat
  /\ Works \subseteq 1..MaxWork /\ Lates \subseteq 0..MaxLate
  /\ MaxError = Interval * 3
  BY PacingAssumption DEF MaxError

LEMMA DivisionBounds ==
  ASSUME NEW n \in Nat
  PROVE  /\ n \div Interval \in Nat
         /\ (n \div Interval) * Interval <= n
         /\ n < (n \div Interval + 1) * Interval
  BY PacingConstants, Z3

-----------------------------------------------------------------------------
(* Every step is one of the loop, or lets time pass up to what it waits    *)
(* for.                                                                    *)

TimePasses ==
  /\ phase # "tick" /\ UNCHANGED pacing
  /\ clock' \in Nat /\ clock < clock' /\ clock' <= until

PacingStep ==
  \/ (BeginTick \/ Pace \/ Wake \/ UNCHANGED pacing) /\ UNCHANGED clock
  \/ TimePasses

LEMMA StepsAreLoopSteps ==
  ASSUME clock \in Nat, [Next]_vars
  PROVE  PacingStep
<1>1. CASE Pass
  <2>1. clock' \in clock + 1..Horizon /\ Horizon \in Nat
    BY <1>1, ClockAssumption DEF Pass
  <2>2. clock' <= until
    BY <1>1 DEF Pass, Due
  <2>3. QED BY <1>1, <2>1, <2>2 DEF Pass, PacingStep, TimePasses
<1>2. CASE ReceiveInput \/ LoseInput \/ ReceiveAck
  BY <1>2 DEF ReceiveInput, LoseInput, ReceiveAck, PacingStep
<1>3. CASE Tick \/ TickEnds
  BY <1>3 DEF Tick, TickEnds, PacingStep
<1>4. CASE UNCHANGED vars
  BY <1>4 DEF vars, PacingStep
<1>5. QED BY <1>1, <1>2, <1>3, <1>4 DEF Next

-----------------------------------------------------------------------------
(* The error and the schedule.                                             *)

\* Unless the loop waits, its schedule is not ahead of the time; only the first
\* tick begins an interval before it.
ScheduleInv ==
  /\ PacingTypeOK
  /\ phase # "tick" => clock <= until
  /\ phase = "wait" =>
       /\ nextTickTime <= until /\ until <= nextTickTime + MaxLate
       /\ accumulatedError >= -MaxError /\ accumulatedError <= 3 * MaxLate + 3
  /\ phase # "wait" =>
       /\ nextTickTime <= clock \/ (nextTickTime <= clock + Interval /\ accumulatedError = 0)
       /\ accumulatedError >= -MaxError /\ accumulatedError <= 4 * MaxLate + 3

LEMMA ScheduleStep == ScheduleInv /\ PacingStep => ScheduleInv'
<1> SUFFICES ASSUME ScheduleInv, PacingStep PROVE ScheduleInv'
  OBVIOUS
<1> USE PacingConstants DEF ScheduleInv, PacingTypeOK
<1>0. /\ clock \in Nat /\ until \in Nat /\ currentFrame \in Nat /\ hurried \in Nat
      /\ nextTickTime \in Int /\ accumulatedError \in Int
  OBVIOUS
<1>1. CASE BeginTick /\ UNCHANGED clock
  BY <1>0, <1>1 DEF BeginTick
<1>2. CASE Pace /\ UNCHANGED clock
  <2> DEFINE q == Quarter(accumulatedError)
  <2>1. /\ q \in Int
        /\ accumulatedError >= 0 => 4 * q <= accumulatedError /\ accumulatedError <= 4 * q + 3
        /\ accumulatedError < 0 => 4 * q >= accumulatedError /\ q <= 0
    BY <1>0, QuarterBounds
  <2>2. Planned = nextTickTime + Interval - q /\ Remaining = accumulatedError - q
    BY DEF Planned, Remaining
  <2>3. currentFrame' \in Nat
    BY <1>0, <1>2, DivisionBounds DEF Pace, FrameNow
  <2> HIDE DEF q
  <2>4. Remaining \in Int /\ Remaining >= -MaxError /\ Remaining <= 3 * MaxLate + 3
        /\ Planned \in Int
    BY <1>0, <1>2, <2>1, <2>2 DEF Pace
  <2>5. CASE HurryOn
    BY <1>0, <1>2, <2>3, <2>4, <2>5 DEF Pace, HurryOn
  <2>6. CASE Sleep
    BY <1>0, <1>2, <2>3, <2>4, <2>6 DEF Pace, Sleep
  <2>7. QED BY <1>2, <2>5, <2>6 DEF Pace
<1>3. CASE Wake /\ UNCHANGED clock
  BY <1>0, <1>3 DEF Wake
<1>4. CASE UNCHANGED <<clock, pacing>>
  BY <1>0, <1>4 DEF pacing
<1>5. CASE TimePasses
  <2>1. /\ clock' \in Nat /\ clock < clock' /\ clock' <= until /\ phase # "tick"
        /\ UNCHANGED <<phase, until, nextTickTime, accumulatedError, currentFrame, hurried>>
    BY <1>5 DEF TimePasses, pacing
  <2>2. phase # "wait" =>
          nextTickTime <= clock' \/ (nextTickTime <= clock' + Interval /\ accumulatedError = 0)
    <3>1. \A s, c, d, n \in Int : c < d => (s <= c => s <= d) /\ (s <= c + n => s <= d + n)
      OBVIOUS
    <3>2. /\ nextTickTime \in Int /\ clock \in Int /\ clock' \in Int /\ Interval \in Int
          /\ clock < clock'
      BY <1>0, <2>1
    <3>3. nextTickTime <= clock => nextTickTime <= clock'
      BY <3>1, <3>2
    <3>4. nextTickTime <= clock + Interval => nextTickTime <= clock' + Interval
      BY <3>1, <3>2
    <3>5. QED BY <3>3, <3>4
  <2>3. QED BY <1>0, <2>1, <2>2
<1>6. QED BY <1>1, <1>2, <1>3, <1>4, <1>5 DEF PacingStep

LEMMA ScheduleInvariant == Spec => []ScheduleInv
<1>1. Init => ScheduleInv
  BY PacingConstants DEF Init, PacingInit, ScheduleInv, PacingTypeOK
<1>2. ScheduleInv /\ [Next]_vars => ScheduleInv'
  BY StepsAreLoopSteps, ScheduleStep DEF ScheduleInv, PacingTypeOK
<1>3. QED BY <1>1, <1>2, PTL DEF Spec

\* The error to be corrected stays between three intervals of delay and four
\* times what a timer can be late.
THEOREM ErrorStaysBounded == Spec => []ErrorBounded
<1>1. ScheduleInv => ErrorBounded
  BY PacingConstants DEF ScheduleInv, PacingTypeOK, ErrorBounded
<1>2. QED BY <1>1, ScheduleInvariant, PTL

\* No correction makes the loop wait for more than two intervals.
THEOREM PausesStayBounded == Spec => PauseBounded
<1>1. ScheduleInv /\ [Next]_vars =>
        [phase = "busy" /\ phase' = "wait" => nextTickTime' - clock <= 2 * Interval]_pacing
  <2> SUFFICES ASSUME ScheduleInv, PacingStep, phase = "busy", phase' = "wait"
               PROVE  nextTickTime' - clock <= 2 * Interval
    BY StepsAreLoopSteps DEF ScheduleInv, PacingTypeOK
  <2>1. Pace /\ Sleep
    BY DEF PacingStep, BeginTick, Pace, Wake, HurryOn, TimePasses, pacing
  <2>2. nextTickTime' = nextTickTime + Interval - Quarter(accumulatedError)
    BY <2>1 DEF Sleep, Planned
  <2>3. /\ clock \in Nat /\ nextTickTime \in Int /\ accumulatedError \in Int
        /\ nextTickTime <= clock \/ (nextTickTime <= clock + Interval /\ accumulatedError = 0)
        /\ accumulatedError >= -MaxError
    BY DEF ScheduleInv, PacingTypeOK
  <2>4. /\ Quarter(accumulatedError) \in Int
        /\ accumulatedError >= 0 => accumulatedError <= 4 * Quarter(accumulatedError) + 3
        /\ accumulatedError < 0 => 4 * Quarter(accumulatedError) >= accumulatedError
    BY <2>3, QuarterBounds
  <2>5. QED BY <2>2, <2>3, <2>4, PacingConstants
<1>2. QED BY <1>1, ScheduleInvariant, PTL DEF Spec, PauseBounded

-----------------------------------------------------------------------------
(* The frame.                                                              *)

\* Three frames on from the start of the current one.
Reach == (currentFrame + 3) * Interval

\* A planned tick lies within two intervals of the time the frame was taken at.
FrameInv ==
  /\ currentFrame * Interval <= clock
  /\ phase = "tick" => clock < Reach + MaxLate
  /\ phase = "wait" => nextTickTime < Reach
  /\ phase = "busy" => until < Reach + MaxLate + MaxWork

LEMMA PauseOfLoop ==
  ASSUME ScheduleInv, phase # "wait", clock = until
  PROVE  Planned \in Int /\ Planned <= clock + 2 * Interval
<1>1. /\ clock \in Nat /\ nextTickTime \in Int /\ accumulatedError \in Int
      /\ nextTickTime <= clock \/ (nextTickTime <= clock + Interval /\ accumulatedError = 0)
      /\ accumulatedError >= -MaxError
  BY DEF ScheduleInv, PacingTypeOK
<1>2. /\ Quarter(accumulatedError) \in Int
      /\ accumulatedError >= 0 => accumulatedError <= 4 * Quarter(accumulatedError) + 3
      /\ accumulatedError < 0 => 4 * Quarter(accumulatedError) >= accumulatedError
  BY <1>1, QuarterBounds
<1>3. Planned = nextTickTime + Interval - Quarter(accumulatedError)
  BY DEF Planned
<1>4. QED BY <1>1, <1>2, <1>3, PacingConstants

LEMMA FrameStep == ScheduleInv /\ FrameInv /\ PacingStep => FrameInv'
<1> SUFFICES ASSUME ScheduleInv, FrameInv, PacingStep PROVE FrameInv'
  OBVIOUS
<1>1. /\ clock \in Nat /\ until \in Nat /\ currentFrame \in Nat
      /\ nextTickTime \in Int /\ accumulatedError \in Int /\ currentFrame * Interval \in Nat
      /\ Reach \in Nat /\ phase \in {"tick", "busy", "wait"}
  BY PacingConstants DEF ScheduleInv, PacingTypeOK, Reach
<1>2. CASE BeginTick /\ UNCHANGED clock
  <2>1. PICK work \in Works : until' = clock + work
    BY <1>2 DEF BeginTick
  <2>2. work \in Nat /\ work <= MaxWork
    BY PacingConstants
  <2>3. phase = "tick" /\ phase' = "busy" /\ UNCHANGED <<clock, currentFrame>>
    BY <1>2 DEF BeginTick
  <2>4. Reach' = Reach /\ currentFrame' * Interval = currentFrame * Interval
    BY <2>3 DEF Reach
  <2>5. clock < Reach + MaxLate /\ currentFrame * Interval <= clock
    BY <2>3 DEF FrameInv
  <2>6. until' < Reach' + MaxLate + MaxWork
    BY <1>1, <2>1, <2>2, <2>4, <2>5, PacingConstants
  <2>7. QED BY <2>3, <2>4, <2>5, <2>6 DEF FrameInv
<1>3. CASE Pace /\ UNCHANGED clock
  <2>1. phase = "busy" /\ clock = until /\ clock' = clock /\ currentFrame' = clock \div Interval
    BY <1>3 DEF Pace, FrameNow
  <2> DEFINE n == clock \div Interval
  <2>2. n \in Nat /\ n * Interval <= clock /\ clock < (n + 1) * Interval
    BY <1>1, DivisionBounds
  <2>3. (n + 1) * Interval + 2 * Interval = (n + 3) * Interval /\ (n + 1) * Interval \in Nat
    BY <2>2, PacingConstants
  <2>4. currentFrame' = n
    BY <2>1
  <2> HIDE DEF n
  <2>5. clock + 2 * Interval < Reach' /\ currentFrame' * Interval <= clock'
    BY <1>1, <2>1, <2>2, <2>3, <2>4, PacingConstants DEF Reach
  <2>6. Reach' \in Int
    BY <2>2, <2>4, PacingConstants DEF Reach
  <2>7. Planned \in Int /\ Planned <= clock + 2 * Interval
    BY <2>1, PauseOfLoop
  <2>8. CASE HurryOn
    <3>1. phase' = "tick"
      BY <2>8 DEF HurryOn
    <3>2. clock' < Reach' + MaxLate
      <4>1. \A c, i, l \in Nat, r \in Int : c + 2 * i < r => c < r + l
        OBVIOUS
      <4>2. QED BY <1>1, <2>1, <2>5, <2>6, <4>1, PacingConstants
    <3>3. QED BY <2>5, <3>1, <3>2 DEF FrameInv
  <2>9. CASE Sleep
    <3>1. phase' = "wait" /\ nextTickTime' = Planned
      BY <2>9 DEF Sleep
    <3>2. nextTickTime' < Reach'
      BY <1>1, <2>5, <2>6, <2>7, <3>1, PacingConstants
    <3>3. QED BY <2>5, <3>1, <3>2 DEF FrameInv
  <2>10. QED BY <1>3, <2>8, <2>9 DEF Pace
<1>4. CASE Wake /\ UNCHANGED clock
  <2>1. /\ phase = "wait" /\ clock = until /\ phase' = "tick" /\ UNCHANGED <<clock, currentFrame>>
    BY <1>4 DEF Wake
  <2>2. Reach' = Reach /\ currentFrame' * Interval = currentFrame * Interval
    BY <2>1 DEF Reach
  <2>3. nextTickTime < Reach /\ until <= nextTickTime + MaxLate /\ currentFrame * Interval <= clock
    BY <2>1 DEF FrameInv, ScheduleInv
  <2>4. clock' < Reach' + MaxLate
    BY <1>1, <2>1, <2>2, <2>3, PacingConstants
  <2>5. QED BY <2>1, <2>2, <2>3, <2>4 DEF FrameInv
<1>5. CASE UNCHANGED <<clock, pacing>>
  BY <1>5 DEF pacing, FrameInv, Reach
<1>6. CASE TimePasses
  <2>1. /\ clock' \in Nat /\ clock < clock' /\ phase # "tick"
        /\ UNCHANGED <<phase, until, nextTickTime, currentFrame>>
    BY <1>6 DEF TimePasses, pacing
  <2>2. Reach' = Reach /\ currentFrame' * Interval = currentFrame * Interval
    BY <2>1 DEF Reach
  <2>3. currentFrame * Interval <= clock'
    BY <1>1, <2>1 DEF FrameInv
  <2>4. QED BY <2>1, <2>2, <2>3 DEF FrameInv
<1>7. QED BY <1>2, <1>3, <1>4, <1>5, <1>6 DEF PacingStep

LEMMA FrameInvariant == Spec => []FrameInv
<1>1. Init => FrameInv
  <2>1. (0 + 3) * Interval = 3 * Interval /\ 0 * Interval = 0
    BY PacingConstants
  <2>2. QED BY <2>1, PacingConstants DEF Init, PacingInit, FrameInv, Reach
<1>2. ScheduleInv /\ FrameInv /\ [Next]_vars => FrameInv'
  BY StepsAreLoopSteps, FrameStep DEF ScheduleInv, PacingTypeOK
<1>3. QED BY <1>1, <1>2, ScheduleInvariant, PTL DEF Spec

\* The frame never runs ahead of the time, nor falls behind it by more than
\* three intervals and the delays of one tick and one timer.
THEOREM FrameKeepsUp == Spec => []FrameFollowsClock
<1>1. ScheduleInv /\ FrameInv => FrameFollowsClock
  <2> SUFFICES ASSUME ScheduleInv, FrameInv PROVE FrameFollowsClock
    OBVIOUS
  <2>1. /\ clock \in Nat /\ until \in Nat /\ nextTickTime \in Int
        /\ Reach \in Nat /\ phase \in {"tick", "busy", "wait"}
    BY PacingConstants DEF ScheduleInv, PacingTypeOK, Reach
  <2>2. clock < Reach + MaxLate + MaxWork
    <3>1. CASE phase = "tick"
      BY <2>1, <3>1, PacingConstants DEF FrameInv
    <3>2. CASE phase = "busy"
      BY <2>1, <3>2, PacingConstants DEF FrameInv, ScheduleInv
    <3>3. CASE phase = "wait"
      <4>1. nextTickTime < Reach /\ until <= nextTickTime + MaxLate /\ clock <= until
        BY <3>3 DEF FrameInv, ScheduleInv
      <4>2. QED BY <2>1, <4>1, PacingConstants
    <3>4. QED BY <2>1, <3>1, <3>2, <3>3
  <2>3. QED BY <2>2 DEF FrameInv, FrameFollowsClock, Reach
<1>2. QED BY <1>1, FrameInvariant, ScheduleInvariant, PTL

-----------------------------------------------------------------------------
(* Rounds without a wait.                                                  *)

\* What is left of the error once the delay it counts is taken from it is at
\* most one and a half intervals: a longer one would have been corrected by a
\* round that did not wait.
Settled(t) == 2 * (accumulatedError - (t - nextTickTime)) <= 3 * Interval + 8

BurstInv ==
  /\ hurried \in {0, 1}
  /\ phase = "wait" => 2 * accumulatedError <= 3 * Interval + 8 /\ hurried = 0
  /\ phase = "tick" => Settled(clock) /\ (hurried = 1 => nextTickTime = clock)
  /\ phase = "busy" =>
       /\ Settled(until)
       /\ hurried = 1 => /\ 2 * (until - nextTickTime) <= Interval
                         /\ 2 * accumulatedError <= 3 * Interval + 8

LEMMA BurstStep ==
  ASSUME Interval >= 8, ScheduleInv, BurstInv, PacingStep
  PROVE  BurstInv'
<1>1. /\ clock \in Nat /\ until \in Nat /\ hurried \in {0, 1}
      /\ nextTickTime \in Int /\ accumulatedError \in Int
      /\ phase \in {"tick", "busy", "wait"}
  BY DEF ScheduleInv, PacingTypeOK, BurstInv
<1>2. CASE BeginTick /\ UNCHANGED clock
  <2>1. PICK work \in Works :
          /\ until' = clock + work
          /\ hurried' = IF 2 * work <= Interval THEN hurried ELSE 0
    BY <1>2 DEF BeginTick
  <2>2. work \in Nat
    BY PacingConstants
  <2>3. phase = "tick" /\ phase' = "busy" /\ UNCHANGED <<nextTickTime, accumulatedError>>
    BY <1>2 DEF BeginTick
  <2>4. Settled(clock) /\ (hurried = 1 => nextTickTime = clock)
    BY <2>3 DEF BurstInv
  <2>5. Settled(until)'
    BY <1>1, <2>1, <2>2, <2>3, <2>4, PacingConstants DEF Settled
  <2>6. hurried' = 1 => 2 * (until' - nextTickTime') <= Interval
    BY <1>1, <2>1, <2>2, <2>3, <2>4, PacingConstants
  <2>7. hurried' = 1 => 2 * accumulatedError' <= 3 * Interval + 8
    <3>1. nextTickTime = clock => 2 * accumulatedError <= 3 * Interval + 8
      BY <1>1, <2>4, PacingConstants DEF Settled
    <3>2. hurried' = 1 => nextTickTime = clock
      BY <2>1, <2>4
    <3>3. QED BY <2>3, <3>1, <3>2
  <2>8. QED BY <1>1, <2>1, <2>3, <2>5, <2>6, <2>7 DEF BurstInv
<1>3. CASE Pace /\ UNCHANGED clock
  <2> DEFINE q == Quarter(accumulatedError)
             d == clock - nextTickTime
  <2>1. phase = "busy" /\ clock = until /\ clock' = clock
    BY <1>3 DEF Pace
  <2>2. /\ q \in Int /\ d \in Int
        /\ accumulatedError >= 0 => 4 * q <= accumulatedError /\ accumulatedError <= 4 * q + 3
        /\ accumulatedError < 0 => 4 * q >= accumulatedError /\ accumulatedError >= 4 * q - 3 /\ q <= 0
    BY <1>1, QuarterBounds
  <2>3. Planned - clock = Interval - q - d /\ Remaining = accumulatedError - q
    BY <1>1, <2>2, PacingConstants DEF Planned, Remaining
  <2>4. 2 * (accumulatedError - d) <= 3 * Interval + 8
    BY <1>1, <2>1 DEF BurstInv, Settled
  <2>5. hurried = 1 => 2 * d <= Interval /\ 2 * accumulatedError <= 3 * Interval + 8
    BY <1>1, <2>1 DEF BurstInv
  <2>6. Planned \in Int
    BY <1>1, <2>2, PacingConstants DEF Planned
  <2> HIDE DEF q, d
  <2>7. CASE HurryOn
    <3>1. Interval - q - d < 0
      BY <1>1, <2>2, <2>3, <2>6, <2>7, PacingConstants DEF HurryOn
    \* A quick tick after a round without a wait is in time.
    <3>2. hurried # 1
      <4>1. \A e, c, w, n \in Int :
              /\ e >= 0 => 4 * c <= e
              /\ e < 0 => c <= 0
              /\ n - c - w < 0 /\ n >= 8
              => ~(2 * w <= n /\ 2 * e <= 3 * n + 8)
        OBVIOUS
      <4>2. QED BY <1>1, <2>2, <2>5, <3>1, <4>1, PacingConstants
    <3>3. hurried' = 1 /\ phase' = "tick" /\ nextTickTime' = clock
      BY <1>1, <2>7, <3>2 DEF HurryOn
    <3>4. 2 * (accumulatedError - q + (Interval - q - d)) <= 3 * Interval + 8
      <4>1. \A e, c, w, n \in Int :
              /\ e >= 0 => 4 * c <= e /\ e <= 4 * c + 3
              /\ e < 0 => 4 * c >= e /\ c <= 0
              /\ 2 * (e - w) <= 3 * n + 8 /\ n - c - w < 0 /\ n >= 8
              => 2 * (e - c + (n - c - w)) <= 3 * n + 8
        OBVIOUS
      <4>2. QED BY <1>1, <2>2, <2>4, <3>1, <4>1, PacingConstants
    <3>5. 2 * accumulatedError' <= 3 * Interval + 8
      BY <1>1, <2>2, <2>3, <2>7, <3>4, PacingConstants DEF HurryOn
    <3>6. accumulatedError' \in Int
      BY <1>1, <2>2, <2>3, <2>7, PacingConstants DEF HurryOn
    <3>7. Settled(clock)'
      <4>1. clock' - nextTickTime' = 0
        BY <1>1, <2>1, <3>3
      <4>2. accumulatedError' - (clock' - nextTickTime') = accumulatedError'
        BY <3>6, <4>1
      <4>3. QED BY <3>5, <4>2 DEF Settled
    <3>8. QED BY <2>1, <3>3, <3>7 DEF BurstInv
  <2>8. CASE Sleep
    <3>1. Interval - q - d >= 0
      BY <1>1, <2>2, <2>3, <2>6, <2>8, PacingConstants DEF Sleep
    <3>2. \A e, c, w, n \in Int :
            /\ e >= 0 => 4 * c <= e /\ e <= 4 * c + 3
            /\ e < 0 => 4 * c >= e /\ c <= 0
            /\ 2 * (e - w) <= 3 * n + 8 /\ n - c - w >= 0 /\ n >= 8
            => 2 * (e - c) <= 3 * n + 8
      OBVIOUS
    <3>3. 2 * (accumulatedError - q) <= 3 * Interval + 8
      BY <1>1, <2>2, <2>4, <3>1, <3>2, PacingConstants
    <3>4. phase' = "wait" /\ hurried' = 0 /\ accumulatedError' = accumulatedError - q
      BY <2>3, <2>8 DEF Sleep
    <3>5. QED BY <3>3, <3>4 DEF BurstInv
  <2>9. QED BY <1>3, <2>7, <2>8 DEF Pace
<1>4. CASE Wake /\ UNCHANGED clock
  <2>1. /\ phase = "wait" /\ phase' = "tick" /\ hurried' = hurried /\ clock' = clock
        /\ accumulatedError' = accumulatedError + (clock - nextTickTime)
        /\ nextTickTime' = nextTickTime
    BY <1>4 DEF Wake
  <2>2. 2 * accumulatedError <= 3 * Interval + 8 /\ hurried = 0
    BY <2>1 DEF BurstInv
  <2>3. Settled(clock)'
    BY <1>1, <2>1, <2>2, PacingConstants DEF Settled
  <2>4. QED BY <2>1, <2>2, <2>3 DEF BurstInv
<1>5. CASE UNCHANGED <<clock, pacing>>
  BY <1>5 DEF pacing, BurstInv, Settled
<1>6. CASE TimePasses
  BY <1>6 DEF TimePasses, pacing, BurstInv, Settled
<1>7. QED BY <1>2, <1>3, <1>4, <1>5, <1>6 DEF PacingStep

\* After a round without a wait, the next one waits, if its tick takes no more
\* than half an interval: missed ticks are not run back to back.
THEOREM NoBursts == ASSUME Interval >= 8 PROVE Spec => []NoBurst
<1>1. Init => BurstInv
  BY PacingConstants DEF Init, PacingInit, BurstInv, Settled
<1>2. ScheduleInv /\ BurstInv /\ [Next]_vars => BurstInv'
  BY StepsAreLoopSteps, BurstStep DEF ScheduleInv, PacingTypeOK
<1>3. BurstInv => NoBurst
  BY DEF BurstInv, NoBurst
<1>4. QED BY <1>1, <1>2, <1>3, ScheduleInvariant, PTL DEF Spec

-----------------------------------------------------------------------------
(* Divisions and averages.                                                 *)

LEMMA Products ==
  ASSUME NEW k \in Nat \ {0}, NEW x \in Int, NEW y \in Int
  PROVE  /\ k * x \in Int
         /\ k * (x - y) = k * x - k * y
         /\ x <= y => k * x <= k * y
         /\ k * x <= k * y => x <= y
         /\ k * x < k * y + k => x <= y
<1>1. k * (x - y) = k * x - k * y /\ k * x \in Int /\ k * (x - y) \in Int
  OBVIOUS
<1>2. x <= y => k * x <= k * y
  BY Z3
<1>3. x >= y + 1 => k * x >= k * (y + 1)
  BY Z3
<1>4. k * (y + 1) = k * y + k /\ k * y \in Int
  OBVIOUS
<1>5. QED BY <1>1, <1>2, <1>3, <1>4

LEMMA PartBounds ==
  ASSUME NEW n \in Int, NEW d \in Nat \ {0}
  PROVE  /\ Part(n, d) \in Int /\ d * Part(n, d) \in Int
         /\ n >= 0 => Part(n, d) >= 0 /\ d * Part(n, d) <= n /\ n < d * Part(n, d) + d
         /\ n < 0 => Part(n, d) <= 0 /\ n <= d * Part(n, d) /\ d * Part(n, d) - d < n
<1>1. \A m \in Nat : m \div d \in Nat /\ d * (m \div d) <= m /\ m < d * (m \div d) + d
  BY Z3
<1>2. CASE n >= 0
  BY <1>1, <1>2, Z3 DEF Part
<1>3. CASE n < 0
  <2>1. -n \in Nat /\ Part(n, d) = -((-n) \div d)
    BY <1>3 DEF Part
  <2>2. d * Part(n, d) = -(d * ((-n) \div d))
    BY <1>1, <2>1
  <2>3. QED BY <1>1, <1>3, <2>1, <2>2
<1>4. QED BY <1>2, <1>3

\* The share of an old value that a new one leaves.
LEMMA Parted ==
  ASSUME NEW k \in Nat \ {0}, NEW b \in Int
  PROVE  (k - 1) * b \in Int /\ k * b = (k - 1) * b + b
  OBVIOUS

\* An average lies between what it is taken of.
LEMMA AverageBounds ==
  ASSUME NEW k \in Nat \ {0}, NEW a \in Int, NEW b \in Int,
         NEW lo \in Int, NEW hi \in Int, a \in lo..hi, b \in lo..hi
  PROVE  Part(a + (k - 1) * b, k) \in lo..hi
<1> DEFINE s == a + (k - 1) * b
           q == Part(s, k)
<1>1. k - 1 \in Nat /\ (k - 1) * b \in Int /\ (k - 1) * lo \in Int /\ (k - 1) * hi \in Int
  OBVIOUS
<1>2. (k - 1) * lo <= (k - 1) * b /\ (k - 1) * b <= (k - 1) * hi
  <2>1. CASE k = 1
    BY <2>1
  <2>2. CASE k > 1
    BY <2>2, Products
  <2>3. QED BY <2>1, <2>2
<1>3. s \in Int /\ k * lo <= s /\ s <= k * hi /\ k * lo \in Int /\ k * hi \in Int
  BY <1>1, <1>2, Parted
<1>4. /\ q \in Int /\ k * q \in Int
      /\ s >= 0 => k * q <= s /\ s < k * q + k
      /\ s < 0 => s <= k * q /\ k * q - k < s
      /\ s >= 0 => q >= 0
      /\ s < 0 => q <= 0
  BY <1>3, PartBounds
<1> HIDE DEF s, q
<1>5. ASSUME s >= 0 PROVE q \in lo..hi
  <2>1. k * q <= k * hi /\ k * lo < k * q + k
    BY <1>3, <1>4, <1>5
  <2>2. QED BY <1>4, <2>1, Products
<1>6. ASSUME s < 0 PROVE q \in lo..hi
  <2>1. k * lo <= k * q /\ k * q < k * hi + k
    BY <1>3, <1>4, <1>6
  <2>2. QED BY <1>4, <2>1, Products
<1>7. q \in lo..hi
  BY <1>3, <1>5, <1>6
<1>8. QED BY <1>7 DEF q, s

LEMMA ClampBounds ==
  ASSUME NEW n \in Int, NEW max \in Nat
  PROVE  /\ Clamp(n, max) \in -max..max
         /\ n \in 0..max => Clamp(n, max) = n
         /\ n >= 0 => Clamp(n, max) \in 0..n
         /\ n <= 0 => Clamp(n, max) \in n..0
         /\ n > 0 /\ max > 0 => Clamp(n, max) > 0
         /\ n < 0 /\ max > 0 => Clamp(n, max) < 0
         /\ \A lo \in 0..max : n >= lo => Clamp(n, max) \in lo..n
  BY DEF Clamp

LEMMA SampleBounds ==
  ASSUME NEW sent \in Nat, clock \in Nat
  PROVE  /\ Sample(sent) \in Int /\ Sample(sent) <= MaxPing
         /\ clock - sent \in 0..2^15 - 1 =>
              Sample(sent) = IF clock - sent > MaxPing THEN MaxPing ELSE clock - sent
<1>1. 2^15 = 32768 /\ 2^16 = 65536
  OBVIOUS
<1>2. ASSUME NEW m \in Int
      PROVE  Int16(m) \in Int /\ (m \in 0..32767 => Int16(m) = m)
  <2> DEFINE wrapped == (m + 32768) % 65536
  <2>1. Int16(m) = wrapped - 32768
    BY <1>1 DEF Int16
  <2>2. wrapped \in Int
    OBVIOUS
  <2>3. \A i \in 0..32767 : (i + 32768) % 65536 = i + 32768
    OBVIOUS
  <2>4. m \in 0..32767 => wrapped = m + 32768
    BY <2>3
  <2> HIDE DEF wrapped
  <2>5. QED BY <2>1, <2>2, <2>4
<1>3. clock - sent \in Int /\ MaxPing \in Nat
  BY ClockAssumption
<1>4. /\ Int16(clock - sent) \in Int
      /\ clock - sent \in 0..32767 => Int16(clock - sent) = clock - sent
  BY <1>2, <1>3
<1>5. 2^15 - 1 = 32767
  BY <1>1
<1>6. Sample(sent) = IF Int16(clock - sent) > MaxPing THEN MaxPing ELSE Int16(clock - sent)
  BY DEF Sample, Capped
<1>7. QED BY <1>3, <1>4, <1>5, <1>6

-----------------------------------------------------------------------------
(* Types.                                                                  *)

LEMMA ClockConstants ==
  /\ FrameTime \in Nat \ {0} /\ FrameTime <= Interval
  /\ RiftPeriod \in Nat \ {0} /\ PingShare \in Nat \ {0} /\ MaxRift \in Nat \ {0}
  /\ RiftShare \in Nat \ {0} /\ Scale \in Nat \ {0}
  /\ MaxPing \in Nat /\ EarlyFrames \in Nat /\ Delay \in Nat /\ MaxJitter \in Nat
  /\ MaxLost \in Nat /\ Horizon \in Nat
  /\ Jitters \subseteq 0..MaxJitter /\ Leads \subseteq Int
  /\ Scale * MaxPing \in Nat /\ Scale * MaxRift \in Nat /\ Scale * MaxRift > 0
<1>1. \A m \in Nat : Scale * m \in Nat
  BY ClockAssumption
<1>2. Scale * MaxRift > 0
  BY ClockAssumption, Z3
<1>3. QED BY <1>1, <1>2, ClockAssumption, PacingConstants

LEMMA SmoothPingBounds ==
  ASSUME NEW sample \in 0..MaxPing, smoothedPing \in 0..Scale * MaxPing
  PROVE  SmoothPing(sample) \in 0..Scale * MaxPing
<1>1. Scale * sample \in 0..Scale * MaxPing
  <2>1. Scale * sample <= Scale * MaxPing /\ Scale * sample \in Nat
    BY ClockConstants, Products
  <2>2. QED BY <2>1, ClockConstants
<1>2. Part(Scale * sample + (PingShare - 1) * smoothedPing, PingShare) \in 0..Scale * MaxPing
  <2>1. /\ smoothedPing \in Int /\ Scale * sample \in Int /\ 0 \in Int
        /\ Scale * MaxPing \in Int /\ PingShare \in Nat \ {0}
    BY <1>1, ClockConstants
  <2>2. QED BY <1>1, <2>1, AverageBounds
<1> DEFINE blended == Part(Scale * sample + (PingShare - 1) * smoothedPing, PingShare)
<1>3. Clamp(blended, Scale * MaxPing) \in 0..Scale * MaxPing
  <2> HIDE DEF blended
  <2>1. blended \in 0..Scale * MaxPing
    BY <1>2 DEF blended
  <2>2. QED BY <2>1, ClampBounds, ClockConstants
<1>4. QED BY <1>1, <1>3 DEF SmoothPing

LEMMA RawRiftType ==
  ASSUME lastClientFrame \in Nat, currentFrame \in Nat, smoothedPing \in 0..Scale * MaxPing
  PROVE  RawRift \in Int
<1>1. Part(smoothedPing, 2 * FrameTime) \in Int
  BY ClockConstants, PartBounds
<1>2. Scale * (lastClientFrame - currentFrame) \in Int
  BY ClockConstants
<1>3. QED BY <1>1, <1>2 DEF RawRift

LEMMA SmoothRiftType ==
  ASSUME NEW raw \in Int, smoothRift \in Int
  PROVE  SmoothRift(raw) \in Int
<1>1. Part(smoothRift, 2) \in Int
  BY PartBounds
<1>2. (RiftShare - 1) * smoothRift \in Int
  BY ClockConstants
<1>3. Part(raw + (RiftShare - 1) * smoothRift, RiftShare) \in Int
  BY <1>2, PartBounds, ClockConstants
<1>4. QED BY <1>1, <1>3 DEF SmoothRift

LEMMA TypeStep == TypeOK /\ ScheduleInv' /\ [Next]_vars => TypeOK'
<1> SUFFICES ASSUME TypeOK, ScheduleInv', [Next]_vars PROVE TypeOK'
  OBVIOUS
<1>1. PacingTypeOK'
  BY DEF ScheduleInv
<1>2. clock \in Nat /\ currentFrame \in Nat
  BY DEF TypeOK, PacingTypeOK
<1>3. CASE ReceiveInput
  BY <1>1, <1>3, ClockConstants DEF ReceiveInput, TypeOK, ping, rift
<1>4. CASE LoseInput
  BY <1>1, <1>4, ClockConstants DEF LoseInput, TypeOK, ping, rift, frame
<1>5. CASE ReceiveAck
  <2> PICK a \in acks :
        /\ a.due = clock
        /\ IF a.sent \in pendingPings THEN TakeSample(a.sent) ELSE UNCHANGED ping
        /\ \/ acks' = acks \ {a}
           \/ /\ ~a.again
              /\ acks' = (acks \ {a}) \cup {[sent |-> a.sent, due |-> a.due + Interval, again |-> TRUE]}
    BY <1>5 DEF ReceiveAck
  <2>1. UNCHANGED <<clock, pacing, lead, nextInput, lost, frame, rift>>
    BY <1>5 DEF ReceiveAck
  <2>2. a \in [sent : 0..clock, due : Nat, again : BOOLEAN]
    BY DEF TypeOK
  <2>3. [sent |-> a.sent, due |-> a.due + Interval, again |-> TRUE]
          \in [sent : 0..clock, due : Nat, again : BOOLEAN]
    BY <2>2, PacingConstants
  <2>4. acks' \subseteq [sent : 0..clock', due : Nat, again : BOOLEAN]
    BY <2>1, <2>3 DEF TypeOK
  <2>5. /\ pendingPings' \subseteq 0..clock' /\ smoothedPing' \in 0..Scale * MaxPing
        /\ pingInitialized' \in BOOLEAN /\ hasNewPing' \in BOOLEAN
    <3>1. CASE UNCHANGED ping
      BY <2>1, <3>1 DEF TypeOK, ping
    <3>2. CASE TakeSample(a.sent)
      <4>1. Sample(a.sent) > -1 => SmoothPing(Sample(a.sent)) \in 0..Scale * MaxPing
        BY <1>2, <2>2, SampleBounds, SmoothPingBounds, ClockConstants DEF TypeOK
      <4>2. QED BY <2>1, <3>2, <4>1 DEF TypeOK, TakeSample
    <3>3. QED BY <3>1, <3>2
  <2>6. QED BY <1>1, <2>1, <2>4, <2>5 DEF TypeOK, frame, rift
<1>6. CASE Tick
  <2>1. calcRiftVariableTick /\ SendPlayerInput
        /\ UNCHANGED <<clock, lead, nextInput, lost, lastClientFrame, pingInitialized, smoothedPing>>
    BY <1>6 DEF Tick
  <2>2. /\ smoothRift' \in -Scale * MaxRift..Scale * MaxRift
        /\ {hasNewPing', hasNewFrame', riftInit'} \subseteq BOOLEAN
    <3>1. -Scale * MaxRift = -(Scale * MaxRift)
      BY ClockConstants
    <3>2. smoothRift \in Int
      BY ClockConstants DEF TypeOK
    <3>3. RawRift \in Int /\ SmoothRift(RawRift) \in Int
      BY <1>2, <3>2, RawRiftType, SmoothRiftType DEF TypeOK
    <3>4. \A n \in Int : Clamp(n, Scale * MaxRift) \in -Scale * MaxRift..Scale * MaxRift
      BY <3>1, ClampBounds, ClockConstants
    <3>5. QED BY <2>1, <3>3, <3>4 DEF calcRiftVariableTick, TypeOK, rift
  <2>3. /\ pendingPings' \subseteq 0..clock'
        /\ acks' \subseteq [sent : 0..clock', due : Nat, again : BOOLEAN]
    <3>1. CASE UNCHANGED <<pendingPings, acks>>
      BY <2>1, <3>1 DEF TypeOK
    <3>2. CASE pendingPings' = pendingPings \cup {clock}
      <4>1. \A j \in Jitters : [sent |-> clock, due |-> clock + 2 * Delay + j, again |-> FALSE]
                                 \in [sent : 0..clock, due : Nat, again : BOOLEAN]
        BY <1>2, ClockConstants
      <4>2. acks' \subseteq [sent : 0..clock, due : Nat, again : BOOLEAN]
        <5>1. CASE UNCHANGED <<pendingPings, acks>>
          BY <5>1 DEF TypeOK
        <5>2. CASE ~UNCHANGED <<pendingPings, acks>>
          BY <2>1, <4>1, <5>2 DEF SendPlayerInput, TypeOK
        <5>3. QED BY <5>1, <5>2
      <4>3. QED BY <1>2, <2>1, <3>2, <4>2 DEF TypeOK
    <3>3. QED BY <2>1, <3>1, <3>2 DEF SendPlayerInput
  <2>4. QED BY <1>1, <2>1, <2>2, <2>3 DEF TypeOK
<1>7. CASE TickEnds
  BY <1>1, <1>7 DEF TickEnds, TypeOK, network, frame, ping, rift
<1>8. CASE Pass
  <2>1. clock' \in Nat /\ clock < clock' /\ UNCHANGED <<lead, network, frame, ping, rift>>
    BY <1>2, <1>8, ClockConstants DEF Pass
  <2>2. 0..clock \subseteq 0..clock'
    BY <1>2, <2>1
  <2>3. acks' \subseteq [sent : 0..clock', due : Nat, again : BOOLEAN]
    BY <2>1, <2>2 DEF TypeOK, network
  <2>4. QED BY <1>1, <2>1, <2>2, <2>3 DEF TypeOK, network, frame, ping, rift
<1>9. CASE UNCHANGED vars
  BY <1>1, <1>9 DEF vars, TypeOK, network, frame, ping, rift
<1>10. QED BY <1>3, <1>4, <1>5, <1>6, <1>7, <1>8, <1>9 DEF Next

\* The ping stays a ping of at most 255 ms and the rift one of at most 20 frames.
THEOREM ClockTypes == Spec => []TypeOK
<1>1. ScheduleInv /\ Init => TypeOK
  <2>1. -Scale * MaxRift = -(Scale * MaxRift)
    BY ClockConstants
  <2> SUFFICES ASSUME ScheduleInv, Init PROVE TypeOK
    OBVIOUS
  <2>2. nextInput \in Nat /\ lead \in Leads
    BY ClockConstants DEF Init
  <2>3. /\ smoothRift \in -Scale * MaxRift..Scale * MaxRift /\ smoothedPing \in 0..Scale * MaxPing
        /\ lost \in 0..MaxLost
    BY <2>1, ClockConstants DEF Init
  <2>4. QED BY <2>2, <2>3 DEF Init, TypeOK, ScheduleInv
<1>2. QED BY <1>1, TypeStep, ScheduleInvariant, PTL DEF Spec

-----------------------------------------------------------------------------
(* The ping lies between the samples, if no answer takes so long that the  *)
(* int16 wraps around.                                                     *)

\* Every tick starts after the messages sent so far.
SentBeforeTick ==
  \A a \in acks : IF phase = "busy" THEN a.sent < until ELSE a.sent < clock

\* An acknowledgement that comes again finds its message pending no more.
AcksInv ==
  /\ SentBeforeTick
  /\ \A a \in acks : IF a.again THEN a.sent \notin pendingPings
                                ELSE a.due \in a.sent + 2 * Delay..a.sent + 2 * Delay + MaxJitter

LEMMA AcksStep == TypeOK /\ ScheduleInv /\ AcksInv /\ [Next]_vars => AcksInv'
<1> SUFFICES ASSUME TypeOK, ScheduleInv, AcksInv, [Next]_vars PROVE AcksInv'
  OBVIOUS
<1>1. /\ clock \in Nat /\ until \in Nat /\ phase \in {"tick", "busy", "wait"}
      /\ acks \subseteq [sent : 0..clock, due : Nat, again : BOOLEAN]
  BY DEF TypeOK, PacingTypeOK
<1>2. CASE ReceiveInput \/ LoseInput \/ UNCHANGED vars
  BY <1>2 DEF ReceiveInput, LoseInput, vars, pacing, network, ping, AcksInv, SentBeforeTick
<1>3. CASE ReceiveAck
  <2> PICK a \in acks :
        /\ a.due = clock
        /\ IF a.sent \in pendingPings THEN TakeSample(a.sent) ELSE UNCHANGED ping
        /\ \/ acks' = acks \ {a}
           \/ /\ ~a.again
              /\ acks' = (acks \ {a}) \cup {[sent |-> a.sent, due |-> a.due + Interval, again |-> TRUE]}
    BY <1>3 DEF ReceiveAck
  <2>1. UNCHANGED <<clock, phase, until>>
    BY <1>3 DEF ReceiveAck, pacing
  <2>2. pendingPings' \subseteq pendingPings /\ a.sent \notin pendingPings'
    BY DEF TakeSample, ping
  <2>3. SentBeforeTick'
    BY <2>1 DEF AcksInv, SentBeforeTick
  <2>4. \A b \in acks : IF b.again THEN b.sent \notin pendingPings'
                               ELSE b.due \in b.sent + 2 * Delay..b.sent + 2 * Delay + MaxJitter
    BY <2>2 DEF AcksInv
  <2>5. \A b \in acks' : IF b.again THEN b.sent \notin pendingPings'
                                ELSE b.due \in b.sent + 2 * Delay..b.sent + 2 * Delay + MaxJitter
    BY <2>2, <2>4
  <2>6. QED BY <2>3, <2>5 DEF AcksInv
<1>4. CASE Tick
  <2>1. /\ phase = "tick" /\ phase' = "busy" /\ clock' = clock /\ SendPlayerInput
    BY <1>4 DEF Tick, BeginTick
  <2>2. until' \in Nat /\ clock < until'
    <3>1. PICK work \in Works : until' = clock + work
      BY <1>4 DEF Tick, BeginTick
    <3>2. QED BY <1>1, <3>1, PacingConstants
  <2>3. CASE UNCHANGED <<pendingPings, acks>>
    <3>1. \A a \in acks : a.sent < until'
      BY <1>1, <2>1, <2>2 DEF AcksInv, SentBeforeTick
    <3>2. QED BY <2>1, <2>3, <3>1 DEF AcksInv, SentBeforeTick
  <2>4. CASE ~UNCHANGED <<pendingPings, acks>>
    <3>1. PICK j \in Jitters :
            /\ pendingPings' = pendingPings \cup {clock}
            /\ acks' = acks \cup {[sent |-> clock, due |-> clock + 2 * Delay + j, again |-> FALSE]}
      BY <2>1, <2>4 DEF SendPlayerInput
    <3>2. clock + 2 * Delay + j \in clock + 2 * Delay..clock + 2 * Delay + MaxJitter
      BY <1>1, ClockConstants
    <3>3. \A a \in acks : a.sent < clock /\ a.sent < until' /\ a.sent # clock
      BY <1>1, <2>1, <2>2 DEF AcksInv, SentBeforeTick
    <3>4. QED BY <2>1, <2>2, <3>1, <3>2, <3>3 DEF AcksInv, SentBeforeTick
  <2>5. QED BY <2>3, <2>4
<1>5. CASE TickEnds
  <2>1. /\ clock' = clock /\ UNCHANGED <<acks, pendingPings>>
        /\ phase # "tick" /\ clock = until /\ phase' # "busy"
    BY <1>5 DEF TickEnds, Pace, Wake, HurryOn, Sleep, network, ping
  <2>2. QED BY <2>1 DEF AcksInv, SentBeforeTick
<1>6. CASE Pass
  <2>1. clock' \in Nat /\ clock < clock' /\ UNCHANGED <<phase, until, acks, pendingPings>>
    BY <1>1, <1>6, ClockConstants DEF Pass, pacing, network, ping
  <2>2. \A a \in acks : a.sent < clock => a.sent < clock'
    BY <1>1, <2>1
  <2>3. QED BY <2>1, <2>2 DEF AcksInv, SentBeforeTick
<1>7. QED BY <1>2, <1>3, <1>4, <1>5, <1>6 DEF Next

\* The acknowledgement that a sample is taken of came in time.
LEMMA SampleInTime ==
  ASSUME TypeOK, AcksInv, 2 * Delay + MaxJitter < 2^15,
         NEW a \in acks, a.due = clock, a.sent \in pendingPings
  PROVE  Sample(a.sent) \in Capped(2 * Delay)..Capped(2 * Delay + MaxJitter)
<1>1. clock \in Nat /\ a \in [sent : 0..clock, due : Nat, again : BOOLEAN]
  BY DEF TypeOK, PacingTypeOK
<1>2. clock - a.sent \in 2 * Delay..2 * Delay + MaxJitter
  BY <1>1, ClockConstants DEF AcksInv
<1>3. 2^15 \in Int
  OBVIOUS
<1>4. clock - a.sent \in 0..2^15 - 1
  BY <1>1, <1>2, <1>3, ClockConstants
<1>5. Sample(a.sent) = IF clock - a.sent > MaxPing THEN MaxPing ELSE clock - a.sent
  BY <1>1, <1>4, SampleBounds
<1>6. Sample(a.sent) = Capped(clock - a.sent)
  BY <1>5 DEF Capped
<1>7. \A m, n \in Int : m <= n => Capped(m) \in Int /\ Capped(m) <= Capped(n)
  BY ClockConstants DEF Capped
<1>8. /\ 2 * Delay \in Int /\ clock - a.sent \in Int /\ 2 * Delay + MaxJitter \in Int
      /\ 2 * Delay <= clock - a.sent /\ clock - a.sent <= 2 * Delay + MaxJitter
  BY <1>1, <1>2, ClockConstants
<1>9. /\ Capped(clock - a.sent) \in Int
      /\ Capped(2 * Delay) <= Capped(clock - a.sent)
      /\ Capped(clock - a.sent) <= Capped(2 * Delay + MaxJitter)
      /\ Capped(2 * Delay) \in Int /\ Capped(2 * Delay + MaxJitter) \in Int
  BY <1>7, <1>8, ClockConstants DEF Capped
<1>10. QED BY <1>6, <1>9

\* What the cap leaves of the shortest and of the longest round trip.
Shortest == Capped(2 * Delay)
Longest  == Capped(2 * Delay + MaxJitter)

LEMMA RoundTrips ==
  Shortest \in Nat /\ Longest \in Nat /\ Shortest <= Longest /\ Shortest <= MaxPing
  BY ClockConstants DEF Shortest, Longest, Capped

LEMMA PingStep ==
  ASSUME TypeOK, AcksInv, PingWithinSamples, 2 * Delay + MaxJitter < 2^15, [Next]_vars
  PROVE  PingWithinSamples'
<1> DEFINE lo == Scale * Shortest
           hi == Scale * Longest
<1>1. lo \in Nat /\ hi \in Nat /\ lo <= hi /\ lo <= Scale * MaxPing
  BY RoundTrips, Products, ClockConstants
<1>2. \A n \in Shortest..Longest : Scale * n \in lo..hi
  BY <1>1, RoundTrips, Products, ClockConstants
<1> HIDE DEF lo, hi
<1>3. CASE UNCHANGED <<pingInitialized, smoothedPing>>
  BY <1>3 DEF PingWithinSamples
<1>4. CASE ReceiveAck
  <2> PICK a \in acks :
        /\ a.due = clock
        /\ IF a.sent \in pendingPings THEN TakeSample(a.sent) ELSE UNCHANGED ping
    BY <1>4 DEF ReceiveAck
  <2>1. CASE a.sent \notin pendingPings
    BY <1>3, <2>1 DEF ping
  <2>2. CASE a.sent \in pendingPings
    <3> DEFINE sample == Sample(a.sent)
    <3>1. sample \in Shortest..Longest
      BY <2>2, SampleInTime DEF Shortest, Longest
    <3>2. TakeSample(a.sent)
      BY <2>2
    <3>3. SmoothPing(sample) \in lo..hi
      <4> HIDE DEF sample
      <4>1. Scale * sample \in lo..hi
        BY <1>2, <3>1
      <4>2. CASE ~pingInitialized
        BY <4>1, <4>2 DEF SmoothPing
      <4>3. CASE pingInitialized
        <5> DEFINE blended == Part(Scale * sample + (PingShare - 1) * smoothedPing, PingShare)
        <5>1. smoothedPing \in lo..hi
          BY <4>3 DEF PingWithinSamples, lo, hi, Shortest, Longest
        <5>2. blended \in lo..hi
          <6>1. /\ Scale * sample \in Int /\ smoothedPing \in Int
                /\ lo \in Int /\ hi \in Int /\ PingShare \in Nat \ {0}
            BY <1>1, <4>1, <5>1, ClockConstants
          <6>2. QED BY <4>1, <5>1, <6>1, AverageBounds
        <5>3. SmoothPing(sample) = Clamp(blended, Scale * MaxPing)
          BY <4>3 DEF SmoothPing
        <5> HIDE DEF blended
        <5>4. Clamp(blended, Scale * MaxPing) \in lo..blended
          <6>1. /\ lo \in 0..Scale * MaxPing /\ Scale * MaxPing \in Nat
                /\ blended \in Int /\ blended >= lo
            BY <1>1, <5>2, ClockConstants
          <6>2. QED BY <6>1, ClampBounds
        <5>5. QED BY <1>1, <5>2, <5>3, <5>4
      <4>4. QED BY <4>2, <4>3 DEF TypeOK
    <3> HIDE DEF sample
    <3>4. CASE sample > -1
      BY <3>2, <3>3, <3>4 DEF TakeSample, PingWithinSamples, sample, lo, hi, Shortest, Longest
    <3>5. CASE ~(sample > -1)
      BY <3>1, <3>5, RoundTrips
    <3>6. QED BY <3>4, <3>5
  <2>3. QED BY <2>1, <2>2
<1>5. QED
  BY <1>3, <1>4 DEF Next, ReceiveInput, LoseInput, Tick, TickEnds, Pass, vars, ping

LEMMA AcksInvariant == Spec => []AcksInv
<1>1. Init => AcksInv
  BY DEF Init, AcksInv, SentBeforeTick
<1>2. QED BY <1>1, AcksStep, ClockTypes, ScheduleInvariant, PTL DEF Spec

\* Whichever acknowledgements are lost, late or doubled, the ping stays between
\* the shortest and the longest round trip, each counted as no more than the cap.
THEOREM PingsWithinSamples ==
  ASSUME 2 * Delay + MaxJitter < 2^15
  PROVE  Spec => []PingWithinSamples
<1>1. Init => PingWithinSamples
  BY DEF Init, PingWithinSamples
<1>2. TypeOK /\ AcksInv /\ PingWithinSamples /\ [Next]_vars => PingWithinSamples'
  BY PingStep
<1>3. QED BY <1>1, <1>2, AcksInvariant, ClockTypes, PTL DEF Spec

-----------------------------------------------------------------------------
(* The measurements of the rift.                                           *)

\* The Input that a tick measures against is the latest that was not lost, and
\* no older than the next one is late.
ClientInv ==
  /\ clock <= InputDue
  /\ hasNewFrame => /\ lastClientFrame = nextInput - 1 - lost
                    /\ (lastClientFrame - lead) * Interval + Delay <= clock
  /\ hasNewPing => pingInitialized

LEMMA ClientStep == TypeOK /\ ClientInv /\ [Next]_vars => ClientInv'
<1> SUFFICES ASSUME TypeOK, ClientInv, [Next]_vars PROVE ClientInv'
  OBVIOUS
<1>1. /\ clock \in Nat /\ nextInput \in Nat /\ lead \in Int /\ lost \in Nat
      /\ lastClientFrame \in Nat
  BY ClockConstants DEF TypeOK, PacingTypeOK
<1>2. CASE clock' = clock /\ UNCHANGED <<lead, nextInput, lost, lastClientFrame, hasNewFrame, hasNewPing, pingInitialized>>
  BY <1>2 DEF ClientInv, InputDue
<1>3. CASE ReceiveInput \/ LoseInput
  <2> DEFINE due(n) == (n - lead) * Interval + Delay
  <2>1. /\ clock = due(nextInput) /\ clock' = clock /\ nextInput' = nextInput + 1 /\ lead' = lead
        /\ UNCHANGED ping
    BY <1>3 DEF ReceiveInput, LoseInput, InputDue
  <2>2. due(nextInput + 1) = due(nextInput) + Interval
    <3>1. \A n, l \in Int : (n + 1 - l) * Interval = (n - l) * Interval + Interval
      BY PacingConstants
    <3>2. (nextInput - lead) * Interval \in Int
      BY <1>1, PacingConstants
    <3>3. QED BY <1>1, <3>1, <3>2, PacingConstants, ClockConstants
  <2>3. clock' <= InputDue'
    <3>1. InputDue' = clock + Interval
      BY <2>1, <2>2 DEF InputDue
    <3>2. QED BY <1>1, <2>1, <3>1, PacingConstants
  <2>4. CASE ReceiveInput
    <3>1. lastClientFrame' = nextInput /\ lost' = 0
      BY <2>4 DEF ReceiveInput
    <3>2. (lastClientFrame' - lead') * Interval + Delay = clock
      BY <2>1, <3>1
    <3>3. QED BY <1>1, <2>1, <2>3, <3>1, <3>2 DEF ClientInv, ping
  <2>5. CASE LoseInput
    <3>1. lost' = lost + 1 /\ UNCHANGED <<lastClientFrame, hasNewFrame>>
      BY <2>5 DEF LoseInput, frame
    <3>2. QED BY <1>1, <2>1, <2>3, <3>1 DEF ClientInv, ping
  <2>6. QED BY <1>3, <2>4, <2>5
<1>4. CASE ReceiveAck
  <2>1. UNCHANGED <<clock, lead, nextInput, lost, lastClientFrame, hasNewFrame>>
    BY <1>4 DEF ReceiveAck, frame
  <2>2. hasNewPing' => pingInitialized'
    BY <1>4 DEF ReceiveAck, TakeSample, ping, ClientInv
  <2>3. QED BY <2>1, <2>2 DEF ClientInv, InputDue
<1>5. CASE Tick
  <2>1. UNCHANGED <<clock, lead, nextInput, lost, lastClientFrame, pingInitialized>>
    BY <1>5 DEF Tick
  <2>2. (hasNewFrame' => hasNewFrame) /\ (hasNewPing' => hasNewPing)
    BY <1>5 DEF Tick, calcRiftVariableTick
  <2>3. QED BY <2>1, <2>2 DEF ClientInv, InputDue
<1>6. CASE Pass
  <2>1. /\ clock' \in Nat /\ clock < clock' /\ clock' <= InputDue
        /\ UNCHANGED <<lead, nextInput, lost, lastClientFrame, hasNewFrame, hasNewPing, pingInitialized>>
    BY <1>1, <1>6, ClockConstants DEF Pass, Due, network, frame, ping
  <2>2. \A i \in Int : i <= clock => i <= clock'
    BY <1>1, <2>1
  <2>3. (lastClientFrame - lead) * Interval + Delay \in Int
    BY <1>1, PacingConstants, ClockConstants
  <2>4. QED BY <2>1, <2>2, <2>3 DEF ClientInv, InputDue
<1>7. CASE TickEnds \/ UNCHANGED vars
  BY <1>2, <1>7 DEF TickEnds, vars, network, frame, ping
<1>8. QED BY <1>3, <1>4, <1>5, <1>6, <1>7 DEF Next

LEMMA ClientInvariant == Spec => []ClientInv
<1>1. Init => ClientInv
  <2> SUFFICES ASSUME Init PROVE ClientInv
    OBVIOUS
  <2>1. clock = 0 /\ lead \in Int /\ nextInput = (IF lead > 0 THEN lead + 1 ELSE 1)
    BY ClockConstants DEF Init, PacingInit
  <2>2. nextInput - lead \in Nat
    BY <2>1
  <2>3. InputDue \in Nat
    BY <2>2, PacingConstants, ClockConstants DEF InputDue
  <2>4. QED BY <2>1, <2>3 DEF Init, ClientInv
<1>2. QED BY <1>1, ClientStep, ClockTypes, PTL DEF Spec

\* The arithmetic of a measurement: the client is in frame x and the server in
\* frame c, l apart; a frame takes i and half the ping at least d.
LEMMA MeasuredHigh ==
  ASSUME NEW s \in Nat \ {0}, NEW i \in Nat \ {0}, NEW d \in Nat, NEW late \in Nat,
         NEW x \in Int, NEW c \in Int, NEW l \in Int,
         (x - l) * i + d < (c + 3) * i + late
  PROVE  s * (x - c) <= s * l + s + (s * (2 * i + late)) \div i - (s * d) \div i
<1> DEFINE u == (s * (2 * i + late)) \div i
           v == (s * d) \div i
           w == x - l - c
<1>1. /\ u \in Nat /\ v \in Nat /\ i * v <= s * d
      /\ s * (2 * i + late) < i * u + i
  <2>1. \A m \in Nat : m \div i \in Nat /\ i * (m \div i) <= m /\ m < i * (m \div i) + i
    BY Z3
  <2>2. s * d \in Nat /\ s * (2 * i + late) \in Nat
    OBVIOUS
  <2>3. QED BY <2>1, <2>2
<1>2. w \in Int /\ (w - 1) * i < 2 * i + late - d
  <2>1. \A m \in Int : m * i \in Int
    OBVIOUS
  <2>2. (x - l) * i = x * i - l * i /\ (c + 3) * i = c * i + 3 * i
        /\ (w - 1) * i = x * i - l * i - c * i - i
    OBVIOUS
  <2>3. QED BY <2>1, <2>2
<1> HIDE DEF u, v
<1>3. s * (w - 1) * i <= s * (2 * i + late) - s * d
  <2> HIDE DEF w
  <2>1. (w - 1) * i \in Int /\ 2 * i + late - d \in Int
    BY <1>2
  <2>2. s * ((w - 1) * i) <= s * (2 * i + late - d)
    BY <1>2, <2>1, Products
  <2>3. s * (2 * i + late - d) = s * (2 * i + late) - s * d
    OBVIOUS
  <2>4. s * ((w - 1) * i) = s * (w - 1) * i
    BY <1>2
  <2>5. QED BY <2>2, <2>3, <2>4
<1>4. i * (s * (w - 1)) < i * (u - v) + i
  <2> HIDE DEF w
  <2>1. i * (s * (w - 1)) = s * (w - 1) * i
    BY <1>2
  <2>2. i * (u - v) = i * u - i * v /\ i * u \in Int /\ i * v \in Int
    BY <1>1
  <2>3. s * (w - 1) * i \in Int /\ s * (2 * i + late) \in Int /\ s * d \in Int
    BY <1>2
  <2>4. QED BY <1>1, <1>3, <2>1, <2>2, <2>3
<1>5. s * (w - 1) <= u - v
  <2> HIDE DEF w
  <2>1. s * (w - 1) \in Int /\ u - v \in Int
    BY <1>1, <1>2
  <2>2. QED BY <1>4, <2>1, Products
<1>6. s * (w - 1) = s * (x - c) - s * l - s
  OBVIOUS
<1>7. s * (x - c) <= s * l + s + u - v
  BY <1>1, <1>5, <1>6
<1>8. QED BY <1>7 DEF u, v

LEMMA MeasuredLow ==
  ASSUME NEW s \in Nat \ {0}, NEW i \in Nat \ {0}, NEW d \in Nat, NEW missed \in Nat,
         NEW x \in Int, NEW c \in Int, NEW l \in Int,
         c * i <= (x + missed - l) * i + d
  PROVE  s * (x - c) >= s * l - s * missed - (s * d) \div i
<1> DEFINE v == (s * d) \div i
           w == c - x - missed + l
<1>1. v \in Nat /\ s * d < i * v + i
  <2>1. \A m \in Nat : m \div i \in Nat /\ m < i * (m \div i) + i
    BY Z3
  <2>2. s * d \in Nat
    OBVIOUS
  <2>3. QED BY <2>1, <2>2
<1>2. w \in Int /\ w * i <= d
  <2>1. \A m \in Int : m * i \in Int
    OBVIOUS
  <2>2. w * i = c * i - (x + missed - l) * i
    OBVIOUS
  <2>3. QED BY <2>1, <2>2
<1>3. s * (x - c) = s * l - s * missed - s * w
  OBVIOUS
<1> HIDE DEF v, w
<1>4. i * (s * w) < i * v + i
  <2>1. w * i \in Int
    BY <1>2
  <2>2. s * (w * i) <= s * d
    BY <1>2, <2>1, Products
  <2>3. s * (w * i) = i * (s * w) /\ i * (s * w) \in Int /\ s * d \in Int /\ i * v \in Int
    BY <1>1, <1>2
  <2>4. QED BY <1>1, <2>2, <2>3
<1>5. s * w <= v
  <2>1. s * w \in Int /\ v \in Int
    BY <1>1, <1>2
  <2>2. QED BY <1>4, <2>1, Products
<1>6. s * (x - c) >= s * l - s * missed - v
  <2>1. s * l \in Int /\ s * missed \in Int /\ s * w \in Int
    BY <1>2
  <2>2. QED BY <1>1, <1>3, <1>5, <2>1
<1>7. QED BY <1>6 DEF v

\* Half a ping, in frames, lies between the halves of the pings it lies between.
LEMMA HalfPing ==
  ASSUME NEW least \in Nat, NEW most \in Nat, NEW p \in Scale * least..Scale * most
  PROVE  Part(p, 2 * FrameTime) \in HalfInFrames(least)..HalfInFrames(most)
<1> DEFINE a == Scale * least
           b == Scale * most
           d == 2 * FrameTime
<1>1. a \in Nat /\ b \in Nat /\ d \in Nat \ {0} /\ p \in Nat /\ a <= p /\ p <= b
  BY ClockConstants
<1>2. HalfInFrames(least) = Part(a, d) /\ HalfInFrames(most) = Part(b, d)
  BY <1>1 DEF HalfInFrames, Part
<1> HIDE DEF a, b, d
<1>3. \A m \in Nat : /\ Part(m, d) \in Int /\ d * Part(m, d) \in Int
                     /\ d * Part(m, d) <= m /\ m < d * Part(m, d) + d
  BY <1>1, PartBounds
<1>4. ASSUME NEW m \in Nat, NEW n \in Nat, m <= n
      PROVE  Part(m, d) <= Part(n, d)
  <2>1. /\ d * Part(m, d) \in Int /\ d * Part(m, d) <= m
        /\ d * Part(n, d) \in Int /\ n < d * Part(n, d) + d
        /\ Part(m, d) \in Int /\ Part(n, d) \in Int
    BY <1>3
  <2>2. d * Part(m, d) < d * Part(n, d) + d
    BY <1>1, <1>4, <2>1
  <2>3. QED BY <1>1, <2>1, <2>2, Products
<1>5. Part(a, d) <= Part(p, d) /\ Part(p, d) <= Part(b, d)
  BY <1>1, <1>4
<1>6. Part(p, d) \in HalfInFrames(least)..HalfInFrames(most)
  BY <1>1, <1>2, <1>3, <1>5
<1>7. QED BY <1>6 DEF d

LEMMA RiftLimits ==
  /\ HalfInFrames(Shortest) \in Int /\ HalfInFrames(Longest) \in Int
  /\ TooLow \in Int /\ TooHigh \in Int
<1>1. \A k \in Nat \ {0} : \A m \in Nat : m \div k \in Int
  BY Z3
<1>2. /\ Scale * (2 * Interval + MaxLate) \in Nat
      /\ Scale * Shortest \in Nat /\ Scale * Longest \in Nat
      /\ Scale * Delay \in Nat /\ Scale * (1 + MaxLost) \in Nat
      /\ 2 * FrameTime \in Nat \ {0} /\ Interval \in Nat \ {0}
  BY ClockConstants, PacingConstants, RoundTrips
<1>3. (Scale * (2 * Interval + MaxLate)) \div Interval \in Int
  BY <1>1, <1>2
<1>4. HalfInFrames(Shortest) \in Int /\ HalfInFrames(Longest) \in Int
  BY <1>1, <1>2 DEF HalfInFrames
<1>5. (Scale * Delay) \div Interval \in Int
  BY <1>1, <1>2
<1>6. QED BY <1>2, <1>3, <1>4, <1>5, ClockConstants DEF TooLow, TooHigh, Shortest, Longest

\* A measurement errs by no more than this.
LEMMA RawRiftBounds ==
  ASSUME TypeOK, FrameInv, ClientInv, PingWithinSamples,
         phase = "tick", hasNewPing, hasNewFrame
  PROVE  RawRift \in Scale * lead - TooLow..Scale * lead + TooHigh
<1> DEFINE v == (Scale * Delay) \div Interval
           u == (Scale * (2 * Interval + MaxLate)) \div Interval
           w == HalfInFrames(Shortest)
           r == HalfInFrames(Longest)
           half == Part(smoothedPing, 2 * FrameTime)
           seen == Scale * (lastClientFrame - currentFrame)
<1>1. /\ clock \in Nat /\ currentFrame \in Nat /\ lastClientFrame \in Nat /\ lead \in Int
      /\ nextInput \in Nat /\ lost \in 0..MaxLost
  BY ClockConstants DEF TypeOK, PacingTypeOK
<1>2. u \in Int /\ v \in Int /\ w \in Int /\ r \in Int
  <2>1. \A k \in Nat \ {0} : \A m \in Nat : m \div k \in Int
    BY Z3
  <2>2. /\ Scale * (2 * Interval + MaxLate) \in Nat /\ Scale * Delay \in Nat
        /\ Interval \in Nat \ {0}
    BY ClockConstants, PacingConstants
  <2>3. QED BY <2>1, <2>2, RiftLimits
<1>3. seen <= Scale * lead + Scale + u - v
  <2>1. (lastClientFrame - lead) * Interval + Delay < (currentFrame + 3) * Interval + MaxLate
    <3>1. (lastClientFrame - lead) * Interval + Delay <= clock
          /\ clock < (currentFrame + 3) * Interval + MaxLate
      BY DEF ClientInv, FrameInv, Reach
    <3>2. /\ (lastClientFrame - lead) * Interval + Delay \in Int
          /\ (currentFrame + 3) * Interval + MaxLate \in Int
      BY <1>1, ClockConstants, PacingConstants
    <3>3. QED BY <1>1, <3>1, <3>2
  <2>2. /\ Scale \in Nat \ {0} /\ Interval \in Nat \ {0} /\ Delay \in Nat /\ MaxLate \in Nat
        /\ lastClientFrame \in Int /\ currentFrame \in Int /\ lead \in Int
    BY <1>1, ClockConstants, PacingConstants
  <2>3. QED BY <2>1, <2>2, MeasuredHigh
<1>4. seen >= Scale * lead - Scale * (1 + MaxLost) - v
  <2> DEFINE missed == 1 + MaxLost
  <2>1. currentFrame * Interval <= (lastClientFrame + missed - lead) * Interval + Delay
    <3>1. currentFrame * Interval <= clock /\ clock <= (nextInput - lead) * Interval + Delay
          /\ lastClientFrame = nextInput - 1 - lost
      BY DEF ClientInv, FrameInv, InputDue
    <3>2. /\ nextInput - lead \in Int /\ lastClientFrame + missed - lead \in Int
          /\ nextInput - lead <= lastClientFrame + missed - lead
      BY <1>1, <3>1, ClockConstants
    <3>3. \A m, n \in Int : m <= n => m * Interval <= n * Interval
      BY PacingConstants, Products
    <3>4. (nextInput - lead) * Interval <= (lastClientFrame + missed - lead) * Interval
      BY <3>2, <3>3
    <3>5. /\ currentFrame * Interval \in Int /\ (nextInput - lead) * Interval \in Int
          /\ (lastClientFrame + missed - lead) * Interval \in Int
      BY <1>1, <3>2, PacingConstants
    <3>6. QED BY <1>1, <3>1, <3>4, <3>5, ClockConstants
  <2>2. /\ Scale \in Nat \ {0} /\ Interval \in Nat \ {0} /\ Delay \in Nat /\ missed \in Nat
        /\ lastClientFrame \in Int /\ currentFrame \in Int /\ lead \in Int
    BY <1>1, ClockConstants, PacingConstants
  <2>3. seen >= Scale * lead - Scale * missed - v
    BY <2>1, <2>2, MeasuredLow
  <2>4. QED BY <2>3
<1>5. half \in w..r
  <2>1. smoothedPing \in Scale * Shortest..Scale * Longest
    BY DEF ClientInv, PingWithinSamples, Shortest, Longest
  <2>2. QED BY <2>1, RoundTrips, HalfPing
<1>6. RawRift = seen + half
  BY DEF RawRift
<1>7. TooHigh = Scale + u + r - v /\ TooLow = Scale * (1 + MaxLost) + v - w
  BY DEF TooHigh, TooLow, Shortest, Longest
<1>8. seen \in Int /\ half \in Int /\ Scale * lead \in Int /\ Scale * (1 + MaxLost) \in Int /\ Scale \in Int
  <2>1. seen \in Int /\ Scale * lead \in Int /\ Scale * (1 + MaxLost) \in Int
    BY <1>1, ClockConstants
  <2>2. QED BY <1>2, <1>5, <2>1, RiftLimits, ClockConstants
<1> HIDE DEF u, v, w, r, half, seen
<1>9. QED BY <1>2, <1>3, <1>4, <1>5, <1>6, <1>7, <1>8

LEMMA AverageLimits ==
  ASSUME NEW k \in Nat \ {0}, NEW a \in Int, NEW b \in Int
  PROVE  /\ Part(a + (k - 1) * b, k) \in Int
         /\ \A n \in Int : a <= n /\ b <= n => Part(a + (k - 1) * b, k) <= n
         /\ \A n \in Int : n <= a /\ n <= b => n <= Part(a + (k - 1) * b, k)
<1> DEFINE average == Part(a + (k - 1) * b, k)
<1>1. \A lo, hi \in Int : a \in lo..hi /\ b \in lo..hi => average \in lo..hi
  BY AverageBounds
<1> HIDE DEF average
<1>2. PICK lo \in Int : lo <= a /\ lo <= b /\ (lo = a \/ lo = b)
  OBVIOUS
<1>3. PICK hi \in Int : a <= hi /\ b <= hi /\ (hi = a \/ hi = b)
  OBVIOUS
<1>4. average \in lo..hi
  BY <1>1, <1>2, <1>3
<1>5. average \in Int /\ \A n \in Int : (a <= n /\ b <= n => average <= n) /\ (n <= a /\ n <= b => n <= average)
  BY <1>2, <1>3, <1>4
<1>6. QED BY <1>5 DEF average

\* What a refresh makes of a measurement.
Refreshed == Clamp(IF riftInit THEN SmoothRift(RawRift) ELSE RawRift, Scale * MaxRift)

LEMMA RiftSteps ==
  ASSUME [Next]_vars
  PROVE  /\ lead' = lead
         /\ \/ UNCHANGED rift
            \/ /\ phase = "tick" /\ hasNewPing /\ hasNewFrame
               /\ smoothRift' = Refreshed
<1>1. CASE Tick
  BY <1>1 DEF Tick, BeginTick, calcRiftVariableTick, Refreshed
<1>2. CASE ~Tick
  BY <1>2 DEF Next, ReceiveInput, LoseInput, ReceiveAck, TickEnds, Pass, vars
<1>3. QED BY <1>1, <1>2

\* What the blending of a measurement with the rift does to its size and its sign.
LEMMA Blending ==
  ASSUME NEW raw \in Int, smoothRift \in Int
  PROVE  /\ SmoothRift(raw) \in Int
         /\ \A n \in Int : (raw <= n /\ smoothRift <= n) /\ SmoothRift(raw) > 0 => SmoothRift(raw) <= n
         /\ \A n \in Int : (n <= raw /\ n <= smoothRift) /\ SmoothRift(raw) < 0 => n <= SmoothRift(raw)
         /\ smoothRift <= 0 /\ SmoothRift(raw) > 0 => SmoothRift(raw) <= raw
         /\ smoothRift >= 0 /\ SmoothRift(raw) < 0 => SmoothRift(raw) >= raw
         /\ raw >= Scale /\ smoothRift > 0 => SmoothRift(raw) > 0
         /\ raw <= -Scale /\ smoothRift < 0 => SmoothRift(raw) < 0
<1> DEFINE average == Part(raw + (RiftShare - 1) * smoothRift, RiftShare)
           half == Part(smoothRift, 2)
<1>1. /\ average \in Int
      /\ \A n \in Int : raw <= n /\ smoothRift <= n => average <= n
      /\ \A n \in Int : n <= raw /\ n <= smoothRift => n <= average
  BY AverageLimits, ClockConstants
<1>2. /\ half \in Int
      /\ smoothRift >= 0 => half >= 0 /\ half <= smoothRift
      /\ smoothRift < 0 => half <= 0 /\ smoothRift <= half
  BY PartBounds
<1>3. \/ SmoothRift(raw) = raw
      \/ SmoothRift(raw) = half /\ Abs(raw) < Scale
      \/ SmoothRift(raw) = average
  BY DEF SmoothRift
<1>4. Scale \in Nat \ {0}
  BY ClockConstants
<1> HIDE DEF average, half
<1>5. average > 0 => raw > 0 \/ smoothRift > 0
  BY <1>1
<1>6. average < 0 => raw < 0 \/ smoothRift < 0
  BY <1>1
<1>7. raw >= Scale /\ smoothRift > 0 => average > 0
  <2>1. 1 <= raw /\ 1 <= smoothRift => 1 <= average
    BY <1>1
  <2>2. QED BY <1>1, <1>4, <2>1
<1>8. raw <= -Scale /\ smoothRift < 0 => average < 0
  <2>1. raw <= -1 /\ smoothRift <= -1 => average <= -1
    BY <1>1
  <2>2. QED BY <1>1, <1>4, <2>1
<1>9. smoothRift <= 0 /\ average > 0 => average <= raw
  <2>1. smoothRift <= raw => average <= raw
    BY <1>1
  <2>2. QED BY <1>1, <1>5, <2>1
<1>10. smoothRift >= 0 /\ average < 0 => average >= raw
  <2>1. raw <= smoothRift => raw <= average
    BY <1>1
  <2>2. QED BY <1>1, <1>6, <2>1
<1>11. CASE SmoothRift(raw) = raw
  BY <1>4, <1>11
<1>12. CASE SmoothRift(raw) = half /\ Abs(raw) < Scale
  BY <1>2, <1>4, <1>12 DEF Abs
<1>13. CASE SmoothRift(raw) = average
  BY <1>1, <1>7, <1>8, <1>9, <1>10, <1>13
<1>14. QED BY <1>3, <1>11, <1>12, <1>13

LEMMA RiftStep ==
  ASSUME TypeOK, FrameInv, ClientInv, PingWithinSamples, [Next]_vars
  PROVE  /\ RiftNotExaggerated => RiftNotExaggerated'
         /\ RiftPointsRight => RiftPointsRight'
<1> DEFINE lo == Scale * lead - TooLow
           hi == Scale * lead + TooHigh
           blended == IF riftInit THEN SmoothRift(RawRift) ELSE RawRift
<1>1. /\ lo \in Int /\ hi \in Int /\ smoothRift \in Int /\ Scale \in Nat \ {0}
      /\ Scale * MaxRift \in Nat /\ Scale * MaxRift > 0
      /\ Scale * lead >= TooLow + Scale => lo >= Scale
      /\ Scale * lead <= -TooHigh - Scale => hi <= -Scale
  <2>1. lead \in Int
    BY ClockConstants DEF TypeOK
  <2>2. Scale * lead \in Int /\ TooLow \in Int /\ TooHigh \in Int
    BY <2>1, RiftLimits, ClockConstants
  <2>3. smoothRift \in Int
    BY ClockConstants DEF TypeOK
  <2>4. QED BY <2>2, <2>3, ClockConstants
<1>2. lead' = lead /\ TooLow' = TooLow /\ TooHigh' = TooHigh
  BY RiftSteps DEF TooLow, TooHigh, HalfInFrames, Capped
<1>3. CASE UNCHANGED rift
  BY <1>2, <1>3 DEF rift, RiftNotExaggerated, RiftPointsRight
<1>4. CASE phase = "tick" /\ hasNewPing /\ hasNewFrame /\ smoothRift' = Refreshed
  <2>1. RawRift \in lo..hi
    BY <1>4, RawRiftBounds
  <2>2. smoothRift' = Clamp(blended, Scale * MaxRift)
    BY <1>4 DEF Refreshed
  <2> HIDE DEF lo, hi
  <2>3. RawRift \in Int /\ blended \in Int
    BY <1>1, <2>1, Blending
  <2>4. RiftNotExaggerated => (blended > 0 => blended <= hi) /\ (blended < 0 => blended >= lo)
    <3> SUFFICES ASSUME RiftNotExaggerated
                 PROVE  (blended > 0 => blended <= hi) /\ (blended < 0 => blended >= lo)
      OBVIOUS
    <3>1. (smoothRift > 0 => smoothRift <= hi) /\ (smoothRift < 0 => smoothRift >= lo)
      BY DEF RiftNotExaggerated, lo, hi
    <3>2. CASE ~riftInit
      BY <1>1, <2>1, <2>3, <3>2
    <3>3. CASE riftInit
      <4> DEFINE new == SmoothRift(RawRift)
      <4>1. new \in Int /\ blended = new
        BY <1>1, <2>3, <3>3, Blending
      <4>2. new > 0 => new <= hi
        <5>1. smoothRift > 0 => (RawRift <= hi /\ smoothRift <= hi)
          BY <1>1, <2>1, <2>3, <3>1
        <5>2. RawRift <= hi /\ smoothRift <= hi /\ new > 0 => new <= hi
          BY <1>1, <2>3, Blending
        <5>3. smoothRift <= 0 /\ new > 0 => new <= RawRift
          BY <1>1, <2>3, Blending
        <5> HIDE DEF new, blended
        <5>4. QED BY <1>1, <2>1, <2>3, <4>1, <5>1, <5>2, <5>3
      <4>3. new < 0 => new >= lo
        <5>1. smoothRift < 0 => (lo <= RawRift /\ lo <= smoothRift)
          BY <1>1, <2>1, <2>3, <3>1
        <5>2. lo <= RawRift /\ lo <= smoothRift /\ new < 0 => lo <= new
          BY <1>1, <2>3, Blending
        <5>3. smoothRift >= 0 /\ new < 0 => new >= RawRift
          BY <1>1, <2>3, Blending
        <5> HIDE DEF new, blended
        <5>4. QED BY <1>1, <2>1, <2>3, <4>1, <5>1, <5>2, <5>3
      <4>4. QED BY <4>1, <4>2, <4>3
    <3>4. QED BY <3>2, <3>3
  <2>5. RiftPointsRight => /\ lo >= Scale => blended > 0
                           /\ hi <= -Scale => blended < 0
    <3> SUFFICES ASSUME RiftPointsRight
                 PROVE  (lo >= Scale => blended > 0) /\ (hi <= -Scale => blended < 0)
      OBVIOUS
    <3>1. CASE ~riftInit
      BY <1>1, <2>1, <2>3, <3>1
    <3>2. CASE riftInit
      <4>1. /\ lo >= Scale => smoothRift > 0
            /\ hi <= -Scale => smoothRift < 0
        <5>1. /\ Scale * lead >= TooLow + Scale <=> lo >= Scale
              /\ Scale * lead <= -TooHigh - Scale <=> hi <= -Scale
          <6>1. Scale * lead \in Int /\ TooLow \in Int /\ TooHigh \in Int /\ Scale \in Int
            BY RiftLimits, ClockConstants DEF TypeOK
          <6>2. QED BY <6>1 DEF lo, hi
        <5>2. QED BY <3>2, <5>1 DEF RiftPointsRight
      <4>2. /\ RawRift >= Scale /\ smoothRift > 0 => SmoothRift(RawRift) > 0
            /\ RawRift <= -Scale /\ smoothRift < 0 => SmoothRift(RawRift) < 0
        BY <1>1, <2>3, Blending
      <4>3. (lo >= Scale => RawRift >= Scale) /\ (hi <= -Scale => RawRift <= -Scale)
        BY <1>1, <2>1, <2>3
      <4>4. QED BY <3>2, <4>1, <4>2, <4>3
    <3>3. QED BY <3>1, <3>2
  <2> HIDE DEF blended
  <2>6. /\ smoothRift' \in Int
        /\ smoothRift' > 0 => blended > 0 /\ smoothRift' <= blended
        /\ smoothRift' < 0 => blended < 0 /\ smoothRift' >= blended
        /\ blended > 0 => smoothRift' > 0
        /\ blended < 0 => smoothRift' < 0
    <3>1. \A max \in Nat : \A n \in Int :
            max > 0 => LET m == Clamp(n, max)
                       IN /\ m \in Int
                          /\ m > 0 => n > 0 /\ m <= n
                          /\ m < 0 => n < 0 /\ m >= n
                          /\ n > 0 => m > 0
                          /\ n < 0 => m < 0
      BY DEF Clamp
    <3>2. QED BY <1>1, <2>2, <2>3, <3>1
  <2>7. RiftNotExaggerated => RiftNotExaggerated'
    <3>1. RiftNotExaggerated => (smoothRift' > 0 => smoothRift' <= hi) /\ (smoothRift' < 0 => smoothRift' >= lo)
      BY <1>1, <2>3, <2>4, <2>6
    <3>2. QED BY <1>2, <3>1 DEF RiftNotExaggerated, lo, hi
  <2>8. RiftPointsRight => RiftPointsRight'
    <3>1. RiftPointsRight => /\ Scale * lead >= TooLow + Scale => smoothRift' > 0
                             /\ Scale * lead <= -TooHigh - Scale => smoothRift' < 0
      BY <1>1, <2>5, <2>6
    <3>2. QED BY <1>2, <3>1 DEF RiftPointsRight
  <2>9. QED BY <2>7, <2>8
<1>5. QED BY <1>3, <1>4, RiftSteps

\* The rift is never further from zero than the client's distance and the error
\* of a measurement.
THEOREM RiftStaysPlausible ==
  ASSUME 2 * Delay + MaxJitter < 2^15
  PROVE  Spec => []RiftNotExaggerated
<1>1. Init => RiftNotExaggerated
  BY DEF Init, RiftNotExaggerated
<1>2. TypeOK /\ FrameInv /\ ClientInv /\ PingWithinSamples /\ RiftNotExaggerated /\ [Next]_vars
        => RiftNotExaggerated'
  BY RiftStep
<1>3. Spec => []PingWithinSamples
  BY PingsWithinSamples
<1>4. QED BY <1>1, <1>2, <1>3, ClockTypes, FrameInvariant, ClientInvariant, PTL DEF Spec

\* A client that is clearly ahead is never told to hurry, one that is clearly
\* behind never to wait.
THEOREM RiftSignRight ==
  ASSUME 2 * Delay + MaxJitter < 2^15
  PROVE  Spec => []RiftPointsRight
<1>1. Init => RiftPointsRight
  BY DEF Init, RiftPointsRight
<1>2. TypeOK /\ FrameInv /\ ClientInv /\ PingWithinSamples /\ RiftPointsRight /\ [Next]_vars
        => RiftPointsRight'
  BY RiftStep
<1>3. Spec => []PingWithinSamples
  BY PingsWithinSamples
<1>4. QED BY <1>1, <1>2, <1>3, ClockTypes, FrameInvariant, ClientInvariant, PTL DEF Spec
=============================================================================
