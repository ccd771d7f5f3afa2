--------------------------- MODULE MatchEndProofs ---------------------------
(***************************************************************************)
(* Proofs about the end of a match in MatchLifecycle, for any number of    *)
(* workers: what holds up to its report and of every report, and that what *)
(* goes wrong in an ending goes wrong because a worker has the match in    *)
(* hand while another one cleans it up.                                    *)
(***************************************************************************)
EXTENDS MatchLifecycleProofs, FiniteSetTheorems

-----------------------------------------------------------------------------
(* The invariants.                                                         *)

CleanupPlaces == {"stop", "unregister", "forget"}
LoopPlaces    == {"check"} \cup CleanupPlaces

\* The workers that run a tick loop of m; those of them that clean it up.
AtWork(m)   == {x \in Workers : job[x].at \in LoopPlaces /\ job[x].match = m}
Cleaning(m) == {x \in Workers : job[x].at \in CleanupPlaces /\ job[x].match = m}

InHand(x, m) == job[x] # Idle /\ job[x].match = m

\* Up to its report a match has one loop, suspended or at work, while it runs.
FirstLoop(m) ==
  reports[m] = 0 =>
    /\ loops[m] <= 1
    /\ loops[m] = 1 => tickRunning[m] /\ AtWork(m) = {}
    /\ \A x \in AtWork(m) : tickRunning[m] /\ AtWork(m) = {x}

\* A match that was reported and is still registered is being cleaned up.
ForgottenInv(m) ==
  reports[m] > 0 => matchId[m] \in MatchIds /\ (Present(m) => Cleaning(m) # {})

ReportInv == \A m \in Match : FirstLoop(m) /\ ForgottenInv(m)

\* From the winner read for the report to the end of the cleanup (lines 773-788, the
\* blocking request included), no other worker has the match in hand.
CleanupUndisturbed ==
  \A w, x \in Workers :
    job[w].at \in CleanupPlaces /\ x # w => ~InHand(x, job[w].match)

\* A match that was reported is being cleaned up by one worker, or is gone for good.
EndingInv(m) ==
  reports[m] > 0 =>
    /\ reports[m] = 1 /\ reportedWinner[m] = winner[m] /\ loops[m] = 0
    /\ \/ Present(m) /\ \E x \in Cleaning(m) : AtWork(m) = {x}
       \/ ~Present(m) /\ \A x \in Workers : ~InHand(x, m)

EndingsInv == \A m \in Match : EndingInv(m)

-----------------------------------------------------------------------------
(* Where a worker is, and which match it has in hand.                      *)

NotLooping(w) == job[w].at \notin LoopPlaces

LEMMA LooperFacts ==
  ASSUME WellFormed, NEW w \in Workers, ~NotLooping(w)
  PROVE  /\ job[w] \in Job /\ job[w] # Idle /\ job[w].kind = "loop"
         /\ job[w].match \in Match /\ matchId[job[w].match] \in MatchIds
BY JobFacts DEF NotLooping, LoopPlaces, CleanupPlaces

\* A worker comes to have a match in hand by finding it registered.
TakesUp(w) == \A m \in Match : InHand(w, m)' => InHand(w, m) \/ Present(m)'

LEMMA NewConnectionTakes ==
  ASSUME WellFormed, NEW w \in Workers, NEW e \in Endpoints, NEW id \in MatchIds,
         NEW fetched \in BOOLEAN, NewConnection(w, e, id, fetched)
  PROVE  NotLooping(w) /\ NotLooping(w)' /\ TakesUp(w)
<1> DEFINE J(m) == [at |-> "find", kind |-> "new", endpoint |-> e, player |-> None,
                    match |-> m, scan |-> {}, keys |-> {}]
<1>1. job[w] = Idle /\ NotLooping(w)
  BY DEF NewConnection, CanRun, Idle, NotLooping, LoopPlaces, CleanupPlaces
<1>2. ASSUME NEW m, job' = [job EXCEPT ![w] = J(m)]
      PROVE  NotLooping(w)' /\ job'[w].match = m
  BY <1>2 DEF NotLooping, LoopPlaces, CleanupPlaces, WellFormed, TypeOK
<1>3. CASE /\ matches[id] # None /\ job' = [job EXCEPT ![w] = J(matches[id])]
           /\ UNCHANGED <<matches, matchId>>
  <2> HIDE DEF J
  <2>1. Present(matches[id])'
    BY <1>3 DEF Present, WellFormed, RegistriesFine
  <2>2. QED BY <1>1, <1>2, <1>3, <2>1 DEF TakesUp, InHand
<1>4. ASSUME NEW m \in FreshMatch, matches[id] = None,
             matchId' = [matchId EXCEPT ![m] = id],
             matches' = [matches EXCEPT ![id] = m], job' = [job EXCEPT ![w] = J(m)]
      PROVE  NotLooping(w)' /\ TakesUp(w)
  <2> HIDE DEF J
  <2>1. Present(m)'
    BY <1>4 DEF Present, FreshMatch, WellFormed, TypeOK
  <2>2. QED BY <1>1, <1>2, <1>4, <2>1 DEF TakesUp, InHand
<1>5. CASE UNCHANGED <<matches, matchId, job>>
  BY <1>1, <1>5 DEF NotLooping, TakesUp, InHand
<1>6. QED BY <1>1, <1>3, <1>4, <1>5 DEF NewConnection

LEMMA ReceiveTakes ==
  ASSUME WellFormed, NEW w \in Workers, NEW e \in Endpoints, NEW kind \in Kinds,
         Receive(w, e, kind)
  PROVE  NotLooping(w) /\ NotLooping(w)' /\ TakesUp(w)
<1>1. job'[w].at = "lookup" /\ job'[w].match = None
  BY DEF Receive, WellFormed, TypeOK
<1>2. NotLooping(w) /\ NotLooping(w)'
  BY <1>1 DEF Receive, CanRun, Idle, NotLooping, LoopPlaces, CleanupPlaces
<1>3. QED BY <1>1, <1>2, Constants DEF TakesUp, InHand

\* The handlers' own steps.
LEMMA HandlerTakes ==
  ASSUME WellFormed, NEW w \in Workers,
         \/ FindPlayer(w) \/ JoinMatch(w) \/ Register(w) \/ StartPingPhase(w)
         \/ FindMatch(w) \/ MarkConnected(w) \/ MarkDisconnected(w) \/ RecordResult(w)
         \/ SetReady(w) \/ SnapshotPlayers(w) \/ ScanReady(w) \/ StartMatch(w)
  PROVE  NotLooping(w) /\ NotLooping(w)' /\ TakesUp(w)
<1>1. NotLooping(w) /\ job[w].at # "idle"
  BY DEF FindPlayer, JoinMatch, Register, StartPingPhase, FindMatch, MarkConnected,
         MarkDisconnected, RecordResult, SetReady, SnapshotPlayers, ScanReady, StartMatch,
         NotLooping, LoopPlaces, CleanupPlaces
<1>2. job[w] \in Job /\ job[w] # Idle /\ job \in [Workers -> Job \cup {Idle}]
  BY <1>1, JobFacts DEF WellFormed, TypeOK
<1>3. CASE Finish(w)
  <2>1. job'[w] = Idle
    BY <1>2, <1>3 DEF Finish
  <2>2. QED BY <1>1, <2>1 DEF NotLooping, LoopPlaces, CleanupPlaces, Idle, TakesUp, InHand
<1>4. ASSUME job'[w].at \in {"join", "register", "pingCheck", "snapshot", "scanReady"},
             job'[w].match = job[w].match
      PROVE  NotLooping(w)' /\ TakesUp(w)
  BY <1>2, <1>4 DEF NotLooping, LoopPlaces, CleanupPlaces, TakesUp, InHand
<1>5. CASE ~Finish(w) /\ ~FindMatch(w)
  <2>1. ASSUME NEW place \in {"join", "pingCheck", "snapshot"}, Goto(w, place)
        PROVE  job'[w].at = place /\ job'[w].match = job[w].match
    BY <1>2, <2>1, GotoJob DEF WellFormed
  <2>2. CASE FindPlayer(w) \/ Register(w) \/ SetReady(w)
    BY <1>1, <1>4, <1>5, <2>1, <2>2 DEF FindPlayer, Register, SetReady
  <2>3. CASE JoinMatch(w)
    <3>1. PICK o \in FreshPlayer : job' = [job EXCEPT ![w].at = "register", ![w].player = o]
      BY <2>3 DEF JoinMatch
    <3>2. job'[w].at = "register" /\ job'[w].match = job[w].match
      BY <1>2, <3>1 DEF Job
    <3>3. QED BY <1>1, <1>4, <3>2
  <2>4. CASE SnapshotPlayers(w)
    <3> DEFINE scan == MembersOf(job[w].match)
    <3>1. job' = [job EXCEPT ![w].at = "scanReady", ![w].scan = scan]
      BY <2>4 DEF SnapshotPlayers
    <3> HIDE DEF scan
    <3>2. job'[w].at = "scanReady" /\ job'[w].match = job[w].match
      BY <1>2, <3>1 DEF Job
    <3>3. QED BY <1>1, <1>4, <3>2
  <2>5. CASE ScanReady(w)
    <3>1. PICK o \in job[w].scan : job' = [job EXCEPT ![w].scan = @ \ {o}]
      BY <1>5, <2>5 DEF ScanReady
    <3>2. job'[w].at = "scanReady" /\ job'[w].match = job[w].match
      BY <1>2, <2>5, <3>1 DEF Job, ScanReady
    <3>3. QED BY <1>1, <1>4, <3>2
  <2>6. QED
    BY <1>5, <2>2, <2>3, <2>4, <2>5
    DEF StartPingPhase, MarkConnected, MarkDisconnected, SetDisconnected, RecordResult, StartMatch
<1>6. CASE FindMatch(w) /\ ~Finish(w)
  <2>1. PICK k \in Match, id \in MatchIds :
          /\ job' = [job EXCEPT ![w].match = k, ![w].at = "handle"]
          /\ matches[id] = k /\ k # None /\ UNCHANGED <<matches, matchId>>
    <3>1. info[job[w].player].id \in MatchIds
      BY <1>6, JobFacts, CreatedTyped DEF FindMatch, WellFormed, Info
    <3>2. QED BY <1>6, <3>1 DEF FindMatch, registries, WellFormed, TypeOK
  <2>2. Present(k)'
    BY <2>1 DEF Present, WellFormed, RegistriesFine
  <2>3. job'[w].at = "handle" /\ job'[w].match = k
    BY <1>2, <2>1 DEF Job
  <2>4. QED BY <1>1, <2>2, <2>3 DEF NotLooping, LoopPlaces, CleanupPlaces, TakesUp, InHand
<1>7. QED BY <1>1, <1>3, <1>5, <1>6

\* The loop's own steps keep to its match.
LEMMA LooperKeeps ==
  ASSUME WellFormed, NEW w \in Workers,
         \/ CheckDisconnected(w) \/ ReportEnd(w) \/ StopRunning(w)
         \/ UnregisterPlayer(w) \/ ClearMatch(w) \/ ForgetMatch(w)
  PROVE  /\ ~NotLooping(w)
         /\ \/ job'[w] = Idle /\ Finish(w)
            \/ /\ job'[w].match = job[w].match
               /\ \/ CheckDisconnected(w) /\ job'[w].at = "check"
                  \/ ~CheckDisconnected(w) /\ job'[w].at \in CleanupPlaces
<1>1. ~NotLooping(w)
  BY DEF CheckDisconnected, ReportEnd, StopRunning, UnregisterPlayer, ClearMatch, ForgetMatch,
         NotLooping, LoopPlaces, CleanupPlaces
<1>2. job[w] \in Job /\ job \in [Workers -> Job \cup {Idle}]
  BY <1>1, LooperFacts DEF WellFormed, TypeOK
<1>3. CASE Finish(w)
  BY <1>1, <1>2, <1>3 DEF Finish
<1>4. CASE CheckDisconnected(w) /\ ~Finish(w)
  <2>1. PICK o \in job[w].scan : job' = [job EXCEPT ![w].scan = @ \ {o}]
    BY <1>4 DEF CheckDisconnected
  <2>2. QED BY <1>1, <1>2, <1>4, <2>1 DEF Job, CheckDisconnected
<1>5. CASE ReportEnd(w) \/ StopRunning(w) \/ ClearMatch(w)
  <2>1. PICK place \in {"stop", "unregister", "forget"} : Goto(w, place)
    BY <1>5 DEF ReportEnd, StopRunning, ClearMatch
  <2>2. job'[w].at = place /\ job'[w].match = job[w].match
    BY <1>2, <2>1, GotoJob DEF WellFormed
  <2>3. ~CheckDisconnected(w)
    <3>1. CASE ReportEnd(w)
      BY <3>1 DEF ReportEnd, CheckDisconnected
    <3>2. CASE StopRunning(w) \/ ClearMatch(w)
      BY <3>2 DEF StopRunning, ClearMatch, CheckDisconnected
    <3>3. QED BY <1>5, <3>1, <3>2
  <2>4. QED BY <1>1, <2>2, <2>3 DEF CleanupPlaces
<1>6. CASE UnregisterPlayer(w)
  <2>1. PICK e \in job[w].keys : job' = [job EXCEPT ![w].keys = @ \ {e}]
    BY <1>6 DEF UnregisterPlayer
  <2>2. job'[w].at = "unregister" /\ job'[w].match = job[w].match
    BY <1>2, <1>6, <2>1 DEF Job, UnregisterPlayer
  <2>3. QED BY <1>1, <1>6, <2>2 DEF CleanupPlaces, UnregisterPlayer, CheckDisconnected
<1>7. QED BY <1>3, <1>4, <1>5, <1>6 DEF ForgetMatch

-----------------------------------------------------------------------------
(* The steps of handlers.                                                  *)

\* What a handler's step leaves of the loops and of the matches that exist.
IdsKept ==
  \A k \in Match : matchId[k] \in MatchIds =>
    matchId'[k] = matchId[k] /\ (Present(k)' <=> Present(k))

LEMMA HandlerWork ==
  ASSUME NEW w \in Workers, OthersKeep(w), NotLooping(w), NotLooping(w)'
  PROVE  \A m : AtWork(m)' = AtWork(m) /\ Cleaning(m)' = Cleaning(m)
BY DEF OthersKeep, NotLooping, AtWork, Cleaning, LoopPlaces

LEMMA HandlerForgotten ==
  ASSUME ReportInv, NEW w \in Workers, OthersKeep(w), NotLooping(w), NotLooping(w)',
         IdsKept, UNCHANGED reports, NEW m \in Match
  PROVE  ForgottenInv(m)'
BY HandlerWork DEF ReportInv, ForgottenInv, IdsKept

LEMMA HandlerReports ==
  ASSUME ReportInv, NEW w \in Workers, OthersKeep(w), NotLooping(w), NotLooping(w)',
         IdsKept, UNCHANGED <<reports, loops, tickRunning>>
  PROVE  ReportInv'
<1>1. ASSUME NEW m \in Match PROVE FirstLoop(m)'
  BY HandlerWork DEF ReportInv, FirstLoop
<1>2. QED BY <1>1, HandlerForgotten DEF ReportInv

\* Whoever finds every player ready starts the first loop of the match.
LEMMA StartReports ==
  ASSUME WellFormed, ReportInv, NEW w \in Workers, OthersKeep(w), NotLooping(w),
         NotLooping(w)', IdsKept, StartMatch(w)
  PROVE  ReportInv'
<1>1. PICK m \in Match : m = job[w].match
  BY JobFacts DEF StartMatch
<1>2. startTickLoop(m) /\ UNCHANGED reports
  BY <1>1 DEF StartMatch, ghosts
<1>3. CASE tickRunning[m]
  BY <1>2, <1>3, HandlerReports DEF startTickLoop
<1>4. CASE ~tickRunning[m]
  <2>1. /\ tickRunning'[m] /\ loops'[m] = loops[m] + 1
        /\ \A k \in Match : k # m => tickRunning'[k] = tickRunning[k] /\ loops'[k] = loops[k]
    BY <1>2, <1>4 DEF startTickLoop, WellFormed, TypeOK
  <2>2. FirstLoop(m)'
    <3>1. SUFFICES ASSUME reports[m] = 0 PROVE FirstLoop(m)'
      BY <1>2 DEF FirstLoop
    <3>2. loops[m] \in Nat /\ loops[m] <= 1 /\ loops[m] # 1 /\ AtWork(m) = {}
      BY <1>4, <3>1 DEF ReportInv, FirstLoop, WellFormed, TypeOK
    <3>3. loops'[m] = 1 /\ AtWork(m)' = {}
      BY <2>1, <3>2, HandlerWork
    <3>4. QED BY <2>1, <3>3 DEF FirstLoop
  <2>3. ASSUME NEW k \in Match, k # m PROVE FirstLoop(k)'
    BY <1>2, <2>1, <2>3, HandlerWork DEF ReportInv, FirstLoop
  <2>4. QED BY <1>2, <2>2, <2>3, HandlerForgotten DEF ReportInv
<1>5. QED BY <1>3, <1>4

\* In an undisturbed cleanup, nobody else has a match in hand that was reported.
LEMMA InHandUnreported ==
  ASSUME WellFormed, EndingsInv, CleanupUndisturbed, NEW w \in Workers,
         job[w].at \notin CleanupPlaces, NEW m \in Match, InHand(w, m)
  PROVE  reports[m] = 0
<1>1. SUFFICES ASSUME reports[m] > 0 PROVE FALSE
  BY Constants DEF WellFormed, TypeOK
<1>2. PICK x \in Cleaning(m) : AtWork(m) = {x}
  BY <1>1 DEF EndingsInv, EndingInv
<1>3. x \in Workers /\ job[x].at \in CleanupPlaces /\ job[x].match = m /\ x # w
  BY <1>2 DEF Cleaning
<1>4. QED BY <1>3 DEF CleanupUndisturbed

LEMMA HandlerEndings ==
  ASSUME WellFormed, ReportInv, EndingsInv, NEW w \in Workers, OthersKeep(w),
         NotLooping(w), NotLooping(w)', TakesUp(w), IdsKept,
         UNCHANGED <<reports, reportedWinner>>,
         \A k \in Match : reports[k] > 0 => winner'[k] = winner[k] /\ loops'[k] = loops[k]
  PROVE  EndingsInv'
<1>1. SUFFICES ASSUME NEW m \in Match, reports[m] > 0 PROVE EndingInv(m)'
  BY DEF EndingsInv, EndingInv
<1>2. /\ EndingInv(m) /\ (Present(m)' <=> Present(m))
      /\ AtWork(m)' = AtWork(m) /\ Cleaning(m)' = Cleaning(m)
  BY <1>1, HandlerWork DEF EndingsInv, ReportInv, ForgottenInv, IdsKept
<1>3. ASSUME ~Present(m), \A x \in Workers : ~InHand(x, m)
      PROVE  \A x \in Workers : ~InHand(x, m)'
  BY <1>2, <1>3 DEF TakesUp, OthersKeep, InHand
<1>4. QED BY <1>1, <1>2, <1>3 DEF EndingInv

LEMMA NewConnectionIds ==
  ASSUME WellFormed, NEW w \in Workers, NEW e \in Endpoints, NEW id \in MatchIds,
         NEW fetched \in BOOLEAN, NewConnection(w, e, id, fetched)
  PROVE  IdsKept
<1>1. CASE UNCHANGED <<matches, matchId>>
  BY <1>1 DEF IdsKept, Present
<1>2. ASSUME NEW m \in FreshMatch, matches[id] = None,
             matchId' = [matchId EXCEPT ![m] = id], matches' = [matches EXCEPT ![id] = m]
      PROVE  IdsKept
  <2>1. m \in Match /\ matchId[m] \notin MatchIds
    BY <1>2, Constants DEF FreshMatch
  <2>2. ASSUME NEW k \in Match, matchId[k] \in MatchIds
        PROVE  matchId'[k] = matchId[k] /\ (Present(k)' <=> Present(k))
    <3>1. k # m /\ matchId'[k] = matchId[k] /\ k # None
      BY <1>2, <2>1, <2>2, Constants DEF WellFormed, TypeOK
    <3>2. CASE matchId[k] = id
      <4>1. matches'[id] = m
        BY <1>2 DEF WellFormed, TypeOK
      <4>2. QED BY <1>2, <3>1, <3>2, <4>1 DEF Present
    <3>3. CASE matchId[k] # id
      BY <1>2, <3>1, <3>3 DEF Present, WellFormed, TypeOK
    <3>4. QED BY <3>1, <3>2, <3>3
  <2>3. QED BY <2>2 DEF IdsKept
<1>3. QED BY <1>1, <1>2 DEF NewConnection

IsHandler(w) ==
  \/ \E e \in Endpoints, id \in MatchIds, fetched \in BOOLEAN :
       NewConnection(w, e, id, fetched)
  \/ \E e \in Endpoints, kind \in Kinds : Receive(w, e, kind)
  \/ FindPlayer(w) \/ JoinMatch(w) \/ Register(w) \/ StartPingPhase(w)
  \/ FindMatch(w) \/ MarkConnected(w) \/ MarkDisconnected(w) \/ RecordResult(w)
  \/ SetReady(w) \/ SnapshotPlayers(w) \/ ScanReady(w) \/ StartMatch(w)

IsLooper(w) ==
  \/ CheckDisconnected(w) \/ ReportEnd(w) \/ StopRunning(w)
  \/ UnregisterPlayer(w) \/ ClearMatch(w) \/ ForgetMatch(w)

LEMMA HandlerFacts ==
  ASSUME WellFormed, NEW w \in Workers, IsHandler(w)
  PROVE  /\ NotLooping(w) /\ NotLooping(w)' /\ TakesUp(w) /\ OthersKeep(w) /\ IdsKept
         /\ UNCHANGED <<reports, reportedWinner>>
         /\ UNCHANGED <<loops, tickRunning>> \/ StartMatch(w)
         /\ UNCHANGED winner \/ RecordResult(w)
<1>1. NotLooping(w) /\ NotLooping(w)' /\ TakesUp(w)
  BY NewConnectionTakes, ReceiveTakes, HandlerTakes DEF IsHandler
<1>2. OthersKeep(w)
  BY OthersKept DEF IsHandler, Step
<1>3. IdsKept
  <2>1. CASE UNCHANGED <<matches, matchId>>
    BY <2>1 DEF IdsKept, Present
  <2>2. QED
    BY <2>1, NewConnectionIds
    DEF IsHandler, Receive, FindPlayer, JoinMatch, Register, StartPingPhase, FindMatch,
        MarkConnected, MarkDisconnected, SetDisconnected, RecordResult, SetReady,
        SnapshotPlayers, ScanReady, StartMatch, registries
<1>4. /\ UNCHANGED <<reports, reportedWinner>>
      /\ UNCHANGED <<loops, tickRunning>> \/ StartMatch(w)
      /\ UNCHANGED winner \/ RecordResult(w)
  BY DEF IsHandler, NewConnection, Receive, FindPlayer, JoinMatch, Register, StartPingPhase,
         FindMatch, MarkConnected, MarkDisconnected, SetDisconnected, RecordResult, SetReady,
         SnapshotPlayers, ScanReady, StartMatch, match, ghosts
<1>5. QED BY <1>1, <1>2, <1>3, <1>4

LEMMA HandlerStepReports ==
  ASSUME WellFormed, ReportInv, NEW w \in Workers, IsHandler(w)
  PROVE  ReportInv'
BY HandlerFacts, HandlerReports, StartReports

LEMMA HandlerStepEndings ==
  ASSUME WellFormed, ReportInv, EndingsInv, CleanupUndisturbed, NEW w \in Workers, IsHandler(w)
  PROVE  EndingsInv'
<1>1. ASSUME NEW k \in Match, reports[k] > 0 PROVE winner'[k] = winner[k] /\ loops'[k] = loops[k]
  <2>1. CASE UNCHANGED <<winner, loops>>
    BY <2>1
  <2>2. ASSUME StartMatch(w) \/ RecordResult(w)
        PROVE  job[w].match \in Match /\ reports[job[w].match] = 0
    <3>1. NotLooping(w) /\ job[w].at # "lookup" /\ job[w].at # "idle"
      BY <2>2, HandlerFacts DEF StartMatch, RecordResult
    <3>2. job[w].match \in Match /\ InHand(w, job[w].match)
      BY <3>1, JobFacts DEF InHand
    <3>3. QED BY <3>1, <3>2, InHandUnreported DEF NotLooping, LoopPlaces
  <2>3. CASE StartMatch(w)
    <3>1. k # job[w].match
      BY <1>1, <2>2, <2>3
    <3>2. loops'[k] = loops[k]
      BY <2>3, <3>1 DEF StartMatch, startTickLoop, WellFormed, TypeOK
    <3>3. QED BY <2>3, <3>2 DEF StartMatch
  <2>4. CASE RecordResult(w)
    <3>1. k # job[w].match
      BY <1>1, <2>2, <2>4
    <3>2. QED BY <2>4, <3>1 DEF RecordResult, ClaimWinner, WellFormed, TypeOK
  <2>5. QED BY <2>1, <2>3, <2>4, HandlerFacts
<1>2. QED BY <1>1, HandlerFacts, HandlerEndings

-----------------------------------------------------------------------------
(* The steps of a tick loop.                                               *)

LEMMA TickWork ==
  ASSUME WellFormed, NEW w \in Workers, NEW m \in Match, NEW lost \in SUBSET MembersOf(m),
         Tick(w, m, lost)
  PROVE  /\ OthersKeep(w) /\ NotLooping(w) /\ loops[m] > 0 /\ loops'[m] = loops[m] - 1
         /\ \A k \in Match : k # m => /\ loops'[k] = loops[k] /\ AtWork(k)' = AtWork(k)
                                      /\ \A x \in Workers : InHand(x, k)' => InHand(x, k)
         /\ \A k \in Match : Cleaning(k)' = Cleaning(k)
         /\ AtWork(m)' = IF tickRunning[m] THEN AtWork(m) \cup {w} ELSE AtWork(m)
         /\ UNCHANGED <<matches, matchId, tickRunning, winner, reports, reportedWinner>>
<1>1. /\ job[w] = Idle /\ loops[m] > 0 /\ loops' = [loops EXCEPT ![m] = @ - 1]
      /\ UNCHANGED <<matches, matchId, tickRunning, winner, reports, reportedWinner>>
  BY DEF Tick, CanRun, registries, ghosts
<1>2. OthersKeep(w) /\ NotLooping(w)
  BY <1>1, OthersKept DEF NotLooping, LoopPlaces, CleanupPlaces, Idle
<1>3. \/ tickRunning[m] /\ job'[w].at = "check" /\ job'[w].match = m
      \/ ~tickRunning[m] /\ UNCHANGED job
  BY DEF Tick, WellFormed, TypeOK
<1>4. loops'[m] = loops[m] - 1 /\ \A k \in Match : k # m => loops'[k] = loops[k]
  BY <1>1 DEF WellFormed, TypeOK
<1>5. \A k \in Match : Cleaning(k)' = Cleaning(k)
  BY <1>2, <1>3 DEF OthersKeep, Cleaning, CleanupPlaces, NotLooping, LoopPlaces
<1>6. \A k \in Match : k # m => AtWork(k)' = AtWork(k)
  BY <1>2, <1>3 DEF OthersKeep, AtWork, NotLooping
<1>7. AtWork(m)' = IF tickRunning[m] THEN AtWork(m) \cup {w} ELSE AtWork(m)
  BY <1>2, <1>3 DEF OthersKeep, AtWork, NotLooping, LoopPlaces
<1>8. \A k \in Match, x \in Workers : k # m /\ InHand(x, k)' => InHand(x, k)
  BY <1>2, <1>3 DEF OthersKeep, InHand
<1>9. QED BY <1>1, <1>2, <1>4, <1>5, <1>6, <1>7, <1>8

LEMMA TickReports ==
  ASSUME WellFormed, ReportInv, NEW w \in Workers, NEW m \in Match,
         NEW lost \in SUBSET MembersOf(m), Tick(w, m, lost)
  PROVE  ReportInv'
<1>1. \A k \in Match : ForgottenInv(k)'
  BY TickWork DEF ReportInv, ForgottenInv, Present
<1>2. FirstLoop(m)'
  <2>1. SUFFICES ASSUME reports[m] = 0 PROVE FirstLoop(m)'
    BY TickWork DEF FirstLoop
  <2>2. /\ loops[m] \in Nat /\ loops[m] <= 1 /\ loops[m] > 0
        /\ loops[m] = 1 => tickRunning[m] /\ AtWork(m) = {}
    BY <2>1, TickWork DEF ReportInv, FirstLoop, WellFormed, TypeOK
  <2>3. loops'[m] = 0 /\ tickRunning'[m] /\ AtWork(m)' = {w}
    BY <2>2, TickWork
  <2>4. QED BY <2>3 DEF FirstLoop
<1>3. ASSUME NEW k \in Match, k # m PROVE FirstLoop(k)'
  BY <1>3, TickWork DEF ReportInv, FirstLoop
<1>4. QED BY <1>1, <1>2, <1>3 DEF ReportInv

LEMMA TickEndings ==
  ASSUME WellFormed, EndingsInv, NEW w \in Workers, NEW m \in Match,
         NEW lost \in SUBSET MembersOf(m), Tick(w, m, lost)
  PROVE  EndingsInv'
<1>1. ~(reports[m] > 0)
  BY TickWork DEF EndingsInv, EndingInv
<1>2. ASSUME NEW k \in Match, k # m PROVE EndingInv(k)'
  <2>1. /\ AtWork(k)' = AtWork(k) /\ Cleaning(k)' = Cleaning(k) /\ loops'[k] = loops[k]
        /\ \A x \in Workers : InHand(x, k)' => InHand(x, k)
        /\ UNCHANGED <<matches, matchId, winner, reports, reportedWinner>>
    BY <1>2, TickWork
  <2>2. EndingInv(k) /\ (Present(k)' <=> Present(k))
    BY <2>1 DEF EndingsInv, Present
  <2>3. QED BY <2>1, <2>2 DEF EndingInv
<1>3. EndingInv(m)'
  BY <1>1, TickWork DEF EndingInv
<1>4. QED BY <1>2, <1>3 DEF EndingsInv

\* What the loop's own steps share: only its own match is concerned.
LEMMA LooperWork ==
  ASSUME WellFormed, NEW w \in Workers, IsLooper(w), NEW m, m = job[w].match
  PROVE  /\ OthersKeep(w) /\ m \in Match /\ w \in AtWork(m)
         /\ \A k \in Match : k # m =>
              /\ AtWork(k)' = AtWork(k) /\ Cleaning(k)' = Cleaning(k)
              /\ \A x \in Workers : InHand(x, k)' <=> InHand(x, k)
         /\ NotLooping(w)' => /\ AtWork(m)' = AtWork(m) \ {w}
                              /\ Cleaning(m)' = Cleaning(m) \ {w}
                              /\ job'[w] = Idle /\ Finish(w)
         /\ ~NotLooping(w)' => AtWork(m)' = AtWork(m)
         /\ UNCHANGED <<matchId, winner>>
<1>1. ~NotLooping(w) /\ m \in Match /\ job[w] # Idle
  BY LooperKeeps, LooperFacts DEF IsLooper
<1>2. OthersKeep(w)
  BY OthersKept DEF IsLooper, Step
<1>3. \/ job'[w] = Idle /\ NotLooping(w)' /\ Finish(w)
      \/ job'[w] # Idle /\ job'[w].match = m /\ job'[w].at \in LoopPlaces
  <2>1. \/ job'[w] = Idle /\ Finish(w)
        \/ job'[w].match = m /\ job'[w].at \in LoopPlaces
    BY LooperKeeps DEF IsLooper, LoopPlaces
  <2>2. "idle" \notin LoopPlaces
    BY DEF LoopPlaces, CleanupPlaces
  <2>3. QED BY <2>1, <2>2 DEF NotLooping, Idle
<1>4. UNCHANGED <<matchId, winner>>
  BY DEF IsLooper, CheckDisconnected, ReportEnd, StopRunning, UnregisterPlayer, ClearMatch,
         ForgetMatch, registries, match
<1>5. ASSUME NEW k \in Match, k # m
      PROVE  /\ AtWork(k)' = AtWork(k) /\ Cleaning(k)' = Cleaning(k)
             /\ \A x \in Workers : InHand(x, k)' <=> InHand(x, k)
  <2>1. "idle" \notin LoopPlaces /\ "idle" \notin CleanupPlaces
    BY DEF LoopPlaces, CleanupPlaces
  <2>2. AtWork(k)' = AtWork(k) /\ Cleaning(k)' = Cleaning(k)
    BY <1>2, <1>3, <1>5, <2>1 DEF OthersKeep, AtWork, Cleaning, Idle
  <2>3. \A x \in Workers : InHand(x, k)' <=> InHand(x, k)
    BY <1>2, <1>3, <1>5 DEF OthersKeep, InHand
  <2>4. QED BY <2>2, <2>3
<1>6. NotLooping(w)' => AtWork(m)' = AtWork(m) \ {w} /\ Cleaning(m)' = Cleaning(m) \ {w}
  BY <1>2 DEF OthersKeep, AtWork, Cleaning, NotLooping, LoopPlaces
<1>7. ~NotLooping(w)' => AtWork(m)' = AtWork(m)
  <2>1. SUFFICES ASSUME ~NotLooping(w)' PROVE AtWork(m)' = AtWork(m)
    OBVIOUS
  <2>2. job'[w].match = m /\ job'[w].at \in LoopPlaces /\ job[w].at \in LoopPlaces
    BY <1>1, <1>3, <2>1 DEF NotLooping
  <2>3. QED BY <1>2, <2>2 DEF OthersKeep, AtWork
<1>8. NotLooping(w)' => job'[w] = Idle /\ Finish(w)
  BY <1>3 DEF NotLooping
<1>9. w \in AtWork(m)
  BY <1>1 DEF AtWork, NotLooping
<1>10. QED BY <1>1, <1>2, <1>4, <1>5, <1>6, <1>7, <1>8, <1>9

LEMMA CheckReports ==
  ASSUME WellFormed, ReportInv, NEW w \in Workers, CheckDisconnected(w)
  PROVE  ReportInv'
<1>1. PICK m \in Match : m = job[w].match
  BY JobFacts DEF CheckDisconnected
<1>2. IsLooper(w) /\ job[w].at = "check"
  BY DEF IsLooper, CheckDisconnected
<1>3. /\ w \in AtWork(m) /\ UNCHANGED <<matches, matchId, tickRunning, reports>>
      /\ \A k \in Match : k # m => AtWork(k)' = AtWork(k) /\ Cleaning(k)' = Cleaning(k)
  BY <1>1, <1>2, LooperWork DEF CheckDisconnected, registries, ghosts
<1>4. \/ UNCHANGED loops /\ ~NotLooping(w)' /\ AtWork(m)' = AtWork(m) /\ Cleaning(m)' = Cleaning(m)
      \/ /\ loops' = [loops EXCEPT ![m] = @ + 1]
         /\ AtWork(m)' = AtWork(m) \ {w} /\ Cleaning(m)' = Cleaning(m)
  <2>1. w \notin Cleaning(m)
    BY <1>2 DEF Cleaning, CleanupPlaces
  <2>2. CASE Finish(w) /\ loops' = [loops EXCEPT ![m] = @ + 1]
    <3>1. job'[w] = Idle /\ NotLooping(w)'
      BY <2>2 DEF Finish, WellFormed, TypeOK, NotLooping, Idle, LoopPlaces, CleanupPlaces
    <3>2. QED BY <1>1, <1>2, <2>1, <2>2, <3>1, LooperWork
  <2>3. ASSUME NEW o, job' = [job EXCEPT ![w].scan = @ \ {o}], UNCHANGED loops
        PROVE  UNCHANGED loops /\ ~NotLooping(w)' /\ AtWork(m)' = AtWork(m) /\ Cleaning(m)' = Cleaning(m)
    <3>1. job[w] \in Job /\ job \in [Workers -> Job \cup {Idle}]
      BY <1>2, JobFacts DEF WellFormed, TypeOK
    <3>2. job'[w].at = "check"
      BY <1>2, <2>3, <3>1 DEF Job
    <3>3. ~NotLooping(w)' /\ OthersKeep(w)
      BY <1>1, <1>2, <3>2, LooperWork DEF NotLooping, LoopPlaces
    <3>4. Cleaning(m)' = Cleaning(m)
      BY <1>2, <3>2, <3>3 DEF OthersKeep, Cleaning, CleanupPlaces
    <3>5. QED BY <1>1, <1>2, <2>3, <3>3, <3>4, LooperWork
  <2>4. QED BY <1>1, <2>2, <2>3 DEF CheckDisconnected
<1>5. \A k \in Match : ForgottenInv(k)'
  BY <1>3, <1>4 DEF ReportInv, ForgottenInv, Present
<1>6. \A k \in Match : k # m => loops'[k] = loops[k]
  BY <1>4 DEF WellFormed, TypeOK
<1>7. FirstLoop(m)'
  <2>1. SUFFICES ASSUME reports[m] = 0 PROVE FirstLoop(m)'
    BY <1>3 DEF FirstLoop
  <2>2. /\ loops[m] \in Nat /\ loops[m] <= 1 /\ (loops[m] = 1 => AtWork(m) = {})
        /\ tickRunning[m] /\ AtWork(m) = {w}
    BY <1>3, <2>1 DEF ReportInv, FirstLoop, WellFormed, TypeOK
  <2>3. loops[m] = 0
    BY <1>3, <2>2
  <2>4. CASE UNCHANGED loops /\ AtWork(m)' = AtWork(m)
    BY <1>3, <2>2, <2>3, <2>4 DEF FirstLoop
  <2>5. CASE loops' = [loops EXCEPT ![m] = @ + 1] /\ AtWork(m)' = AtWork(m) \ {w}
    <3>1. loops'[m] = 1 /\ AtWork(m)' = {}
      BY <2>2, <2>3, <2>5 DEF WellFormed, TypeOK
    <3>2. QED BY <1>3, <2>2, <3>1 DEF FirstLoop
  <2>6. QED BY <1>4, <2>4, <2>5
<1>8. ASSUME NEW k \in Match, k # m PROVE FirstLoop(k)'
  BY <1>3, <1>6, <1>8 DEF ReportInv, FirstLoop
<1>9. QED BY <1>5, <1>7, <1>8 DEF ReportInv

\* A loop that checks a match runs one that was not reported.
LEMMA CheckUnreported ==
  ASSUME WellFormed, EndingsInv, NEW w \in Workers, job[w].at = "check",
         NEW m \in Match, m = job[w].match
  PROVE  reports[m] = 0
<1>1. SUFFICES ASSUME reports[m] > 0 PROVE FALSE
  BY Constants DEF WellFormed, TypeOK
<1>2. w \in AtWork(m) /\ w \notin Cleaning(m) /\ InHand(w, m)
  BY JobFacts DEF AtWork, Cleaning, LoopPlaces, CleanupPlaces, InHand
<1>3. QED BY <1>1, <1>2 DEF EndingsInv, EndingInv

LEMMA CheckEndings ==
  ASSUME WellFormed, EndingsInv, NEW w \in Workers, CheckDisconnected(w)
  PROVE  EndingsInv'
<1>1. PICK m \in Match : m = job[w].match
  BY JobFacts DEF CheckDisconnected
<1>2. IsLooper(w) /\ job[w].at = "check" /\ UNCHANGED <<matches, reports, reportedWinner>>
  BY DEF IsLooper, CheckDisconnected, registries, ghosts
<1>3. reports[m] = 0
  BY <1>1, <1>2, CheckUnreported
<1>4. ASSUME NEW k \in Match, k # m PROVE EndingInv(k)'
  <2>1. loops'[k] = loops[k]
    BY <1>1, <1>4 DEF CheckDisconnected, WellFormed, TypeOK
  <2>2. /\ AtWork(k)' = AtWork(k) /\ Cleaning(k)' = Cleaning(k)
        /\ \A x \in Workers : InHand(x, k)' <=> InHand(x, k)
        /\ UNCHANGED <<matchId, winner>>
    BY <1>1, <1>2, <1>4, LooperWork
  <2>3. QED BY <1>2, <2>1, <2>2 DEF EndingsInv, EndingInv, Present
<1>5. QED BY <1>2, <1>3, <1>4 DEF EndingsInv, EndingInv

LEMMA ReportFacts ==
  ASSUME WellFormed, NEW w \in Workers, ReportEnd(w), NEW m \in Match, m = job[w].match
  PROVE  /\ IsLooper(w) /\ job[w].at = "check" /\ matchId[m] \in MatchIds
         /\ w \in Cleaning(m)' /\ AtWork(m)' = AtWork(m) /\ reports'[m] > 0
         /\ reports[m] = 0 => reports'[m] = 1
         /\ reportedWinner'[m] = winner[m]
         /\ \A k \in Match : k # m => reports'[k] = reports[k] /\ reportedWinner'[k] = reportedWinner[k]
         /\ UNCHANGED <<matches, matchId, loops, tickRunning, winner>>
<1>1. /\ IsLooper(w) /\ job[w].at = "check" /\ matchId[m] \in MatchIds
      /\ UNCHANGED <<matches, matchId, loops, tickRunning, winner>>
  BY JobFacts DEF IsLooper, ReportEnd, registries, match
<1>2. job'[w].match = m /\ job'[w].at = "stop"
  BY <1>1, JobFacts, GotoJob DEF ReportEnd, WellFormed, TypeOK
<1>3. w \in Cleaning(m)' /\ ~NotLooping(w)'
  BY <1>2 DEF Cleaning, NotLooping, LoopPlaces, CleanupPlaces
<1>4. AtWork(m)' = AtWork(m)
  BY <1>1, <1>3, LooperWork
<1>5. /\ reports' = [reports EXCEPT ![m] = IF @ < MaxReports THEN @ + 1 ELSE @]
      /\ reportedWinner' = [reportedWinner EXCEPT ![m] = winner[m]]
      /\ reports \in [Match -> 0..MaxReports] /\ reportedWinner \in [Match -> Indices \cup {Undecided}]
  BY DEF ReportEnd, WellFormed, TypeOK
<1>6. /\ reports'[m] > 0 /\ (reports[m] = 0 => reports'[m] = 1) /\ reportedWinner'[m] = winner[m]
      /\ \A k \in Match : k # m => reports'[k] = reports[k] /\ reportedWinner'[k] = reportedWinner[k]
  BY <1>5, Constants
<1>7. QED BY <1>1, <1>3, <1>4, <1>6

LEMMA ReportReports ==
  ASSUME WellFormed, ReportInv, NEW w \in Workers, ReportEnd(w)
  PROVE  ReportInv'
<1>1. PICK m \in Match : m = job[w].match
  BY JobFacts DEF ReportEnd
<1>2. FirstLoop(m)' /\ ForgottenInv(m)'
  BY <1>1, ReportFacts DEF FirstLoop, ForgottenInv
<1>3. ASSUME NEW k \in Match, k # m PROVE FirstLoop(k)' /\ ForgottenInv(k)'
  <2>1. AtWork(k)' = AtWork(k) /\ Cleaning(k)' = Cleaning(k)
    BY <1>1, <1>3, ReportFacts, LooperWork
  <2>2. QED
    BY <1>1, <1>3, <2>1, ReportFacts DEF ReportInv, FirstLoop, ForgottenInv, Present
<1>4. QED BY <1>2, <1>3 DEF ReportInv

LEMMA ReportEndings ==
  ASSUME WellFormed, KeptInv, ReportInv, EndingsInv, NEW w \in Workers, ReportEnd(w)
  PROVE  EndingsInv'
<1>1. PICK m \in Match : m = job[w].match
  BY JobFacts DEF ReportEnd
<1>2. reports[m] = 0
  BY <1>1, CheckUnreported DEF ReportEnd
<1>3. EndingInv(m)'
  <2>1. Present(m)'
    BY <1>1, <1>2, ReportFacts DEF KeptInv, Present
  <2>2. w \in AtWork(m)
    BY <1>1, ReportFacts, LooperWork
  <2>3. AtWork(m) = {w} /\ loops[m] = 0
    <3>1. AtWork(m) = {w} /\ loops[m] \in Nat /\ loops[m] <= 1 /\ (loops[m] = 1 => AtWork(m) = {})
      BY <1>2, <2>2 DEF ReportInv, FirstLoop, WellFormed, TypeOK
    <3>2. QED BY <3>1
  <2>4. QED BY <1>1, <1>2, <2>1, <2>3, ReportFacts DEF EndingInv
<1>4. ASSUME NEW k \in Match, k # m PROVE EndingInv(k)'
  <2>1. /\ AtWork(k)' = AtWork(k) /\ Cleaning(k)' = Cleaning(k)
        /\ \A x \in Workers : InHand(x, k)' <=> InHand(x, k)
    BY <1>1, <1>4, ReportFacts, LooperWork
  <2>2. QED BY <1>1, <1>4, <2>1, ReportFacts DEF EndingsInv, EndingInv, Present
<1>5. QED BY <1>3, <1>4 DEF EndingsInv

Removes(w) == StopRunning(w) \/ UnregisterPlayer(w) \/ ClearMatch(w)

LEMMA RemoveFacts ==
  ASSUME WellFormed, NEW w \in Workers, Removes(w), NEW m \in Match, m = job[w].match
  PROVE  /\ job[w].at \in CleanupPlaces /\ OthersKeep(w)
         /\ \A k \in Match : /\ AtWork(k)' = AtWork(k) /\ Cleaning(k)' = Cleaning(k)
                             /\ \A x \in Workers : InHand(x, k)' => InHand(x, k)
         /\ \A k \in Match : k # m => tickRunning'[k] = tickRunning[k]
         /\ UNCHANGED <<matches, matchId, loops, reports, reportedWinner, winner>>
<1>1. /\ IsLooper(w) /\ job[w].at \in CleanupPlaces
      /\ UNCHANGED <<matches, matchId, loops, reports, reportedWinner, winner>>
  BY DEF IsLooper, Removes, StopRunning, UnregisterPlayer, ClearMatch, CleanupPlaces,
         registries, match, ghosts
<1>2. \A k \in Match : k # m => tickRunning'[k] = tickRunning[k]
  BY DEF Removes, StopRunning, UnregisterPlayer, ClearMatch, match, WellFormed, TypeOK
<1>3. job[w] # Idle /\ OthersKeep(w)
  BY <1>1, JobFacts, LooperWork DEF CleanupPlaces
<1>4. job'[w].at \in CleanupPlaces /\ job'[w].match = m
  <2>1. ~CheckDisconnected(w)
    BY <1>1 DEF CheckDisconnected, CleanupPlaces
  <2>2. ~Finish(w)
    <3>1. job[w] \in Job /\ job \in [Workers -> Job \cup {Idle}]
      BY <1>1, JobFacts DEF CleanupPlaces, WellFormed, TypeOK
    <3>2. CASE StopRunning(w) \/ ClearMatch(w)
      <4>1. PICK place \in {"unregister", "forget"} : Goto(w, place)
        BY <3>2 DEF StopRunning, ClearMatch
      <4>2. job'[w].at = place
        BY <3>1, <4>1, GotoJob DEF WellFormed
      <4>3. QED BY <3>1, <4>2 DEF Finish, Idle
    <3>3. CASE UnregisterPlayer(w)
      <4>1. PICK e \in job[w].keys : job' = [job EXCEPT ![w].keys = @ \ {e}]
        BY <3>3 DEF UnregisterPlayer
      <4>2. job'[w].at = "unregister"
        BY <3>1, <3>3, <4>1 DEF Job, UnregisterPlayer
      <4>3. QED BY <3>1, <4>2 DEF Finish, Idle
    <3>4. QED BY <3>2, <3>3 DEF Removes
  <2>3. QED BY <2>1, <2>2, LooperKeeps DEF Removes
<1>5. \A k \in Match : AtWork(k)' = AtWork(k) /\ Cleaning(k)' = Cleaning(k)
  BY <1>1, <1>3, <1>4 DEF OthersKeep, AtWork, Cleaning, LoopPlaces
<1>6. \A k \in Match, x \in Workers : InHand(x, k)' => InHand(x, k)
  BY <1>3, <1>4 DEF OthersKeep, InHand
<1>7. QED BY <1>1, <1>2, <1>3, <1>5, <1>6

LEMMA RemoveReports ==
  ASSUME WellFormed, CleanupInv, ReportInv, NEW w \in Workers, Removes(w)
  PROVE  ReportInv'
<1>1. PICK m \in Match : m = job[w].match
  BY JobFacts DEF Removes, StopRunning, UnregisterPlayer, ClearMatch
<1>2. reports[m] > 0
  BY <1>1, RemoveFacts DEF CleanupInv, CleanupPlaces
<1>3. ASSUME NEW k \in Match PROVE ForgottenInv(k)'
  BY <1>1, RemoveFacts DEF ReportInv, ForgottenInv, Present
<1>4. ASSUME NEW k \in Match PROVE FirstLoop(k)'
  BY <1>1, <1>2, RemoveFacts DEF ReportInv, FirstLoop
<1>5. QED BY <1>3, <1>4 DEF ReportInv

LEMMA RemoveEndings ==
  ASSUME WellFormed, EndingsInv, NEW w \in Workers, Removes(w)
  PROVE  EndingsInv'
<1>1. PICK m \in Match : m = job[w].match
  BY JobFacts DEF Removes, StopRunning, UnregisterPlayer, ClearMatch
<1>2. QED BY <1>1, RemoveFacts DEF EndingsInv, EndingInv, Present

LEMMA ForgetFacts ==
  ASSUME WellFormed, NEW w \in Workers, ForgetMatch(w), NEW m \in Match, m = job[w].match
  PROVE  /\ IsLooper(w) /\ job[w].at = "forget" /\ job'[w] = Idle /\ matchId[m] \in MatchIds
         /\ AtWork(m)' = AtWork(m) \ {w} /\ ~Present(m)'
         /\ \A k \in Match : Present(k)' <=> Present(k) /\ matchId[k] # matchId[m]
         /\ UNCHANGED <<matchId, loops, tickRunning, reports, reportedWinner, winner>>
<1>1. /\ IsLooper(w) /\ job[w].at = "forget" /\ matchId[m] \in MatchIds /\ Finish(w)
      /\ matches' = [matches EXCEPT ![matchId[m]] = None]
      /\ UNCHANGED <<matchId, loops, tickRunning, reports, reportedWinner, winner>>
  BY JobFacts DEF IsLooper, ForgetMatch, match, ghosts
<1>2. job'[w] = Idle /\ NotLooping(w)'
  BY <1>1 DEF Finish, WellFormed, TypeOK, NotLooping, Idle, LoopPlaces, CleanupPlaces
<1>3. AtWork(m)' = AtWork(m) \ {w}
  BY <1>1, <1>2, LooperWork
<1>4. \A k \in Match : Present(k)' <=> Present(k) /\ matchId[k] # matchId[m]
  BY <1>1, Constants DEF Present, WellFormed, TypeOK
<1>5. QED BY <1>1, <1>2, <1>3, <1>4

LEMMA ForgetReports ==
  ASSUME WellFormed, CleanupInv, ReportInv, NEW w \in Workers, ForgetMatch(w)
  PROVE  ReportInv'
<1>1. PICK m \in Match : m = job[w].match
  BY JobFacts DEF ForgetMatch
<1>2. reports[m] > 0
  BY <1>1, ForgetFacts DEF CleanupInv
<1>3. FirstLoop(m)' /\ ForgottenInv(m)'
  BY <1>1, <1>2, ForgetFacts DEF FirstLoop, ForgottenInv
<1>4. ASSUME NEW k \in Match, k # m PROVE FirstLoop(k)' /\ ForgottenInv(k)'
  <2>1. AtWork(k)' = AtWork(k) /\ Cleaning(k)' = Cleaning(k)
    BY <1>1, <1>4, ForgetFacts, LooperWork
  <2>2. Present(k)' => Present(k)
    BY <1>1, ForgetFacts
  <2>3. QED BY <1>1, <1>4, <2>1, <2>2, ForgetFacts DEF ReportInv, FirstLoop, ForgottenInv
<1>5. QED BY <1>3, <1>4 DEF ReportInv

LEMMA ForgetEndings ==
  ASSUME WellFormed, CleanupInv, EndingsInv, CleanupUndisturbed, NEW w \in Workers,
         ForgetMatch(w)
  PROVE  EndingsInv'
<1>1. PICK m \in Match : m = job[w].match
  BY JobFacts DEF ForgetMatch
<1>2. reports[m] > 0 /\ InHand(w, m) /\ w \in AtWork(m) /\ OthersKeep(w)
  BY <1>1, ForgetFacts, LooperWork, JobFacts DEF CleanupInv, InHand
<1>3. Present(m)
  BY <1>2 DEF EndingsInv, EndingInv
<1>4. EndingInv(m)'
  <2>1. \A x \in Workers : ~InHand(x, m)'
    BY <1>1, <1>2, ForgetFacts DEF CleanupUndisturbed, CleanupPlaces, OthersKeep, InHand
  <2>2. QED BY <1>1, <1>2, <2>1, ForgetFacts DEF EndingsInv, EndingInv
<1>5. ASSUME NEW k \in Match, k # m PROVE EndingInv(k)'
  <2>1. /\ AtWork(k)' = AtWork(k) /\ Cleaning(k)' = Cleaning(k)
        /\ \A x \in Workers : InHand(x, k)' <=> InHand(x, k)
    BY <1>1, <1>5, ForgetFacts, LooperWork
  <2>2. Present(k)' <=> Present(k)
    BY <1>1, <1>3, <1>5, ForgetFacts DEF Present
  <2>3. QED BY <1>1, <1>5, <2>1, <2>2, ForgetFacts DEF EndingsInv, EndingInv
<1>6. QED BY <1>4, <1>5 DEF EndingsInv

-----------------------------------------------------------------------------
(* What holds whatever the workers do.                                     *)

LEMMA ReportStep ==
  WellFormed /\ CleanupInv /\ ReportInv /\ [Next]_vars => ReportInv'
<1> SUFFICES ASSUME WellFormed, CleanupInv, ReportInv, [Next]_vars PROVE ReportInv'
  OBVIOUS
<1>1. CASE UNCHANGED <<registries, info, match, job, ghosts>>
  BY <1>1
  DEF ReportInv, FirstLoop, ForgottenInv, AtWork, Cleaning, Present, registries, match, ghosts
<1>2. ASSUME NEW w \in Workers, Step(w) PROVE ReportInv'
  BY <1>2, HandlerStepReports, CheckReports, ReportReports, RemoveReports, ForgetReports
  DEF Step, IsHandler, Removes
<1>3. QED BY <1>1, <1>2, StepCases, HandlerStepReports, TickReports DEF IsHandler

LEMMA ReportInit == Init => ReportInv
<1> SUFFICES ASSUME Init PROVE ReportInv
  OBVIOUS
<1>1. \A m \in Match : loops[m] = 0 /\ reports[m] = 0 /\ AtWork(m) = {}
  BY DEF Init, Idle, AtWork, LoopPlaces, CleanupPlaces
<1>2. QED BY <1>1 DEF ReportInv, FirstLoop, ForgottenInv

LEMMA ReportAlways == Spec => [](WellFormed /\ CleanupInv /\ JoinedInv /\ ReportInv)
<1>1. Init => WellFormed /\ CleanupInv /\ JoinedInv /\ ReportInv
  BY WellFormedInit, StartsInit, ReportInit DEF JobsInv
<1>2. WellFormed /\ CleanupInv /\ JoinedInv /\ ReportInv /\ [Next]_vars
        => (WellFormed /\ CleanupInv /\ JoinedInv /\ ReportInv)'
  BY WellFormedStep, GrowStep, CleanupStep, JoinedStep, ReportStep
<1>3. QED BY <1>1, <1>2, PTL DEF Spec

\* Of loops that are suspended, and loops at work on no more than one worker.
LEMMA LoopsCounted ==
  ASSUME WellFormed, NEW m \in Match, NEW x, AtWork(m) \subseteq {x}
  PROVE  RunningLoops(m) = loops[m] + IF AtWork(m) = {} THEN 0 ELSE 1
<1>1. {w \in Workers : job[w] # Idle /\ job[w].kind = "loop" /\ job[w].match = m} = AtWork(m)
  BY DEF AtWork, LoopPlaces, CleanupPlaces, Idle, WellFormed, JobsFine, JobFine
<1>2. Cardinality(AtWork(m)) = IF AtWork(m) = {} THEN 0 ELSE 1
  <2>1. CASE AtWork(m) = {}
    BY <2>1, FS_EmptySet
  <2>2. CASE AtWork(m) = {x}
    BY <2>2, FS_Singleton
  <2>3. QED BY <2>1, <2>2
<1>3. QED BY <1>1, <1>2 DEF RunningLoops

\* Up to its report a match has a single tick loop, however many workers handle
\* its last Ready messages at the same time.
THEOREM OneLoopToTheReport == Spec => []OneLoopUntilReported
<1>1. WellFormed /\ ReportInv => OneLoopUntilReported
  <2>1. SUFFICES ASSUME WellFormed, ReportInv, NEW m \in Match, reports[m] = 0
                 PROVE  RunningLoops(m) <= 1
    BY DEF OneLoopUntilReported
  <2>2. FirstLoop(m) /\ loops[m] \in Nat
    BY <2>1 DEF ReportInv, WellFormed, TypeOK
  <2>3. CASE AtWork(m) = {}
    <3>1. RunningLoops(m) = loops[m]
      BY <2>1, <2>2, <2>3, LoopsCounted
    <3>2. QED BY <2>1, <2>2, <3>1 DEF FirstLoop
  <2>4. ASSUME NEW x \in AtWork(m) PROVE RunningLoops(m) <= 1
    <3>1. AtWork(m) = {x} /\ loops[m] = 0
      <4>1. /\ AtWork(m) = {x} /\ loops[m] <= 1 /\ (loops[m] = 1 => AtWork(m) = {})
        BY <2>1, <2>2, <2>4 DEF FirstLoop
      <4>2. QED BY <2>2, <4>1
    <3>2. RunningLoops(m) = loops[m] + 1
      BY <2>1, <3>1, LoopsCounted
    <3>3. QED BY <3>1, <3>2
  <2>5. QED BY <2>3, <2>4
<1>2. QED BY <1>1, ReportAlways, PTL

\* A reported match is forgotten once nobody is at work, although other workers
\* may have found it, or run a second loop of it, while it was removed.
THEOREM ReportedMatchForgotten == Spec => []ReportedIsForgotten
<1>1. WellFormed /\ ReportInv => ReportedIsForgotten
  <2>1. SUFFICES ASSUME WellFormed, ReportInv, \A w \in Workers : job[w] = Idle,
                        NEW m \in Match, NEW id \in MatchIds, reports[m] > 0
                 PROVE  matches[id] # m
    BY DEF ReportedIsForgotten
  <2>2. Cleaning(m) = {}
    BY <2>1 DEF Cleaning, CleanupPlaces, Idle
  <2>3. ~Present(m) /\ matchId[m] \in MatchIds
    BY <2>1, <2>2 DEF ReportInv, ForgottenInv
  <2>4. QED BY <2>1, <2>3, Constants DEF Present, WellFormed, RegistriesFine
<1>2. QED BY <1>1, ReportAlways, PTL

LEMMA WinnerStep ==
  WellFormed /\ ReportedWinnerStands /\ [Next]_vars => ReportedWinnerStands'
<1> SUFFICES ASSUME WellFormed, ReportedWinnerStands, [Next]_vars PROVE ReportedWinnerStands'
  OBVIOUS
<1>1. CASE UNCHANGED <<winner, reportedWinner>>
  BY <1>1 DEF ReportedWinnerStands
<1>2. ASSUME NEW w \in Workers, ReportEnd(w) PROVE ReportedWinnerStands'
  <2>1. PICK m \in Match : m = job[w].match
    BY <1>2, JobFacts DEF ReportEnd
  <2>2. QED BY <1>2, <2>1, ReportFacts DEF ReportedWinnerStands
<1>3. ASSUME NEW w \in Workers, RecordResult(w) PROVE ReportedWinnerStands'
  BY <1>3, Constants DEF RecordResult, ClaimWinner, ReportedWinnerStands, WellFormed, TypeOK, ghosts
<1>4. QED
  BY <1>1, <1>2, <1>3, StepCases
  DEF NewConnection, Receive, Step, FindPlayer, JoinMatch, Register, StartPingPhase, FindMatch,
      MarkConnected, MarkDisconnected, SetDisconnected, SetReady, SnapshotPlayers, ScanReady,
      StartMatch, CheckDisconnected, StopRunning, UnregisterPlayer, ClearMatch, ForgetMatch,
      Tick, match, ghosts

\* The match server is never told a winner that later is not the winner any more,
\* on however many workers results, reports and second reports race.
THEOREM WinnerStands == Spec => []ReportedWinnerStands
<1>1. Init => ReportedWinnerStands
  BY DEF Init, ReportedWinnerStands
<1>2. Spec => [](WellFormed /\ ReportedWinnerStands)
  BY <1>1, WellFormedInit, WellFormedStep, WinnerStep, PTL DEF Spec
<1>3. QED BY <1>2, PTL

-----------------------------------------------------------------------------
(* What holds as long as cleanups are left alone.                          *)

LEMMA EndingsStep ==
  ASSUME WellFormed, JobsInv, ReportInv, EndingsInv, CleanupUndisturbed, [Next]_vars
  PROVE  EndingsInv'
<1>1. CASE UNCHANGED <<registries, info, match, job, ghosts>>
  BY <1>1
  DEF EndingsInv, EndingInv, AtWork, Cleaning, Present, InHand, registries, match, ghosts
<1>2. ASSUME NEW w \in Workers, Step(w) PROVE EndingsInv'
  BY <1>2, HandlerStepEndings, CheckEndings, ReportEndings, RemoveEndings, ForgetEndings
  DEF Step, IsHandler, Removes, JobsInv
<1>3. QED BY <1>1, <1>2, StepCases, HandlerStepEndings, TickEndings DEF IsHandler

\* Nobody then forgets another match than its own.
LEMMA UndisturbedForgets == WellFormed /\ CleanupInv /\ EndingsInv => ForgetsOwn
<1> SUFFICES ASSUME WellFormed, CleanupInv, EndingsInv, NEW w \in Workers, job[w].at = "forget"
             PROVE  matches[matchId[job[w].match]] \in {None, job[w].match}
  BY DEF ForgetsOwn
<1>1. PICK m \in Match : m = job[w].match /\ InHand(w, m) /\ reports[m] > 0
  BY JobFacts DEF InHand, CleanupInv
<1>2. Present(m)
  BY <1>1 DEF EndingsInv, EndingInv
<1>3. QED BY <1>1, <1>2 DEF Present

LEMMA UndisturbedAlways ==
  Spec /\ []CleanupUndisturbed => [](WellFormed /\ JobsInv /\ ReportInv /\ EndingsInv)
<1>1. Init => WellFormed /\ JobsInv /\ ReportInv /\ EndingsInv
  BY WellFormedInit, StartsInit, ReportInit DEF Init, EndingsInv, EndingInv
<1>2. WellFormed /\ JobsInv /\ ReportInv /\ EndingsInv /\ CleanupUndisturbed /\ [Next]_vars
        => (WellFormed /\ JobsInv /\ ReportInv /\ EndingsInv)'
  BY WellFormedStep, GrowStep, CleanupStep, KeptStep, JoinedStep, HandlerStep, ReportStep,
     EndingsStep, UndisturbedForgets DEF JobsInv
<1>3. QED BY <1>1, <1>2, PTL DEF Spec

\* A second tick loop needs a worker that has the match in hand while another one
\* removes it: if there is never one, a match has one loop.
THEOREM UndisturbedOneLoop == Spec /\ []CleanupUndisturbed => []OneLoop
<1>1. WellFormed /\ ReportInv /\ EndingsInv => OneLoop
  <2>1. SUFFICES ASSUME WellFormed, ReportInv, EndingsInv, NEW m \in Match
                 PROVE  RunningLoops(m) <= 1
    BY DEF OneLoop
  <2>2. loops[m] \in Nat /\ reports[m] \in Nat
    BY <2>1, Constants DEF WellFormed, TypeOK
  <2>3. AtWork(m) = {} \/ \E x \in Workers : AtWork(m) = {x}
    <3>1. CASE reports[m] = 0
      BY <2>1, <3>1 DEF ReportInv, FirstLoop, AtWork
    <3>2. CASE reports[m] > 0
      <4>1. CASE \A x \in Workers : ~InHand(x, m)
        BY <4>1 DEF InHand, AtWork, Idle, LoopPlaces, CleanupPlaces
      <4>2. CASE \E x \in Cleaning(m) : AtWork(m) = {x}
        BY <4>2 DEF Cleaning
      <4>3. QED BY <2>1, <3>2, <4>1, <4>2 DEF EndingsInv, EndingInv
    <3>3. QED BY <2>2, <3>1, <3>2
  <2>4. PICK x : AtWork(m) \subseteq {x}
    BY <2>3
  <2>5. RunningLoops(m) = loops[m] + IF AtWork(m) = {} THEN 0 ELSE 1
    BY <2>1, <2>4, LoopsCounted
  <2>6. loops[m] <= 1 /\ (loops[m] = 1 => AtWork(m) = {})
    <3>1. CASE reports[m] = 0
      BY <2>1, <3>1 DEF ReportInv, FirstLoop
    <3>2. CASE reports[m] > 0
      BY <2>1, <3>2 DEF EndingsInv, EndingInv
    <3>3. QED BY <2>2, <3>1, <3>2
  <2>7. QED BY <2>2, <2>5, <2>6
<1>2. QED BY <1>1, UndisturbedAlways, PTL

\* ... its end is reported once ...
THEOREM UndisturbedReportsOnce == Spec /\ []CleanupUndisturbed => []EndReportedOnce
<1>1. WellFormed /\ EndingsInv => EndReportedOnce
  BY Constants DEF EndReportedOnce, EndingsInv, EndingInv, WellFormed, TypeOK
<1>2. QED BY <1>1, UndisturbedAlways, PTL

\* ... with the last word about its winner ...
THEOREM UndisturbedWinnerFinal == Spec /\ []CleanupUndisturbed => []ReportedWinnerFinal
<1>1. EndingsInv => ReportedWinnerFinal
  BY DEF ReportedWinnerFinal, EndingsInv, EndingInv
<1>2. QED BY <1>1, UndisturbedAlways, PTL

\* ... and no start is lost, also of matches that are created again under one id.
THEOREM UndisturbedStarts == Spec /\ []CleanupUndisturbed => []NoLostStart
<1>1. WellFormed /\ JobsInv /\ EndingsInv => ForgetsOwn
  BY UndisturbedForgets DEF JobsInv
<1>2. QED BY <1>1, UndisturbedAlways, ReadyMatchStarts, PTL
=============================================================================
