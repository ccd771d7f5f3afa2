------------------------ MODULE MatchLifecycleProofs ------------------------
(***************************************************************************)
(* Proofs about MatchLifecycle, for any number of workers: types, that a   *)
(* running match has a loop, and that a match whose players are all ready  *)
(* is started.  MatchEndProofs adds what is known of the end of a match.   *)
(***************************************************************************)
EXTENDS MatchLifecycle, TLAPS

-----------------------------------------------------------------------------
(* Well-formed states: what is referred to exists.                         *)

Created == {o \in Player : info[o] # NoInfo}

JobTyped == job \in [Workers -> Job \cup {Idle}]

\* What a job refers to exists, given the matches' ids and the player objects.
JobFine(j, ids, objects) ==
  j # Idle =>
    /\ j.at # "lookup" => j.match \in Match /\ ids[j.match] \in MatchIds
    /\ j.at \in {"register", "lookup", "handle"} => j.player \in objects
    /\ j.scan \subseteq objects
    /\ j.at \in {"check", "stop", "unregister", "forget"} <=> j.kind = "loop"

JobsFine == \A w \in Workers : JobFine(job[w], matchId, Created)

RegistriesFine ==
  /\ \A e \in Endpoints : registry[e] # None => registry[e] \in Created
  /\ \A m \in Match, e \in Endpoints : members[m][e] # None => members[m][e] \in Created
  /\ \A id \in MatchIds : matches[id] # None => matchId[matches[id]] = id

LoopsFine == \A m \in Match : tickRunning[m] => matchId[m] \in MatchIds

WellFormed == TypeOK /\ JobsFine /\ RegistriesFine /\ LoopsFine

Info == [endpoint : Endpoints, id : MatchIds, ready : BOOLEAN, disconnected : BOOLEAN]

LEMMA Constants ==
  /\ None = 0 /\ None \notin MatchIds /\ Undecided \notin Nat
  /\ Match \subseteq Nat \ {None} /\ Player \subseteq Nat \ {None}
  /\ Endpoints # {} /\ Index \in [Endpoints -> Nat]
  /\ Kinds \subseteq {"ready", "notReady", "input", "disconnecting", "result"}
  /\ MaxReports \in Nat /\ MaxReports >= 1
BY IndexAssumption, MatchIdsAssumption, KindsAssumption, BoundsAssumption
   DEF None, Match, Player, Undecided

\* A player object is told from the absence of one.
LEMMA InfoIsSome == ASSUME NEW i \in Info PROVE i # NoInfo
<1>1. "created" \notin DOMAIN i
  BY DEF Info
<1>2. "created" \in DOMAIN NoInfo
  BY DEF NoInfo
<1>3. QED BY <1>1, <1>2

LEMMA JobIsBusy == ASSUME NEW j \in Job PROVE j # Idle
BY DEF Job, Idle

LEMMA CreatedTyped == ASSUME TypeOK, NEW o \in Created PROVE o \in Player /\ info[o] \in Info
BY DEF TypeOK, Created, Info

LEMMA NewPlayerType ==
  ASSUME NEW e \in Endpoints, NEW id \in MatchIds
  PROVE  NewPlayer(e, id) \in Info
BY DEF NewPlayer, Info

\* A worker is where it is said to be: it runs a job.
LEMMA BusyJob ==
  ASSUME TypeOK, NEW w \in Workers, job[w].at # "idle"
  PROVE  job[w] \in Job /\ job[w] # Idle
BY DEF TypeOK, Idle

\* A step of worker w that takes its job to j.
LEMMA JobStep ==
  ASSUME WellFormed, NEW w \in Workers, NEW j \in Job \cup {Idle},
         job' = [job EXCEPT ![w] = j],
         Created \subseteq Created',
         \A m \in Match : matchId[m] \in MatchIds => matchId'[m] = matchId[m],
         JobFine(j, matchId', Created')
  PROVE  JobTyped' /\ JobsFine'
<1>1. JobTyped'
  BY DEF WellFormed, TypeOK, JobTyped
<1>2. ASSUME NEW x \in Workers PROVE JobFine(job'[x], matchId', Created')
  <2>1. CASE x = w
    BY <2>1 DEF WellFormed, TypeOK
  <2>2. CASE x # w
    <3>1. job'[x] = job[x] /\ JobFine(job[x], matchId, Created)
      BY <2>2 DEF WellFormed, TypeOK, JobsFine
    <3>2. QED BY <3>1 DEF JobFine
  <2>3. QED BY <2>1, <2>2
<1>3. QED BY <1>1, <1>2 DEF JobsFine

\* The same, when neither the maps nor the player objects change.
LEMMA QuietStep ==
  ASSUME WellFormed, NEW w \in Workers, NEW j \in Job \cup {Idle},
         job' = [job EXCEPT ![w] = j], UNCHANGED <<registries, info>>,
         JobFine(j, matchId, Created)
  PROVE  JobTyped' /\ JobsFine' /\ RegistriesFine'
<1>1. Created' = Created /\ matchId' = matchId
  BY DEF registries, Created
<1>2. RegistriesFine'
  BY <1>1 DEF WellFormed, RegistriesFine, registries
<1>3. QED BY <1>1, <1>2, JobStep

\* Moving on in a job, and ending one.
LEMMA GotoJob ==
  ASSUME TypeOK, NEW w \in Workers, job[w] \in Job, NEW place, Goto(w, place),
         place \in {"join", "pingCheck", "snapshot", "stop", "unregister", "forget"}
  PROVE  \E j \in Job :
           /\ job' = [job EXCEPT ![w] = j] /\ j.at = place
           /\ j.kind = job[w].kind /\ j.endpoint = job[w].endpoint
           /\ j.player = job[w].player /\ j.match = job[w].match
           /\ j.scan = job[w].scan /\ j.keys = job[w].keys
<1> DEFINE j == [job[w] EXCEPT !.at = place]
<1>1. j \in Job /\ j.at = place
  BY DEF Job
<1>2. job' = [job EXCEPT ![w] = j]
  BY DEF Goto, TypeOK
<1>3. /\ j.kind = job[w].kind /\ j.endpoint = job[w].endpoint
      /\ j.player = job[w].player /\ j.match = job[w].match
      /\ j.scan = job[w].scan /\ j.keys = job[w].keys
  BY DEF Job
<1>4. QED BY <1>1, <1>2, <1>3

LEMMA FinishStep ==
  ASSUME WellFormed, NEW w \in Workers, Finish(w), UNCHANGED <<registries, info>>
  PROVE  JobTyped' /\ JobsFine' /\ RegistriesFine'
<1>1. JobFine(Idle, matchId, Created)
  BY DEF JobFine
<1>2. QED BY <1>1, QuietStep DEF Finish

\* A job that moves on without another player, match or scan.
LEMMA GotoStep ==
  ASSUME WellFormed, NEW w \in Workers, job[w] \in Job, job[w].at # "lookup",
         NEW place, Goto(w, place), UNCHANGED <<registries, info>>,
         \/ place \in {"join", "pingCheck", "snapshot"} /\ job[w].kind # "loop"
         \/ place \in {"stop", "unregister", "forget"} /\ job[w].kind = "loop"
  PROVE  JobTyped' /\ JobsFine' /\ RegistriesFine'
<1>1. PICK j \in Job :
        /\ job' = [job EXCEPT ![w] = j] /\ j.at = place
        /\ j.kind = job[w].kind /\ j.endpoint = job[w].endpoint
        /\ j.player = job[w].player /\ j.match = job[w].match
        /\ j.scan = job[w].scan /\ j.keys = job[w].keys
  BY GotoJob DEF WellFormed
<1>2. JobFine(job[w], matchId, Created) /\ job[w] # Idle
  BY JobIsBusy DEF WellFormed, JobsFine
<1>3. JobFine(j, matchId, Created)
  BY <1>1, <1>2 DEF JobFine
<1>4. QED BY <1>1, <1>3, QuietStep

\* What is known of the job of a worker that is not idle.
LEMMA JobFacts ==
  ASSUME WellFormed, NEW w \in Workers, job[w].at # "idle"
  PROVE  /\ job[w] \in Job /\ job[w] # Idle
         /\ job[w].at # "lookup" =>
              job[w].match \in Match /\ matchId[job[w].match] \in MatchIds
         /\ job[w].at \in {"register", "lookup", "handle"} => job[w].player \in Created
         /\ job[w].scan \subseteq Created
         /\ job[w].at \in {"check", "stop", "unregister", "forget"} <=> job[w].kind = "loop"
BY BusyJob DEF WellFormed, JobsFine, JobFine

-----------------------------------------------------------------------------
(* The steps of a new connection.                                          *)

LEMMA MembersCreated ==
  ASSUME WellFormed, NEW m \in Match
  PROVE  MembersOf(m) \subseteq Created
BY DEF WellFormed, RegistriesFine, MembersOf

LEMMA NewConnectionStep ==
  ASSUME WellFormed, NEW w \in Workers, NEW e \in Endpoints, NEW id \in MatchIds,
         NEW fetched \in BOOLEAN, NewConnection(w, e, id, fetched)
  PROVE  WellFormed'
<1> DEFINE J(m) == [at |-> "find", kind |-> "new", endpoint |-> e, player |-> None,
                    match |-> m, scan |-> {}, keys |-> {}]
<1>1. UNCHANGED <<registry, members, info, match, running, ghosts>>
  BY DEF NewConnection
<1>2. ASSUME NEW m \in Match PROVE J(m) \in Job /\ J(m).match = m /\ J(m).at = "find"
                                   /\ J(m).kind = "new" /\ J(m).scan = {}
  BY DEF Job
<1>3. Created' = Created
  BY <1>1 DEF Created
<1>4. CASE /\ matches[id] # None
           /\ job' = [job EXCEPT ![w] = J(matches[id])]
           /\ UNCHANGED <<matches, matchId>>
  <2>1. matches[id] \in Match /\ matchId[matches[id]] = id
    BY <1>4 DEF WellFormed, TypeOK, RegistriesFine
  <2>2. JobFine(J(matches[id]), matchId, Created)
    BY <2>1, <1>2 DEF JobFine
  <2>3. JobTyped' /\ JobsFine' /\ RegistriesFine'
    <3> HIDE DEF J
    <3>1. UNCHANGED <<registries, info>>
      BY <1>1, <1>4 DEF registries
    <3>2. QED BY <1>2, <1>4, <2>1, <2>2, <3>1, QuietStep
  <2>4. QED
    BY <1>1, <1>4, <2>3 DEF WellFormed, TypeOK, JobTyped, LoopsFine, match, ghosts
<1>5. ASSUME matches[id] = None, NEW m \in FreshMatch,
             matchId' = [matchId EXCEPT ![m] = id],
             matches' = [matches EXCEPT ![id] = m],
             job' = [job EXCEPT ![w] = J(m)]
      PROVE  WellFormed'
  <2>1. m \in Match /\ matchId[m] = None /\ m # None
    BY <1>5, Constants DEF FreshMatch
  <2>2. matchId' \in [Match -> MatchIds \cup {None}] /\ matchId'[m] = id
    BY <1>5, <2>1 DEF WellFormed, TypeOK
  <2>3. \A k \in Match : matchId[k] \in MatchIds => matchId'[k] = matchId[k]
    BY <1>5, <2>1, Constants DEF WellFormed, TypeOK
  <2>4. JobFine(J(m), matchId', Created')
    BY <2>1, <2>2, <1>2 DEF JobFine
  <2>5. JobTyped' /\ JobsFine'
    <3> HIDE DEF J
    <3>1. QED BY <1>2, <1>3, <1>5, <2>1, <2>3, <2>4, JobStep
  <2>6. RegistriesFine'
    <3>1. ASSUME NEW k \in MatchIds, matches'[k] # None
          PROVE  matchId'[matches'[k]] = k
      <4>1. CASE k = id
        BY <4>1, <1>5, <2>1, <2>2 DEF WellFormed, TypeOK
      <4>2. CASE k # id
        <5>1. matches'[k] = matches[k]
          BY <4>2, <1>5 DEF WellFormed, TypeOK
        <5>2. matches[k] \in Match /\ matchId[matches[k]] = k
          BY <5>1, <3>1 DEF WellFormed, TypeOK, RegistriesFine
        <5>3. QED BY <5>1, <5>2, <2>3
      <4>3. QED BY <4>1, <4>2
    <3>2. QED BY <3>1, <1>1, <1>3 DEF WellFormed, RegistriesFine
  <2>7. QED
    BY <1>1, <1>5, <2>1, <2>2, <2>3, <2>5, <2>6
    DEF WellFormed, TypeOK, JobTyped, LoopsFine, match, ghosts
<1>6. CASE UNCHANGED <<matches, matchId, job>>
  BY <1>1, <1>3, <1>6 DEF WellFormed, TypeOK, JobsFine, RegistriesFine, LoopsFine, match, ghosts
<1>7. QED BY <1>4, <1>5, <1>6 DEF NewConnection

LEMMA FindPlayerStep ==
  ASSUME WellFormed, NEW w \in Workers, FindPlayer(w)
  PROVE  WellFormed'
<1>1. job[w].at = "find" /\ UNCHANGED <<registries, info, match, running, ghosts>>
  BY DEF FindPlayer
<1>2. JobTyped' /\ JobsFine' /\ RegistriesFine'
  <2>1. job[w] \in Job /\ job[w].at # "lookup" /\ job[w].kind # "loop"
    BY <1>1, JobFacts
  <2>2. CASE Finish(w)
    BY <2>2, <1>1, FinishStep
  <2>3. CASE Goto(w, "join")
    BY <2>1, <2>3, <1>1, GotoStep
  <2>4. QED BY <2>2, <2>3 DEF FindPlayer
<1>3. QED
  BY <1>1, <1>2 DEF WellFormed, TypeOK, JobTyped, LoopsFine, registries, match, ghosts

LEMMA JoinMatchStep ==
  ASSUME WellFormed, NEW w \in Workers, JoinMatch(w)
  PROVE  WellFormed'
<1> DEFINE e == job[w].endpoint
           m == job[w].match
<1>1. job[w].at = "join" /\ UNCHANGED <<matches, registry, matchId, match, reports, reportedWinner, running>>
  BY DEF JoinMatch
<1>2. /\ job[w] \in Job /\ e \in Endpoints /\ m \in Match /\ matchId[m] \in MatchIds
      /\ job[w].scan \subseteq Created /\ job[w].kind # "loop"
  BY <1>1, JobFacts DEF Job
<1>3. PICK o \in FreshPlayer :
        /\ info' = [info EXCEPT ![o] = NewPlayer(e, matchId[m])]
        /\ joined' = [joined EXCEPT ![o] = m]
        /\ members' = [members EXCEPT ![m][e] = o]
        /\ job' = [job EXCEPT ![w].at = "register", ![w].player = o]
  BY DEF JoinMatch
<1> DEFINE j == [job[w] EXCEPT !.at = "register", !.player = o]
<1>4. o \in Player /\ NewPlayer(e, matchId[m]) \in Info
  BY <1>2, NewPlayerType DEF FreshPlayer
<1>5. info' \in [Player -> Info \cup {NoInfo}] /\ info'[o] \in Info
      /\ \A k \in Player : k # o => info'[k] = info[k]
  BY <1>3, <1>4 DEF WellFormed, TypeOK, Info
<1>6. Created \subseteq Created' /\ o \in Created'
  BY <1>4, <1>5, InfoIsSome DEF Created
<1>7. /\ j \in Job /\ j.at = "register" /\ j.player = o /\ j.match = m
      /\ j.scan = job[w].scan /\ j.kind = job[w].kind
  BY <1>2, <1>4 DEF Job
<1>8. job' = [job EXCEPT ![w] = j]
  BY <1>3 DEF WellFormed, TypeOK
<1>9. JobTyped' /\ JobsFine'
  <2>1. JobFine(j, matchId', Created')
    BY <1>1, <1>2, <1>6, <1>7 DEF JobFine
  <2> HIDE DEF j
  <2>2. QED BY <2>1, <1>1, <1>6, <1>7, <1>8, JobStep
<1>10. members' \in [Match -> [Endpoints -> Player \cup {None}]]
  BY <1>2, <1>3, <1>4 DEF WellFormed, TypeOK
<1>11. RegistriesFine'
  <2>1. ASSUME NEW k \in Match, NEW f \in Endpoints, members'[k][f] # None
        PROVE  members'[k][f] \in Created'
    <3>1. members'[k][f] = o \/ members'[k][f] = members[k][f]
      BY <1>2, <1>3 DEF WellFormed, TypeOK
    <3>2. QED BY <3>1, <2>1, <1>6 DEF WellFormed, RegistriesFine
  <2>2. QED BY <2>1, <1>1, <1>6 DEF WellFormed, RegistriesFine
<1>12. joined' \in [Player -> Match \cup {None}]
  BY <1>2, <1>3 DEF WellFormed, TypeOK
<1>13. QED
  BY <1>1, <1>5, <1>9, <1>10, <1>11, <1>12
  DEF WellFormed, TypeOK, JobTyped, LoopsFine, Info, match

LEMMA RegisterStep ==
  ASSUME WellFormed, NEW w \in Workers, Register(w)
  PROVE  WellFormed'
<1>1. /\ job[w].at = "register" /\ Goto(w, "pingCheck")
      /\ registry' = [registry EXCEPT ![job[w].endpoint] = job[w].player]
      /\ UNCHANGED <<matches, matchId, members, info, match, running, ghosts>>
  BY DEF Register
<1>2. /\ job[w] \in Job /\ job[w] # Idle /\ job[w].player \in Created
      /\ job[w].match \in Match /\ matchId[job[w].match] \in MatchIds
      /\ job[w].scan \subseteq Created /\ job[w].kind # "loop"
  BY <1>1, JobFacts
<1>3. Created' = Created
  BY <1>1 DEF Created
<1>4. PICK j \in Job :
        /\ job' = [job EXCEPT ![w] = j] /\ j.at = "pingCheck"
        /\ j.kind = job[w].kind /\ j.match = job[w].match /\ j.scan = job[w].scan
  BY <1>1, <1>2, GotoJob DEF WellFormed
<1>5. JobTyped' /\ JobsFine'
  <2>1. JobFine(j, matchId', Created')
    BY <1>1, <1>2, <1>3, <1>4 DEF JobFine
  <2>2. QED BY <2>1, <1>1, <1>3, <1>4, JobStep
<1>6. registry' \in [Endpoints -> Player \cup {None}]
  BY <1>1, <1>2, CreatedTyped DEF WellFormed, TypeOK, Job
<1>7. RegistriesFine'
  BY <1>1, <1>2, <1>3 DEF WellFormed, RegistriesFine, TypeOK, Job
<1>8. QED
  BY <1>1, <1>5, <1>6, <1>7 DEF WellFormed, TypeOK, JobTyped, LoopsFine, match, ghosts

LEMMA StartPingPhaseStep ==
  ASSUME WellFormed, NEW w \in Workers, StartPingPhase(w)
  PROVE  WellFormed'
<1>1. /\ job[w].at = "pingCheck" /\ Finish(w)
      /\ UNCHANGED <<registries, info, tickRunning, loops, winner, running, ghosts>>
  BY DEF StartPingPhase
<1>2. JobTyped' /\ JobsFine' /\ RegistriesFine'
  BY <1>1, FinishStep
<1>3. job[w].match \in Match
  BY <1>1, JobFacts
<1>4. pingPhases' \in [Match -> Nat]
  BY <1>3 DEF StartPingPhase, WellFormed, TypeOK
<1>5. QED
  BY <1>1, <1>2, <1>4 DEF WellFormed, TypeOK, JobTyped, LoopsFine, registries, ghosts

-----------------------------------------------------------------------------
(* The steps of the messages of a registered player.                       *)

LEMMA ReceiveStep ==
  ASSUME WellFormed, NEW w \in Workers, NEW e \in Endpoints, NEW kind \in Kinds,
         Receive(w, e, kind)
  PROVE  WellFormed'
<1> DEFINE j == [at |-> "lookup", kind |-> kind, endpoint |-> e, player |-> registry[e],
                 match |-> None, scan |-> {}, keys |-> {}]
<1>1. /\ registry[e] # None /\ job' = [job EXCEPT ![w] = j]
      /\ UNCHANGED <<registries, info, match, running, ghosts>>
  BY DEF Receive
<1>2. registry[e] \in Created /\ registry[e] \in Player
  BY <1>1, CreatedTyped DEF WellFormed, RegistriesFine
<1>3. j \in Job /\ j.at = "lookup" /\ j.kind = kind /\ j.player = registry[e] /\ j.scan = {}
  BY <1>2 DEF Job
<1>4. kind # "loop"
  BY Constants
<1>5. JobFine(j, matchId, Created)
  BY <1>2, <1>3, <1>4 DEF JobFine
<1>6. JobTyped' /\ JobsFine' /\ RegistriesFine'
  <2> HIDE DEF j
  <2>1. QED BY <1>1, <1>3, <1>5, QuietStep
<1>7. QED
  BY <1>1, <1>6 DEF WellFormed, TypeOK, JobTyped, LoopsFine, registries, match, ghosts

LEMMA FindMatchStep ==
  ASSUME WellFormed, NEW w \in Workers, FindMatch(w)
  PROVE  WellFormed'
<1> DEFINE m == matches[info[job[w].player].id]
           j == [job[w] EXCEPT !.match = m, !.at = "handle"]
<1>1. job[w].at = "lookup" /\ UNCHANGED <<registries, info, match, running, ghosts>>
  BY DEF FindMatch
<1>2. JobTyped' /\ JobsFine' /\ RegistriesFine'
  <2>1. CASE m = None /\ Finish(w)
    BY <2>1, <1>1, FinishStep
  <2>2. CASE m # None /\ job' = [job EXCEPT ![w].match = m, ![w].at = "handle"]
    <3>1. /\ job[w] \in Job /\ job[w].player \in Created /\ job[w].scan \subseteq Created
          /\ job[w].kind # "loop"
      BY <1>1, JobFacts
    <3>2. info[job[w].player].id \in MatchIds
      BY <3>1, CreatedTyped DEF WellFormed, Info
    <3>3. m \in Match /\ matchId[m] \in MatchIds
      BY <2>2, <3>2 DEF WellFormed, TypeOK, RegistriesFine
    <3>4. /\ j \in Job /\ j.at = "handle" /\ j.match = m /\ j.player = job[w].player
          /\ j.scan = job[w].scan /\ j.kind = job[w].kind
      BY <3>1, <3>3 DEF Job
    <3>5. job' = [job EXCEPT ![w] = j]
      BY <2>2 DEF WellFormed, TypeOK
    <3>6. JobFine(j, matchId, Created)
      BY <3>1, <3>3, <3>4 DEF JobFine
    <3> HIDE DEF j
    <3>7. QED BY <1>1, <3>4, <3>5, <3>6, QuietStep
  <2>3. QED BY <2>1, <2>2 DEF FindMatch
<1>3. QED
  BY <1>1, <1>2 DEF WellFormed, TypeOK, JobTyped, LoopsFine, registries, match, ghosts

\* Setting a field of a player object keeps it one.
LEMMA InfoStep ==
  ASSUME WellFormed, NEW o \in Created, NEW i \in Info, info' = [info EXCEPT ![o] = i]
  PROVE  info' \in [Player -> Info \cup {NoInfo}] /\ Created' = Created
<1>1. info \in [Player -> Info \cup {NoInfo}] /\ o \in Player
  BY CreatedTyped DEF WellFormed, TypeOK, Info
<1>2. i # NoInfo
  BY InfoIsSome
<1>3. QED BY <1>1, <1>2 DEF Created

LEMMA SetDisconnectedStep ==
  ASSUME WellFormed, NEW w \in Workers, NEW value \in BOOLEAN, job[w].at = "handle",
         SetDisconnected(w, value)
  PROVE  WellFormed'
<1> DEFINE o == job[w].player
           i == [info[o] EXCEPT !.disconnected = value]
<1>1. o \in Created
  BY JobFacts
<1>2. info[o] \in Info /\ info' = [info EXCEPT ![o] = i]
  BY <1>1, CreatedTyped DEF SetDisconnected, WellFormed, TypeOK
<1>3. i \in Info
  BY <1>2 DEF Info
<1>4. info' \in [Player -> Info \cup {NoInfo}] /\ Created' = Created
  <2> HIDE DEF i, o
  <2>1. QED BY <1>1, <1>2, <1>3, InfoStep
<1>5. UNCHANGED <<registries, match, running, ghosts>> /\ job' = [job EXCEPT ![w] = Idle]
  BY DEF SetDisconnected, Finish
<1>6. JobTyped' /\ JobsFine'
  <2>1. JobFine(Idle, matchId', Created')
    BY DEF JobFine
  <2>2. QED BY <2>1, <1>4, <1>5, JobStep DEF registries
<1>7. QED
  BY <1>4, <1>5, <1>6
  DEF WellFormed, TypeOK, JobTyped, RegistriesFine, LoopsFine, Info, registries, match, ghosts

LEMMA RecordResultStep ==
  ASSUME WellFormed, NEW w \in Workers, RecordResult(w)
  PROVE  WellFormed'
<1>1. /\ job[w].at = "handle" /\ Finish(w)
      /\ UNCHANGED <<registries, info, tickRunning, loops, pingPhases, running, ghosts>>
  BY DEF RecordResult
<1>2. JobTyped' /\ JobsFine' /\ RegistriesFine'
  BY <1>1, FinishStep
<1>3. job[w].match \in Match /\ job[w].endpoint \in Endpoints
  BY <1>1, JobFacts DEF Job
<1>4. Index[job[w].endpoint] \in Indices
  BY <1>3 DEF Indices
<1>5. winner' \in [Match -> Indices \cup {Undecided}]
  BY <1>3, <1>4 DEF RecordResult, ClaimWinner, WellFormed, TypeOK
<1>6. QED
  BY <1>1, <1>2, <1>5 DEF WellFormed, TypeOK, JobTyped, LoopsFine, registries, ghosts

LEMMA SetReadyStep ==
  ASSUME WellFormed, NEW w \in Workers, SetReady(w)
  PROVE  WellFormed'
<1> DEFINE o == job[w].player
           i == [info[o] EXCEPT !.ready = (job[w].kind = "ready")]
<1>1. /\ job[w].at = "handle" /\ job[w].kind \in {"ready", "notReady"}
      /\ Goto(w, "snapshot") /\ UNCHANGED <<registries, match, running, ghosts>>
  BY DEF SetReady
<1>2. /\ job[w] \in Job /\ o \in Created /\ job[w].scan \subseteq Created
      /\ job[w].match \in Match /\ matchId[job[w].match] \in MatchIds
  BY <1>1, JobFacts
<1>3. info[o] \in Info /\ info' = [info EXCEPT ![o] = i]
  BY <1>2, CreatedTyped DEF SetReady, WellFormed, TypeOK
<1>4. i \in Info
  BY <1>3 DEF Info
<1>5. info' \in [Player -> Info \cup {NoInfo}] /\ Created' = Created
  <2> HIDE DEF i, o
  <2>1. QED BY <1>2, <1>3, <1>4, InfoStep
<1>6. PICK j \in Job :
        /\ job' = [job EXCEPT ![w] = j] /\ j.at = "snapshot"
        /\ j.kind = job[w].kind /\ j.match = job[w].match /\ j.scan = job[w].scan
  BY <1>1, <1>2, GotoJob DEF WellFormed
<1>7. JobTyped' /\ JobsFine'
  <2>1. JobFine(j, matchId', Created')
    BY <1>1, <1>2, <1>5, <1>6 DEF JobFine, registries
  <2>2. QED BY <2>1, <1>1, <1>5, <1>6, JobStep DEF registries
<1>8. QED
  BY <1>1, <1>5, <1>7
  DEF WellFormed, TypeOK, JobTyped, RegistriesFine, LoopsFine, Info, registries, match, ghosts

\* A job whose scan becomes another set of existing players.
LEMMA ScanStep ==
  ASSUME WellFormed, NEW w \in Workers, NEW j \in Job, job' = [job EXCEPT ![w] = j],
         job[w].at # "idle", job[w].at # "lookup",
         j.match = job[w].match, j.kind = job[w].kind, j.scan \subseteq Created,
         j.at \in {"scanReady", "check"},
         j.at = job[w].at \/ (j.at = "scanReady" /\ job[w].kind # "loop"),
         UNCHANGED <<registries, info>>
  PROVE  JobTyped' /\ JobsFine' /\ RegistriesFine'
<1>1. /\ job[w].match \in Match /\ matchId[job[w].match] \in MatchIds
      /\ job[w].at \in {"check", "stop", "unregister", "forget"} <=> job[w].kind = "loop"
  BY JobFacts
<1>2. JobFine(j, matchId, Created)
  BY <1>1 DEF JobFine
<1>3. QED BY <1>2, QuietStep

LEMMA SnapshotPlayersStep ==
  ASSUME WellFormed, NEW w \in Workers, SnapshotPlayers(w)
  PROVE  WellFormed'
<1> DEFINE scan == MembersOf(job[w].match)
           j == [job[w] EXCEPT !.at = "scanReady", !.scan = scan]
<1>1. /\ job[w].at = "snapshot" /\ job' = [job EXCEPT ![w].at = "scanReady", ![w].scan = scan]
      /\ UNCHANGED <<registries, info, match, running, ghosts>>
  BY DEF SnapshotPlayers
<1>2. job[w] \in Job /\ scan \subseteq Created /\ job[w].kind # "loop"
  BY <1>1, JobFacts, MembersCreated
<1>3. job' = [job EXCEPT ![w] = j]
  BY <1>1 DEF WellFormed, TypeOK
<1>4. scan \subseteq Player
  BY <1>2 DEF Created
<1>5. /\ j \in Job /\ j.at = "scanReady" /\ j.scan = scan
      /\ j.match = job[w].match /\ j.kind = job[w].kind
  <2> HIDE DEF scan
  <2>1. QED BY <1>2, <1>4 DEF Job
<1>6. JobTyped' /\ JobsFine' /\ RegistriesFine'
  <2> HIDE DEF j, scan
  <2>1. QED BY <1>1, <1>2, <1>3, <1>5, ScanStep
<1>7. QED
  BY <1>1, <1>6 DEF WellFormed, TypeOK, JobTyped, LoopsFine, registries, match, ghosts

\* A job that has looked at one player of its scan.
LEMMA ScannedStep ==
  ASSUME WellFormed, NEW w \in Workers, job[w].at \in {"scanReady", "check"}, NEW o,
         job' = [job EXCEPT ![w] = [job[w] EXCEPT !.scan = job[w].scan \ {o}]],
         UNCHANGED <<registries, info>>
  PROVE  JobTyped' /\ JobsFine' /\ RegistriesFine'
<1> DEFINE j == [job[w] EXCEPT !.scan = job[w].scan \ {o}]
<1>1. job[w] \in Job /\ job[w].scan \subseteq Created
  BY JobFacts
<1>2. job' = [job EXCEPT ![w] = j]
  OBVIOUS
<1>3. /\ j \in Job /\ j.at = job[w].at /\ j.scan = job[w].scan \ {o}
      /\ j.match = job[w].match /\ j.kind = job[w].kind
  BY <1>1 DEF Job
<1>4. /\ j.scan \subseteq Created /\ j.at \in {"scanReady", "check"}
      /\ job[w].at # "idle" /\ job[w].at # "lookup"
  BY <1>1, <1>3
<1> HIDE DEF j
<1>5. QED BY <1>2, <1>3, <1>4, ScanStep

LEMMA ScanReadyStep ==
  ASSUME WellFormed, NEW w \in Workers, ScanReady(w)
  PROVE  WellFormed'
<1>1. job[w].at = "scanReady" /\ UNCHANGED <<registries, info, match, running, ghosts>>
  BY DEF ScanReady
<1>2. JobTyped' /\ JobsFine' /\ RegistriesFine'
  <2>1. CASE Finish(w)
    BY <2>1, <1>1, FinishStep
  <2>2. ASSUME NEW o, job' = [job EXCEPT ![w].scan = @ \ {o}]
        PROVE  JobTyped' /\ JobsFine' /\ RegistriesFine'
    BY <1>1, <2>2, ScannedStep
  <2>3. QED BY <2>1, <2>2 DEF ScanReady
<1>3. QED
  BY <1>1, <1>2 DEF WellFormed, TypeOK, JobTyped, LoopsFine, registries, match, ghosts

LEMMA StartMatchStep ==
  ASSUME WellFormed, NEW w \in Workers, StartMatch(w)
  PROVE  WellFormed'
<1>1. /\ job[w].at = "scanReady" /\ startTickLoop(job[w].match) /\ Finish(w)
      /\ UNCHANGED <<registries, info, pingPhases, winner, running, ghosts>>
  BY DEF StartMatch
<1>2. JobTyped' /\ JobsFine' /\ RegistriesFine'
  BY <1>1, FinishStep
<1>3. job[w].match \in Match /\ matchId[job[w].match] \in MatchIds
  BY <1>1, JobFacts
<1>4. tickRunning' \in [Match -> BOOLEAN] /\ loops' \in [Match -> Nat]
  <2>1. tickRunning \in [Match -> BOOLEAN] /\ loops \in [Match -> Nat]
    BY DEF WellFormed, TypeOK
  <2>2. CASE tickRunning[job[w].match]
    BY <1>1, <2>1, <2>2 DEF startTickLoop
  <2>3. CASE ~tickRunning[job[w].match]
    <3>1. /\ tickRunning' = [tickRunning EXCEPT ![job[w].match] = TRUE]
          /\ loops' = [loops EXCEPT ![job[w].match] = loops[job[w].match] + 1]
      BY <1>1, <2>3 DEF startTickLoop
    <3>2. tickRunning' \in [Match -> BOOLEAN]
      BY <2>1, <3>1, Zenon
    <3>3. loops' \in [Match -> Nat]
      BY <2>1, <3>1, <1>3
    <3>4. QED BY <3>2, <3>3
  <2>4. QED BY <2>2, <2>3
<1>5. LoopsFine'
  BY <1>1, <1>3 DEF startTickLoop, WellFormed, TypeOK, LoopsFine, registries
<1>6. QED
  BY <1>1, <1>2, <1>4, <1>5 DEF WellFormed, TypeOK, JobTyped, registries, ghosts

-----------------------------------------------------------------------------
(* The steps of a tick loop.                                               *)

LEMMA TickStep ==
  ASSUME WellFormed, NEW w \in Workers, NEW m \in Match, NEW lost \in SUBSET MembersOf(m),
         Tick(w, m, lost)
  PROVE  WellFormed'
<1>1. /\ loops[m] > 0 /\ loops' = [loops EXCEPT ![m] = @ - 1]
      /\ UNCHANGED <<registries, tickRunning, pingPhases, winner, running, ghosts>>
  BY DEF Tick
<1>2. loops' \in [Match -> Nat]
  BY <1>1 DEF WellFormed, TypeOK
<1>3. CASE ~tickRunning[m]
  <2>1. UNCHANGED <<info, job>>
    BY <1>3 DEF Tick
  <2>2. Created' = Created
    BY <2>1 DEF Created
  <2>3. QED
    BY <1>1, <1>2, <2>1, <2>2
    DEF WellFormed, TypeOK, JobsFine, RegistriesFine, LoopsFine, registries, ghosts
<1>4. CASE tickRunning[m]
  <2> DEFINE j == [at |-> "check", kind |-> "loop", endpoint |-> CHOOSE e \in Endpoints : TRUE,
                   player |-> None, match |-> m, scan |-> MembersOf(m),
                   keys |-> {e \in Endpoints : members[m][e] # None}]
  <2>1. /\ info' = [o \in Player |-> IF o \in lost
                      THEN [info[o] EXCEPT !.disconnected = TRUE] ELSE info[o]]
        /\ job' = [job EXCEPT ![w] = j]
    BY <1>4 DEF Tick
  <2>2. lost \subseteq Created /\ MembersOf(m) \subseteq Created /\ Created \subseteq Player
    BY MembersCreated DEF Created
  <2>3. info' \in [Player -> Info \cup {NoInfo}] /\ Created' = Created
    <3>1. ASSUME NEW o \in Player
          PROVE  /\ o \in lost => info'[o] \in Info /\ info[o] \in Info
                 /\ o \notin lost => info'[o] = info[o]
      <4>1. CASE o \in lost
        <5>1. info[o] \in Info
          BY <4>1, <2>2, CreatedTyped DEF WellFormed
        <5>2. info'[o] = [info[o] EXCEPT !.disconnected = TRUE]
          BY <4>1, <2>1
        <5>3. QED BY <4>1, <5>1, <5>2 DEF Info
      <4>2. CASE o \notin lost
        BY <4>2, <2>1
      <4>3. QED BY <4>1, <4>2
    <3>2. info \in [Player -> Info \cup {NoInfo}]
      BY DEF WellFormed, TypeOK, Info
    <3>3. \A o \in Player : info'[o] \in Info \cup {NoInfo}
      BY <3>1, <3>2
    <3>4. DOMAIN info' = Player /\ info' = [o \in Player |-> info'[o]]
      BY <2>1
    <3>5. info' \in [Player -> Info \cup {NoInfo}]
      BY <3>3, <3>4
    <3>6. \A o \in Player : info'[o] # NoInfo <=> info[o] # NoInfo
      BY <3>1, InfoIsSome
    <3>7. QED BY <3>5, <3>6 DEF Created
  <2>4. (CHOOSE e \in Endpoints : TRUE) \in Endpoints
    BY Constants
  <2>5. j \in Job /\ j.at = "check" /\ j.kind = "loop" /\ j.match = m /\ j.scan = MembersOf(m)
    BY <2>2, <2>4 DEF Job
  <2>6. matchId[m] \in MatchIds
    BY <1>4 DEF WellFormed, LoopsFine
  <2>7. JobFine(j, matchId', Created')
    BY <1>1, <2>2, <2>3, <2>5, <2>6 DEF JobFine, registries
  <2>8. JobTyped' /\ JobsFine'
    <3> HIDE DEF j
    <3>1. QED BY <1>1, <2>1, <2>3, <2>5, <2>7, JobStep DEF registries
  <2>9. QED
    BY <1>1, <1>2, <2>3, <2>8
    DEF WellFormed, TypeOK, JobTyped, RegistriesFine, LoopsFine, Info, registries, ghosts
<1>5. QED BY <1>3, <1>4

LEMMA CheckDisconnectedStep ==
  ASSUME WellFormed, NEW w \in Workers, CheckDisconnected(w)
  PROVE  WellFormed'
<1>1. /\ job[w].at = "check"
      /\ UNCHANGED <<registries, info, tickRunning, pingPhases, winner, running, ghosts>>
  BY DEF CheckDisconnected
<1>2. job[w].match \in Match
  BY <1>1, JobFacts
<1>3. ASSUME NEW o, job' = [job EXCEPT ![w].scan = @ \ {o}], UNCHANGED loops
      PROVE  WellFormed'
  <2>1. JobTyped' /\ JobsFine' /\ RegistriesFine'
    BY <1>1, <1>3, ScannedStep
  <2>2. QED
    BY <1>1, <1>3, <2>1 DEF WellFormed, TypeOK, JobTyped, LoopsFine, registries, ghosts
<1>4. ASSUME Finish(w), loops' = [loops EXCEPT ![job[w].match] = @ + 1]
      PROVE  WellFormed'
  <2>1. JobTyped' /\ JobsFine' /\ RegistriesFine'
    BY <1>1, <1>4, FinishStep
  <2>2. loops' \in [Match -> Nat]
    BY <1>2, <1>4 DEF WellFormed, TypeOK
  <2>3. QED
    BY <1>1, <2>1, <2>2 DEF WellFormed, TypeOK, JobTyped, LoopsFine, registries, ghosts
<1>5. QED BY <1>3, <1>4 DEF CheckDisconnected

LEMMA ReportEndStep ==
  ASSUME WellFormed, NEW w \in Workers, ReportEnd(w)
  PROVE  WellFormed'
<1> DEFINE m == job[w].match
<1>1. /\ job[w].at = "check" /\ Goto(w, "stop")
      /\ reports' = [reports EXCEPT ![m] = IF @ < MaxReports THEN @ + 1 ELSE @]
      /\ reportedWinner' = [reportedWinner EXCEPT ![m] = winner[m]]
      /\ UNCHANGED <<registries, info, match, joined, running>>
  BY DEF ReportEnd
<1>2. job[w] \in Job /\ job[w].kind = "loop" /\ m \in Match
  BY <1>1, JobFacts
<1>3. JobTyped' /\ JobsFine' /\ RegistriesFine'
  BY <1>1, <1>2, GotoStep
<1>4. reports' \in [Match -> 0..MaxReports]
  <2>1. reports \in [Match -> 0..MaxReports] /\ MaxReports \in Nat
    BY Constants DEF WellFormed, TypeOK
  <2>2. (IF reports[m] < MaxReports THEN reports[m] + 1 ELSE reports[m]) \in 0..MaxReports
    BY <2>1, <1>2
  <2>3. QED BY <1>1, <2>1, <2>2
<1>5. reportedWinner' \in [Match -> Indices \cup {Undecided}]
  BY <1>1, <1>2 DEF WellFormed, TypeOK
<1>6. QED
  BY <1>1, <1>3, <1>4, <1>5 DEF WellFormed, TypeOK, JobTyped, LoopsFine, registries, match

LEMMA StopRunningStep ==
  ASSUME WellFormed, NEW w \in Workers, StopRunning(w)
  PROVE  WellFormed'
<1>1. /\ job[w].at = "stop" /\ Goto(w, "unregister")
      /\ tickRunning' = [tickRunning EXCEPT ![job[w].match] = FALSE]
      /\ UNCHANGED <<registries, info, loops, pingPhases, winner, running, ghosts>>
  BY DEF StopRunning
<1>2. job[w] \in Job /\ job[w].kind = "loop"
  BY <1>1, JobFacts
<1>3. JobTyped' /\ JobsFine' /\ RegistriesFine'
  BY <1>1, <1>2, GotoStep
<1>4. tickRunning' \in [Match -> BOOLEAN]
  <2>1. tickRunning \in [Match -> BOOLEAN]
    BY DEF WellFormed, TypeOK
  <2>2. QED BY <1>1, <2>1, Zenon
<1>5. LoopsFine'
  BY <1>1 DEF WellFormed, TypeOK, LoopsFine, registries
<1>6. QED
  BY <1>1, <1>3, <1>4, <1>5 DEF WellFormed, TypeOK, JobTyped, registries, ghosts

LEMMA UnregisterPlayerStep ==
  ASSUME WellFormed, NEW w \in Workers, UnregisterPlayer(w)
  PROVE  WellFormed'
<1>1. /\ job[w].at = "unregister"
      /\ UNCHANGED <<matches, matchId, members, info, match, running, ghosts>>
  BY DEF UnregisterPlayer
<1>2. PICK e \in job[w].keys : /\ registry' = [registry EXCEPT ![e] = None]
                               /\ job' = [job EXCEPT ![w].keys = @ \ {e}]
  BY DEF UnregisterPlayer
<1> DEFINE j == [job[w] EXCEPT !.keys = @ \ {e}]
<1>3. /\ job[w] \in Job /\ job[w].match \in Match /\ matchId[job[w].match] \in MatchIds
      /\ job[w].scan \subseteq Created /\ job[w].kind = "loop"
  BY <1>1, JobFacts
<1>4. /\ j \in Job /\ j.at = "unregister" /\ j.scan = job[w].scan
      /\ j.match = job[w].match /\ j.kind = "loop"
  BY <1>1, <1>3 DEF Job
<1>5. job' = [job EXCEPT ![w] = j]
  BY <1>2 DEF WellFormed, TypeOK
<1>6. Created' = Created
  BY <1>1 DEF Created
<1>7. JobTyped' /\ JobsFine'
  <2>1. JobFine(j, matchId', Created')
    BY <1>1, <1>3, <1>4, <1>6 DEF JobFine
  <2> HIDE DEF j
  <2>2. QED BY <1>1, <1>4, <1>5, <1>6, <2>1, JobStep
<1>8. registry' \in [Endpoints -> Player \cup {None}]
      /\ \A k \in Endpoints : registry'[k] # None => registry'[k] = registry[k]
  BY <1>2 DEF WellFormed, TypeOK
<1>9. QED
  BY <1>1, <1>6, <1>7, <1>8
  DEF WellFormed, TypeOK, JobTyped, RegistriesFine, LoopsFine, match, ghosts

LEMMA ClearMatchStep ==
  ASSUME WellFormed, NEW w \in Workers, ClearMatch(w)
  PROVE  WellFormed'
<1>1. /\ job[w].at = "unregister" /\ Goto(w, "forget")
      /\ members' = [members EXCEPT ![job[w].match] = [e \in Endpoints |-> None]]
      /\ UNCHANGED <<matches, registry, matchId, info, match, running, ghosts>>
  BY DEF ClearMatch
<1>2. /\ job[w] \in Job /\ job[w].match \in Match /\ matchId[job[w].match] \in MatchIds
      /\ job[w].scan \subseteq Created /\ job[w].kind = "loop"
  BY <1>1, JobFacts
<1>3. PICK j \in Job :
        /\ job' = [job EXCEPT ![w] = j] /\ j.at = "forget"
        /\ j.kind = job[w].kind /\ j.match = job[w].match /\ j.scan = job[w].scan
  BY <1>1, <1>2, GotoJob DEF WellFormed
<1>4. Created' = Created
  BY <1>1 DEF Created
<1>5. JobTyped' /\ JobsFine'
  <2>1. JobFine(j, matchId', Created')
    BY <1>1, <1>2, <1>3, <1>4 DEF JobFine
  <2>2. QED BY <1>1, <1>3, <1>4, <2>1, JobStep
<1>6. /\ members' \in [Match -> [Endpoints -> Player \cup {None}]]
      /\ \A m \in Match, e \in Endpoints :
           members'[m][e] # None => members'[m][e] = members[m][e]
  BY <1>1 DEF WellFormed, TypeOK
<1>7. QED
  BY <1>1, <1>4, <1>5, <1>6
  DEF WellFormed, TypeOK, JobTyped, RegistriesFine, LoopsFine, match, ghosts

LEMMA ForgetMatchStep ==
  ASSUME WellFormed, NEW w \in Workers, ForgetMatch(w)
  PROVE  WellFormed'
<1>1. /\ Finish(w) /\ matches' = [matches EXCEPT ![matchId[job[w].match]] = None]
      /\ UNCHANGED <<registry, matchId, members, info, match, running, ghosts>>
  BY DEF ForgetMatch
<1>2. Created' = Created
  BY <1>1 DEF Created
<1>3. JobTyped' /\ JobsFine'
  <2>1. JobFine(Idle, matchId', Created')
    BY DEF JobFine
  <2>2. QED BY <1>1, <1>2, <2>1, JobStep DEF Finish
<1>4. /\ matches' \in [MatchIds -> Match \cup {None}]
      /\ \A id \in MatchIds : matches'[id] # None => matches'[id] = matches[id]
  BY <1>1 DEF WellFormed, TypeOK
<1>5. QED
  BY <1>1, <1>2, <1>3, <1>4
  DEF WellFormed, TypeOK, JobTyped, RegistriesFine, LoopsFine, match, ghosts

-----------------------------------------------------------------------------
(* Every step keeps the state well formed.                                 *)

LEMMA WellFormedInit == Init => WellFormed
<1>1. SUFFICES ASSUME Init PROVE WellFormed
  OBVIOUS
<1>2. /\ info = [o \in Player |-> NoInfo] /\ joined = [o \in Player |-> None]
      /\ matches = [id \in MatchIds |-> None] /\ registry = [e \in Endpoints |-> None]
      /\ matchId = [m \in Match |-> None] /\ job = [w \in Workers |-> Idle]
      /\ members = [m \in Match |-> [e \in Endpoints |-> None]]
      /\ loops = [m \in Match |-> 0] /\ pingPhases = [m \in Match |-> 0]
      /\ reports = [m \in Match |-> 0]
      /\ winner = [m \in Match |-> Undecided]
      /\ reportedWinner = [m \in Match |-> Undecided]
  BY <1>1 DEF Init
<1>3. running \in BOOLEAN /\ tickRunning = [m \in Match |-> FALSE]
  BY <1>1 DEF Init
<1>4. Created = {}
  BY <1>2 DEF Created
<1>5. tickRunning \in [Match -> BOOLEAN]
  BY <1>3
<1>6. TypeOK
  BY <1>2, <1>3, <1>5, Constants DEF TypeOK
<1>7. JobsFine /\ RegistriesFine
  BY <1>2 DEF JobsFine, JobFine, RegistriesFine
<1>8. LoopsFine
  BY <1>3 DEF LoopsFine
<1>9. QED BY <1>6, <1>7, <1>8 DEF WellFormed

LEMMA WellFormedStep == WellFormed /\ [Next]_vars => WellFormed'
<1>1. SUFFICES ASSUME WellFormed, [Next]_vars PROVE WellFormed'
  OBVIOUS
<1>2. ASSUME NEW w \in Workers, NEW e \in Endpoints, NEW id \in MatchIds,
             NEW fetched \in BOOLEAN, NewConnection(w, e, id, fetched)
      PROVE  WellFormed'
  BY <1>1, <1>2, NewConnectionStep
<1>3. ASSUME NEW w \in Workers, NEW e \in Endpoints, NEW kind \in Kinds, Receive(w, e, kind)
      PROVE  WellFormed'
  BY <1>1, <1>3, ReceiveStep
<1>4. ASSUME NEW w \in Workers, Step(w) PROVE WellFormed'
  <2>1. CASE MarkConnected(w) \/ MarkDisconnected(w)
    BY <1>1, <2>1, SetDisconnectedStep DEF MarkConnected, MarkDisconnected
  <2>2. CASE FindPlayer(w) \/ JoinMatch(w) \/ Register(w) \/ StartPingPhase(w)
    BY <1>1, <2>2, FindPlayerStep, JoinMatchStep, RegisterStep, StartPingPhaseStep
  <2>3. CASE FindMatch(w) \/ RecordResult(w) \/ SetReady(w) \/ SnapshotPlayers(w)
             \/ ScanReady(w) \/ StartMatch(w)
    BY <1>1, <2>3, FindMatchStep, RecordResultStep, SetReadyStep, SnapshotPlayersStep,
       ScanReadyStep, StartMatchStep
  <2>4. CASE CheckDisconnected(w) \/ ReportEnd(w) \/ StopRunning(w)
             \/ UnregisterPlayer(w) \/ ClearMatch(w) \/ ForgetMatch(w)
    BY <1>1, <2>4, CheckDisconnectedStep, ReportEndStep, StopRunningStep,
       UnregisterPlayerStep, ClearMatchStep, ForgetMatchStep
  <2>5. QED BY <1>4, <2>1, <2>2, <2>3, <2>4 DEF Step
<1>5. ASSUME NEW m \in Match, Resume(m) PROVE WellFormed'
  <2>1. PICK w \in Workers, lost \in SUBSET MembersOf(m) : Tick(w, m, lost)
    BY <1>5 DEF Resume
  <2>2. QED BY <1>1, <2>1, TickStep
<1>6. CASE Stop \/ UNCHANGED vars
  <2>1. UNCHANGED <<registries, info, match, job, ghosts>>
    BY <1>6 DEF Stop, vars
  <2>2. running' \in BOOLEAN
    BY <1>1, <1>6, Zenon DEF Stop, vars, WellFormed, TypeOK
  <2>3. TypeOK'
    BY <1>1, <2>1, <2>2 DEF WellFormed, TypeOK, registries, match, ghosts
  <2>4. JobsFine' /\ RegistriesFine' /\ LoopsFine'
    BY <1>1, <2>1
    DEF WellFormed, JobsFine, RegistriesFine, LoopsFine, Created, registries, match
  <2>5. QED BY <2>3, <2>4 DEF WellFormed
<1>7. QED BY <1>1, <1>2, <1>3, <1>4, <1>5, <1>6 DEF Next

\* The state keeps its types: what a job, a registry or a match refers to exists,
\* whatever was erased in the meantime.
THEOREM LifecycleTypes == Spec => []TypeOK
<1>1. Spec => []WellFormed
  BY WellFormedInit, WellFormedStep, PTL DEF Spec
<1>2. WellFormed => TypeOK
  BY DEF WellFormed
<1>3. QED BY <1>1, <1>2, PTL

-----------------------------------------------------------------------------
(* A running match has a loop, for any number of workers.                  *)

\* Worker w checks, or has just reported, match m.
Checks(w, m) == job[w] # Idle /\ job[w].match = m /\ job[w].at \in {"check", "stop"}

OthersKeep(w) == \A x \in Workers : x # w => job'[x] = job[x]

LEMMA OthersKeepJobs ==
  ASSUME TypeOK, NEW w \in Workers,
         \/ \E place : Goto(w, place)
         \/ Finish(w)
         \/ \E j : job' = [job EXCEPT ![w] = j]
  PROVE  OthersKeep(w)
BY DEF TypeOK, Goto, Finish, OthersKeep

\* A step of a worker that checks no match, and starts no loop.
LEMMA ElsewhereStep ==
  ASSUME RunningHasLoop, NEW w \in Workers, job[w].at \notin {"check", "stop"},
         OthersKeep(w), UNCHANGED <<tickRunning, loops>>
  PROVE  RunningHasLoop'
<1>1. SUFFICES ASSUME NEW m \in Match, tickRunning[m], ~(loops[m] > 0)
               PROVE  \E x \in Workers : Checks(x, m)'
  BY DEF RunningHasLoop, Checks
<1>2. PICK x \in Workers : Checks(x, m)
  BY <1>1 DEF RunningHasLoop, Checks
<1>3. x # w
  BY <1>2 DEF Checks
<1>4. QED BY <1>2, <1>3 DEF Checks, OthersKeep

LEMMA RunningMessages ==
  ASSUME WellFormed, RunningHasLoop, NEW w \in Workers,
         \/ \E e \in Endpoints, id \in MatchIds, fetched \in BOOLEAN :
              NewConnection(w, e, id, fetched)
         \/ \E e \in Endpoints, kind \in Kinds : Receive(w, e, kind)
         \/ FindPlayer(w) \/ JoinMatch(w) \/ Register(w) \/ StartPingPhase(w)
         \/ FindMatch(w) \/ MarkConnected(w) \/ MarkDisconnected(w) \/ RecordResult(w)
         \/ SetReady(w) \/ SnapshotPlayers(w) \/ ScanReady(w)
         \/ UnregisterPlayer(w) \/ ClearMatch(w) \/ ForgetMatch(w)
  PROVE  RunningHasLoop'
<1>1. TypeOK
  BY DEF WellFormed
<1>2. ASSUME NEW e \in Endpoints, NEW id \in MatchIds, NEW fetched \in BOOLEAN,
             NewConnection(w, e, id, fetched)
      PROVE  RunningHasLoop'
  <2>1. job[w].at = "idle" /\ UNCHANGED <<tickRunning, loops>>
    BY <1>2 DEF NewConnection, CanRun, Idle, match
  <2>2. OthersKeep(w)
    BY <1>1, <1>2 DEF NewConnection, OthersKeep, TypeOK
  <2>3. QED BY <2>1, <2>2, ElsewhereStep
<1>3. ASSUME NEW e \in Endpoints, NEW kind \in Kinds, Receive(w, e, kind)
      PROVE  RunningHasLoop'
  <2>1. job[w].at = "idle" /\ UNCHANGED <<tickRunning, loops>>
    BY <1>3 DEF Receive, CanRun, Idle, match
  <2>2. OthersKeep(w)
    BY <1>1, <1>3 DEF Receive, OthersKeep, TypeOK
  <2>3. QED BY <2>1, <2>2, ElsewhereStep
<1>4. CASE FindPlayer(w) \/ Register(w) \/ StartPingPhase(w) \/ MarkConnected(w)
           \/ MarkDisconnected(w) \/ RecordResult(w) \/ SetReady(w) \/ ClearMatch(w)
           \/ ForgetMatch(w)
  <2>1. job[w].at \notin {"check", "stop"} /\ UNCHANGED <<tickRunning, loops>>
    BY <1>4
    DEF FindPlayer, Register, StartPingPhase, MarkConnected, MarkDisconnected,
        SetDisconnected, RecordResult, SetReady, ClearMatch, ForgetMatch, match
  <2>2. (\E place : Goto(w, place)) \/ Finish(w)
    BY <1>4
    DEF FindPlayer, Register, StartPingPhase, MarkConnected, MarkDisconnected,
        SetDisconnected, RecordResult, SetReady, ClearMatch, ForgetMatch
  <2>3. QED BY <1>1, <2>1, <2>2, OthersKeepJobs, ElsewhereStep
<1>5. CASE JoinMatch(w) \/ FindMatch(w) \/ SnapshotPlayers(w) \/ ScanReady(w)
           \/ UnregisterPlayer(w)
  <2>1. job[w].at \notin {"check", "stop"} /\ UNCHANGED <<tickRunning, loops>>
    BY <1>5 DEF JoinMatch, FindMatch, SnapshotPlayers, ScanReady, UnregisterPlayer, match
  <2>2. OthersKeep(w)
    BY <1>1, <1>5
    DEF JoinMatch, FindMatch, SnapshotPlayers, ScanReady, UnregisterPlayer, OthersKeep,
        Finish, TypeOK
  <2>3. QED BY <2>1, <2>2, ElsewhereStep
<1>6. QED BY <1>2, <1>3, <1>4, <1>5

LEMMA RunningStart ==
  ASSUME WellFormed, RunningHasLoop, NEW w \in Workers, StartMatch(w)
  PROVE  RunningHasLoop'
<1>1. /\ job[w].at = "scanReady" /\ startTickLoop(job[w].match) /\ Finish(w)
      /\ job[w].match \in Match
  BY JobFacts DEF StartMatch
<1>2. OthersKeep(w)
  BY <1>1, OthersKeepJobs DEF WellFormed
<1>3. CASE tickRunning[job[w].match]
  BY <1>1, <1>2, <1>3, ElsewhereStep DEF startTickLoop
<1>4. CASE ~tickRunning[job[w].match]
  <2>1. \A m \in Match : m # job[w].match =>
          tickRunning'[m] = tickRunning[m] /\ loops'[m] = loops[m]
    BY <1>1, <1>4 DEF startTickLoop, WellFormed, TypeOK
  <2>2. loops'[job[w].match] > 0
    BY <1>1, <1>4 DEF startTickLoop, WellFormed, TypeOK
  <2>3. SUFFICES ASSUME NEW m \in Match, tickRunning'[m], ~(loops'[m] > 0)
                 PROVE  \E x \in Workers : Checks(x, m)'
    BY DEF RunningHasLoop, Checks
  <2>4. m # job[w].match
    BY <2>2, <2>3
  <2>5. PICK x \in Workers : Checks(x, m)
    BY <2>1, <2>3, <2>4 DEF RunningHasLoop, Checks
  <2>6. x # w
    BY <1>1, <2>5 DEF Checks
  <2>7. QED BY <1>2, <2>5, <2>6 DEF Checks, OthersKeep
<1>5. QED BY <1>3, <1>4

LEMMA RunningTick ==
  ASSUME WellFormed, RunningHasLoop, NEW w \in Workers, NEW m \in Match,
         NEW lost \in SUBSET MembersOf(m), Tick(w, m, lost)
  PROVE  RunningHasLoop'
<1>1. /\ job[w] = Idle /\ loops' = [loops EXCEPT ![m] = @ - 1]
      /\ UNCHANGED tickRunning
  BY DEF Tick, CanRun
<1>2. OthersKeep(w)
  BY DEF Tick, WellFormed, TypeOK, OthersKeep
<1>3. tickRunning[m] => Checks(w, m)'
  <2>1. ASSUME tickRunning[m]
        PROVE  \E j : job' = [job EXCEPT ![w] = j] /\ j.at = "check" /\ j.match = m
    <3> DEFINE j == [at |-> "check", kind |-> "loop",
                     endpoint |-> CHOOSE e \in Endpoints : TRUE, player |-> None,
                     match |-> m, scan |-> MembersOf(m),
                     keys |-> {e \in Endpoints : members[m][e] # None}]
    <3>1. job' = [job EXCEPT ![w] = j]
      BY <2>1 DEF Tick
    <3>2. j.at = "check" /\ j.match = m
      OBVIOUS
    <3> HIDE DEF j
    <3>3. QED BY <3>1, <3>2
  <2>2. QED BY <2>1 DEF Checks, Idle, WellFormed, TypeOK
<1>4. \A k \in Match : k # m => loops'[k] = loops[k]
  BY <1>1 DEF WellFormed, TypeOK
<1>5. SUFFICES ASSUME NEW k \in Match, tickRunning'[k], ~(loops'[k] > 0)
               PROVE  \E x \in Workers : Checks(x, k)'
  BY DEF RunningHasLoop, Checks
<1>6. CASE k = m
  BY <1>1, <1>3, <1>5, <1>6
<1>7. CASE k # m
  <2>1. PICK x \in Workers : Checks(x, k)
    BY <1>1, <1>4, <1>5, <1>7 DEF RunningHasLoop, Checks
  <2>2. x # w
    BY <1>1, <2>1 DEF Checks
  <2>3. QED BY <1>2, <2>1, <2>2 DEF Checks, OthersKeep
<1>8. QED BY <1>6, <1>7

LEMMA RunningCheck ==
  ASSUME WellFormed, RunningHasLoop, NEW w \in Workers, CheckDisconnected(w) \/ ReportEnd(w)
  PROVE  RunningHasLoop'
<1>0. /\ job[w].at = "check" /\ job[w] \in Job /\ job[w].match \in Match
      /\ UNCHANGED tickRunning
  BY JobFacts DEF CheckDisconnected, ReportEnd, match
<1> PICK m \in Match : m = job[w].match
  BY <1>0
<1>1. job[w].at = "check" /\ job[w] \in Job /\ m = job[w].match /\ UNCHANGED tickRunning
  BY <1>0
<1>2. \/ UNCHANGED loops /\ OthersKeep(w) /\ Checks(w, m)'
      \/ OthersKeep(w) /\ loops' = [loops EXCEPT ![m] = @ + 1]
  <2>1. CASE \E o \in job[w].scan : job' = [job EXCEPT ![w].scan = @ \ {o}] /\ UNCHANGED loops
    <3>1. PICK o \in job[w].scan :
            job' = [job EXCEPT ![w] = [job[w] EXCEPT !.scan = job[w].scan \ {o}]]
      BY <2>1
    <3>2. OthersKeep(w)
      BY <3>1 DEF OthersKeep, WellFormed, TypeOK
    <3>3. job'[w].at = "check" /\ job'[w].match = m
      BY <1>1, <3>1 DEF Job, WellFormed, TypeOK
    <3>4. QED BY <2>1, <3>2, <3>3 DEF Checks, Idle
  <2>2. CASE Finish(w) /\ loops' = [loops EXCEPT ![m] = @ + 1]
    BY <2>2, OthersKeepJobs DEF WellFormed
  <2>3. CASE ReportEnd(w)
    <3>1. Goto(w, "stop") /\ UNCHANGED loops
      BY <2>3 DEF ReportEnd, match
    <3>2. job'[w].at = "stop" /\ job'[w].match = m
      BY <1>1, <3>1, GotoJob DEF WellFormed, TypeOK
    <3>3. QED BY <3>1, <3>2, OthersKeepJobs DEF Checks, Idle, WellFormed
  <2>4. QED BY <2>1, <2>2, <2>3 DEF CheckDisconnected
<1>3. /\ loops'[m] > 0 \/ (loops'[m] = loops[m] /\ Checks(w, m)')
      /\ \A k \in Match : k # m => loops'[k] = loops[k]
  <2>1. loops \in [Match -> Nat]
    BY DEF WellFormed, TypeOK
  <2>2. CASE UNCHANGED loops /\ Checks(w, m)'
    BY <2>2
  <2>3. CASE loops' = [loops EXCEPT ![m] = @ + 1]
    <3>1. loops'[m] > 0
      BY <2>1, <2>3
    <3>2. \A k \in Match : k # m => loops'[k] = loops[k]
      BY <2>1, <2>3
    <3>3. QED BY <3>1, <3>2
  <2>4. QED BY <1>2, <2>2, <2>3
<1>4. SUFFICES ASSUME NEW k \in Match, tickRunning'[k], ~(loops'[k] > 0)
               PROVE  \E x \in Workers : Checks(x, k)'
  BY DEF RunningHasLoop, Checks
<1>5. CASE k = m
  <2>1. Checks(w, k)'
    BY <1>3, <1>4, <1>5
  <2>2. QED BY <2>1
<1>6. CASE k # m
  <2>1. PICK x \in Workers : Checks(x, k)
    BY <1>1, <1>3, <1>4, <1>6 DEF RunningHasLoop, Checks
  <2>2. x # w
    BY <1>6, <2>1 DEF Checks
  <2>3. QED BY <1>2, <2>1, <2>2 DEF Checks, OthersKeep
<1>7. QED BY <1>5, <1>6

LEMMA RunningStop ==
  ASSUME WellFormed, RunningHasLoop, NEW w \in Workers, StopRunning(w)
  PROVE  RunningHasLoop'
<1>1. /\ job[w].at = "stop" /\ Goto(w, "unregister") /\ UNCHANGED loops
      /\ tickRunning' = [tickRunning EXCEPT ![job[w].match] = FALSE]
  BY DEF StopRunning
<1>2. OthersKeep(w)
  BY <1>1, OthersKeepJobs DEF WellFormed
<1>3. SUFFICES ASSUME NEW k \in Match, tickRunning'[k], ~(loops'[k] > 0)
               PROVE  \E x \in Workers : Checks(x, k)'
  BY DEF RunningHasLoop, Checks
<1>4. k # job[w].match /\ tickRunning[k]
  BY <1>1, <1>3 DEF WellFormed, TypeOK
<1>5. PICK x \in Workers : Checks(x, k)
  BY <1>1, <1>3, <1>4 DEF RunningHasLoop, Checks
<1>6. x # w
  BY <1>4, <1>5 DEF Checks
<1>7. QED BY <1>2, <1>5, <1>6 DEF Checks, OthersKeep

LEMMA RunningHasLoopStep == WellFormed /\ RunningHasLoop /\ [Next]_vars => RunningHasLoop'
<1>1. SUFFICES ASSUME WellFormed, RunningHasLoop, [Next]_vars PROVE RunningHasLoop'
  OBVIOUS
<1>2. ASSUME NEW w \in Workers,
             \/ \E e \in Endpoints, id \in MatchIds, fetched \in BOOLEAN :
                  NewConnection(w, e, id, fetched)
             \/ \E e \in Endpoints, kind \in Kinds : Receive(w, e, kind)
             \/ Step(w)
      PROVE  RunningHasLoop'
  BY <1>1, <1>2, RunningMessages, RunningStart, RunningCheck, RunningStop DEF Step
<1>3. ASSUME NEW m \in Match, Resume(m) PROVE RunningHasLoop'
  <2>1. PICK w \in Workers, lost \in SUBSET MembersOf(m) : Tick(w, m, lost)
    BY <1>3 DEF Resume
  <2>2. QED BY <1>1, <2>1, RunningTick
<1>4. CASE Stop \/ UNCHANGED vars
  BY <1>1, <1>4 DEF Stop, vars, match, RunningHasLoop
<1>5. QED BY <1>1, <1>2, <1>3, <1>4 DEF Next

\* tickRunning is never left set without a loop that will clear it, however many
\* workers run loops, handlers and cleanups side by side.
THEOREM RunningMatchHasLoop == Spec => []RunningHasLoop
<1>1. Init => RunningHasLoop
  BY DEF Init, RunningHasLoop
<1>2. Spec => [](WellFormed /\ RunningHasLoop)
  BY <1>1, WellFormedInit, WellFormedStep, RunningHasLoopStep, PTL DEF Spec
<1>3. QED BY <1>2, PTL

-----------------------------------------------------------------------------
(* No start is lost: for any number of workers, as long as no match is     *)
(* forgotten in place of another one with its id.                          *)

\* The match object m is the one that is registered under its id.
Present(m) == matchId[m] \in MatchIds /\ matches[matchId[m]] = m

\* A match that is cleaned up was reported, and only such a match is forgotten.
CleanupInv ==
  \A w \in Workers :
    job[w].at \in {"stop", "unregister", "forget"} => reports[job[w].match] > 0

KeptInv == \A m \in Match : matchId[m] \in MatchIds => Present(m) \/ reports[m] > 0

\* Players are members of the match they joined, and go by its id.
JoinedInv ==
  /\ \A m \in Match, e \in Endpoints : members[m][e] # None => joined[members[m][e]] = m
  /\ \A o \in Created : joined[o] \in Match /\ matchId[joined[o]] = info[o].id

\* A message is handled for the match that its player joined, if that runs yet.
HandlerInv ==
  \A w \in Workers : job[w].at = "handle" =>
    \/ job[w].match = joined[job[w].player]
    \/ reports[joined[job[w].player]] > 0

\* A Ready message is in progress that will see all the members of m.
Covers(w, m) ==
  /\ job[w].at \in {"snapshot", "scanReady"} /\ job[w].kind = "ready" /\ job[w].match = m
  /\ job[w].at = "scanReady" => job[w].scan \subseteq MembersOf(m)

Settled(m) == tickRunning[m] \/ reports[m] > 0

JobsInv == CleanupInv /\ KeptInv /\ JoinedInv /\ HandlerInv

\* Worker w does not forget a match other than the one it cleans up.
ForgetsOwn ==
  \A w \in Workers : job[w].at = "forget" =>
    matches[matchId[job[w].match]] \in {None, job[w].match}

\* What only grows: objects keep their identity, and reports are not taken back.
Growing ==
  /\ \A m \in Match : reports[m] > 0 => reports'[m] > 0
  /\ \A m \in Match : matchId[m] \in MatchIds => matchId'[m] = matchId[m]
  /\ \A o \in Created : o \in Created' /\ info'[o].id = info[o].id /\ joined'[o] = joined[o]

\* What a handler's change of one field of its player leaves alone.
LEMMA DisconnectedKept ==
  ASSUME WellFormed, NEW o \in Created, NEW value \in BOOLEAN,
         info' = [info EXCEPT ![o].disconnected = value]
  PROVE  /\ Created' = Created
         /\ \A k \in Created : info'[k].id = info[k].id /\ info'[k].ready = info[k].ready
<1> DEFINE i == [info[o] EXCEPT !.disconnected = value]
<1>1. /\ o \in Player /\ info[o] \in Info
      /\ info \in [Player -> Info \cup {NoInfo}] /\ Created \subseteq Player
  BY CreatedTyped DEF WellFormed, TypeOK, Info, Created
<1>2. i \in Info /\ i.id = info[o].id /\ i.ready = info[o].ready
  BY <1>1 DEF Info
<1>3. info' = [info EXCEPT ![o] = i]
  BY <1>1
<1> HIDE DEF i
<1>4. QED BY <1>1, <1>2, <1>3, InfoStep

LEMMA ReadySet ==
  ASSUME WellFormed, NEW o \in Created, NEW value \in BOOLEAN,
         info' = [info EXCEPT ![o].ready = value]
  PROVE  /\ Created' = Created /\ info'[o].ready = value
         /\ \A k \in Created : info'[k].id = info[k].id
         /\ \A k \in Created : k # o => info'[k].ready = info[k].ready
<1> DEFINE i == [info[o] EXCEPT !.ready = value]
<1>1. /\ o \in Player /\ info[o] \in Info
      /\ info \in [Player -> Info \cup {NoInfo}] /\ Created \subseteq Player
  BY CreatedTyped DEF WellFormed, TypeOK, Info, Created
<1>2. i \in Info /\ i.id = info[o].id /\ i.ready = value
  BY <1>1 DEF Info
<1>3. info' = [info EXCEPT ![o] = i]
  BY <1>1
<1> HIDE DEF i
<1>4. QED BY <1>1, <1>2, <1>3, InfoStep

\* Every step of the system is one of these.
LEMMA StepCases ==
  ASSUME [Next]_vars
  PROVE  \/ \E w \in Workers, e \in Endpoints, id \in MatchIds, fetched \in BOOLEAN :
              NewConnection(w, e, id, fetched)
         \/ \E w \in Workers, e \in Endpoints, kind \in Kinds : Receive(w, e, kind)
         \/ \E w \in Workers : Step(w)
         \/ \E w \in Workers, m \in Match : \E lost \in SUBSET MembersOf(m) : Tick(w, m, lost)
         \/ UNCHANGED <<registries, info, match, job, ghosts>>
<1>1. CASE Stop \/ UNCHANGED vars
  BY <1>1 DEF Stop, vars
<1>2. CASE \E m \in Match : Resume(m)
  BY <1>2 DEF Resume
<1>3. QED BY <1>1, <1>2 DEF Next

\* All but a join keep the player objects, and what a member of a match shows.
LEMMA InfoKept ==
  ASSUME WellFormed, NEW w \in Workers,
         \/ \E e \in Endpoints, id \in MatchIds, fetched \in BOOLEAN :
              NewConnection(w, e, id, fetched)
         \/ \E e \in Endpoints, kind \in Kinds : Receive(w, e, kind)
         \/ Step(w) /\ ~JoinMatch(w)
         \/ \E m \in Match : \E lost \in SUBSET MembersOf(m) : Tick(w, m, lost)
  PROVE  /\ Created' = Created /\ joined' = joined
         /\ \A o \in Created : info'[o].id = info[o].id
         /\ ~SetReady(w) => \A o \in Created : info'[o].ready = info[o].ready
<1>1. joined' = joined
  BY DEF NewConnection, Receive, Step, FindPlayer, Register, StartPingPhase, FindMatch,
         MarkConnected, MarkDisconnected, SetDisconnected, RecordResult, SetReady,
         SnapshotPlayers, ScanReady, StartMatch, CheckDisconnected, ReportEnd, StopRunning,
         UnregisterPlayer, ClearMatch, ForgetMatch, Tick, ghosts
<1>2. CASE UNCHANGED info
  BY <1>1, <1>2 DEF Created
<1>3. CASE MarkConnected(w) \/ MarkDisconnected(w)
  <2>1. job[w].player \in Created
    BY <1>3, JobFacts DEF MarkConnected, MarkDisconnected
  <2>2. PICK value \in BOOLEAN : info' = [info EXCEPT ![job[w].player].disconnected = value]
    BY <1>3 DEF MarkConnected, MarkDisconnected, SetDisconnected
  <2> DEFINE o == job[w].player
  <2> HIDE DEF o
  <2>3. o \in Created /\ info' = [info EXCEPT ![o].disconnected = value]
    BY <2>1, <2>2 DEF o
  <2>4. QED BY <1>1, <2>3, DisconnectedKept
<1>4. CASE SetReady(w)
  <2>1. job[w].player \in Created
    BY <1>4, JobFacts DEF SetReady
  <2>2. PICK value \in BOOLEAN : info' = [info EXCEPT ![job[w].player].ready = value]
    BY <1>4 DEF SetReady
  <2> DEFINE o == job[w].player
  <2> HIDE DEF o
  <2>3. o \in Created /\ info' = [info EXCEPT ![o].ready = value]
    BY <2>1, <2>2 DEF o
  <2>4. QED BY <1>1, <1>4, <2>3, ReadySet
<1>5. ASSUME NEW m \in Match, NEW lost \in SUBSET MembersOf(m), Tick(w, m, lost), info' # info
      PROVE  /\ Created' = Created
             /\ \A o \in Created : info'[o].id = info[o].id /\ info'[o].ready = info[o].ready
  <2>1. info' = [o \in Player |-> IF o \in lost
                   THEN [info[o] EXCEPT !.disconnected = TRUE] ELSE info[o]]
    BY <1>5 DEF Tick
  <2>2. lost \subseteq Created
    BY MembersCreated
  <2>3. \A o \in Created : /\ [info[o] EXCEPT !.disconnected = TRUE] \in Info
                           /\ [info[o] EXCEPT !.disconnected = TRUE].id = info[o].id
                           /\ [info[o] EXCEPT !.disconnected = TRUE].ready = info[o].ready
    BY CreatedTyped DEF WellFormed, Info
  <2>4. \A o \in Player : o \in lost => info'[o] # NoInfo
    BY <2>1, <2>2, <2>3, InfoIsSome
  <2>5. Created' = Created
    BY <2>1, <2>2, <2>4 DEF Created
  <2>6. \A o \in Created : o \in Player
    BY DEF Created
  <2>7. QED BY <2>1, <2>3, <2>5, <2>6
<1>6. QED
  BY <1>1, <1>2, <1>3, <1>4, <1>5
  DEF NewConnection, Receive, Step, FindPlayer, Register, StartPingPhase, FindMatch,
      RecordResult, SnapshotPlayers, ScanReady, StartMatch, CheckDisconnected, ReportEnd,
      StopRunning, UnregisterPlayer, ClearMatch, ForgetMatch

LEMMA JoinKept ==
  ASSUME WellFormed, JoinedInv, NEW w \in Workers, JoinMatch(w)
  PROVE  \E m \in Match, e \in Endpoints, o \in Player \ Created :
           /\ m = job[w].match /\ e = job[w].endpoint
           /\ Created' = Created \cup {o} /\ ~info'[o].ready
           /\ info'[o].id = matchId[m] /\ joined'[o] = m /\ o # None
           /\ \A k \in Created : info'[k] = info[k] /\ joined'[k] = joined[k]
           /\ members' = [members EXCEPT ![m][e] = o]
<1>1. PICK m \in Match, e \in Endpoints : m = job[w].match /\ e = job[w].endpoint
  BY JobFacts DEF JoinMatch, Job
<1>2. PICK o \in FreshPlayer :
        /\ info' = [info EXCEPT ![o] = NewPlayer(e, matchId[m])]
        /\ joined' = [joined EXCEPT ![o] = m]
        /\ members' = [members EXCEPT ![m][e] = o]
  BY <1>1 DEF JoinMatch
<1>3. matchId[m] \in MatchIds
  BY <1>1, JobFacts DEF JoinMatch
<1> DEFINE i == NewPlayer(e, matchId[m])
<1>4. i \in Info /\ i # NoInfo /\ i.id = matchId[m] /\ ~i.ready
  BY <1>3, NewPlayerType, InfoIsSome DEF NewPlayer
<1>5. o \in Player /\ o # None /\ o \notin Created
  BY Constants DEF FreshPlayer, JoinedInv
<1> HIDE DEF i
<1>6. info' = [info EXCEPT ![o] = i] /\ info \in [Player -> Info \cup {NoInfo}]
  BY <1>2 DEF i, WellFormed, TypeOK, Info
<1>7. info'[o] = i /\ \A k \in Player : k # o => info'[k] = info[k]
  BY <1>5, <1>6
<1>8. Created' = Created \cup {o}
  BY <1>4, <1>5, <1>7 DEF Created
<1>9. joined'[o] = m /\ \A k \in Player : k # o => joined'[k] = joined[k]
  BY <1>2, <1>5 DEF WellFormed, TypeOK
<1>10. \A k \in Created : k \in Player /\ k # o
  BY <1>5 DEF Created
<1>11. QED BY <1>1, <1>2, <1>4, <1>5, <1>7, <1>8, <1>9, <1>10

LEMMA GrowStep == WellFormed /\ JoinedInv /\ [Next]_vars => Growing
<1> SUFFICES ASSUME WellFormed, JoinedInv, [Next]_vars PROVE Growing
  OBVIOUS
<1>1. \A m \in Match : reports[m] > 0 => reports'[m] > 0
  <2>1. CASE reports' = reports
    BY <2>1
  <2>2. ASSUME NEW w \in Workers, ReportEnd(w) PROVE \A m \in Match : reports[m] > 0 => reports'[m] > 0
    BY <2>2, Constants DEF ReportEnd, WellFormed, TypeOK
  <2>3. QED
    BY <2>1, <2>2, StepCases
    DEF NewConnection, Receive, Step, FindPlayer, JoinMatch, Register, StartPingPhase, FindMatch,
        MarkConnected, MarkDisconnected, SetDisconnected, RecordResult, SetReady,
        SnapshotPlayers, ScanReady, StartMatch, CheckDisconnected, StopRunning,
        UnregisterPlayer, ClearMatch, ForgetMatch, Tick, ghosts
<1>2. \A m \in Match : matchId[m] \in MatchIds => matchId'[m] = matchId[m]
  <2>1. CASE matchId' = matchId
    BY <2>1
  <2>2. ASSUME NEW id \in MatchIds, NEW m \in FreshMatch, matchId' = [matchId EXCEPT ![m] = id]
        PROVE  \A k \in Match : matchId[k] \in MatchIds => matchId'[k] = matchId[k]
    BY <2>2, Constants DEF FreshMatch, WellFormed, TypeOK
  <2>3. QED
    BY <2>1, <2>2, StepCases
    DEF NewConnection, Receive, Step, FindPlayer, JoinMatch, Register, StartPingPhase, FindMatch,
        MarkConnected, MarkDisconnected, SetDisconnected, RecordResult, SetReady,
        SnapshotPlayers, ScanReady, StartMatch, CheckDisconnected, ReportEnd, StopRunning,
        UnregisterPlayer, ClearMatch, ForgetMatch, Tick, registries
<1>3. \A o \in Created : o \in Created' /\ info'[o].id = info[o].id /\ joined'[o] = joined[o]
  <2>1. CASE UNCHANGED <<registries, info, match, job, ghosts>>
    BY <2>1 DEF Created, ghosts
  <2>2. ASSUME NEW w \in Workers, JoinMatch(w)
        PROVE  \A o \in Created : o \in Created' /\ info'[o].id = info[o].id /\ joined'[o] = joined[o]
    BY <2>2, JoinKept
  <2>3. QED BY <2>1, <2>2, StepCases, InfoKept
<1>4. QED BY <1>1, <1>2, <1>3 DEF Growing

-----------------------------------------------------------------------------
(* Cleanups, memberships and handlers.                                     *)

LEMMA OthersKept ==
  ASSUME WellFormed, NEW w \in Workers,
         \/ \E e \in Endpoints, id \in MatchIds, fetched \in BOOLEAN :
              NewConnection(w, e, id, fetched)
         \/ \E e \in Endpoints, kind \in Kinds : Receive(w, e, kind)
         \/ Step(w)
         \/ \E m \in Match : \E lost \in SUBSET MembersOf(m) : Tick(w, m, lost)
  PROVE  OthersKeep(w)
<1>1. TypeOK
  BY DEF WellFormed
<1>2. CASE \E j : job' = [job EXCEPT ![w] = j]
  BY <1>1, <1>2, OthersKeepJobs
<1>3. CASE (\E place : Goto(w, place)) \/ Finish(w)
  BY <1>1, <1>3, OthersKeepJobs
<1>4. QED
  BY <1>1, <1>2, <1>3
  DEF NewConnection, Receive, Step, FindPlayer, JoinMatch, Register, StartPingPhase, FindMatch,
      MarkConnected, MarkDisconnected, SetDisconnected, RecordResult, SetReady,
      SnapshotPlayers, ScanReady, StartMatch, CheckDisconnected, ReportEnd, StopRunning,
      UnregisterPlayer, ClearMatch, ForgetMatch, Tick, OthersKeep, TypeOK

\* Where a step of a worker may take it.
LEMMA NextPlace ==
  ASSUME WellFormed, NEW w \in Workers,
         \/ \E e \in Endpoints, id \in MatchIds, fetched \in BOOLEAN :
              NewConnection(w, e, id, fetched)
         \/ \E e \in Endpoints, kind \in Kinds : Receive(w, e, kind)
         \/ Step(w)
         \/ \E m \in Match : \E lost \in SUBSET MembersOf(m) : Tick(w, m, lost)
  PROVE  /\ job'[w].at \in {"stop", "unregister", "forget"} =>
              /\ job'[w].match = job[w].match
              /\ job[w].at \in {"stop", "unregister", "forget"} \/ ReportEnd(w)
         /\ job'[w].at = "handle" =>
              /\ FindMatch(w) /\ job'[w].player = job[w].player
              /\ job'[w].match = matches[info[job[w].player].id]
              /\ matches[info[job[w].player].id] # None
<1>1. job \in [Workers -> Job \cup {Idle}]
  BY DEF WellFormed, TypeOK
<1>2. CASE Finish(w)
  BY <1>1, <1>2 DEF Finish, Idle
<1>3. CASE \E e \in Endpoints, id \in MatchIds, fetched \in BOOLEAN : NewConnection(w, e, id, fetched)
  <2>1. job'[w].at \in {"find", "idle"}
    BY <1>1, <1>3 DEF NewConnection, CanRun, Idle
  <2>2. QED BY <2>1
<1>4. CASE \E e \in Endpoints, kind \in Kinds : Receive(w, e, kind)
  BY <1>1, <1>4 DEF Receive
<1>5. CASE \E m \in Match : \E lost \in SUBSET MembersOf(m) : Tick(w, m, lost)
  <2>1. job'[w].at \in {"check", "idle"}
    BY <1>1, <1>5 DEF Tick, CanRun, Idle
  <2>2. QED BY <2>1
<1>6. ASSUME Step(w), ~Finish(w)
      PROVE  /\ job'[w].at \in {"stop", "unregister", "forget"} =>
                  /\ job'[w].match = job[w].match
                  /\ job[w].at \in {"stop", "unregister", "forget"} \/ ReportEnd(w)
             /\ job'[w].at = "handle" =>
                  /\ FindMatch(w) /\ job'[w].player = job[w].player
                  /\ job'[w].match = matches[info[job[w].player].id]
                  /\ matches[info[job[w].player].id] # None
  <2>1. job[w] \in Job
    BY <1>6, JobFacts
    DEF Step, FindPlayer, JoinMatch, Register, StartPingPhase, FindMatch,
        MarkConnected, MarkDisconnected, RecordResult, SetReady,
        SnapshotPlayers, ScanReady, StartMatch, CheckDisconnected, ReportEnd, StopRunning,
        UnregisterPlayer, ClearMatch, ForgetMatch
  <2>2. ASSUME NEW place \in {"join", "pingCheck", "snapshot", "stop", "unregister", "forget"},
               Goto(w, place)
        PROVE  job'[w].at = place /\ job'[w].match = job[w].match
    BY <1>1, <2>1, <2>2, GotoJob DEF WellFormed
  <2>3. CASE FindPlayer(w) \/ Register(w) \/ SetReady(w)
    BY <1>6, <2>2, <2>3 DEF FindPlayer, Register, SetReady
  <2>4. CASE ReportEnd(w) \/ StopRunning(w) \/ ClearMatch(w)
    BY <2>2, <2>4 DEF ReportEnd, StopRunning, ClearMatch
  <2>5. CASE JoinMatch(w)
    <3>1. PICK o \in FreshPlayer : job' = [job EXCEPT ![w].at = "register", ![w].player = o]
      BY <2>5 DEF JoinMatch
    <3>2. QED BY <1>1, <2>1, <3>1 DEF Job
  <2>6. CASE FindMatch(w)
    <3> DEFINE k == matches[info[job[w].player].id]
    <3>1. job' = [job EXCEPT ![w].match = k, ![w].at = "handle"] /\ k # None
      BY <1>6, <2>6 DEF FindMatch
    <3> HIDE DEF k
    <3>2. job'[w].at = "handle" /\ job'[w].match = k /\ job'[w].player = job[w].player
      BY <1>1, <2>1, <3>1 DEF Job
    <3>3. QED BY <2>6, <3>1, <3>2 DEF k
  <2>7. CASE SnapshotPlayers(w)
    <3> DEFINE scan == MembersOf(job[w].match)
    <3>1. job' = [job EXCEPT ![w].at = "scanReady", ![w].scan = scan]
      BY <2>7 DEF SnapshotPlayers
    <3> HIDE DEF scan
    <3>2. QED BY <1>1, <2>1, <3>1 DEF Job
  <2>8. CASE ScanReady(w) \/ CheckDisconnected(w)
    <3>1. PICK o \in job[w].scan : job' = [job EXCEPT ![w].scan = @ \ {o}]
      BY <1>6, <2>8 DEF ScanReady, CheckDisconnected
    <3>2. job'[w].at = job[w].at
      BY <1>1, <2>1, <3>1 DEF Job
    <3>3. QED BY <2>8, <3>2 DEF ScanReady, CheckDisconnected
  <2>9. CASE UnregisterPlayer(w)
    <3>1. PICK e \in job[w].keys : job' = [job EXCEPT ![w].keys = @ \ {e}]
      BY <2>9 DEF UnregisterPlayer
    <3>2. job'[w].at = job[w].at /\ job'[w].match = job[w].match
      BY <1>1, <2>1, <3>1 DEF Job
    <3>3. QED BY <2>9, <3>2 DEF UnregisterPlayer
  <2>10. QED
    BY <1>6, <2>3, <2>4, <2>5, <2>6, <2>7, <2>8, <2>9
    DEF Step, StartPingPhase, MarkConnected, MarkDisconnected, SetDisconnected, RecordResult,
        StartMatch, ForgetMatch
<1>7. QED BY <1>2, <1>3, <1>4, <1>5, <1>6

LEMMA CleanupStep == WellFormed /\ CleanupInv /\ Growing /\ [Next]_vars => CleanupInv'
<1> SUFFICES ASSUME WellFormed, CleanupInv, Growing, [Next]_vars PROVE CleanupInv'
  OBVIOUS
<1>1. ASSUME NEW x \in Workers, job'[x] = job[x], job[x].at \in {"stop", "unregister", "forget"}
      PROVE  reports'[job'[x].match] > 0
  <2>1. job[x].match \in Match
    BY <1>1, JobFacts
  <2>2. QED BY <1>1, <2>1 DEF CleanupInv, Growing
<1>2. ASSUME NEW w \in Workers, OthersKeep(w),
             job'[w].at \in {"stop", "unregister", "forget"} =>
               /\ job'[w].match = job[w].match
               /\ job[w].at \in {"stop", "unregister", "forget"} \/ ReportEnd(w)
      PROVE  CleanupInv'
  <2>1. ASSUME job'[w].at \in {"stop", "unregister", "forget"} PROVE reports'[job'[w].match] > 0
    <3>1. CASE job[w].at \in {"stop", "unregister", "forget"}
      <4>1. job[w].match \in Match
        BY <3>1, JobFacts
      <4>2. QED BY <1>2, <2>1, <3>1, <4>1 DEF CleanupInv, Growing
    <3>2. CASE ReportEnd(w)
      <4>1. PICK m \in Match : m = job[w].match
        BY <3>2, JobFacts DEF ReportEnd
      <4>2. reports'[m] > 0
        <5>1. reports' = [reports EXCEPT ![m] = IF @ < MaxReports THEN @ + 1 ELSE @]
          BY <3>2, <4>1 DEF ReportEnd
        <5>2. reports \in [Match -> 0..MaxReports]
          BY DEF WellFormed, TypeOK
        <5>3. QED BY <5>1, <5>2, Constants
      <4>3. QED BY <1>2, <2>1, <4>1, <4>2
    <3>3. QED BY <1>2, <2>1, <3>1, <3>2
  <2>2. QED BY <1>1, <1>2, <2>1 DEF CleanupInv, OthersKeep
<1>3. CASE UNCHANGED <<registries, info, match, job, ghosts>>
  BY <1>1, <1>3 DEF CleanupInv
<1>4. QED BY <1>2, <1>3, StepCases, OthersKept, NextPlace

LEMMA HandlerStep ==
  WellFormed /\ KeptInv /\ JoinedInv /\ HandlerInv /\ Growing /\ [Next]_vars => HandlerInv'
<1> SUFFICES ASSUME WellFormed, KeptInv, JoinedInv, HandlerInv, Growing, [Next]_vars
             PROVE  HandlerInv'
  OBVIOUS
<1>1. ASSUME NEW o \in Created, NEW k, k = joined[o] \/ reports[joined[o]] > 0
      PROVE  k = joined'[o] \/ reports'[joined'[o]] > 0
  <2>1. joined[o] \in Match /\ joined'[o] = joined[o]
    BY DEF JoinedInv, Growing
  <2>2. QED BY <1>1, <2>1 DEF Growing
<1>2. ASSUME NEW x \in Workers, job'[x] = job[x], job'[x].at = "handle"
      PROVE  job'[x].match = joined'[job'[x].player] \/ reports'[joined'[job'[x].player]] > 0
  <2>1. job[x].player \in Created
    BY <1>2, JobFacts
  <2>2. job[x].match = joined[job[x].player] \/ reports[joined[job[x].player]] > 0
    BY <1>2 DEF HandlerInv
  <2>3. QED BY <1>1, <1>2, <2>1, <2>2
<1>3. ASSUME NEW w \in Workers, FindMatch(w), job'[w].player = job[w].player,
             job'[w].match = matches[info[job[w].player].id],
             matches[info[job[w].player].id] # None
      PROVE  job'[w].match = joined'[job'[w].player] \/ reports'[joined'[job'[w].player]] > 0
  <2>1. PICK o \in Created : o = job[w].player
    BY <1>3, JobFacts DEF FindMatch
  <2>2. PICK j \in Match : j = joined[o] /\ matchId[j] = info[o].id /\ info[o].id \in MatchIds
    BY <2>1, CreatedTyped DEF JoinedInv, WellFormed, Info
  <2>3. Present(j) \/ reports[j] > 0
    BY <2>2 DEF KeptInv
  <2>4. Present(j) => matches[info[o].id] = j
    BY <2>2 DEF Present
  <2>5. job'[w].match = joined[o] \/ reports[joined[o]] > 0
    BY <1>3, <2>1, <2>2, <2>3, <2>4
  <2>6. QED BY <1>1, <1>3, <2>1, <2>5
<1>4. ASSUME NEW w \in Workers, OthersKeep(w),
             job'[w].at = "handle" =>
               /\ FindMatch(w) /\ job'[w].player = job[w].player
               /\ job'[w].match = matches[info[job[w].player].id]
               /\ matches[info[job[w].player].id] # None
      PROVE  HandlerInv'
  BY <1>2, <1>3, <1>4 DEF HandlerInv, OthersKeep
<1>5. CASE UNCHANGED <<registries, info, match, job, ghosts>>
  BY <1>2, <1>5 DEF HandlerInv
<1>6. QED BY <1>4, <1>5, StepCases, OthersKept, NextPlace

LEMMA KeptStep ==
  WellFormed /\ KeptInv /\ CleanupInv /\ ForgetsOwn /\ Growing /\ [Next]_vars => KeptInv'
<1> SUFFICES ASSUME WellFormed, KeptInv, CleanupInv, ForgetsOwn, Growing, [Next]_vars
             PROVE  KeptInv'
  OBVIOUS
<1>1. CASE UNCHANGED <<matches, matchId>>
  BY <1>1 DEF KeptInv, Present, Growing
<1>2. ASSUME NEW id \in MatchIds, NEW m \in FreshMatch, matches[id] = None,
             matchId' = [matchId EXCEPT ![m] = id], matches' = [matches EXCEPT ![id] = m]
      PROVE  KeptInv'
  <2>1. m \in Match /\ m # None /\ matchId[m] = None
    BY <1>2, Constants DEF FreshMatch
  <2>2. Present(m)'
    BY <1>2, <2>1 DEF Present, WellFormed, TypeOK
  <2>3. ASSUME NEW k \in Match, k # m, matchId'[k] \in MatchIds
        PROVE  Present(k)' \/ reports'[k] > 0
    <3>1. matchId'[k] = matchId[k]
      BY <1>2, <2>1, <2>3 DEF WellFormed, TypeOK
    <3>2. Present(k) => Present(k)'
      <4>1. Present(k) => matchId[k] # id
        BY <1>2, Constants DEF Present
      <4>2. QED BY <1>2, <2>3, <3>1, <4>1 DEF Present, WellFormed, TypeOK
    <3>3. QED BY <2>3, <3>1, <3>2 DEF KeptInv, Growing
  <2>4. QED BY <2>2, <2>3 DEF KeptInv
<1>3. ASSUME NEW w \in Workers, ForgetMatch(w) PROVE KeptInv'
  <2>1. PICK m \in Match : m = job[w].match /\ matchId[m] \in MatchIds
    BY <1>3, JobFacts DEF ForgetMatch
  <2>2. matches' = [matches EXCEPT ![matchId[m]] = None] /\ matchId' = matchId
    BY <1>3, <2>1 DEF ForgetMatch
  <2>3. reports[m] > 0 /\ matches[matchId[m]] \in {None, m}
    BY <1>3, <2>1 DEF CleanupInv, ForgetsOwn, ForgetMatch
  <2>4. ASSUME NEW k \in Match, Present(k), k # m PROVE Present(k)'
    <3>1. matchId[k] # matchId[m]
      BY <2>3, <2>4, Constants DEF Present
    <3>2. QED BY <2>1, <2>2, <2>4, <3>1 DEF Present, WellFormed, TypeOK
  <2>5. QED BY <2>2, <2>3, <2>4 DEF KeptInv, Growing
<1>4. QED
  BY <1>1, <1>2, <1>3, StepCases
  DEF NewConnection, Receive, Step, FindPlayer, JoinMatch, Register, StartPingPhase, FindMatch,
      MarkConnected, MarkDisconnected, SetDisconnected, RecordResult, SetReady,
      SnapshotPlayers, ScanReady, StartMatch, CheckDisconnected, ReportEnd, StopRunning,
      UnregisterPlayer, ClearMatch, Tick, registries

\* Only joining a match and the end of a cleanup change who is a member.
LEMMA MembersKept ==
  ASSUME [Next]_vars
  PROVE  \/ UNCHANGED members
         \/ \E w \in Workers : JoinMatch(w) \/ ClearMatch(w)
<1>1. QED
  BY StepCases
  DEF NewConnection, Receive, Step, FindPlayer, Register, StartPingPhase, FindMatch,
      MarkConnected, MarkDisconnected, SetDisconnected, RecordResult, SetReady,
      SnapshotPlayers, ScanReady, StartMatch, CheckDisconnected, ReportEnd, StopRunning,
      UnregisterPlayer, ForgetMatch, Tick, registries

LEMMA JoinedStep == WellFormed /\ JoinedInv /\ Growing /\ [Next]_vars => JoinedInv'
<1> SUFFICES ASSUME WellFormed, JoinedInv, Growing, [Next]_vars PROVE JoinedInv'
  OBVIOUS
<1>1. \A m \in Match, e \in Endpoints :
        members[m][e] # None => joined[members[m][e]] = m /\ joined'[members[m][e]] = m
  BY DEF JoinedInv, Growing, WellFormed, RegistriesFine
<1>2. \A o \in Created : joined'[o] \in Match /\ matchId'[joined'[o]] = info'[o].id
  <2> SUFFICES ASSUME NEW o \in Created PROVE joined'[o] \in Match /\ matchId'[joined'[o]] = info'[o].id
    OBVIOUS
  <2>1. joined[o] \in Match /\ matchId[joined[o]] = info[o].id /\ info[o].id \in MatchIds
    BY CreatedTyped DEF JoinedInv, WellFormed, Info
  <2>2. QED BY <2>1 DEF Growing
<1>3. ASSUME NEW w \in Workers, JoinMatch(w) PROVE JoinedInv'
  <2>1. PICK m \in Match, e \in Endpoints, o \in Player \ Created :
          /\ m = job[w].match /\ Created' = Created \cup {o}
          /\ info'[o].id = matchId[m] /\ joined'[o] = m
          /\ members' = [members EXCEPT ![m][e] = o]
    BY <1>3, JoinKept
  <2>2. matchId[m] \in MatchIds
    BY <1>3, <2>1, JobFacts DEF JoinMatch
  <2>3. \A k \in Created' : joined'[k] \in Match /\ matchId'[joined'[k]] = info'[k].id
    BY <1>2, <2>1, <2>2 DEF Growing
  <2>4. members'[m][e] = o /\ \A k \in Match, f \in Endpoints : k # m \/ f # e => members'[k][f] = members[k][f]
    BY <2>1 DEF WellFormed, TypeOK
  <2>5. \A k \in Match, f \in Endpoints : members'[k][f] # None => joined'[members'[k][f]] = k
    BY <1>1, <2>1, <2>4
  <2>6. QED BY <2>3, <2>5 DEF JoinedInv
<1>4. ASSUME Created' = Created,
             \A k \in Match, f \in Endpoints : members'[k][f] \in {None, members[k][f]}
      PROVE  JoinedInv'
  BY <1>1, <1>2, <1>4 DEF JoinedInv
<1>5. ASSUME NEW w \in Workers, ClearMatch(w) PROVE JoinedInv'
  <2>1. \A k \in Match, f \in Endpoints : members'[k][f] \in {None, members[k][f]}
    <3>1. PICK m \in Match : m = job[w].match
      BY <1>5, JobFacts DEF ClearMatch
    <3>2. members' = [members EXCEPT ![m] = [e \in Endpoints |-> None]]
      BY <1>5, <3>1 DEF ClearMatch
    <3>3. QED BY <3>2 DEF WellFormed, TypeOK
  <2>2. Created' = Created
    BY <1>5 DEF ClearMatch, Created
  <2>3. QED BY <1>4, <2>1, <2>2
<1>6. ASSUME UNCHANGED members, ~\E w \in Workers : JoinMatch(w) PROVE JoinedInv'
  <2>1. CASE UNCHANGED <<registries, info, match, job, ghosts>>
    BY <1>4, <1>6, <2>1 DEF Created
  <2>2. CASE ~UNCHANGED <<registries, info, match, job, ghosts>>
    <3>1. Created' = Created
      BY <1>6, <2>2, StepCases, InfoKept
    <3>2. QED BY <1>4, <1>6, <3>1
  <2>3. QED BY <2>1, <2>2
<1>7. QED BY <1>3, <1>5, <1>6, MembersKept

-----------------------------------------------------------------------------
(* Starts.                                                                 *)

Ready(m) == MembersOf(m) # {} /\ \A o \in MembersOf(m) : info[o].ready

StartInv(m) == Ready(m) => Settled(m) \/ \E w \in Workers : Covers(w, m)

\* A step of a worker whose job is not that of covering m, or that goes on with it.
LEMMA StartKept ==
  ASSUME NEW m \in Match, StartInv(m), members'[m] = members[m],
         \A o \in MembersOf(m) : info'[o].ready => info[o].ready,
         Settled(m) => Settled(m)',
         NEW w \in Workers, OthersKeep(w),
         Ready(m) /\ Covers(w, m) => Covers(w, m)' \/ Settled(m)'
  PROVE  StartInv(m)'
<1>1. MembersOf(m)' = MembersOf(m)
  BY DEF MembersOf
<1>2. Ready(m)' => Ready(m)
  BY <1>1 DEF Ready
<1>3. ASSUME NEW x \in Workers, x # w, Covers(x, m) PROVE Covers(x, m)'
  BY <1>1, <1>3 DEF Covers, OthersKeep
<1>4. QED BY <1>2, <1>3 DEF StartInv

LEMMA SettledKept ==
  ASSUME WellFormed, CleanupInv, Growing, [Next]_vars, NEW m \in Match, Settled(m)
  PROVE  Settled(m)'
<1>1. CASE reports[m] > 0
  BY <1>1 DEF Settled, Growing
<1>2. CASE tickRunning'[m] = tickRunning[m]
  BY <1>1, <1>2 DEF Settled
<1>3. ASSUME NEW w \in Workers, StopRunning(w) PROVE Settled(m)'
  <2>1. CASE m = job[w].match
    BY <1>1, <1>3, <2>1 DEF StopRunning, CleanupInv
  <2>2. CASE m # job[w].match
    BY <1>2, <1>3, <2>2 DEF StopRunning, WellFormed, TypeOK
  <2>3. QED BY <2>1, <2>2
<1>4. ASSUME NEW w \in Workers, StartMatch(w) PROVE Settled(m)'
  <2>1. tickRunning[m] => tickRunning'[m]
    BY <1>4 DEF StartMatch, startTickLoop, WellFormed, TypeOK
  <2>2. QED BY <1>1, <2>1 DEF Settled
<1>5. QED
  BY <1>2, <1>3, <1>4, StepCases
  DEF NewConnection, Receive, Step, FindPlayer, JoinMatch, Register, StartPingPhase, FindMatch,
      MarkConnected, MarkDisconnected, SetDisconnected, RecordResult, SetReady,
      SnapshotPlayers, ScanReady, CheckDisconnected, ReportEnd,
      UnregisterPlayer, ClearMatch, ForgetMatch, Tick, match

\* The steps that neither change a match's members nor go on with a Ready message.
LEMMA OtherStarts ==
  ASSUME WellFormed, JobsInv, Growing, [Next]_vars, NEW m \in Match, StartInv(m),
         NEW w \in Workers,
         \/ \E e \in Endpoints, id \in MatchIds, fetched \in BOOLEAN :
              NewConnection(w, e, id, fetched)
         \/ \E e \in Endpoints, kind \in Kinds : Receive(w, e, kind)
         \/ Step(w) /\ ~JoinMatch(w) /\ ~ClearMatch(w) /\ ~SetReady(w) /\ ~SnapshotPlayers(w)
                    /\ ~ScanReady(w) /\ ~StartMatch(w)
         \/ \E k \in Match : \E lost \in SUBSET MembersOf(k) : Tick(w, k, lost)
  PROVE  StartInv(m)'
<1>1. members' = members
  BY DEF NewConnection, Receive, Step, FindPlayer, Register, StartPingPhase, FindMatch,
         MarkConnected, MarkDisconnected, SetDisconnected, RecordResult, CheckDisconnected,
         ReportEnd, StopRunning, UnregisterPlayer, ForgetMatch, Tick, registries
<1>2. job[w].at \notin {"snapshot", "scanReady"} /\ ~SetReady(w)
  <2>1. CASE CanRun(w)
    BY <2>1 DEF CanRun, Idle, SetReady
  <2>2. CASE Step(w) /\ ~JoinMatch(w) /\ ~ClearMatch(w) /\ ~SetReady(w) /\ ~SnapshotPlayers(w)
                     /\ ~ScanReady(w) /\ ~StartMatch(w)
    <3>1. \/ FindPlayer(w) \/ Register(w) \/ StartPingPhase(w) \/ FindMatch(w)
          \/ MarkConnected(w) \/ MarkDisconnected(w) \/ RecordResult(w) \/ CheckDisconnected(w)
          \/ ReportEnd(w) \/ StopRunning(w) \/ UnregisterPlayer(w) \/ ForgetMatch(w)
      BY <2>2 DEF Step
    <3>2. job[w].at \notin {"snapshot", "scanReady"}
      BY <3>1 DEF FindPlayer, Register, StartPingPhase, FindMatch, MarkConnected,
                  MarkDisconnected, RecordResult, CheckDisconnected, ReportEnd, StopRunning,
                  UnregisterPlayer, ForgetMatch
    <3>3. QED BY <2>2, <3>2
  <2>3. QED BY <2>1, <2>2 DEF NewConnection, Receive, Tick
<1>3. \A o \in MembersOf(m) : info'[o].ready = info[o].ready
  BY <1>2, InfoKept, MembersCreated
<1>4. OthersKeep(w)
  BY OthersKept
<1>5. Settled(m) => Settled(m)'
  BY SettledKept DEF JobsInv
<1>6. QED BY <1>1, <1>2, <1>3, <1>4, <1>5, StartKept DEF Covers

LEMMA JoinStarts ==
  ASSUME WellFormed, JobsInv, Growing, [Next]_vars, NEW m \in Match, StartInv(m),
         NEW w \in Workers, JoinMatch(w)
  PROVE  StartInv(m)'
<1>1. PICK k \in Match, e \in Endpoints, o \in Player \ Created :
        /\ k = job[w].match /\ ~info'[o].ready /\ o # None
        /\ \A p \in Created : info'[p] = info[p]
        /\ members' = [members EXCEPT ![k][e] = o]
  BY JoinKept DEF JobsInv
<1>2. CASE k = m
  <2>1. o \in MembersOf(m)'
    BY <1>1, <1>2 DEF MembersOf, WellFormed, TypeOK
  <2>2. QED BY <1>1, <2>1 DEF StartInv, Ready
<1>3. CASE k # m
  <2>1. members'[m] = members[m]
    BY <1>1, <1>3 DEF WellFormed, TypeOK
  <2>2. \A p \in MembersOf(m) : info'[p].ready = info[p].ready
    BY <1>1, MembersCreated
  <2>3. OthersKeep(w) /\ ~Covers(w, m) /\ (Settled(m) => Settled(m)')
    <3>1. OthersKeep(w)
      BY OthersKept DEF Step
    <3>2. Settled(m) => Settled(m)'
      BY SettledKept DEF JobsInv
    <3>3. QED BY <3>1, <3>2 DEF Covers, JoinMatch
  <2>4. QED BY <2>1, <2>2, <2>3, StartKept
<1>4. QED BY <1>2, <1>3

LEMMA ClearStarts ==
  ASSUME WellFormed, JobsInv, Growing, [Next]_vars, NEW m \in Match, StartInv(m),
         NEW w \in Workers, ClearMatch(w)
  PROVE  StartInv(m)'
<1>1. PICK k \in Match : k = job[w].match
  BY JobFacts DEF ClearMatch
<1>2. reports'[k] > 0
  BY <1>1 DEF ClearMatch, JobsInv, CleanupInv, Growing
<1>3. CASE k = m
  BY <1>2, <1>3 DEF StartInv, Settled
<1>4. CASE k # m
  <2>1. members' = [members EXCEPT ![k] = [e \in Endpoints |-> None]] /\ info' = info
    BY <1>1 DEF ClearMatch
  <2>2. members'[m] = members[m]
    BY <1>4, <2>1 DEF WellFormed, TypeOK
  <2>3. OthersKeep(w) /\ ~Covers(w, m) /\ (Settled(m) => Settled(m)')
    <3>1. OthersKeep(w)
      BY OthersKept DEF Step
    <3>2. Settled(m) => Settled(m)'
      BY SettledKept DEF JobsInv
    <3>3. QED BY <3>1, <3>2 DEF Covers, ClearMatch
  <2>4. QED BY <2>1, <2>2, <2>3, StartKept
<1>5. QED BY <1>3, <1>4

\* Whoever becomes ready covers its match, unless that was ended before.
LEMMA ReadyStarts ==
  ASSUME WellFormed, JobsInv, Growing, [Next]_vars, NEW m \in Match, StartInv(m),
         NEW w \in Workers, SetReady(w)
  PROVE  StartInv(m)'
<1>1. PICK p \in Created : p = job[w].player
  BY JobFacts DEF SetReady
<1> DEFINE value == (job[w].kind = "ready")
<1>2. /\ info'[p].ready = value
      /\ \A o \in Created : o # p => info'[o].ready = info[o].ready
  <2>1. value \in BOOLEAN /\ info' = [info EXCEPT ![p].ready = value]
    BY <1>1 DEF SetReady
  <2> HIDE DEF value
  <2>2. QED BY <2>1, ReadySet
<1>3. OthersKeep(w) /\ ~Covers(w, m) /\ (Settled(m) => Settled(m)') /\ members' = members
  <2>1. OthersKeep(w)
    BY OthersKept DEF Step
  <2>2. Settled(m) => Settled(m)'
    BY SettledKept DEF JobsInv
  <2>3. QED BY <2>1, <2>2 DEF Covers, SetReady, registries
<1>4. CASE job[w].kind = "ready" /\ p \in MembersOf(m)
  <2>1. joined[p] = m
    BY <1>4, Constants DEF MembersOf, JobsInv, JoinedInv
  <2>2. job[w].match = m \/ reports[m] > 0
    BY <1>1, <2>1 DEF JobsInv, HandlerInv, SetReady
  <2>3. CASE reports[m] > 0
    BY <1>3, <2>3 DEF StartInv, Settled
  <2>4. CASE job[w].match = m
    <3>1. job[w] \in Job /\ Goto(w, "snapshot")
      BY JobFacts DEF SetReady
    <3>2. job'[w].at = "snapshot" /\ job'[w].kind = "ready" /\ job'[w].match = m
      BY <1>4, <2>4, <3>1, GotoJob DEF WellFormed, TypeOK
    <3>3. Covers(w, m)'
      BY <3>2 DEF Covers
    <3>4. QED BY <3>3 DEF StartInv
  <2>5. QED BY <2>2, <2>3, <2>4
<1>5. CASE job[w].kind # "ready" \/ p \notin MembersOf(m)
  <2>1. \A o \in MembersOf(m) : info'[o].ready => info[o].ready
    BY <1>2, <1>5, MembersCreated
  <2>2. QED BY <1>3, <2>1, StartKept
<1>6. QED BY <1>4, <1>5

LEMMA ScanStarts ==
  ASSUME WellFormed, JobsInv, Growing, [Next]_vars, NEW m \in Match, StartInv(m),
         NEW w \in Workers, SnapshotPlayers(w) \/ ScanReady(w) \/ StartMatch(w)
  PROVE  StartInv(m)'
<1>1. /\ members' = members /\ info' = info /\ job[w] \in Job
      /\ job \in [Workers -> Job \cup {Idle}]
  BY JobFacts DEF SnapshotPlayers, ScanReady, StartMatch, registries, WellFormed, TypeOK
<1>2. OthersKeep(w) /\ (Settled(m) => Settled(m)')
  <2>1. OthersKeep(w)
    BY OthersKept DEF Step
  <2>2. Settled(m) => Settled(m)'
    BY SettledKept DEF JobsInv
  <2>3. QED BY <2>1, <2>2
<1>3. MembersOf(m)' = MembersOf(m)
  BY <1>1 DEF MembersOf
<1>4. ASSUME Ready(m), Covers(w, m) PROVE Covers(w, m)' \/ Settled(m)'
  <2>1. job[w].kind = "ready" /\ job[w].match = m
    BY <1>4 DEF Covers
  <2>2. CASE SnapshotPlayers(w)
    <3> DEFINE scan == MembersOf(m)
    <3>1. job' = [job EXCEPT ![w].at = "scanReady", ![w].scan = scan]
      BY <2>1, <2>2 DEF SnapshotPlayers
    <3> HIDE DEF scan
    <3>2. /\ job'[w].at = "scanReady" /\ job'[w].kind = "ready" /\ job'[w].match = m
          /\ job'[w].scan = scan
      BY <1>1, <2>1, <3>1 DEF Job
    <3>3. QED BY <1>3, <3>2 DEF Covers, scan
  <2>3. CASE ScanReady(w)
    <3>1. job[w].at = "scanReady" /\ job[w].scan \subseteq MembersOf(m)
      BY <1>4, <2>3 DEF ScanReady, Covers
    <3>2. \A o \in job[w].scan : info[o].ready
      BY <1>4, <3>1 DEF Ready
    <3>3. PICK o \in job[w].scan : job' = [job EXCEPT ![w].scan = @ \ {o}]
      BY <2>3, <3>2 DEF ScanReady
    <3>4. /\ job'[w].at = "scanReady" /\ job'[w].kind = "ready" /\ job'[w].match = m
          /\ job'[w].scan = job[w].scan \ {o}
      BY <1>1, <2>1, <3>1, <3>3 DEF Job
    <3>5. QED BY <1>3, <3>1, <3>4 DEF Covers
  <2>4. CASE StartMatch(w)
    <3>1. tickRunning'[m]
      BY <2>1, <2>4 DEF StartMatch, startTickLoop, WellFormed, TypeOK
    <3>2. QED BY <3>1 DEF Settled
  <2>5. QED BY <2>2, <2>3, <2>4
<1>5. QED BY <1>1, <1>2, <1>4, StartKept

Starts == \A m \in Match : StartInv(m)

LEMMA StartsStep == WellFormed /\ JobsInv /\ Starts /\ Growing /\ [Next]_vars => Starts'
<1> SUFFICES ASSUME WellFormed, JobsInv, Starts, Growing, [Next]_vars, NEW m \in Match
             PROVE  StartInv(m)'
  BY DEF Starts
<1>1. StartInv(m)
  BY DEF Starts
<1>2. CASE UNCHANGED <<registries, info, match, job, ghosts>>
  BY <1>1, <1>2
  DEF StartInv, Ready, Settled, Covers, MembersOf, registries, match, ghosts
<1>3. QED
  BY <1>1, <1>2, StepCases, OtherStarts, JoinStarts, ClearStarts, ReadyStarts, ScanStarts

LEMMA StartsInit == Init => CleanupInv /\ JobsInv /\ Starts
<1> SUFFICES ASSUME Init PROVE CleanupInv /\ JobsInv /\ Starts
  OBVIOUS
<1>1. /\ \A w \in Workers : job[w].at = "idle"
      /\ \A m \in Match : matchId[m] = None
      /\ \A m \in Match, e \in Endpoints : members[m][e] = None
      /\ Created = {}
  BY DEF Init, Idle, Created
<1>2. \A m \in Match : MembersOf(m) = {}
  BY <1>1 DEF MembersOf
<1>3. JobsInv
  BY <1>1, Constants DEF JobsInv, CleanupInv, KeptInv, JoinedInv, HandlerInv
<1>4. Starts
  BY <1>2 DEF Starts, StartInv, Ready
<1>5. QED BY <1>3, <1>4 DEF JobsInv

LEMMA StartingStep ==
  WellFormed /\ JobsInv /\ Starts /\ ForgetsOwn /\ [Next]_vars => JobsInv' /\ Starts'
BY GrowStep, CleanupStep, KeptStep, JoinedStep, HandlerStep, StartsStep DEF JobsInv

LEMMA NothingLost == Starts => NoLostStart
<1> SUFFICES ASSUME Starts, NEW m \in Match, Ready(m),
                    \A w \in Workers : job[w] # Idle => job[w].kind # "ready"
             PROVE  Settled(m)
  BY DEF NoLostStart, Ready, Settled
<1>1. ASSUME NEW w \in Workers, Covers(w, m) PROVE FALSE
  <2>1. job[w].at # "idle" /\ job[w].kind = "ready"
    BY <1>1 DEF Covers
  <2>2. job[w] # Idle
    BY <2>1 DEF Idle
  <2>3. QED BY <2>1, <2>2
<1>2. QED BY <1>1 DEF Starts, StartInv

\* Whoever becomes ready last starts the match, for any number of workers and of
\* clients who join it, leave it and change their mind, unless a loop forgets
\* another match than its own under the id they share.
THEOREM ReadyMatchStarts == Spec /\ []ForgetsOwn => []NoLostStart
<1>1. WellFormed /\ JobsInv /\ Starts /\ ForgetsOwn /\ [Next]_vars
        => (WellFormed /\ JobsInv /\ Starts)'
  BY StartingStep, WellFormedStep
<1>2. Init => WellFormed /\ JobsInv /\ Starts
  BY StartsInit, WellFormedInit
<1>3. QED BY <1>1, <1>2, NothingLost, PTL DEF Spec
=============================================================================
