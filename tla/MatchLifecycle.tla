--------------------------- MODULE MatchLifecycle ---------------------------
(***************************************************************************)
(* How a match comes into being, starts, and is torn down                  *)
(* (rollback_server.cpp: handleMessage, handleNewConnection, handleReady,  *)
(* startTickLoop and the frame of runTickLoop; stop()).                    *)
(*                                                                         *)
(* The server keeps two maps, matches_ (by match id) and players_ (by the  *)
(* endpoint a datagram came from); each match object has a map of its own  *)
(* players.  Every map has its own lock and every handler touches several  *)
(* of them one after the other, so the handlers and the tick loops of the  *)
(* two io_context workers interleave between any two accesses.             *)
(*                                                                         *)
(* Objects live on through shared pointers: a handler that has looked a    *)
(* match up keeps using it after it was erased from matches_.  Objects are *)
(* therefore numbered, and None stands for an absent map entry.            *)
(***************************************************************************)
EXTENDS Integers, FiniteSets

CONSTANTS
  Workers,     \* the threads that run the io_context
  Endpoints,   \* the address:port pairs clients send from
  Index,       \* Index[e]: the playerIndex that the client at e claims
  MatchIds,    \* match ids
  Kinds,       \* bound: the kinds of messages that registered clients send
  MayStop,     \* bound: whether the server is ever stopped
  MaxMatches,  \* bound: match objects that are ever created
  MaxPlayers,  \* bound: player objects that are ever created
  MaxReports   \* bound: end-of-match reports are counted up to this many

ASSUME IndexAssumption ==
  Endpoints # {} /\ IsFiniteSet(Endpoints) /\ Index \in [Endpoints -> Nat]
ASSUME MatchIdsAssumption == 0 \notin MatchIds
ASSUME KindsAssumption ==
  Kinds \subseteq {"ready", "notReady", "input", "disconnecting", "result"}
ASSUME BoundsAssumption ==
  /\ MayStop \in BOOLEAN
  /\ MaxMatches \in Nat \ {0} /\ MaxPlayers \in Nat \ {0} /\ MaxReports \in Nat \ {0}

None    == 0
Match   == 1..MaxMatches
Player  == 1..MaxPlayers
Indices == {Index[e] : e \in Endpoints}

VARIABLES
  running,      \* running_, and the io_context takes up handlers and coroutines
  matches,      \* matches_: the match object registered under an id
  registry,     \* players_: the player object registered for an endpoint
  matchId,      \* matchId[m]: the id a match object was created for
  members,      \* members[m][e]: match->players
  info,         \* info[o]: the fields of a player object
  tickRunning,  \* match->tickRunning
  loops,        \* loops[m]: tick loops of m suspended in tick() or the timer
  pingPhases,   \* pingPhases[m]: how often startPingPhase was called
  winner,       \* winner[m]: match->winningTeamIndex
  job,          \* job[w]: the handler or the part of a tick loop that w runs
  joined,       \* history: joined[o], the match object that o was created for
  reports,      \* history: reports[m], how often sendEndMatch reported m
  reportedWinner \* history: reportedWinner[m], the winner it last reported

registries == <<matches, registry, matchId, members>>
match      == <<tickRunning, loops, pingPhases, winner>>
ghosts     == <<joined, reports, reportedWinner>>
vars       == <<running, registries, info, match, job, ghosts>>

Undecided == -1

Idle == [at |-> "idle"]

\* A worker's program counter and locals.
Job == [at : {"find", "join", "register", "pingCheck", "lookup", "handle",
              "snapshot", "scanReady", "check", "report", "stop", "unregister",
              "clear", "forget"},
        kind : Kinds \cup {"new", "loop"},
        endpoint : Endpoints, player : Player \cup {None},
        match : Match \cup {None}, scan : SUBSET Player, keys : SUBSET Endpoints]

NoInfo == [created |-> FALSE]

NewPlayer_notReset(e, id) == [endpoint |-> e, id |-> id, disconnected |-> FALSE]

NewPlayer(e, id) == [endpoint |-> e, id |-> id, ready |-> FALSE, disconnected |-> FALSE]

Init ==
  /\ running = TRUE
  /\ matches = [id \in MatchIds |-> None]
  /\ registry = [e \in Endpoints |-> None]
  /\ matchId = [m \in Match |-> None]
  /\ members = [m \in Match |-> [e \in Endpoints |-> None]]
  /\ info = [o \in Player |-> NoInfo]
  /\ tickRunning = [m \in Match |-> FALSE]
  /\ loops = [m \in Match |-> 0]
  /\ pingPhases = [m \in Match |-> 0]
  /\ winner = [m \in Match |-> Undecided]
  /\ job = [w \in Workers |-> Idle]
  /\ joined = [o \in Player |-> None]
  /\ reports = [m \in Match |-> 0]
  /\ reportedWinner = [m \in Match |-> Undecided]

-----------------------------------------------------------------------------
(* Helpers.                                                                *)

MembersOf(m) == {members[m][e] : e \in Endpoints} \ {None}

\* The fresh objects, used in turn.
FreshMatch  == {m \in Match : matchId[m] = None /\ \A k \in 1..m - 1 : matchId[k] # None}
FreshPlayer == {o \in Player : joined[o] = None /\ \A k \in 1..o - 1 : joined[k] # None}

\* Bound: a NewConnection arrives only while a player object is left for it.
PlayersLeft ==
  Cardinality({w \in Workers : job[w] # Idle /\ job[w].at \in {"find", "join"}})
    < Cardinality({o \in Player : joined[o] = None})

\* A stopped io_context takes up nothing more; what its workers run, they finish.
CanRun(w) == running /\ job[w] = Idle

Goto(w, place) == job' = [job EXCEPT ![w].at = place]
Finish(w)      == job' = [job EXCEPT ![w] = Idle]

-----------------------------------------------------------------------------
(* NewConnection.                                                          *)

\* Under the lock of matches_: find the match, or fetch its configuration
\* over HTTP and create it.  A failed fetch drops the message.
NewConnection(w, e, id, fetched) ==
  /\ CanRun(w) /\ PlayersLeft
  /\ \/ /\ matches[id] # None
        /\ job' = [job EXCEPT ![w] = [at |-> "find", kind |-> "new", endpoint |-> e,
                     player |-> None, match |-> matches[id], scan |-> {}, keys |-> {}]]
        /\ UNCHANGED <<matches, matchId>>
     \/ /\ matches[id] = None /\ fetched
        /\ \E m \in FreshMatch :
             /\ matchId' = [matchId EXCEPT ![m] = id]
             /\ matches' = [matches EXCEPT ![id] = m]
             /\ job' = [job EXCEPT ![w] = [at |-> "find", kind |-> "new",
                          endpoint |-> e, player |-> None, match |-> m,
                          scan |-> {}, keys |-> {}]]
     \/ /\ matches[id] = None /\ ~fetched
        /\ UNCHANGED <<matches, matchId, job>>
  /\ UNCHANGED <<registry, members, info, match, running, ghosts>>

\* An endpoint that is already registered keeps its player, whatever match
\* that player belongs to.
FindPlayer(w) ==
  /\ job[w].at = "find"
  /\ IF registry[job[w].endpoint] # None THEN Finish(w) ELSE Goto(w, "join")
  /\ UNCHANGED <<registries, info, match, running, ghosts>>

JoinMatch(w) ==
  /\ job[w].at = "join"
  /\ LET e == job[w].endpoint
         m == job[w].match
     IN \E o \in FreshPlayer :
          /\ info' = [info EXCEPT ![o] = NewPlayer(e, matchId[m])]
          /\ joined' = [joined EXCEPT ![o] = m]
          /\ members' = [members EXCEPT ![m][e] = o]
          /\ job' = [job EXCEPT ![w].at = "register", ![w].player = o]
  /\ UNCHANGED <<matches, registry, matchId, match, reports, reportedWinner, running>>

Register(w) ==
  /\ job[w].at = "register"
  /\ registry' = [registry EXCEPT ![job[w].endpoint] = job[w].player]
  /\ Goto(w, "pingCheck")
  /\ UNCHANGED <<matches, matchId, members, info, match, running, ghosts>>

Full_atLeast(m) == Cardinality(MembersOf(m)) >= Cardinality(Indices)

\* As many players as the match has places.
Full(m) == Cardinality(MembersOf(m)) = Cardinality(Indices)

StartPingPhase(w) ==
  /\ job[w].at = "pingCheck"
  /\ LET m == job[w].match IN
       pingPhases' = IF Full(m) THEN [pingPhases EXCEPT ![m] = @ + 1] ELSE pingPhases
  /\ Finish(w)
  /\ UNCHANGED <<registries, info, tickRunning, loops, winner, running, ghosts>>

-----------------------------------------------------------------------------
(* The messages of a registered player.                                    *)

\* players_.find(key); a message from an unknown endpoint is dropped.
Receive(w, e, kind) ==
  /\ CanRun(w)
  /\ registry[e] # None
  /\ job' = [job EXCEPT ![w] = [at |-> "lookup", kind |-> kind, endpoint |-> e,
               player |-> registry[e], match |-> None, scan |-> {}, keys |-> {}]]
  /\ UNCHANGED <<registries, info, match, running, ghosts>>

\* matches_.find(player->matchId); without a match the message is dropped.
FindMatch(w) ==
  /\ job[w].at = "lookup"
  /\ LET m == matches[info[job[w].player].id] IN
       IF m = None THEN Finish(w)
       ELSE job' = [job EXCEPT ![w].match = m, ![w].at = "handle"]
  /\ UNCHANGED <<registries, info, match, running, ghosts>>

SetDisconnected(w, value) ==
  /\ info' = [info EXCEPT ![job[w].player].disconnected = value]
  /\ Finish(w)
  /\ UNCHANGED <<registries, match, running, ghosts>>

\* handleClientInput marks its player connected.
MarkConnected(w) ==
  /\ job[w].at = "handle" /\ job[w].kind = "input"
  /\ SetDisconnected(w, FALSE)

\* The Disconnecting message.
MarkDisconnected(w) ==
  /\ job[w].at = "handle" /\ job[w].kind = "disconnecting"
  /\ SetDisconnected(w, TRUE)

ClaimWinner_last(m, team) == winner' = [winner EXCEPT ![m] = team]

\* compare_exchange on winningTeamIndex: the first reporter wins.
ClaimWinner(m, team) ==
  winner' = [winner EXCEPT ![m] = IF @ = Undecided THEN team ELSE @]

\* The MatchResult message; here every client claims the team with its index.
RecordResult(w) ==
  /\ job[w].at = "handle" /\ job[w].kind = "result"
  /\ ClaimWinner(job[w].match, Index[job[w].endpoint])
  /\ Finish(w)
  /\ UNCHANGED <<registries, info, tickRunning, loops, pingPhases, running, ghosts>>

\* handleReady: set the flag, ...
SetReady(w) ==
  /\ job[w].at = "handle" /\ job[w].kind \in {"ready", "notReady"}
  /\ info' = [info EXCEPT ![job[w].player].ready = job[w].kind = "ready"]
  /\ Goto(w, "snapshot")
  /\ UNCHANGED <<registries, match, running, ghosts>>

\* ... take a snapshot of the match's players, ...
SnapshotPlayers(w) ==
  /\ job[w].at = "snapshot"
  /\ job' = [job EXCEPT ![w].at = "scanReady", ![w].scan = MembersOf(job[w].match)]
  /\ UNCHANGED <<registries, info, match, running, ghosts>>

ScanReady_own(w) ==
  /\ job[w].at = "scanReady"
  /\ \E o \in job[w].scan :
       IF info[o].ready
       THEN job' = [job EXCEPT ![w].scan = {}]
       ELSE Finish(w)
  /\ UNCHANGED <<registries, info, match, running, ghosts>>

ScanReady_ifAlone(w) ==
  /\ job[w].at = "scanReady"
  /\ \E o \in job[w].scan :
       IF info[o].ready /\ \A x \in Workers \ {w} : job[x].at # "scanReady"
       THEN job' = [job EXCEPT ![w].scan = @ \ {o}]
       ELSE Finish(w)
  /\ UNCHANGED <<registries, info, match, running, ghosts>>

\* ... look at one after the other until one is not ready, ...
ScanReady(w) ==
  /\ job[w].at = "scanReady"
  /\ \E o \in job[w].scan :
       IF info[o].ready
       THEN job' = [job EXCEPT ![w].scan = @ \ {o}]
       ELSE Finish(w)
  /\ UNCHANGED <<registries, info, match, running, ghosts>>

startTickLoop_again(m) ==
  /\ tickRunning' = [tickRunning EXCEPT ![m] = TRUE]
  /\ loops' = [loops EXCEPT ![m] = @ + 1]

\* compare_exchange on tickRunning; whoever sets it spawns the loop.
startTickLoop(m) ==
  IF tickRunning[m] THEN UNCHANGED <<tickRunning, loops>>
  ELSE /\ tickRunning' = [tickRunning EXCEPT ![m] = TRUE]
       /\ loops' = [loops EXCEPT ![m] = @ + 1]

\* ... and if all are, start a tick loop.
StartMatch(w) ==
  /\ job[w].at = "scanReady" /\ job[w].scan = {}
  /\ startTickLoop(job[w].match)
  /\ Finish(w)
  /\ UNCHANGED <<registries, info, pingPhases, winner, running, ghosts>>

-----------------------------------------------------------------------------
(* A tick loop.                                                            *)

\* The loop resumes; it leaves if tickRunning was cleared, else tick() marks
\* the players disconnected that were silent too long or could not be sent
\* to, and the check takes its snapshot.
Tick(w, m, lost) ==
  /\ CanRun(w) /\ loops[m] > 0
  /\ loops' = [loops EXCEPT ![m] = @ - 1]
  /\ IF tickRunning[m]
     THEN /\ info' = [o \in Player |-> IF o \in lost
                        THEN [info[o] EXCEPT !.disconnected = TRUE] ELSE info[o]]
          /\ job' = [job EXCEPT ![w] = [at |-> "check", kind |-> "loop",
                       endpoint |-> CHOOSE e \in Endpoints : TRUE, player |-> None,
                       match |-> m, scan |-> MembersOf(m),
                       keys |-> {e \in Endpoints : members[m][e] # None}]]
     ELSE UNCHANGED <<info, job>>
  /\ UNCHANGED <<registries, tickRunning, pingPhases, winner, running, ghosts>>

CheckDisconnected_unready(w) ==
  /\ job[w].at = "check"
  /\ \E o \in job[w].scan :
       IF info[o].disconnected /\ ~info[o].ready
       THEN job' = [job EXCEPT ![w].scan = @ \ {o}] /\ UNCHANGED loops
       ELSE Finish(w) /\ loops' = [loops EXCEPT ![job[w].match] = @ + 1]
  /\ UNCHANGED <<registries, info, tickRunning, pingPhases, winner, running, ghosts>>

\* One player of the snapshot: a connected one sends the loop to its timer.
CheckDisconnected(w) ==
  /\ job[w].at = "check"
  /\ \E o \in job[w].scan :
       IF info[o].disconnected
       THEN job' = [job EXCEPT ![w].scan = @ \ {o}] /\ UNCHANGED loops
       ELSE Finish(w) /\ loops' = [loops EXCEPT ![job[w].match] = @ + 1]
  /\ UNCHANGED <<registries, info, tickRunning, pingPhases, winner, running, ghosts>>

\* All were disconnected: sendEndMatch, a blocking HTTP request.
ReportEnd(w) ==
  /\ job[w].at = "check" /\ job[w].scan = {}
  /\ reports' = [reports EXCEPT ![job[w].match] = IF @ < MaxReports THEN @ + 1 ELSE @]
  /\ reportedWinner' = [reportedWinner EXCEPT ![job[w].match] = winner[job[w].match]]
  /\ Goto(w, "stop")
  /\ UNCHANGED <<registries, info, match, joined, running>>

StopRunning_missing(w) ==
  /\ job[w].at = "stop"
  /\ Goto(w, "unregister")
  /\ UNCHANGED <<registries, info, match, running, ghosts>>

StopRunning(w) ==
  /\ job[w].at = "stop"
  /\ tickRunning' = [tickRunning EXCEPT ![job[w].match] = FALSE]
  /\ Goto(w, "unregister")
  /\ UNCHANGED <<registries, info, loops, pingPhases, winner, running, ghosts>>

UnregisterPlayer_missing(w) ==
  /\ job[w].at = "unregister"
  /\ \E e \in job[w].keys : job' = [job EXCEPT ![w].keys = @ \ {e}]
  /\ UNCHANGED <<registries, info, match, running, ghosts>>

\* players_.erase for one key of the snapshot.
UnregisterPlayer(w) ==
  /\ job[w].at = "unregister"
  /\ \E e \in job[w].keys :
       /\ registry' = [registry EXCEPT ![e] = None]
       /\ job' = [job EXCEPT ![w].keys = @ \ {e}]
  /\ UNCHANGED <<matches, matchId, members, info, match, running, ghosts>>

ClearMatch(w) ==
  /\ job[w].at = "unregister" /\ job[w].keys = {}
  /\ members' = [members EXCEPT ![job[w].match] = [e \in Endpoints |-> None]]
  /\ Goto(w, "forget")
  /\ UNCHANGED <<matches, registry, matchId, info, match, running, ghosts>>

ForgetMatch_missing(w) ==
  /\ job[w].at = "forget"
  /\ Finish(w)
  /\ UNCHANGED <<registries, info, match, running, ghosts>>

\* matches_.erase by id; the loop ends.
ForgetMatch(w) ==
  /\ job[w].at = "forget"
  /\ matches' = [matches EXCEPT ![matchId[job[w].match]] = None]
  /\ Finish(w)
  /\ UNCHANGED <<registry, matchId, members, info, match, running, ghosts>>

-----------------------------------------------------------------------------
\* What a worker does once it has picked something up.
Step(w) ==
  \/ FindPlayer(w) \/ JoinMatch(w) \/ Register(w) \/ StartPingPhase(w)
  \/ FindMatch(w) \/ MarkConnected(w) \/ MarkDisconnected(w) \/ RecordResult(w)
  \/ SetReady(w) \/ SnapshotPlayers(w) \/ ScanReady(w) \/ StartMatch(w)
  \/ CheckDisconnected(w) \/ ReportEnd(w) \/ StopRunning(w)
  \/ UnregisterPlayer(w) \/ ClearMatch(w) \/ ForgetMatch(w)

Resume(m) == \E w \in Workers, lost \in SUBSET MembersOf(m) : Tick(w, m, lost)

\* stop(): io_context_.stop(), then the workers are joined.
Stop ==
  /\ MayStop /\ running /\ running' = FALSE
  /\ UNCHANGED <<registries, info, match, job, ghosts>>

Next ==
  \/ \E w \in Workers :
       \/ \E e \in Endpoints, id \in MatchIds, fetched \in BOOLEAN :
            NewConnection(w, e, id, fetched)
       \/ \E e \in Endpoints, kind \in Kinds : Receive(w, e, kind)
       \/ Step(w)
  \/ \E m \in Match : Resume(m)
  \/ Stop

Spec == Init /\ [][Next]_vars

\* Workers finish what they run, and the io_context resumes a suspended loop
\* although new datagrams keep its workers busy (its queue is first-in-first-out).
Fairness ==
  /\ \A w \in Workers : WF_vars(Step(w))
  /\ \A m \in Match : SF_vars(Resume(m))

FairSpec == Spec /\ Fairness

-----------------------------------------------------------------------------
(* Properties.                                                             *)

TypeOK ==
  /\ running \in BOOLEAN
  /\ matches \in [MatchIds -> Match \cup {None}]
  /\ registry \in [Endpoints -> Player \cup {None}]
  /\ matchId \in [Match -> MatchIds \cup {None}]
  /\ members \in [Match -> [Endpoints -> Player \cup {None}]]
  /\ info \in [Player -> [endpoint : Endpoints, id : MatchIds, ready : BOOLEAN,
                          disconnected : BOOLEAN] \cup {NoInfo}]
  /\ tickRunning \in [Match -> BOOLEAN]
  /\ loops \in [Match -> Nat] /\ pingPhases \in [Match -> Nat]
  /\ job \in [Workers -> Job \cup {Idle}]
  /\ joined \in [Player -> Match \cup {None}]
  /\ reports \in [Match -> 0..MaxReports]
  /\ winner \in [Match -> Indices \cup {Undecided}]
  /\ reportedWinner \in [Match -> Indices \cup {Undecided}]

\* The tick loops of m that have not yet reached the end of their cleanup.
RunningLoops(m) ==
  loops[m] + Cardinality({w \in Workers : job[w] # Idle /\ job[w].kind = "loop"
                                                        /\ job[w].match = m})

\* A match never has two tick loops at a time ("Start tick loop if not
\* already running").
OneLoop == \A m \in Match : RunningLoops(m) <= 1

\* A match is reported as ended at most once.
EndReportedOnce == \A m \in Match : reports[m] <= 1

\* tickRunning is never left set without a loop that will clear it, which
\* would make the match unstartable and keep it forever.
RunningHasLoop ==
  \A m \in Match : tickRunning[m] =>
    \/ loops[m] > 0
    \/ \E w \in Workers : job[w] # Idle /\ job[w].match = m /\ job[w].at \in {"check", "stop"}

\* Whoever becomes ready last starts the match: with no Ready message in
\* progress, a match whose players are all ready runs or has been ended.
NoLostStart ==
  \A m \in Match :
    (/\ MembersOf(m) # {} /\ \A o \in MembersOf(m) : info[o].ready
     /\ \A w \in Workers : job[w] # Idle => job[w].kind # "ready")
      => tickRunning[m] \/ reports[m] > 0

\* Once a match is gone from matches_, no endpoint is registered for it:
\* "Remove all players from global players_ map".
NoZombies ==
  \A e \in Endpoints : registry[e] # None =>
    LET m == joined[registry[e]] IN
      matches[matchId[m]] = m \/ \E w \in Workers : job[w] # Idle /\ job[w].match = m

\* The ping phase is started once for a match, although clients come back
\* from other ports.
PingPhaseOnce == \A m \in Match : pingPhases[m] <= 1

\* A running match that everyone has left is torn down, unless someone
\* comes back.
Abandoned(m) == tickRunning[m] /\ \A o \in MembersOf(m) : info[o].disconnected

AbandonedMatchEnds == \A m \in Match : Abandoned(m) ~> ~Abandoned(m) \/ ~running

\* What the match server is told about the winner is the match's last word.
\* A first result that is handled during the blocking report breaks it; that
\* nothing else does is proved (MatchEndProofs).
ReportedWinnerFinal ==
  \A m \in Match : reports[m] > 0 => reportedWinner[m] = winner[m]

\* A winner that was named to the match server stays the winner, whatever
\* results come in on either worker during and after the report.
ReportedWinnerStands ==
  \A m \in Match : reportedWinner[m] # Undecided => winner[m] = reportedWinner[m]

\* Up to its report a match has one tick loop, however many workers scan its
\* players and find them all ready at the same time.
OneLoopUntilReported == \A m \in Match : reports[m] = 0 => RunningLoops(m) <= 1

\* A match that was reported as ended is forgotten once nobody is at work,
\* although both workers may have run loops of it and others its handlers.
ReportedIsForgotten ==
  (\A w \in Workers : job[w] = Idle) =>
    \A m \in Match, id \in MatchIds : reports[m] > 0 => matches[id] # m

-----------------------------------------------------------------------------
(* With one worker, the lifecycle implements MatchPhases.                  *)

\* The match that an endpoint is registered for, up to its report.
SeatedAt(e) ==
  IF registry[e] = None \/ reports[joined[registry[e]]] > 0
  THEN None ELSE joined[registry[e]]

SeatOf(e) ==
  [match |-> SeatedAt(e),
   ready |-> SeatedAt(e) # None /\ info[registry[e]].ready,
   away  |-> SeatedAt(e) # None /\ info[registry[e]].disconnected]

PhaseOf(m) ==
  CASE matchId[m] = None -> "unborn"
    [] matchId[m] # None /\ reports[m] > 0 -> "ended"
    [] matchId[m] # None /\ reports[m] = 0 /\ tickRunning[m] -> "running"
    [] matchId[m] # None /\ reports[m] = 0 /\ ~tickRunning[m] -> "waiting"

\* The report is the end of a match; the rest of its cleanup shows no more.
Phases ==
  INSTANCE MatchPhases WITH
    Clients <- Endpoints, Matches <- Match, Ids <- MatchIds, Team <- Index,
    Unnamed <- None, Nowhere <- None, id <- matchId,
    phase <- [m \in Match |-> PhaseOf(m)], seat <- [e \in Endpoints |-> SeatOf(e)],
    verdict <- reportedWinner

\* With one worker, what clients see of a match is what MatchPhases says: it starts
\* only when all of its players are ready, ends once and only when all are
\* disconnected, with the verdict that was reached, and the teardown, made of a
\* report and erasures from three maps, is a single step for everyone else.
ImplementsPhases == Phases!Spec
=============================================================================
