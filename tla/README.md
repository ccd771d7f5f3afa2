# Verification of the OVS rollback UDP server

TLA+ models, TLC runs and TLAPS proofs for the relay server in this
repository (`src/rollback_server.cpp` and what it includes). The server connects
the clients of a peer-to-peer-style rollback game: each client sends its own
inputs, frame by frame, over UDP, and the server sends every client the inputs of
all players it has not acknowledged yet. It invents inputs for players whose
packets do not arrive, so that the others can play on.

## 1. Inventory

### Parts, state and operations

| Part | Code | State | Operations |
| --- | --- | --- | --- |
| Match input relay | `handleClientInput`, `handlePlayerInputAck`, `tick`, `sendPlayerInput` | per match: one input map per player (frame -> input), `currentFrame`; per player: `ackedFrames`, `missedInputs`, `lastClientFrame`, `disconnected` | store inputs, take acknowledgements, relay / repeat / predict, periodic cleanup |
| Match lifecycle | `handleNewConnection`, `handleReady`, the MatchResult case of `handleMessage`, `startTickLoop`, `runTickLoop`, `sendEndMatch`, `stop` | `matches_`, `players_`, `match->players`, `tickRunning`, `winningTeamIndex`, `running_`, the tick coroutines | create and join a match, ready, start, record the winner, detect abandonment, report and tear down, stop the server |
| Player channel | `handleMessage`, `startPingPhase`, `broadcastRequestQuality`, `sendServerMessage`, ping part of `handlePlayerInputAck` | `sequenceCounter`, `pendingPings`, `lastSeqRecv`, `pingPhaseCount` | number and send messages, file their times, filter incoming messages, measure pings |
| Thread-safe map | `threadSafeMap.h` | a map and its lock | each operation atomic; `snapshot` copies |
| Ping and rift | `handlePlayerInputAck`, `calcRiftVariableTick` | `smoothedPing`, `smoothRift`, `lastClientFrame`, their flags | smooth the ping; smooth the distance between client and server frame |
| Tick pacing | `runTickLoop` 730-751, 794-882 | `nextTickTime`, `accumulatedError`, `currentFrame` | compute the next wake-up with drift compensation |
| Wire format | `serialization.cpp`, `message_types.h` | none | parse client messages, serialise server messages |
| Compression | `compression.cpp` | none | code each 8 bytes as a mask and the non-zero bytes |
| Match server client | `fetchMatchConfigFromServer`, `sendEndMatch` | none | two blocking HTTP requests |
| Process | `main.cpp`, `start`, `stop` | `running_`, the worker threads | start two threads, wait for a signal |

The vendored `include/nlohmann/json.hpp` is not modelled.

### How they interact

`start` runs one `io_context` on **two worker threads** (lines 107-119). One
coroutine receives datagrams and spawns `handleMessage` for each; a running match
has one tick coroutine; a match whose players have joined has a ping-phase coroutine;
replies and StartGame messages are sent by coroutines of their own. All share the
match and player objects. Handlers contain no `co_await`: a handler occupies its
worker until it returns. Coroutines give their worker back at each `co_await`
(every send, every timer). `ThreadSafeMap` locks one operation at a time; nothing
holds a lock across two operations (the one exception, the lock of `matches_` in
`handleNewConnection`, is held over the blocking HTTP request). Objects are held by
`shared_ptr`, so a handler goes on using a match that was erased from `matches_`.

### What is hard

* Handlers race with the tick between any two accesses of an input map, and with
  each other between any two accesses of different maps or of unlocked fields.
* UDP loses, doubles, delays and reorders; acknowledgements are cumulative, and the
  tick works with a copy of them.
* The server writes invented inputs into the same map that holds real ones, and cuts
  that map to a fixed size whatever has been acknowledged.
* Tearing a match down touches five places in a row, around a blocking HTTP request,
  while its players may return.
* `tick()` reads a counter after a `co_await` that was advanced before it.
* Acknowledgements are written under a lock taken in shared mode, so two of them can
  interleave and `ackedFrames` can fall back.
* Two pieces of code compute the size of a message, and the buffers are not checked; an
  exception in a send would end the tick loop without clearing `tickRunning`.
* The tick loop corrects its schedule from an error that its own corrections feed.

### What makes each part correct

* *Relay.* All clients are told the same input for the same frame (rollback netcode
  diverges otherwise); no client is sent a frame before the earlier ones; stored
  inputs are not overwritten; a silent peer does not stall the rest; a running match
  is not thrown back to its start. In short: a ledger of inputs (`FrameLedger`).
* *Lifecycle.* One tick loop and one end report per match; ready players are not left
  waiting; an abandoned match goes away, a match that is played on does not; nobody stays
  registered for a match that is gone; the winner that was reported stays the winner. In
  short: a match waits, runs and ends, and its end is one step (`MatchPhases`).
* *Channel.* Messages of a client are handled in order and once; a ping belongs to the
  message it answers.
* *Pacing, ping and rift.* The drift correction stays bounded, brings neither long pauses
  nor bursts of ticks; the frame follows the time; ping and rift are no further off than
  what was measured, and the rift tells a client that is ahead from one that is behind.
* *Wire format and compression.* Messages fit the buffers they are written and coded to,
  decoding inverts coding, the parser takes what was sent, every loop ends.

The hazards behind these, each at its line, are listed in `PROJECT.json`.

## 2. Modules

| Module | Models | Proofs |
| --- | --- | --- |
| `InputRelay` | the input relay of one running match | `InputRelayProofs` |
| `FrameLedger` | what the relay promises, without packets or threads (abstract) | `InputRelayRefinement`: `InputRelay` implements it |
| `MatchLifecycle` | creation, start, winner and teardown of matches, stop of the server | `MatchLifecycleProofs`, `MatchEndProofs` |
| `MatchPhases` | what the life of a match promises, without datagrams, maps or loops (abstract) | model-checked: `MatchLifecycle` with one worker implements it |
| `PlayerChannel` | numbering, pings and the sequence filter of one player | `PlayerChannelProofs` |
| `PacketCodec` | the compression of packets | |
| `WireFormat` | one message from payload to wire and back; extends `PacketCodec` | `WireFormatProofs` |
| `TickPacing` | the schedule of a match's ticks | |
| `MatchClock` | ticks, one client and the network: ping and rift; extends `TickPacing` | `MatchClockProofs` |
| `MC...` | small instances of each for TLC | |

Operators with a suffix after an underscore (`AlreadyStored_never`,
`startTickLoop_again`, ...) are mutants: plausible mistakes in the definition that
follows them, kept to show that each property notices one. No specification uses
them.

### InputRelay

The match has started and its players are known. `inputs[p][f]` is
`match->inputs[p]`, `ackedFrames`, `missedInputs`, `lastClientFrame` and
`disconnected` are the fields of the player objects.

* `ReceiveInput`, `FindInput`, `InsertInput` are `handleClientInput`: the header, then
  for each frame a `find` and an `insert_or_assign`, two locked steps. `job[w]` is the
  handler a worker runs.
* `ReceiveAck` and `WriteAck` are the comparison and the assignment in the
  acknowledgement loop of `handlePlayerInputAck`, two steps because the player's lock is
  only taken in shared mode. What a client may
  acknowledge is external: it acknowledges a frame after it has received all frames
  up to it. The model lets it acknowledge anything the server sent it (a superset of
  what arrives), at any later time, which covers loss, delay and reordering.
* `TickStart`, `SendStartGame`, `BeginRecipient`, `ServeReal`, `ServeRepeat`,
  `BeginPredict`, `PredictFrame`, `EndPredict`, `Send`, `Cleanup` are `tick()`;
  `TickCheck` is the end-of-match check in `runTickLoop`. `tickPc` is the coroutine's
  place. It owns a worker in the places `OnCpu` names; `CanRun` therefore lets handlers
  run during the prediction loop only if there is a second worker. After each send, the last
  one included (places "told" and "cleanup"), the worker is given back and has to be found again.
* `Cleanup` is one step, although lines 1046-1067 take the lock of a map for the snapshot
  and again for each erase. The frames it erases are the oldest of the snapshot; the inputs and acknowledgements
  of handlers in between neither change which these are nor are changed by their removal.
* `Peers` restricts the maps that are followed to some of the players. The maps of two
  players never interact (every access names one index), so a slice with one peer and
  two recipients has every behaviour of that peer's map.
* The values of inputs are abstract numbers; a client plays the same input in a frame
  whenever it resends it. Timeouts may happen on any tick; sends may fail at any time.

`sent`, `clobbered` and `overPruned` are history variables.

### FrameLedger

The promise the relay exists for: each player has a ledger of inputs, one per frame;
a reader is handed the frames of a ledger in order and without a gap, and no two
readings of a frame differ. A frame can be made exempt, for good. `InputRelay!Ledger` is the
refinement mapping: what a reader has seen is `sent`; exempt are frame 0 (the placeholder of
the repeat branch), frames a racing handler overwrote, and players of whom the cleanup
removed a frame that was still needed. `ImplementsLedger` says that every `Send` is a delivery
or a stutter and that all else stutters or forfeits frames.

### MatchLifecycle

Match and player objects are numbered, as they outlive their map entries; `matches`,
`registry` and `members` are the three maps. `job[w]` is the handler, or the part of a
tick loop after `tick()`, that a worker runs; each access of a map or of an unlocked
field is one action. `loops[m]` counts suspended tick loops of a match object.

* `NewConnection`, `FindPlayer`, `JoinMatch`, `Register`, `StartPingPhase`:
  `handleNewConnection`. The first holds the lock of `matches_` throughout, so finding,
  fetching and inserting are one step; a failed HTTP request is `~fetched`.
* `Receive`, `FindMatch`: the lookups of `handleMessage`.
* `MarkConnected` (Input), `MarkDisconnected` (Disconnecting), `SetReady`,
  `SnapshotPlayers`, `ScanReady`, `StartMatch`, `startTickLoop`: the handlers. Messages that
  the sequence filter drops are messages that never arrive here.
* `Tick`, `CheckDisconnected`, `ReportEnd`, `StopRunning`, `UnregisterPlayer`,
  `ClearMatch`, `ForgetMatch`: one round of `runTickLoop` and the cleanup. What `tick()`
  does to this module's state is to mark players disconnected (silent for
  `DISCONECT_TIMEOUT`, or a send failed); `lost` is that set.
* `RecordResult` is MatchResult, where the first reporter wins (`ClaimWinner`, one
  compare-and-exchange); `reportedWinner` is what `sendEndMatch` read.
* `Stop` is `stop()`: a stopped `io_context` takes up no further handler and no suspended
  coroutine (`CanRun`), and the workers, which `stop()` joins, finish what they run. Clearing
  `running_` and stopping the `io_context` are one step: a loop that sees the first without the
  second leaves at line 748, which is no different from not being resumed.
* `PlayersLeft` is a bound: a join arrives only while a player object is left.

### MatchPhases

What clients may rely on: they take seats at a match and keep them; a match waits, then runs, then
has ended; it starts when all who sit at it are ready and ends when all of them are away, and the end is
one step, which gives the verdict and frees the seats. `MatchLifecycle!Phases` is the refinement
mapping. A seat is an entry of `players_` for a match whose end was not reported; its flags
are those of the player object. A match waits from its creation, runs when `tickRunning` is set, and has
ended when its end is reported.
With two workers the code does not implement it: a player who takes back the ready flag on one
worker, between the scan and the start on another, is started nevertheless.

### PlayerChannel

One player. The other players of the match are sends that use up numbers
(`SendOther`). Time is only compared, so the clock is the message counter.
`TickSend`/`TickFile` are the two sides of the `co_await` in `tick()`: the time is taken
before, and filed under the value the counter has after it. `PingCheck`,
`PingSend`, `PingFile` are `broadcastRequestQuality`, which uses the number
`sendServerMessage` returned, 0 when nothing was sent. `Filter` and `Pass` are the read
and the write of `lastSeqRecv`. Any message of the client can arrive at any time and
again, with any content; the client answers only numbers it was asked under.

### PacketCodec and WireFormat

`msg` is one message (its kind, its number of players, its frames for each, and which of
its bytes are not zero) or a datagram of arbitrary bytes. A byte is the set of its bits.
`stage` is the place in the code.

* `Measure`, `MeasureFrames` are the first half of `serializeServerMessage`, `Write` and
  `WriteFrames` the second. The tables `FixedSize`, `MeasuredPerPlayer` and
  `WrittenPerPlayer` are the sizes of the two halves, which do not agree for a
  PlayersConfigurationData (four bytes measured, two written).
* `StartGroup`, `CodeByte`, `CloseGroup`, `EndCompress` are `compressPacket`, `ReadMask`,
  `DecodeByte`, `EndDecompress` `decompressPacket`, one step for each byte, with their
  exceptions as the stages "overflow" and "truncated".
* `Parse`, `ParseFrames`, `ParseChecksums` are `parseClientMessage`; `Word` reads like
  `readLittleEndian`, and `Next8` counts like a `uint8_t`.
* External: how clients write their messages (`WriteByClient`), and that they compress as the
  server does.

### TickPacing and MatchClock

Time is counted in units, `Interval` of which make a tick interval.

* `BeginTick`, `Pace` (with `HurryOn` and `Sleep`) and `Wake` are the three stretches of
  `runTickLoop` between `co_await`s: `tick()` takes any of `Works`, the timer fires any of
  `Lates` too late. `FrameNow` is the frame as computed from the elapsed time.
* `ReceiveInput` is the header of `handleClientInput`; `ReceiveAck`, `TakeSample`,
  `SmoothPing` the ping part of `handlePlayerInputAck`; `calcRiftVariableTick` the function of
  that name, called in `Tick`. Floats are fixed-point numbers rounded towards zero.
  `Sample` casts to 16 bits and then cuts at `MaxPing`, the 255 ms of line 550 (`Capped`).
* `SendPlayerInput` files a time under the message's own number. That line 1040 may file it under
  a later one, and files it too when nothing went out, is in `PlayerChannel`; here such a
  time is like one that was lost, or like one whose acknowledgement was.
* External: a client `lead` frames ahead of the server, whose inputs arrive or are lost, and
  acknowledgements that are on their way for `2 * Delay` and a jitter, and may be lost or
  come again (the second is more than the sequence filter lets through with one worker).

## 3. Runs

| Run | Instance | Question | Result |
| --- | --- | --- | --- |
| `relay_one_worker` | 2 players, 1 peer followed, 3 frames, 1 worker, history of 1 | types, the inductive invariant `RelayInv`, `NoGapsServed`, `StoredInputsSkipped`, `GateStaysOpen`, `ImplementsLedger` | hold (1.9 M states) |
| `relay_two_workers` | 2 workers, history of 2, no gate | `Agreement`, `SentFramesImmutable` | hold (4.4 M) |
| `relay_live` | 1 worker, one frame per packet, fair | `EventuallyServed` | holds (47 k) |
| `relay_overwrite` | 2 workers | `StoredInputsSkipped` | **violated** |
| `lifecycle` | 1 worker, 2 ids, 3 endpoints of 2 clients | `OneLoop`, `EndReportedOnce`, `NoZombies`, `PingPhaseOnce`, `ImplementsPhases` | hold (2.5 M) |
| `lifecycle_two_workers` | 2 workers, 1 match, 2 endpoints, fair | `NoLostStart`, `RunningHasLoop`, `ReportedWinnerStands`, `OneLoopUntilReported`, `ReportedIsForgotten`, `AbandonedMatchEnds` | hold (1.1 M) |
| `lifecycle_second_loop` | 2 workers | `OneLoop` | **violated** |
| `lifecycle_zombie` | 2 workers | `NoZombies` | **violated** |
| `channel` | 1 worker, 4 numbers, 2 client messages | `HandledInOrder`, `PingNotUnderstated` | hold (4.9 M) |
| `channel_race` | 2 workers | `HandledInOrder` | **violated** |
| `packets` | every message kind, 0 to 9 players, 0 to 255 frames, dense and sparse bytes, broken datagrams | `WritesInBounds`, `PacketsFit`, `DecodedFaithfully`, `ParsedAsSent`, `Terminates` | hold (39 k) |
| `clock` | ticks of half or five intervals, late timers, leads of -5 to 25 frames, 20 units | `ErrorBounded`, `PauseBounded`, `NoBurst`, `FrameFollowsClock`, `PingWithinSamples`, `RiftNotExaggerated`, `RiftPointsRight` | hold (8.1 M) |

The one-worker runs show what holds if `start` ran a single thread; the two-worker runs
show what survives the second thread and what does not. The four violations:

1. *A stored input is overwritten* (`relay_overwrite`). The prediction loop stores a
   frame between a handler's `find` and `insert_or_assign`; the handler then replaces an
   entry that was already relayed, against the comment "If we already have an input for
   this frame, skip it". `Agreement` with two workers shows this to be, besides the
   cleanup of frames a client still needs, the only way for clients to be told
   different inputs.
2. *A second tick loop* (`lifecycle_second_loop`). The cleanup clears `tickRunning`
   before it clears the players; a Ready handled in between starts a loop for a match
   that is being removed, which then reports the end of the match again.
3. *A zombie player* (`lifecycle_zombie`). A client that joins during the cleanup stays
   in `players_`, and every later NewConnection from its endpoint is answered with the
   stale player, whatever match it asks for.
4. *Out-of-order handling* (`channel_race`). `lastSeqRecv` is checked and written
   without a lock.

Related behaviour that no run states:

* A MatchResult handled during the blocking report, whose argument was read before, becomes the winner of a
  match that was reported without one (`ReportedWinnerFinal` is false). `ReportedWinnerStands` says that
  this is all that can happen: a winner that was told is never replaced.
* An Input handled between the check of its player's flag and the removal of the match reconnects the
  player; the match is "cleaned up (all players disconnected)" nevertheless.
* A client that comes back from another port is counted as another player, so the ping phase may start
  before every player has joined; two joins at the same moment on two workers may start two.

### Bounds

Three frames allow an acknowledged frame, a gap and a real input beyond it, which is
where predictions, late inputs and the cleanup meet. The limits of the code
(10 inputs before relaying, 10 repeats, 30 frames per packet, 150 entries kept) are
constants, set to 1 or 2 so that each is reached and exceeded; the proofs hold for all
their values. Two match ids let an ended match be followed by another and a
registered client ask for a second one; `lifecycle_two_workers` leaves out Disconnecting, which sets the flag
that a tick's timeout sets there; three endpoints let one client change its port.
Two workers are all there are. `MaxReports = 2` lets a second report be seen. One ping round, four
numbers and one tick after another suffice for a send to fall between a send and its
filing in both directions. Message and object counts are cut off in guards
(`FreshMatch`, `PlayersLeft`, `sequenceCounter < MaxSeq`). Either match may be stopped at any
point of its life, and each client claims a winner of its own. `packets` uses the real
sizes (1024 bytes, 30 frames, bytes of 8 bits); its messages are those at and around a
limit, among them 7 players (the last that always fit), 8 (the first that do not), 9 players
whose packet is full when a mask is due, and 251, 252 and 255 frames, where a client's
message ends at, or beyond, the end of the decoded buffer. `clock` ends at the horizon of 20
units, which is two long stalls or ten regular ticks; the shares and limits of the smoothing
are small so that clamping, halving and skipped refreshes occur within it. Its round trips
(at most 3) stay below the cap of 4, so that an acknowledgement that is counted late shows; the proofs
cover those above. None is long: an acknowledgement that comes more than 32 s late wraps the `int16_t` of line 547,
which `Int16` models but no run reaches.

### Fairness

Handlers have no suspension point, so a worker that runs one finishes it:
`WF(Handle(w))`, `WF(Step(w))`. Suspended coroutines are queued by the `io_context`, whose
queue is first-in-first-out, so one that keeps finding a free worker is resumed although
datagrams keep coming: `SF(Tick)`, `SF(Resume(m))`. `relay_live` also assumes that a
client that is sent a frame again and again has its acknowledgement received in the end
(`SF(ReceiveAck)`): without it no protocol over UDP makes progress. Nothing is assumed
about clients sending inputs, joining or leaving. `AbandonedMatchEnds` lets the server be
stopped instead. `Terminates` assumes that a function that has been called goes on
(`WF(Next)`); nothing in it waits for anyone.

`CHECK_DEADLOCK FALSE` is set where the modelled part may really come to rest: the match has
ended, clients have stopped sending, a packet was handled or refused, or the bound on numbers or
time is reached.

## 4. Proofs

`InputRelayProofs` proves, for every number of players, workers, frames and every
value of the limits, with two workers as with one:

* `TypeCorrect`: `Spec => []TypeOK`.
* `RelayInvariant`: `Spec => []RelayInv`.
* `AgreementHolds`: `Spec => []Agreement`, a conjunct of `RelayInv` restricted to what
  was sent.
* `SentFramesStay`: `Spec => SentFramesImmutable`.

`Agreement` is not inductive: that two sends of a frame agree depends on the map still
holding what was sent. `RelayInv` adds: clients acknowledge only what they were sent,
and the tick's copy of the acknowledgements is no newer than the original
(`AcksFollowSends`); every frame from some recipient's acknowledgement up to the last
published one is stored, with the published value (`PublishedIsStored`); the prediction
loop, which overwrites without looking, is always past everything published
(`PredictionIsNew`). The last is the heart of the matter: a prediction starts at a frame
that is *missing*, a published needed frame is never missing, hence nothing published
lies at or beyond it. The proofs go by action; the lemmas `PackStored`,
`InsertPreserves`, `AckWritten`, `PredictPreserves` and `TickPreserves` take the hard ones.
An acknowledgement that a racing one overwrites may make `ackedFrames` fall back; the invariant
therefore speaks of frames from *some* acknowledgement on, those that handlers are about to
write included (`MayBeNeeded`). The only assumptions are those of the module on its constants.

Two more theorems have a hypothesis each:

* `RelayStaysOpen`: `MinHistory <= PruneKeep` (10 and 150 in the code) gives `GateStaysOpen`.
  Handlers and predictions only add to a map; the cleanup removes what lies `PruneKeep` or more
  below the highest frame, and only from a map that is longer than that. What it keeps may
  have gaps; the proof counts upwards from the least frame that stays.
* `OnlyPredictionsOverwritten`: `Spec /\ []PredictsApart => []StoredInputsSkipped`. `PredictsApart` says that
  while a handler is between its look-up and its write of a frame, the prediction loop does not
  store that frame. `StoredInputsSkipped` fails (`relay_overwrite`); the theorem says that this race is
  the only way: two handlers that race for a frame write the same input (`InsertsFit`), and the cleanup only
  removes.

`InputRelayRefinement` builds on these:

* `NoGapsEverServed`: `Spec => []NoGapsServed`, from the invariant `PackedInOrder`: what is in the
  packet continues what its recipient was sent, and the prediction loop leaves no gap in it.
* `LedgerImplemented`: `Spec => ImplementsLedger`. A `Send` delivers: the packet keeps the order
  (`PackedInOrder`) and contradicts nobody (`PublishedAgrees`). `InsertInput` and `Cleanup`
  may exempt frames; every other step leaves the ledger alone.

`MatchLifecycleProofs` proves, for any number of workers, matches, endpoints and players:

* `LifecycleTypes`: `Spec => []TypeOK`, from `WellFormed`, which adds that what a job, a registry
  or a match refers to exists (`JobsFine`, `RegistriesFine`, `LoopsFine`).
* `RunningMatchHasLoop`: `Spec => []RunningHasLoop`, inductive together with `WellFormed`:
  the tick that takes a loop out of `loops` is the job that checks the match.
* `ReadyMatchStarts`: `Spec /\ []ForgetsOwn => []NoLostStart`. Handlers on several workers flag
  themselves ready and count who is; whoever comes last must see the full count.
  `Starts` says that a match of ready players is started (`Settled`) or some worker with a
  Ready message is at its snapshot, or at its scan of nothing but present members (`Covers`): each flag
  is set before its setter takes the snapshot. It rests on four invariants about
  who can still reach a match: `JoinedInv`, `HandlerInv`, `KeptInv` (a match that was never
  reported is still found under its id) and `CleanupInv` (one that is cleaned up was reported).
  `KeptInv` is what `ForgetsOwn` is for: when two loops of one match end, the
  second forgets the id, which a newer match may have taken by then, and with it a match that
  nobody reported. The case is real (`lifecycle_second_loop` shows the two loops); the theorem says that nothing
  else loses a start.

`MatchEndProofs` is about the end of a match, for any number of workers, matches, endpoints and
players. Some of it holds however handlers interleave with the report and the cleanup:

* `OneLoopToTheReport`: `Spec => []OneLoopUntilReported` and `ReportedMatchForgotten`:
  `Spec => []ReportedIsForgotten`, from `ReportInv`. Before the report, a match has a loop only while
  `tickRunning` is set, and then the loop is suspended or at work, not both (`FirstLoop`); after it,
  the match is forgotten or some worker is still in its cleanup or in a loop of it (`ForgottenInv`).
* `WinnerStands`: `Spec => []ReportedWinnerStands`.

The rest fails with two workers, and the theorems say what it takes. `CleanupUndisturbed`:
from the moment a worker has read the winner for the report to the end of its cleanup (lines 773 to 788, the
blocking request included), no other worker has that match in hand.

* `UndisturbedOneLoop`, `UndisturbedReportsOnce`, `UndisturbedWinnerFinal`:
  `Spec /\ []CleanupUndisturbed` gives `[]OneLoop`, `[]EndReportedOnce` and `[]ReportedWinnerFinal`, from
  `EndingsInv`: a reported match is being cleaned up by one worker, or is gone for good.
* `UndisturbedStarts`: it also gives `ForgetsOwn`, and hence `[]NoLostStart` by `ReadyMatchStarts`, for matches
  created again under the same id, too.

The assumptions are those of the module on its constants (among them `MatchIdsAssumption`,
`IndexAssumption`, `BoundsAssumption`).

`PlayerChannelProofs` proves, for any number of workers and any bounds:

* `ChannelTypes`: `Spec => []TypeOK`.
* `PingsHold`: `Spec => []PingNotUnderstated`, from the invariant `StampsPrecede`: as long as
  the player was never disconnected, every filed time, and every time a coroutine is about
  to file, precedes the number it is (or will be) filed under.
* `InOrderOneByOne`: `Spec /\ []PassedOneByOne => []HandledInOrder`. `PassedOneByOne` says that no two workers
  hold at once a message that passed the filter and is not yet handled; `HandledInOrder` fails
  without (`channel_race`), and the theorem says that this is the only way. `HandledUpTo` ties the last
  number the filter let pass, the message in a worker's hands and the list of those handled together.

`WireFormatProofs` proves, for every set of messages that satisfies `MessagesAssumption` (up
to 255 players, up to 30 frames for each, any content) and every datagram:

* `PacketTypes`: `Spec => [](TypeOK /\ Untouched)`: all positions stay in their buffers.
* `SerializerStaysInBounds`: `Spec => []WritesInBounds`. `mark` records the measured size
  before each player's frames; the writer is never past the mark of the player it is at.
* `PacketsAlwaysFit`: `Spec => []PacketsFit`. What the coder has written is at most what it has
  read and a mask for each eight bytes; seven players make 5 + 15 + 7 * 125 bytes, 1008 when coded.
* `DecodesWhatWasCoded`: `Spec => []DecodedFaithfully`. `coding` records, for each coded
  byte, its group's mask, its bit and where the output ended. `CodedInv` says that the
  closed groups' masks and bytes spell the message, `DecodedInv` that the decoder stands at the byte
  it is to decode and in that byte's group.
* `ParsesWhatWasSent`: `Spec => []ParsedAsSent`, for the messages of clients. `WrittenByClient` says
  where the client put which number, `ParserInv` what the parser has taken from the bytes before its
  position (`WordsRead` for the words of a loop, cut off where the buffer ends);
  `BitsInjective` and `TypeCodesDiffer` make what was read the number, or the kind, that was
  written, and `DecodesWhatWasCoded` brings the bytes through the coder.

`MatchClockProofs` proves, for every interval, every duration of ticks and lateness of timers:

* `ErrorStaysBounded`, `PausesStayBounded` and `FrameKeepsUp` from `ScheduleInv` and `FrameInv`.
* `NoBursts`: `ASSUME Interval >= 8 PROVE Spec => []NoBurst` (the interval is some 16 million
  of the code's nanoseconds). `BurstInv` says that the error which a round finds, once what
  that round lost is added, is at most one and a half intervals and 4: a quarter of it,
  which is what the next schedule is moved by, then leaves room for a wait after a quick tick.

These apply to the loop alone (`StepsAreLoopSteps`): whatever else happens lets time pass up to
what the loop waits for. About the clients' messages it proves:

* `ClockTypes`: `Spec => []TypeOK`; a new sample is clamped, and a weighted mean of numbers in a
  range lies in that range.
* `PingsWithinSamples`: `Spec => []PingWithinSamples`. `AcksInv`: an acknowledgement on its way
  answers a message sent at least a round trip before it is due and at most a round trip and the jitter.
* `RiftStaysPlausible` and `RiftSignRight`: `Spec => []RiftNotExaggerated` and
  `Spec => []RiftPointsRight`. `ClientInv`: the newest frame that arrived is as old as the
  losses and the way allow; with `FrameInv`, which bounds how far the server's own frame lags,
  a raw rift is off by no more than `TooLow` and `TooHigh`; the smoothed one, rounded towards
  zero, moves towards the raw one and not past it.

Round trips may be longer than the 255 ms that a sample is cut at: `PingWithinSamples` then bounds the
ping by the cap, and `TooLow` contains the half of what the cap cuts off, by which such a client seems
further behind than it is.

The last three assume `2 * Delay + MaxJitter < 2^15`: the sample is cast to 16 bits before it is
cut, and an answer that takes more than 32 seconds would come out negative or small. The
frame time of the module is at least 1 and so is `MaxRift`, as in the code.

Only model-checked: the liveness properties (`EventuallyServed`, `AbandonedMatchEnds`,
`Terminates`), because the prover has neither fairness nor `ENABLED`; and `NoZombies`, `PingPhaseOnce` and
`ImplementsPhases`, which hold with one worker and which a join or a change of flags on a second one breaks.

## 5. Not modelled

* `include/nlohmann/json.hpp`: vendored, and more than nine tenths of the lines under
  `src/` (25,526 of 27,965). The server's own code has some 2,400 lines; the models can cover
  no more than that.
* Exceptions inside `tick()` (line 751) other than those of the coder, and an error of the timer (lines
  845-849): both would end the coroutine with `tickRunning` set, which `RunningHasLoop` therefore does
  not cover. Those of the coder are in `WireFormat`: none up to seven players.
* `playerIndex` outside the match's range: joins are taken to be well-formed.
* The strings of a NewConnection, and the contents of the messages other than their size.
* The fields `ping` and `rift` of the player object (copies of a sample, of `smoothedPing`, of a raw
  rift, for messages and the log), `packetsLossPercent` (which broadcastRequestQuality sends
  without setting it).
* That the rift is refreshed at all: after frame 500 only a tick that begins in a frame divisible
  by 60 does it, and no tick need begin in a given frame.
* Two joins at the same moment on two workers, which may start two ping phases
  (`PingPhaseOnce` holds with one worker).
* What a player is told after the ping of a failed send was filed under number 0
  (`PingNotUnderstated` exempts a player to whom a send failed).
* HTTP, JSON, logging, command line, signals and environment.

## 6. Plan

1. Done: `InputRelay` with proofs and its refinement of `FrameLedger`; `MatchLifecycle` with
   the winner, `stop()` and proofs; `PlayerChannel` with proofs; `PacketCodec` and `WireFormat` with
   proofs; `TickPacing` and `MatchClock` with proofs of the pacing.
2. Done: proofs for any number of workers of what holds for any number, and, for what a second
   worker breaks, of the hypothesis it takes.
3. Done: the abstract specification `MatchPhases`, which `MatchLifecycle` implements with one
   worker.
