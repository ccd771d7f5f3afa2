------------------------ MODULE PlayerChannelProofs ------------------------
(* Type correctness of PlayerChannel, that no measured ping is shorter     *)
(* than the way of the message it answers, and that a client's messages    *)
(* are handled in the order they were sent unless two that passed the      *)
(* filter are in hand at once.                                             *)
EXTENDS PlayerChannel, TLAPS, SequenceTheorems

JobType == {Idle} \cup
  [at : {"filter", "pass", "answer", "input", "disconnecting", "erase"}, msg : Message]

LEMMA Constants ==
  /\ PingTotal \in Nat /\ MaxSeq \in Nat /\ MaxClientSeq \in Nat
  /\ \A s \in Numbers : s \in Stamps /\ s \in Int
  /\ \A s \in Stamps : s \in Int
  /\ 0 \in Numbers /\ -1 \in Stamps
BY BoundsAssumption DEF Numbers, Stamps

\* Filing keeps the map in its type.
LEMMA FileType ==
  ASSUME TypeOK, NEW n, NEW s \in Stamps \cup {NoStamp}, File(n, s)
  PROVE  pendingPings' \in [Numbers -> Stamps \cup {NoStamp}]
BY DEF File, TypeOK

\* Numbering keeps the counter and the questions in their types.
LEMMA NumberType ==
  ASSUME TypeOK, Number
  PROVE  sequenceCounter' \in Stamps /\ asked' \subseteq Numbers
         /\ (~disconnected => NextNumber \in Numbers)
<1>1. sequenceCounter \in -1..MaxSeq /\ MaxSeq \in Nat /\ asked \subseteq Numbers
  BY Constants DEF TypeOK, Stamps
<1>2. CASE disconnected
  BY <1>1, <1>2 DEF Number, Stamps
<1>3. CASE ~disconnected
  <2>1. /\ sequenceCounter < MaxSeq /\ sequenceCounter' = sequenceCounter + 1
        /\ asked' = asked \cup {sequenceCounter + 1}
    BY <1>3 DEF Number, NextNumber
  <2>2. sequenceCounter + 1 \in 0..MaxSeq
    BY <1>1, <2>1
  <2> QED
    BY <1>1, <2>1, <2>2 DEF NextNumber, Numbers, Stamps
<1> QED
  BY <1>2, <1>3

\* What a worker's locals may be.
LEMMA JobFields ==
  ASSUME TypeOK, NEW w \in Workers, job[w].at # "idle"
  PROVE  /\ job[w] \in [at : {"filter", "pass", "answer", "input", "disconnecting", "erase"},
                        msg : Message]
         /\ job[w].msg \in Message
         /\ job[w].msg.seq \in 1..MaxClientSeq /\ job[w].msg.answers \in Numbers
         /\ job[w].msg.kind \in {"answer", "input", "disconnecting"}
BY DEF TypeOK, Idle, Message

-----------------------------------------------------------------------------
(* Type correctness.  The ping phase's counter needs that no round begins  *)
(* once all are done.                                                      *)

RoundLeft == ping.at # "idle" => pingPhaseCount < PingTotal

Typed == TypeOK /\ RoundLeft

\* The end of a round is counted.
LEMMA EndRoundType ==
  ASSUME Typed, ping.at # "idle", EndRound
  PROVE  ping' = Idle /\ pingPhaseCount' \in 0..PingTotal /\ RoundLeft'
BY Constants DEF Typed, TypeOK, RoundLeft, EndRound, Idle

\* The steps of the coroutines that send.
LEMMA SendTypes ==
  ASSUME Typed,
         \/ SendOther \/ TickSend \/ BeginRound \/ PingCheck \/ PingSend
         \/ \E ok \in BOOLEAN : TickFile(ok) \/ PingFile(ok)
  PROVE  Typed'
<1> USE DEF Typed
<1>1. CASE SendOther
  BY <1>1, Constants DEF SendOther, TypeOK, RoundLeft, player, sends, ghosts, Stamps
<1>2. CASE TickSend
  <2>1. sequenceCounter \in Stamps
    BY DEF TypeOK
  <2>2. tick' \in [at : {"file"}, stamp : Stamps]
    BY <1>2, <2>1 DEF TickSend
  <2> QED
    BY <1>2, <2>2, NumberType DEF TickSend, TypeOK, RoundLeft, player, ghosts
<1>3. ASSUME NEW ok \in BOOLEAN, TickFile(ok) PROVE Typed'
  <2>1. tick.stamp \in Stamps
    BY <1>3 DEF TickFile, TypeOK, Idle
  <2>2. pendingPings' \in [Numbers -> Stamps \cup {NoStamp}]
    BY <1>3, <2>1, FileType DEF TickFile
  <2>3. disconnected' \in BOOLEAN /\ wasLost' \in BOOLEAN
    BY <1>3 DEF TickFile, SendResult
  <2> QED
    BY <1>3, <2>2, <2>3 DEF TickFile, TypeOK, RoundLeft
<1>4. CASE BeginRound
  <2>1. ping' \in [at : {"check", "send"}, stamp : Stamps]
    BY <1>4 DEF BeginRound, TypeOK
  <2> QED
    BY <1>4, <2>1 DEF BeginRound, TypeOK, RoundLeft, player, ghosts
<1>5. CASE PingCheck
  <2>1. ping \in [at : {"check", "send"}, stamp : Stamps] /\ ping.at # "idle"
    BY <1>5 DEF PingCheck, TypeOK, Idle
  <2>2. UNCHANGED <<sequenceCounter, pendingPings, player, tick, job, asked, ghosts>>
    BY <1>5 DEF PingCheck
  <2>3. CASE EndRound
    BY <2>1, <2>2, <2>3, EndRoundType DEF TypeOK, player, ghosts
  <2>4. CASE ping' = [ping EXCEPT !.at = "send"] /\ UNCHANGED pingPhaseCount
    <3>1. ping' \in [at : {"check", "send"}, stamp : Stamps]
      BY <2>1, <2>4
    <3> QED
      BY <2>1, <2>2, <2>4, <3>1 DEF TypeOK, RoundLeft, player, ghosts
  <2> QED
    BY <1>5, <2>3, <2>4 DEF PingCheck
<1>6. CASE PingSend
  <2>1. ping.stamp \in Stamps /\ ping.at # "idle"
    BY <1>6 DEF PingSend, TypeOK, Idle
  <2>2. (IF disconnected THEN 0 ELSE NextNumber) \in Numbers
    BY <1>6, NumberType, Constants DEF PingSend
  <2>3. ping' \in [at : {"file"}, stamp : Stamps, number : Numbers]
    BY <1>6, <2>1, <2>2 DEF PingSend
  <2> QED
    BY <1>6, <2>1, <2>3, NumberType DEF PingSend, TypeOK, RoundLeft, player, ghosts
<1>7. ASSUME NEW ok \in BOOLEAN, PingFile(ok) PROVE Typed'
  <2>1. ping.stamp \in Stamps /\ ping.at # "idle"
    BY <1>7 DEF PingFile, TypeOK, Idle
  <2>2. pendingPings' \in [Numbers -> Stamps \cup {NoStamp}]
    BY <1>7, <2>1, FileType DEF PingFile
  <2>3. disconnected' \in BOOLEAN /\ wasLost' \in BOOLEAN
    BY <1>7 DEF PingFile, SendResult
  <2> QED
    BY <1>7, <2>1, <2>2, <2>3, EndRoundType DEF PingFile, TypeOK
<1> QED
  BY <1>1, <1>2, <1>3, <1>4, <1>5, <1>6, <1>7

\* The steps of the datagram handlers.
LEMMA HandlerTypes ==
  ASSUME Typed, NEW w \in Workers,
         \/ \E msg \in Message : Receive(w, msg)
         \/ Filter(w) \/ Pass(w) \/ SetConnection(w) \/ FindPing(w) \/ ErasePing(w)
  PROVE  Typed'
<1> USE DEF Typed
<1> DEFINE Places == {"filter", "pass", "answer", "input", "disconnecting", "erase"}
<1>0. Idle \in JobType /\ job \in [Workers -> JobType]
  BY DEF JobType, TypeOK
<1>1. ASSUME NEW msg \in Message, Receive(w, msg) PROVE Typed'
  <2>1. [at |-> "filter", msg |-> msg] \in JobType
    BY DEF JobType
  <2>2. job' \in [Workers -> JobType]
    BY <1>0, <1>1, <2>1 DEF Receive
  <2> QED
    BY <1>1, <2>2 DEF Receive, TypeOK, JobType, RoundLeft, player, sends, ghosts
<1>2. CASE Filter(w)
  <2>1. [job[w] EXCEPT !.at = "pass"] \in JobType
    BY <1>2, JobFields DEF Filter, JobType
  <2>2. job' \in [Workers -> JobType]
    BY <1>0, <1>2, <2>1 DEF Filter
  <2> QED
    BY <1>2, <2>2 DEF Filter, TypeOK, JobType, RoundLeft, player, sends, ghosts
<1>3. CASE Pass(w)
  <2>1. job[w] \in [at : Places, msg : Message] /\ job[w].msg.seq \in 1..MaxClientSeq
        /\ job[w].msg.kind \in {"answer", "input", "disconnecting"}
    BY <1>3, JobFields DEF Pass
  <2>2. [job[w] EXCEPT !.at = job[w].msg.kind] \in JobType
    BY <2>1 DEF JobType
  <2>3. job' \in [Workers -> JobType]
    BY <1>0, <1>3, <2>2 DEF Pass
  <2>4. lastSeqRecv' \in 0..MaxClientSeq
    BY <1>3, <2>1, Constants DEF Pass
  <2> QED
    BY <1>3, <2>3, <2>4 DEF Pass, TypeOK, JobType, RoundLeft, sends, ghosts
<1>4. CASE SetConnection(w)
  <2>1. job[w].msg.seq \in 1..MaxClientSeq
    BY <1>4, JobFields DEF SetConnection
  <2>2. job' \in [Workers -> JobType]
    BY <1>0, <1>4 DEF SetConnection
  <2>3. handled' \in Seq(1..MaxClientSeq)
    BY <1>4, <2>1 DEF SetConnection, TypeOK
  <2>4. disconnected' \in BOOLEAN /\ wasLost' \in BOOLEAN
    BY <1>4 DEF SetConnection
  <2> QED
    BY <1>4, <2>2, <2>3, <2>4 DEF SetConnection, TypeOK, JobType, RoundLeft, sends
<1>5. CASE FindPing(w)
  <2>1. job[w] \in [at : Places, msg : Message] /\ job[w].msg.seq \in 1..MaxClientSeq
        /\ job[w].msg.answers \in Numbers
    BY <1>5, JobFields DEF FindPing
  <2>2. [job[w] EXCEPT !.at = "erase"] \in JobType
    BY <2>1 DEF JobType
  <2>3. job' \in [Workers -> JobType]
    BY <1>0, <1>5, <2>2 DEF FindPing
  <2>4. handled' \in Seq(1..MaxClientSeq)
    BY <1>5, <2>1 DEF FindPing, TypeOK
  <2>5. samples' \subseteq Numbers \X Stamps
    <3>1. pendingPings[job[w].msg.answers] \in Stamps \cup {NoStamp}
      BY <2>1 DEF TypeOK
    <3> QED
      BY <1>5, <2>1, <3>1 DEF FindPing, TypeOK
  <2> QED
    BY <1>5, <2>3, <2>4, <2>5 DEF FindPing, TypeOK, JobType, RoundLeft, player, sends
<1>6. CASE ErasePing(w)
  <2>1. job' \in [Workers -> JobType]
    BY <1>0, <1>6 DEF ErasePing
  <2>2. pendingPings' \in [Numbers -> Stamps \cup {NoStamp}]
    BY <1>6, FileType DEF ErasePing
  <2> QED
    BY <1>6, <2>1, <2>2 DEF ErasePing, TypeOK, JobType, RoundLeft, player, sends, ghosts
<1> QED
  BY <1>1, <1>2, <1>3, <1>4, <1>5, <1>6

LEMMA TypedInvariant == Spec => []Typed
<1>1. Init => Typed
  <2> SUFFICES ASSUME Init PROVE Typed
    OBVIOUS
  <2>1. pendingPings \in [Numbers -> Stamps \cup {NoStamp}] /\ job \in [Workers -> JobType]
    BY DEF Init, JobType
  <2>2. handled \in Seq(1..MaxClientSeq)
    BY DEF Init
  <2> QED
    BY <2>1, <2>2, Constants DEF Init, Typed, TypeOK, RoundLeft, Idle, JobType
<1>2. Typed /\ [Next]_vars => Typed'
  <2> SUFFICES ASSUME Typed, [Next]_vars PROVE Typed'
    OBVIOUS
  <2>1. CASE Next
    BY <2>1, SendTypes, HandlerTypes DEF Next
  <2>2. CASE UNCHANGED vars
    BY <2>2 DEF Typed, TypeOK, RoundLeft, vars, player, sends, ghosts
  <2> QED
    BY <2>1, <2>2
<1> QED
  BY <1>1, <1>2, PTL DEF Spec

\* Every variable of the channel stays in its type.
THEOREM ChannelTypes == Spec => []TypeOK
<1>1. Typed => TypeOK
  BY DEF Typed
<1> QED
  BY <1>1, TypedInvariant, PTL

-----------------------------------------------------------------------------
(* Pings.                                                                  *)

\* Unless the player was ever disconnected, every time that is filed, or that
\* a coroutine is about to file, precedes the number it is filed under.
StampsPrecede ==
  wasLost \/
    /\ ~disconnected
    /\ tick.at = "file" => tick.stamp < sequenceCounter
    /\ ping.at \in {"check", "send"} => ping.stamp <= sequenceCounter
    /\ ping.at = "file" => ping.stamp < ping.number
    /\ \A s \in Numbers : pendingPings[s] < s
    /\ \A sample \in samples : sample[2] < sample[1]

\* A step of a sending coroutine files only times that precede their number.
LEMMA SendsPrecede ==
  ASSUME Typed, StampsPrecede, ~wasLost',
         \/ SendOther \/ TickSend \/ BeginRound \/ PingCheck \/ PingSend
         \/ \E ok \in BOOLEAN : TickFile(ok) \/ PingFile(ok)
  PROVE  StampsPrecede'
<1>0. sequenceCounter \in Int /\ NoStamp \in Int
      /\ pendingPings \in [Numbers -> Stamps \cup {NoStamp}]
  BY Constants DEF Typed, TypeOK, NoStamp
<1>1. CASE SendOther
  <2>1. /\ sequenceCounter' = sequenceCounter + 1
        /\ UNCHANGED <<pendingPings, disconnected, tick, ping, samples, wasLost>>
    BY <1>1 DEF SendOther, player, sends, ghosts
  <2>2. tick.at = "file" => tick.stamp \in Int
    BY Constants DEF Typed, TypeOK, Idle
  <2>3. ping.at \in {"check", "send"} => ping.stamp \in Int
    BY Constants DEF Typed, TypeOK, Idle
  <2> QED
    BY <1>0, <2>1, <2>2, <2>3 DEF StampsPrecede
<1>2. CASE TickSend
  <2>1. /\ ~disconnected /\ sequenceCounter' = sequenceCounter + 1
        /\ tick' = [at |-> "file", stamp |-> sequenceCounter]
        /\ UNCHANGED <<pendingPings, disconnected, ping, samples, wasLost>>
    BY <1>2 DEF TickSend, Number, StampsPrecede, player, ghosts
  <2>2. ping.at \in {"check", "send"} => ping.stamp \in Int
    BY Constants DEF Typed, TypeOK, Idle
  <2> QED
    BY <1>0, <2>1, <2>2 DEF StampsPrecede
<1>3. ASSUME NEW ok \in BOOLEAN, TickFile(ok) PROVE StampsPrecede'
  <2>1. /\ ~wasLost /\ tick.at = "file" /\ ~disconnected' /\ tick' = Idle
        /\ UNCHANGED <<sequenceCounter, ping, samples>>
    BY <1>3 DEF TickFile, SendResult, StampsPrecede
  <2>2. tick.stamp < sequenceCounter
    BY <2>1 DEF StampsPrecede
  <2>3. \A s \in Numbers : pendingPings'[s] < s
    BY <1>0, <1>3, <2>1, <2>2 DEF TickFile, TickKey, File, StampsPrecede
  <2> QED
    BY <2>1, <2>3 DEF StampsPrecede, Idle
<1>4. CASE BeginRound
  <2>1. /\ ping' = [at |-> "check", stamp |-> sequenceCounter]
        /\ UNCHANGED <<sequenceCounter, pendingPings, disconnected, tick, samples, wasLost>>
    BY <1>4 DEF BeginRound, player, ghosts
  <2> QED
    BY <1>0, <2>1 DEF StampsPrecede
<1>5. CASE PingCheck
  <2>1. /\ ping.at = "check" /\ ~disconnected
        /\ UNCHANGED <<sequenceCounter, pendingPings, disconnected, tick, samples, wasLost>>
    BY <1>5 DEF PingCheck, StampsPrecede, player, ghosts
  <2>2. ping \in [at : {"check", "send"}, stamp : Stamps]
    BY <2>1 DEF Typed, TypeOK, Idle
  <2>3. ping'.at = "send" /\ ping'.stamp = ping.stamp
    BY <1>5, <2>1, <2>2 DEF PingCheck
  <2> QED
    BY <2>1, <2>3 DEF StampsPrecede
<1>6. CASE PingSend
  <2>1. /\ ping.at = "send" /\ ~disconnected /\ sequenceCounter' = sequenceCounter + 1
        /\ ping'.at = "file" /\ ping'.stamp = ping.stamp
        /\ ping'.number = sequenceCounter + 1
        /\ UNCHANGED <<pendingPings, disconnected, tick, samples, wasLost>>
    BY <1>6 DEF PingSend, Number, NextNumber, StampsPrecede, player, ghosts
  <2>2. ping.stamp \in Int /\ (tick.at = "file" => tick.stamp \in Int)
    BY <2>1, Constants DEF Typed, TypeOK, Idle
  <2> QED
    BY <1>0, <2>1, <2>2 DEF StampsPrecede
<1>7. ASSUME NEW ok \in BOOLEAN, PingFile(ok) PROVE StampsPrecede'
  <2>1. /\ ~wasLost /\ ok /\ ping.at = "file" /\ ~disconnected' /\ ping' = Idle
        /\ UNCHANGED <<sequenceCounter, tick, samples>>
    BY <1>7 DEF PingFile, SendResult, EndRound, StampsPrecede
  <2>2. ping.stamp < ping.number
    BY <2>1 DEF StampsPrecede
  <2>3. \A s \in Numbers : pendingPings'[s] < s
    BY <1>0, <1>7, <2>1, <2>2 DEF PingFile, File, StampsPrecede
  <2> QED
    BY <2>1, <2>3 DEF StampsPrecede, Idle
<1> QED
  BY <1>1, <1>2, <1>3, <1>4, <1>5, <1>6, <1>7

\* A step of a handler files no time, and measures only from filed ones.
LEMMA HandlersPrecede ==
  ASSUME Typed, StampsPrecede, ~wasLost', NEW w \in Workers,
         \/ \E msg \in Message : Receive(w, msg)
         \/ Filter(w) \/ Pass(w) \/ SetConnection(w) \/ FindPing(w) \/ ErasePing(w)
  PROVE  StampsPrecede'
<1>1. CASE \E msg \in Message : Receive(w, msg)
  BY <1>1 DEF Receive, StampsPrecede, player, sends, ghosts
<1>2. CASE Filter(w)
  BY <1>2 DEF Filter, StampsPrecede, player, sends, ghosts
<1>3. CASE Pass(w)
  BY <1>3 DEF Pass, StampsPrecede, sends, ghosts
<1>4. CASE SetConnection(w)
  BY <1>4 DEF SetConnection, StampsPrecede, sends
<1>5. CASE FindPing(w)
  <2>1. job[w].msg.answers \in Numbers
    BY <1>5, JobFields DEF FindPing, Typed
  <2>2. \A sample \in samples' : sample[2] < sample[1]
    BY <1>5, <2>1 DEF FindPing, StampsPrecede
  <2> QED
    BY <1>5, <2>2 DEF FindPing, StampsPrecede, player, sends
<1>6. CASE ErasePing(w)
  <2>1. \A s \in Numbers : pendingPings'[s] < s
    BY <1>6, Constants DEF ErasePing, File, StampsPrecede, ghosts, Typed, TypeOK,
       NoStamp, Numbers
  <2> QED
    BY <1>6, <2>1 DEF ErasePing, StampsPrecede, player, sends, ghosts
<1> QED
  BY <1>1, <1>2, <1>3, <1>4, <1>5, <1>6

\* A measured ping is never shorter than the message it answers took, however
\* many workers run.
THEOREM PingsHold == Spec => []PingNotUnderstated
<1>1. Init => StampsPrecede
  BY DEF Init, StampsPrecede, Idle, NoStamp, Numbers
<1>2. Typed /\ StampsPrecede /\ [Next]_vars => StampsPrecede'
  <2> SUFFICES ASSUME Typed, StampsPrecede, [Next]_vars, ~wasLost' PROVE StampsPrecede'
    BY DEF StampsPrecede
  <2>1. CASE Next
    BY <2>1, SendsPrecede, HandlersPrecede DEF Next
  <2>2. CASE UNCHANGED vars
    BY <2>2 DEF StampsPrecede, vars, player, sends, ghosts
  <2> QED
    BY <2>1, <2>2
<1>3. StampsPrecede => PingNotUnderstated
  BY DEF StampsPrecede, PingNotUnderstated
<1> QED
  BY <1>1, <1>2, <1>3, TypedInvariant, PTL DEF Spec

-----------------------------------------------------------------------------
(* The order of messages.                                                  *)

\* A message that worker w has seen pass the filter and not yet handled.
InHand(w) == job[w].at \in {"pass", "answer", "input", "disconnecting"}

\* The workers do not hold two such messages of the client at once.
PassedOneByOne == \A w, x \in Workers : InHand(w) /\ InHand(x) => w = x

\* A message that passed the filter is newer than the last let through ...
PassedInOrder(w) == job[w].at = "pass" => lastSeqRecv < job[w].msg.seq

\* ... then it is that message, and newer than all that were handled.
LetThroughInOrder(w) ==
  job[w].at \in {"answer", "input", "disconnecting"} =>
    /\ job[w].msg.seq = lastSeqRecv
    /\ \A i \in DOMAIN handled : handled[i] < lastSeqRecv

HandledUpTo ==
  /\ HandledInOrder
  /\ \A i \in DOMAIN handled : handled[i] <= lastSeqRecv
  /\ \A w \in Workers : PassedInOrder(w) /\ LetThroughInOrder(w)

\* A newer message is handled after all others.
LEMMA AppendInOrder ==
  ASSUME TypeOK, HandledInOrder, NEW n \in 1..MaxClientSeq,
         \A i \in DOMAIN handled : handled[i] < n, handled' = Append(handled, n)
  PROVE  HandledInOrder' /\ \A i \in DOMAIN handled' : handled'[i] <= n
<1>1. handled \in Seq(1..MaxClientSeq) /\ DOMAIN handled = 1..Len(handled) /\ Len(handled) \in Nat
  BY DEF TypeOK
<1>2. /\ DOMAIN handled' = 1..Len(handled) + 1
      /\ handled'[Len(handled) + 1] = n
      /\ \A i \in 1..Len(handled) : handled'[i] = handled[i]
  BY <1>1
<1>3. \A i \in 1..Len(handled) : handled[i] \in 1..MaxClientSeq
  BY <1>1, ElementOfSeq
<1>4. ASSUME NEW i \in DOMAIN handled', NEW j \in DOMAIN handled', i < j
      PROVE  handled'[i] < handled'[j]
  <2>1. i \in 1..Len(handled)
    BY <1>1, <1>2, <1>4
  <2>2. CASE j \in 1..Len(handled)
    BY <1>1, <1>2, <1>4, <2>1, <2>2 DEF HandledInOrder
  <2>3. CASE j = Len(handled) + 1
    BY <1>1, <1>2, <2>1, <2>3
  <2>4. QED BY <1>1, <1>2, <2>2, <2>3
<1>5. \A i \in DOMAIN handled' : handled'[i] <= n
  <2>1. MaxClientSeq \in Nat
    BY BoundsAssumption
  <2>2. TAKE i \in DOMAIN handled'
  <2>3. CASE i \in 1..Len(handled)
    BY <1>1, <1>2, <1>3, <2>1, <2>3
  <2>4. CASE i = Len(handled) + 1
    BY <1>2, <2>1, <2>4
  <2>5. QED BY <1>1, <1>2, <2>2, <2>3, <2>4
<1>6. QED BY <1>4, <1>5 DEF HandledInOrder

LEMMA HandledStep ==
  ASSUME TypeOK, HandledUpTo, PassedOneByOne, [Next]_vars
  PROVE  HandledUpTo'
<1>1. job \in [Workers -> JobType] /\ lastSeqRecv \in Nat /\ handled \in Seq(1..MaxClientSeq)
      /\ (\A i \in DOMAIN handled : handled[i] \in Nat)
  BY BoundsAssumption DEF TypeOK, JobType
\* The steps of one worker: what becomes of its own message, if the others' are
\* as before or none is in hand.
<1>2. ASSUME NEW w \in Workers, \A x \in Workers \ {w} : job'[x] = job[x],
             UNCHANGED <<lastSeqRecv, handled>>, PassedInOrder(w)', LetThroughInOrder(w)'
      PROVE  HandledUpTo'
  BY <1>2 DEF HandledUpTo, HandledInOrder, PassedInOrder, LetThroughInOrder
<1>3. ASSUME NEW w \in Workers, \A x \in Workers \ {w} : job'[x] = job[x], InHand(w),
             HandledInOrder', \A i \in DOMAIN handled' : handled'[i] <= lastSeqRecv',
             PassedInOrder(w)', LetThroughInOrder(w)'
      PROVE  HandledUpTo'
  <2>1. \A x \in Workers \ {w} : ~InHand(x)
    BY <1>3 DEF PassedOneByOne
  <2>2. \A x \in Workers \ {w} : PassedInOrder(x)' /\ LetThroughInOrder(x)'
    BY <1>3, <2>1 DEF InHand, PassedInOrder, LetThroughInOrder
  <2>3. QED BY <1>3, <2>2 DEF HandledUpTo
<1>4. ASSUME NEW w \in Workers, NEW msg \in Message, Receive(w, msg)
      PROVE  HandledUpTo'
  <2>1. job'[w].at = "filter" /\ \A x \in Workers \ {w} : job'[x] = job[x]
    BY <1>1, <1>4 DEF Receive
  <2>2. UNCHANGED <<lastSeqRecv, handled>>
    BY <1>4 DEF Receive, player, ghosts
  <2>3. QED BY <1>2, <2>1, <2>2 DEF PassedInOrder, LetThroughInOrder
<1>5. ASSUME NEW w \in Workers, Filter(w)
      PROVE  HandledUpTo'
  <2>1. /\ job[w].msg.seq \in Nat /\ UNCHANGED <<lastSeqRecv, handled>>
        /\ \A x \in Workers \ {w} : job'[x] = job[x]
    BY <1>1, <1>5, JobFields, BoundsAssumption DEF Filter, player, ghosts
  <2>2. CASE Outdated(job[w].msg)
    <3>1. job'[w].at = "idle"
      BY <1>1, <1>5, <2>2 DEF Filter, Idle
    <3>2. QED BY <1>2, <2>1, <3>1 DEF PassedInOrder, LetThroughInOrder
  <2>3. CASE ~Outdated(job[w].msg)
    <3>1. job'[w] = [job[w] EXCEPT !.at = "pass"]
      BY <1>1, <1>5, <2>3 DEF Filter
    <3>2. job'[w].at = "pass" /\ job'[w].msg = job[w].msg
      BY <1>1, <1>5, <3>1, JobFields DEF Filter
    <3>3. lastSeqRecv' < job'[w].msg.seq
      BY <1>1, <2>1, <2>3, <3>2 DEF Outdated
    <3>4. QED BY <1>2, <2>1, <3>2, <3>3 DEF PassedInOrder, LetThroughInOrder
  <2>4. QED BY <2>2, <2>3
<1>6. ASSUME NEW w \in Workers, Pass(w)
      PROVE  HandledUpTo'
  <2>1. /\ job[w].at = "pass" /\ job[w].msg.seq \in Nat
        /\ job[w].msg.kind \in {"answer", "input", "disconnecting"}
        /\ \A x \in Workers \ {w} : job'[x] = job[x]
    BY <1>1, <1>6, JobFields, BoundsAssumption DEF Pass
  <2>2. lastSeqRecv' = job[w].msg.seq /\ handled' = handled
    BY <1>6 DEF Pass, ghosts
  <2>3. lastSeqRecv < job[w].msg.seq
    BY <2>1 DEF HandledUpTo, PassedInOrder
  <2>4. \A i \in DOMAIN handled : handled[i] < lastSeqRecv'
    BY <1>1, <2>1, <2>2, <2>3 DEF HandledUpTo
  <2>5. job'[w].at = job[w].msg.kind /\ job'[w].msg = job[w].msg
    BY <1>1, <1>6, JobFields DEF Pass
  <2>6. \A i \in DOMAIN handled' : handled'[i] <= lastSeqRecv'
    BY <1>1, <2>1, <2>2, <2>4
  <2>7. PassedInOrder(w)' /\ LetThroughInOrder(w)'
    BY <2>1, <2>2, <2>4, <2>5 DEF PassedInOrder, LetThroughInOrder
  <2>8. InHand(w) /\ HandledInOrder'
    BY <2>1, <2>2 DEF InHand, HandledUpTo, HandledInOrder
  <2>9. QED BY <1>3, <2>1, <2>6, <2>7, <2>8
<1>7. ASSUME NEW w \in Workers, SetConnection(w) \/ FindPing(w)
      PROVE  HandledUpTo'
  <2>1. /\ job[w].at \in {"answer", "input", "disconnecting"}
        /\ \A x \in Workers \ {w} : job'[x] = job[x]
    BY <1>1, <1>7 DEF SetConnection, FindPing
  <2>2. job[w].msg.seq \in 1..MaxClientSeq /\ job[w].msg.seq = lastSeqRecv
    BY <2>1, JobFields DEF HandledUpTo, LetThroughInOrder
  <2>3. handled' = Append(handled, lastSeqRecv) /\ lastSeqRecv' = lastSeqRecv
    BY <1>7, <2>2 DEF SetConnection, FindPing, player
  <2>4. HandledInOrder' /\ \A i \in DOMAIN handled' : handled'[i] <= lastSeqRecv
    BY <2>1, <2>2, <2>3, AppendInOrder DEF HandledUpTo, LetThroughInOrder
  <2>5. job'[w].at \in {"idle", "erase"}
    BY <1>1, <1>7, JobFields DEF SetConnection, FindPing, Idle
  <2>6. InHand(w) /\ PassedInOrder(w)' /\ LetThroughInOrder(w)'
    BY <2>1, <2>5 DEF InHand, PassedInOrder, LetThroughInOrder
  <2>7. QED BY <1>3, <2>1, <2>3, <2>4, <2>6
<1>8. ASSUME NEW w \in Workers, ErasePing(w)
      PROVE  HandledUpTo'
  <2>1. job'[w].at = "idle" /\ \A x \in Workers \ {w} : job'[x] = job[x]
    BY <1>1, <1>8 DEF ErasePing, Idle
  <2>2. UNCHANGED <<lastSeqRecv, handled>>
    BY <1>8 DEF ErasePing, player, ghosts
  <2>3. QED BY <1>2, <2>1, <2>2 DEF PassedInOrder, LetThroughInOrder
<1>9. CASE UNCHANGED <<handled, lastSeqRecv, job>>
  BY <1>9 DEF HandledUpTo, HandledInOrder, PassedInOrder, LetThroughInOrder
<1>10. CASE \/ SendOther \/ TickSend \/ BeginRound \/ PingCheck \/ PingSend
            \/ \E ok \in BOOLEAN : TickFile(ok) \/ PingFile(ok)
            \/ UNCHANGED vars
  BY <1>9, <1>10 DEF SendOther, TickSend, BeginRound, PingCheck, PingSend, TickFile, PingFile,
     vars, player, ghosts
<1>11. QED BY <1>4, <1>5, <1>6, <1>7, <1>8, <1>10 DEF Next

\* The one way to handle messages out of order is that two of them pass the
\* filter before the first is handled: without it, however many workers take the
\* client's messages in turn, they are handled in the order it sent them, each
\* at most once, whatever the network delays, loses or doubles.
THEOREM InOrderOneByOne == Spec /\ []PassedOneByOne => []HandledInOrder
<1>1. Init => HandledUpTo
  BY DEF Init, HandledUpTo, HandledInOrder, PassedInOrder, LetThroughInOrder, Idle
<1>2. TypeOK /\ HandledUpTo /\ PassedOneByOne /\ [Next]_vars => HandledUpTo'
  BY HandledStep
<1>3. HandledUpTo => HandledInOrder
  BY DEF HandledUpTo
<1>4. QED BY <1>1, <1>2, <1>3, ChannelTypes, PTL DEF Spec
=============================================================================
