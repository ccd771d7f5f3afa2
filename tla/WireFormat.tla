------------------------------ MODULE WireFormat ------------------------------
(***************************************************************************)
(* One packet from its payload to the bytes on the wire and back           *)
(* (serialization.cpp, compression.cpp, the packet part of                 *)
(* sendServerMessage and handleMessage).                                   *)
(*                                                                         *)
(* A server message is measured first and written after that, by two       *)
(* separate pieces of code, into a vector of the measured size that        *)
(* nothing checks; it is then compressed into a packet of at most Capacity *)
(* bytes.  A datagram from a client is expanded to exactly Capacity bytes, *)
(* from which the parser takes its fields.  How a client writes its        *)
(* messages, and that both sides compress alike, is external.              *)
(*                                                                         *)
(* stage is "size", "sizeFrames", "write", "writeFrames", "compress",      *)
(* "decompress", "parse", "parseFrames", "parseChecksums", or one of the   *)
(* ends: "done", "ignored" (no message type), and the exceptions           *)
(* "overflow" and "truncated".                                             *)
(***************************************************************************)
EXTENDS PacketCodec

CONSTANT Messages   \* bound: the messages and datagrams that are tried

FixedSize ==
  [NewConnectionReply |-> 9, StartGame |-> 0, InputAck |-> 4, PlayerInput |-> 15,
   RequestQualityData |-> 4, PlayersStatus |-> 1, Kick |-> 6, ChecksumAck |-> 4,
   PlayersConfigurationData |-> 1, PlayerDisconnected |-> 8, ChangePort |-> 2]

ServerKinds == DOMAIN FixedSize

TypeCode ==
  [NewConnection |-> 1, Input |-> 2, PlayerInputAck |-> 3, MatchResult |-> 4,
   QualityData |-> 5, Disconnecting |-> 6, PlayerDisconnectedAck |-> 7,
   ReadyToStartMatch |-> 8]

ClientKinds == DOMAIN TypeCode

HeaderSize == 5
MAX_INPUTS_PER_FRAME == 30

\* players: maxPlayers.  frames: a server's numFrames, one per player; for an
\* Input, its number of frames and of checksums; for a PlayerInputAck, of acks.
\* fill: which bytes of each eight are not zero.  datagram: bytes from anyone.
ASSUME MessagesAssumption ==
  \A m \in Messages :
    /\ m.kind \in ServerKinds \cup ClientKinds \cup {"datagram"}
    /\ m.players \in 0..255
    /\ m.frames \in Seq(0..255)
    /\ m.kind \in ServerKinds =>
         Len(m.frames) = m.players /\ m.frames \in Seq(0..MAX_INPUTS_PER_FRAME)
    /\ m.kind \in ClientKinds =>
         Len(m.frames) = (CASE m.kind = "Input" -> 2 [] m.kind = "PlayerInputAck" -> 1
                            [] OTHER -> 0)
    /\ m.fill \subseteq 1..8
    /\ m.datagram \in Seq(Byte) /\ (m.kind # "datagram" => m.datagram = <<>>)

VARIABLES
  msg,     \* the message, or the datagram
  size,    \* serializeServerMessage: the size of its buffer
  at,      \* the loop variable of the loop the stage names
  mark,    \* history: mark[k], the value of size before player k's frames
  offset,  \* parseClientMessage: its position
  parsed   \* the message it returns

writer == <<msg, size, mark>>
parser == <<offset, parsed>>
vars   == <<codec, writer, at, parser>>

\* The byte of value n.
Bits ==
  LET weight == <<1, 2, 4, 8, 16, 32, 64, 128>>
  IN [n \in 0..255 |-> {b \in 0..7 : (n \div weight[b + 1]) % 2 = 1}]

ValueOf(byte) == CHOOSE n \in 0..255 : Bits[n] = byte

\* w bytes of fields that start at position p.
Field(p, w) ==
  [k \in 1..w |-> IF ((k - 1) % 8) + 1 \in msg.fill THEN Bits[((p + k) % 255) + 1] ELSE Zero]

Nothing == [kind |-> "none", frames |-> <<>>, checksums |-> <<>>, sequence |-> <<>>]

Init ==
  /\ msg \in Messages
  /\ stage = CASE msg.kind \in ServerKinds -> "size"
               [] msg.kind \in ClientKinds -> "write"
               [] OTHER -> "decompress"
  /\ wire = msg.datagram
  /\ plain = <<>> /\ inPos = 0 /\ maskPos = 0 /\ coding = <<>> /\ bit = GroupSize /\ mask = Zero
  /\ readPos = 0 /\ decoded = <<>>
  /\ size = 0 /\ mark = <<0>> /\ at = 1 /\ offset = 0 /\ parsed = Nothing

-----------------------------------------------------------------------------
(* serializeServerMessage.                                                 *)

\* What a payload has for each player, beside the frames of a PlayerInput ...
MeasuredPerPlayer ==
  [PlayerInput |-> 4 + 1, PlayersStatus |-> 2, PlayersConfigurationData |-> 4]

\* ... and what is written for each: a configuration takes two bytes, not four.
WrittenPerPlayer_wide ==
  [PlayerInput |-> 4 + 4, PlayersStatus |-> 2, PlayersConfigurationData |-> 2]

WrittenPerPlayer ==
  [PlayerInput |-> 4 + 1, PlayersStatus |-> 2, PlayersConfigurationData |-> 2]

OfPlayers(table, m) == IF m.kind \in DOMAIN table THEN table[m.kind] * m.players ELSE 0

Measure ==
  /\ stage = "size"
  /\ size' = HeaderSize + FixedSize[msg.kind] + OfPlayers(MeasuredPerPlayer, msg)
  /\ mark' = <<size'>>
  /\ stage' = "sizeFrames" /\ at' = 1
  /\ UNCHANGED <<plain, coder, bit, mask, decoder, msg, parser>>

FramePlayers == IF msg.kind = "PlayerInput" THEN msg.players ELSE 0

MeasureFrames_oneShort ==
  /\ stage = "sizeFrames"
  /\ \/ /\ at < FramePlayers
        /\ size' = size + 4 * msg.frames[at]
        /\ mark' = Append(mark, size')
        /\ at' = at + 1 /\ UNCHANGED stage
     \/ /\ at >= FramePlayers
        /\ stage' = "write" /\ UNCHANGED <<size, mark, at>>
  /\ UNCHANGED <<plain, coder, bit, mask, decoder, msg, parser>>

MeasureFrames ==
  /\ stage = "sizeFrames"
  /\ \/ /\ at <= FramePlayers
        /\ size' = size + 4 * msg.frames[at]
        /\ mark' = Append(mark, size')
        /\ at' = at + 1 /\ UNCHANGED stage
     \/ /\ at > FramePlayers
        /\ stage' = "write" /\ UNCHANGED <<size, mark, at>>
  /\ UNCHANGED <<plain, coder, bit, mask, decoder, msg, parser>>

Write ==
  /\ stage = "write" /\ msg.kind \in ServerKinds
  /\ plain' = Field(0, HeaderSize + FixedSize[msg.kind] + OfPlayers(WrittenPerPlayer, msg))
  /\ stage' = "writeFrames" /\ at' = 1
  /\ UNCHANGED <<coder, bit, mask, decoder, writer, parser>>

\* The buffer is cut to what was written, if that is less (line 357).
WriteFrames ==
  /\ stage = "writeFrames"
  /\ \/ /\ at <= FramePlayers
        /\ plain' = plain \o Field(Len(plain), 4 * msg.frames[at])
        /\ at' = at + 1 /\ UNCHANGED stage
     \/ /\ at > FramePlayers
        /\ stage' = "compress" /\ UNCHANGED <<plain, at>>
  /\ UNCHANGED <<coder, bit, mask, decoder, writer, parser>>

-----------------------------------------------------------------------------
(* What a client sends, and parseClientMessage.                            *)

\* The bytes after the header, but for the words of an Input or PlayerInputAck
\* and what follows those.
ClientBytes(kind) ==
  CASE kind = "NewConnection" -> 6 + 25 + 45 + 25
    [] kind = "Input" -> 8
    [] kind = "MatchResult" -> 6
    [] kind = "QualityData" -> 4
    [] kind = "PlayerInputAck" -> 0
    [] OTHER -> 1

Counts(m) == [k \in 1..Len(m.frames) |-> Bits[m.frames[k]]]

WordBytes(m) ==
  CASE m.kind = "Input" -> 4 * (m.frames[1] + m.frames[2])
    [] m.kind = "PlayerInputAck" -> 4 * m.frames[1] + 4
    [] OTHER -> 0

WriteByClient ==
  /\ stage = "write" /\ msg.kind \in ClientKinds
  /\ LET fixed == HeaderSize + ClientBytes(msg.kind)
         start == fixed + Len(msg.frames)
     IN plain' = <<Bits[TypeCode[msg.kind]]>> \o Field(1, fixed - 1)
                   \o Counts(msg) \o Field(start, WordBytes(msg))
  /\ stage' = "compress"
  /\ UNCHANGED <<coder, bit, mask, decoder, writer, at, parser>>

\* readLittleEndian: a byte past the end counts as zero.
Word(p) == [k \in 1..4 |-> IF p + k <= Len(decoded) THEN decoded[p + k] ELSE Zero]

\* Where the words of an Input or a PlayerInputAck begin; their numbers.
FirstWord(kind) == IF kind = "Input" THEN 15 ELSE 6
FrameCount      == ValueOf(decoded[IF parsed.kind = "Input" THEN 14 ELSE 6])
ChecksumCount   == IF parsed.kind = "Input" THEN ValueOf(decoded[15]) ELSE 0

\* What is sent to a client leaves the server here.
Deliver ==
  /\ stage = "parse" /\ msg.kind \in ServerKinds
  /\ stage' = "done"
  /\ UNCHANGED <<plain, coder, bit, mask, decoder, writer, at, parser>>

Parse ==
  /\ stage = "parse" /\ msg.kind \notin ServerKinds
  /\ \/ /\ \A kind \in ClientKinds : decoded[1] # Bits[TypeCode[kind]]
        /\ stage' = "ignored" /\ UNCHANGED <<at, parser>>
     \/ \E kind \in ClientKinds :
          /\ decoded[1] = Bits[TypeCode[kind]]
          /\ parsed' = [Nothing EXCEPT !.kind = kind]
          /\ \/ /\ kind \in {"Input", "PlayerInputAck"}
                /\ offset' = FirstWord(kind) /\ at' = 0
                /\ stage' = "parseFrames"
             \/ /\ kind \notin {"Input", "PlayerInputAck"}
                /\ stage' = "done" /\ UNCHANGED <<at, offset>>
  /\ UNCHANGED <<plain, coder, bit, mask, decoder, writer>>

\* The loop variable is a uint8.
Next8(n) == (n + 1) % 256

ReadWord_wireSize(list) ==
  \/ /\ offset + 4 <= Len(wire)
     /\ parsed' = [parsed EXCEPT ![list] = Append(@, Word(offset))]
     /\ offset' = offset + 4
  \/ offset + 4 > Len(wire) /\ UNCHANGED parser

ReadWord(list) ==
  \/ /\ offset + 4 <= Len(decoded)
     /\ parsed' = [parsed EXCEPT ![list] = Append(@, Word(offset))]
     /\ offset' = offset + 4
  \/ offset + 4 > Len(decoded) /\ UNCHANGED parser

ParseFrames_toLast ==
  /\ stage = "parseFrames"
  /\ \/ /\ at <= FrameCount /\ ReadWord("frames")
        /\ at' = Next8(at) /\ UNCHANGED stage
     \/ /\ at > FrameCount
        /\ stage' = "parseChecksums" /\ at' = 0 /\ UNCHANGED parser
  /\ UNCHANGED <<plain, coder, bit, mask, decoder, writer>>

ParseFrames ==
  /\ stage = "parseFrames"
  /\ \/ /\ at < FrameCount /\ ReadWord("frames")
        /\ at' = Next8(at) /\ UNCHANGED stage
     \/ /\ at >= FrameCount
        /\ stage' = "parseChecksums" /\ at' = 0 /\ UNCHANGED parser
  /\ UNCHANGED <<plain, coder, bit, mask, decoder, writer>>

\* A PlayerInputAck has no checksums; it ends with the sequence number.
ParseChecksums ==
  /\ stage = "parseChecksums"
  /\ \/ /\ at < ChecksumCount /\ ReadWord("checksums")
        /\ at' = Next8(at) /\ UNCHANGED stage
     \/ /\ at >= ChecksumCount
        /\ stage' = "done"
        /\ \/ /\ parsed.kind = "PlayerInputAck"
              /\ parsed' = [parsed EXCEPT !.sequence = Word(offset)]
           \/ parsed.kind # "PlayerInputAck" /\ UNCHANGED parsed
        /\ UNCHANGED <<at, offset>>
  /\ UNCHANGED <<plain, coder, bit, mask, decoder, writer>>

Next ==
  \/ Measure \/ MeasureFrames \/ Write \/ WriteFrames \/ WriteByClient
  \/ CodecStep /\ UNCHANGED <<writer, at, parser>>
  \/ Deliver \/ Parse \/ ParseFrames \/ ParseChecksums

Fairness == WF_vars(Next)

Spec == Init /\ [][Next]_vars /\ Fairness

-----------------------------------------------------------------------------
(* Properties.                                                             *)

Stages == {"size", "sizeFrames", "write", "writeFrames", "compress", "decompress",
           "parse", "parseFrames", "parseChecksums"}
Ends   == {"done", "ignored", "overflow", "truncated"}

CodedByte == [mask : Nat, bit : 0..GroupSize - 1, end : Nat]

CoderOK ==
  /\ plain \in Seq(Byte)
  /\ wire \in Seq(Byte) /\ (msg.kind # "datagram" => Len(wire) <= Capacity)
  /\ inPos \in 0..Len(plain) /\ maskPos \in 0..Len(wire)
  /\ bit \in 0..GroupSize /\ mask \in Byte /\ coding \in Seq(CodedByte)

DecoderOK ==
  /\ readPos \in 0..Len(wire)
  /\ decoded \in Seq(Byte) /\ Len(decoded) <= Capacity

FormatOK ==
  /\ msg \in Messages /\ stage \in Stages \cup Ends
  /\ size \in Nat /\ mark \in Seq(Nat) /\ offset \in Nat
  /\ at \in Nat /\ (stage \in {"sizeFrames", "writeFrames"} => at >= 1)

\* The compressor's output and the decompressor's stay in their buffers of
\* Capacity bytes (compression.cpp:11, 51), and every position in its buffer.
TypeOK == CoderOK /\ DecoderOK /\ FormatOK

\* serializeServerMessage writes through vector::operator[]: what it writes
\* must not be more than what it measured, whatever the numbers of players and
\* frames (serialization.cpp:176-225 and 237-354).
WritesInBounds == msg.kind \in ServerKinds => Len(plain) <= size \/ stage = "size"

\* With at most 7 players and the 30 frames for each that a tick packs
\* (rollback_server.cpp:27), compressPacket never throws, whatever the inputs:
\* an exception would end the tick loop and leave the match behind.
PacketsFit ==
  msg.kind \in ServerKinds /\ stage = "overflow" =>
    msg.kind = "PlayerInput" /\ msg.players > 7

\* Expanding what was compressed yields the message, followed by zeros up to
\* Capacity, and never an exception; a message longer than that loses its end.
DecodedFaithfully ==
  msg.kind # "datagram" =>
    /\ stage # "truncated"
    /\ stage = "parse" =>
         decoded = [i \in 1..Capacity |-> IF i <= Len(plain) THEN plain[i] ELSE Zero]

\* The words of the message from position p on that lie in the buffer whole.
SentWords(p, n) ==
  [k \in {k \in 1..n : p + 4 * k <= Capacity} |-> SubSeq(plain, p + 4 * k - 3, p + 4 * k)]

\* The parser takes every frame, checksum and acknowledgement that the client
\* sent, with its bytes, as far as the buffer reaches (serialization.cpp:79-123).
ParsedAsSent ==
  msg.kind \in ClientKinds /\ stage \in {"done", "ignored"} =>
    /\ parsed.kind = msg.kind
    /\ msg.kind = "Input" =>
         /\ parsed.frames = SentWords(15, msg.frames[1])
         /\ parsed.checksums = SentWords(15 + 4 * msg.frames[1], msg.frames[2])
    /\ msg.kind = "PlayerInputAck" /\ Len(plain) <= Capacity =>
         /\ parsed.frames = SentWords(6, msg.frames[1])
         /\ parsed.sequence = SubSeq(plain, Len(plain) - 3, Len(plain))

\* Every loop ends, also those that count 255 frames with a uint8
\* (serialization.cpp:89, 97, 112): a coroutine stuck here would hold a worker.
Terminates == <>(stage \in Ends)
=============================================================================
