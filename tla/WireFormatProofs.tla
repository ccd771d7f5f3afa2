--------------------------- MODULE WireFormatProofs ---------------------------
(***************************************************************************)
(* Proofs about WireFormat, for every set of messages that satisfies       *)
(* MessagesAssumption: any kinds, contents, and numbers of players, frames *)
(* and bytes.                                                              *)
(***************************************************************************)
EXTENDS WireFormat, SequenceTheorems, TLAPS

\* What the assumption says of one message.
LEMMA MessageShape ==
  ASSUME NEW m \in Messages
  PROVE  /\ m.kind \in ServerKinds \cup ClientKinds \cup {"datagram"}
         /\ m.players \in 0..255
         /\ m.frames \in Seq(0..255)
         /\ m.kind \in ServerKinds =>
              Len(m.frames) = m.players /\ m.frames \in Seq(0..MAX_INPUTS_PER_FRAME)
         /\ m.kind = "Input" => Len(m.frames) = 2
         /\ m.kind = "PlayerInputAck" => Len(m.frames) = 1
         /\ m.datagram \in Seq(Byte)
BY MessagesAssumption DEF ClientKinds, TypeCode

\* The numbers of frames, one by one.
LEMMA FramesShape ==
  ASSUME NEW m \in Messages
  PROVE  /\ Len(m.frames) \in Nat
         /\ \A k \in 1..Len(m.frames) : m.frames[k] \in 0..255
         /\ m.kind = "Input" => Len(m.frames) = 2
         /\ m.kind = "PlayerInputAck" => Len(m.frames) = 1
<1>1. m.frames \in Seq(0..255)
  BY MessageShape
<1>2. Len(m.frames) \in Nat
  BY <1>1, LenProperties
<1>3. \A k \in 1..Len(m.frames) : m.frames[k] \in 0..255
  BY <1>1, ElementOfSeq
<1>4. (m.kind = "Input" => Len(m.frames) = 2) /\ (m.kind = "PlayerInputAck" => Len(m.frames) = 1)
  BY MessageShape
<1>5. QED BY <1>2, <1>3, <1>4

LEMMA PlayersType == ASSUME NEW m \in Messages PROVE m.players \in 0..255
BY MessageShape

LEMMA FixedSizes ==
  ASSUME NEW kind \in ServerKinds
  PROVE  FixedSize[kind] \in 0..15 /\ (kind # "PlayerInput" => FixedSize[kind] <= 9)
BY DEF ServerKinds, FixedSize

\* A kind comes from the server or from a client.
LEMMA KindsDisjoint ==
  /\ ServerKinds \cap ClientKinds = {}
  /\ "datagram" \notin ServerKinds \cup ClientKinds
  /\ "PlayerInput" \in ServerKinds /\ {"Input", "PlayerInputAck"} \subseteq ClientKinds
BY DEF ServerKinds, ClientKinds, FixedSize, TypeCode

LEMMA TypeCodes == ASSUME NEW kind \in ClientKinds PROVE TypeCode[kind] \in 0..255
BY DEF ClientKinds, TypeCode

LEMMA BitsType == Bits \in [0..255 -> Byte]
BY DEF Bits, Byte

\* A stretch of fields has its length, and bytes in it.
LEMMA FieldType ==
  ASSUME NEW p \in Nat, NEW w \in Nat
  PROVE  Field(p, w) \in Seq(Byte) /\ Len(Field(p, w)) = w
<1>1. \A k \in 1..w : ((p + k) % 255) + 1 \in 0..255
  OBVIOUS
<1>2. Zero \in Byte
  BY DEF Zero, Byte
<1>3. \A k \in 1..w : (IF ((k - 1) % 8) + 1 \in msg.fill
                         THEN Bits[((p + k) % 255) + 1] ELSE Zero) \in Byte
  BY <1>1, <1>2, BitsType
<1>4. QED BY <1>3 DEF Field

LEMMA ZeroType == Zero \in Byte /\ GroupSize = 8 /\ Capacity \in Nat
BY DEF Zero, Byte, GroupSize, Capacity

\* The steps of the codec keep the types of its variables.
LEMMA CoderStep ==
  ASSUME CoderOK, DecoderOK, msg' = msg,
         StartGroup \/ CodeByte \/ CloseGroup \/ EndCompress
  PROVE  CoderOK' /\ DecoderOK'
<1> USE ZeroType DEF CoderOK, DecoderOK, coder, decoder
<1>1. CASE StartGroup
  <2>1. CASE Len(wire) >= Capacity /\ UNCHANGED <<wire, maskPos, mask, bit>>
    BY <1>1, <2>1 DEF StartGroup
  <2>2. CASE Len(wire) < Capacity /\ wire' = Append(wire, Zero)
    <3>1. wire' \in Seq(Byte) /\ Len(wire') = Len(wire) + 1
      BY <2>2
    <3>2. maskPos' = Len(wire') /\ mask' = Zero /\ bit' = 0
      BY <1>1, <2>2, <3>1 DEF StartGroup
    <3>3. QED BY <1>1, <2>2, <3>1, <3>2 DEF StartGroup
  <2>3. QED BY <1>1, <2>1, <2>2 DEF StartGroup
<1>2. CASE CodeByte
  <2>0. bit \in 0..7 /\ inPos + 1 \in 1..Len(plain) /\ UNCHANGED <<plain, maskPos, decoder>>
    BY <1>2 DEF CodeByte, GroupOpen
  <2>a. plain[inPos + 1] \in Byte
    BY <2>0
  <2>b. mask \cup {bit} \in Byte
    <3>1. mask \in Byte
      OBVIOUS
    <3>2. QED BY <2>0, <3>1 DEF Byte
  <2>1. mask' \in Byte
    BY <1>2, <2>b DEF CodeByte
  <2>2. /\ wire' \in Seq(Byte) /\ Len(wire') >= Len(wire)
        /\ msg.kind # "datagram" => Len(wire') <= Capacity
    <3>1. wire' = wire \/ (Len(wire) < Capacity /\ wire' = Append(wire, plain[inPos + 1]))
      BY <1>2 DEF CodeByte
    <3>2. CASE Len(wire) < Capacity /\ wire' = Append(wire, plain[inPos + 1])
      <4>1. wire' \in Seq(Byte) /\ Len(wire') = Len(wire) + 1
        BY <2>a, <3>2
      <4>2. QED BY <3>2, <4>1
    <3>3. QED BY <3>1, <3>2
  <2>3. CASE Advance
    <3>1. [mask |-> maskPos, bit |-> bit, end |-> Len(wire')] \in CodedByte
      BY <1>2, <2>2 DEF CodeByte, GroupOpen, CodedByte
    <3>2. coding' \in Seq(CodedByte)
      BY <2>3, <3>1 DEF Advance
    <3>3. inPos' \in 0..Len(plain) /\ bit' \in 0..GroupSize
      BY <1>2, <2>3 DEF CodeByte, GroupOpen, Advance
    <3>4. QED BY <2>0, <2>1, <2>2, <3>2, <3>3
  <2>4. CASE UNCHANGED <<wire, inPos, coding, bit>>
    BY <2>0, <2>1, <2>4
  <2>5. QED BY <1>2, <2>3, <2>4 DEF CodeByte
<1>3. CASE CloseGroup
  BY <1>3 DEF CloseGroup
<1>4. CASE EndCompress
  BY <1>4 DEF EndCompress
<1>5. QED BY <1>1, <1>2, <1>3, <1>4

LEMMA DecoderStep ==
  ASSUME CoderOK, DecoderOK, msg' = msg,
         ReadMask \/ DecodeByte \/ EndDecompress
  PROVE  CoderOK' /\ DecoderOK'
<1> USE ZeroType DEF CoderOK, DecoderOK, coder, decoder
<1>1. CASE ReadMask
  BY <1>1 DEF ReadMask
<1>2. CASE DecodeByte
  <2>1. \/ UNCHANGED <<bit, decoder>>
        \/ /\ readPos < Len(wire) /\ readPos' = readPos + 1 /\ bit' = bit + 1
           /\ decoded' = Append(decoded, wire[readPos + 1])
        \/ readPos' = readPos /\ bit' = bit + 1 /\ decoded' = Append(decoded, Zero)
    BY <1>2 DEF DecodeByte
  <2>2. /\ bit < 8 /\ Len(decoded) < Capacity
        /\ UNCHANGED <<plain, coder, mask>>
    BY <1>2 DEF DecodeByte
  <2>3. CASE UNCHANGED <<bit, decoder>>
    BY <2>2, <2>3
  <2>4. ASSUME NEW v \in Byte, decoded' = Append(decoded, v), bit' = bit + 1,
               readPos' \in 0..Len(wire)
        PROVE  CoderOK' /\ DecoderOK'
    <3>1. decoded' \in Seq(Byte) /\ Len(decoded') = Len(decoded) + 1
      BY <2>4
    <3>2. QED BY <2>2, <2>4, <3>1
  <2>5. readPos < Len(wire) => wire[readPos + 1] \in Byte /\ readPos + 1 \in 0..Len(wire)
    OBVIOUS
  <2>6. QED BY <2>1, <2>3, <2>4, <2>5
<1>3. CASE EndDecompress
  <2>1. \A i \in 1..Capacity : (IF i <= Len(decoded) THEN decoded[i] ELSE Zero) \in Byte
    OBVIOUS
  <2>2. decoded' \in Seq(Byte) /\ Len(decoded') = Capacity
    BY <1>3, <2>1 DEF EndDecompress
  <2>3. QED BY <1>3, <2>2 DEF EndDecompress
<1>4. QED BY <1>1, <1>2, <1>3

LEMMA CodecTypes ==
  ASSUME TypeOK, CodecStep, UNCHANGED <<writer, at, parser>>
  PROVE  TypeOK'
<1>1. CoderOK' /\ DecoderOK'
  BY CoderStep, DecoderStep DEF TypeOK, CodecStep, writer
<1>2. stage' \in Stages \cup Ends
      /\ (stage' \in {"sizeFrames", "writeFrames"} => stage' = stage)
  BY DEF TypeOK, FormatOK, CodecStep, StartGroup, CodeByte, CloseGroup, EndCompress,
     ReadMask, DecodeByte, EndDecompress, Stages, Ends
<1>3. QED BY <1>1, <1>2 DEF TypeOK, FormatOK, writer, parser

\* The players' share of the size of a message, and of what is written.
LEMMA PlayerSizes ==
  ASSUME NEW m \in Messages
  PROVE  /\ OfPlayers(MeasuredPerPlayer, m) \in Nat /\ OfPlayers(WrittenPerPlayer, m) \in Nat
         /\ OfPlayers(WrittenPerPlayer, m) <= OfPlayers(MeasuredPerPlayer, m)
         /\ OfPlayers(WrittenPerPlayer, m) <=
              IF m.kind = "PlayerInput" THEN 5 * m.players ELSE 2 * m.players
<1>1. m.players \in 0..255
  BY PlayersType
<1>2. QED BY <1>1 DEF OfPlayers, MeasuredPerPlayer, WrittenPerPlayer

\* The frames of a player, as many as a tick packs at most.
LEMMA FramesType ==
  ASSUME FormatOK, NEW k \in 1..FramePlayers
  PROVE  /\ msg.frames[k] \in 0..MAX_INPUTS_PER_FRAME /\ 4 * msg.frames[k] \in Nat
         /\ k <= msg.players /\ msg.kind = "PlayerInput"
<1>1. msg.kind = "PlayerInput" /\ k \in 1..msg.players
  BY MessageShape DEF FormatOK, FramePlayers
<1>2. msg.frames \in Seq(0..MAX_INPUTS_PER_FRAME) /\ Len(msg.frames) = msg.players
  BY <1>1, MessageShape, KindsDisjoint DEF FormatOK
<1>3. msg.frames[k] \in 0..MAX_INPUTS_PER_FRAME
  <2>1. k \in 1..Len(msg.frames)
    BY <1>1, <1>2
  <2>2. QED BY <1>2, <2>1, ElementOfSeq
<1>4. QED BY <1>1, <1>3 DEF MAX_INPUTS_PER_FRAME

\* Nothing is coded before the message is written, nor decoded before it is sent.
Untouched ==
  /\ stage \in {"size", "sizeFrames", "write", "writeFrames"} =>
       wire = <<>> /\ inPos = 0 /\ maskPos = 0 /\ coding = <<>>
  /\ stage \in {"size", "sizeFrames", "write", "writeFrames", "compress"} =>
       msg.kind # "datagram" /\ readPos = 0 /\ decoded = <<>>
  /\ stage \in {"size", "sizeFrames", "writeFrames"} => msg.kind \in ServerKinds

LEMMA ServerWriterTypes ==
  ASSUME TypeOK, Untouched, Measure \/ MeasureFrames \/ Write \/ WriteFrames
  PROVE  TypeOK'
<1> USE DEF writer, parser, coder, decoder
<1>0. msg.players \in Nat /\ FramePlayers \in Nat
  <2>1. msg.players \in 0..255
    BY PlayersType DEF TypeOK, FormatOK
  <2>2. QED BY <2>1 DEF FramePlayers
<1>1. CASE Measure
  <2>1. size' \in Nat
    <3>1. FixedSize[msg.kind] \in Nat
      BY <1>1, FixedSizes DEF Measure, Untouched
    <3>2. OfPlayers(MeasuredPerPlayer, msg) \in Nat
      BY PlayerSizes DEF TypeOK, FormatOK
    <3>3. QED BY <1>1, <3>1, <3>2 DEF Measure, HeaderSize
  <2>2. mark' \in Seq(Nat)
    BY <1>1, <2>1 DEF Measure
  <2>3. QED BY <1>1, <2>1, <2>2 DEF Measure, TypeOK, FormatOK, CoderOK, DecoderOK, Stages
<1>2. CASE MeasureFrames
  <2>0. size \in Nat /\ at \in Nat /\ at >= 1 /\ mark \in Seq(Nat)
    BY <1>2 DEF MeasureFrames, TypeOK, FormatOK
  <2>1. CASE at <= FramePlayers /\ size' = size + 4 * msg.frames[at] /\ mark' = Append(mark, size')
             /\ at' = at + 1 /\ UNCHANGED stage
    <3>1. size' \in Nat
      BY <1>0, <2>0, <2>1, FramesType DEF TypeOK
    <3>2. mark' \in Seq(Nat)
      BY <2>0, <2>1, <3>1
    <3>3. QED BY <1>2, <2>0, <2>1, <3>1, <3>2 DEF MeasureFrames, TypeOK, FormatOK, CoderOK, DecoderOK
  <2>2. CASE stage' = "write" /\ UNCHANGED <<size, mark, at>>
    BY <1>2, <2>2 DEF MeasureFrames, TypeOK, FormatOK, CoderOK, DecoderOK, Stages
  <2>3. QED BY <1>2, <2>1, <2>2 DEF MeasureFrames
<1>3. CASE Write
  <2>1. HeaderSize + FixedSize[msg.kind] + OfPlayers(WrittenPerPlayer, msg) \in Nat
    <3>1. FixedSize[msg.kind] \in Nat
      BY <1>3, FixedSizes DEF Write
    <3>2. OfPlayers(WrittenPerPlayer, msg) \in Nat
      BY PlayerSizes DEF TypeOK, FormatOK
    <3>3. QED BY <3>1, <3>2 DEF HeaderSize
  <2>2. plain' \in Seq(Byte)
    BY <1>3, <2>1, FieldType DEF Write
  <2>3. inPos \in 0..Len(plain')
    BY <1>3, <2>2 DEF Write, Untouched
  <2>4. QED BY <1>3, <2>2, <2>3 DEF Write, TypeOK, FormatOK, CoderOK, DecoderOK, Stages
<1>4. CASE WriteFrames
  <2>1. CASE at <= FramePlayers /\ plain' = plain \o Field(Len(plain), 4 * msg.frames[at])
             /\ at' = at + 1 /\ UNCHANGED stage
    <3>0. at \in 1..FramePlayers
      BY <1>0, <1>4, <2>1 DEF TypeOK, FormatOK, WriteFrames
    <3>1. Len(plain) \in Nat /\ 4 * msg.frames[at] \in Nat /\ plain \in Seq(Byte)
      BY <3>0, FramesType DEF TypeOK, CoderOK
    <3>2. Field(Len(plain), 4 * msg.frames[at]) \in Seq(Byte)
      BY <3>1, FieldType
    <3>3. plain' \in Seq(Byte) /\ Len(plain') >= Len(plain)
      BY <2>1, <3>1, <3>2
    <3>4. inPos \in 0..Len(plain')
      BY <3>1, <3>3 DEF TypeOK, CoderOK
    <3>5. QED BY <1>4, <2>1, <3>3, <3>4 DEF WriteFrames, TypeOK, FormatOK, CoderOK, DecoderOK
  <2>2. CASE stage' = "compress" /\ UNCHANGED <<plain, at>>
    BY <1>4, <2>2, <1>0 DEF WriteFrames, TypeOK, FormatOK, CoderOK, DecoderOK, Stages
  <2>3. QED BY <1>4, <2>1, <2>2 DEF WriteFrames
<1>5. QED BY <1>1, <1>2, <1>3, <1>4

LEMMA ClientWriterTypes ==
  ASSUME TypeOK, Untouched, WriteByClient
  PROVE  TypeOK'
<1> DEFINE fixed == HeaderSize + ClientBytes(msg.kind)
           start == fixed + Len(msg.frames)
<1>1. fixed \in Nat /\ fixed - 1 \in Nat
  BY DEF HeaderSize, ClientBytes
<1>m. msg \in Messages
  BY DEF TypeOK, FormatOK
<1>2. Len(msg.frames) \in Nat /\ \A k \in 1..Len(msg.frames) : msg.frames[k] \in 0..255
  BY <1>m, FramesShape
<1>3. start \in Nat
  BY <1>1, <1>2
<1>4. WordBytes(msg) \in Nat
  <2>1. CASE msg.kind = "Input"
    <3>1. Len(msg.frames) = 2
      BY <2>1, FramesShape DEF TypeOK, FormatOK
    <3>2. msg.frames[1] \in 0..255 /\ msg.frames[2] \in 0..255
      BY <1>2, <3>1
    <3>3. WordBytes(msg) = 4 * (msg.frames[1] + msg.frames[2])
      BY <2>1 DEF WordBytes
    <3>4. \A a, b \in 0..255 : 4 * (a + b) \in Nat
      OBVIOUS
    <3>5. QED BY <3>2, <3>3, <3>4
  <2>2. CASE msg.kind = "PlayerInputAck"
    <3>1. Len(msg.frames) = 1
      BY <2>2, FramesShape DEF TypeOK, FormatOK
    <3>2. msg.frames[1] \in 0..255
      BY <1>2, <3>1
    <3>3. WordBytes(msg) = 4 * msg.frames[1] + 4
      BY <2>2 DEF WordBytes
    <3>4. QED BY <3>2, <3>3
  <2>3. CASE msg.kind \notin {"Input", "PlayerInputAck"}
    BY <2>3 DEF WordBytes
  <2>4. QED BY <2>1, <2>2, <2>3
<1>5. Field(1, fixed - 1) \in Seq(Byte) /\ Field(start, WordBytes(msg)) \in Seq(Byte)
  BY <1>1, <1>3, <1>4, FieldType
<1>6. Counts(msg) \in Seq(Byte)
  <2>1. \A k \in 1..Len(msg.frames) : Bits[msg.frames[k]] \in Byte
    BY <1>2, BitsType
  <2>2. QED BY <1>2, <2>1 DEF Counts
<1>7. <<Bits[TypeCode[msg.kind]]>> \in Seq(Byte)
  <2>1. Bits[TypeCode[msg.kind]] \in Byte
    BY TypeCodes, BitsType DEF WriteByClient
  <2>2. QED BY <2>1
<1>8. plain' \in Seq(Byte)
  <2>1. plain' = <<Bits[TypeCode[msg.kind]]>> \o Field(1, fixed - 1)
                   \o Counts(msg) \o Field(start, WordBytes(msg))
    BY DEF WriteByClient
  <2>2. <<Bits[TypeCode[msg.kind]]>> \o Field(1, fixed - 1) \in Seq(Byte)
    BY <1>5, <1>7, ConcatProperties
  <2>3. <<Bits[TypeCode[msg.kind]]>> \o Field(1, fixed - 1) \o Counts(msg) \in Seq(Byte)
    BY <1>6, <2>2, ConcatProperties
  <2>4. QED BY <1>5, <2>1, <2>3, ConcatProperties
<1>9. inPos \in 0..Len(plain')
  BY <1>8 DEF WriteByClient, Untouched
<1>10. QED
  BY <1>8, <1>9 DEF WriteByClient, TypeOK, FormatOK, CoderOK, DecoderOK, Stages,
     writer, parser, coder, decoder

LEMMA ParserTypes ==
  ASSUME TypeOK, Deliver \/ Parse \/ ParseFrames \/ ParseChecksums
  PROVE  TypeOK'
<1>1. UNCHANGED <<plain, coder, bit, mask, decoder, writer>>
  BY DEF Deliver, Parse, ParseFrames, ParseChecksums
<1>2. stage' \in {"done", "ignored", "parseFrames", "parseChecksums"}
  BY DEF Deliver, Parse, ParseFrames, ParseChecksums
<1>3. offset' \in Nat
  <2>0. offset \in Nat
    BY DEF TypeOK, FormatOK
  <2>1. \A list : ReadWord(list) => offset' \in Nat
    BY <2>0 DEF ReadWord, parser
  <2>2. \A kind : FirstWord(kind) \in Nat
    BY DEF FirstWord
  <2>3. QED BY <2>0, <2>1, <2>2 DEF Deliver, Parse, ParseFrames, ParseChecksums, parser
<1>4. at' \in Nat
  <2>0. at \in Nat
    BY DEF TypeOK, FormatOK
  <2>1. Next8(at) \in Nat
    BY <2>0 DEF Next8
  <2>2. QED BY <2>0, <2>1 DEF Deliver, Parse, ParseFrames, ParseChecksums, parser
<1>5. QED
  BY <1>1, <1>2, <1>3, <1>4 DEF TypeOK, FormatOK, CoderOK, DecoderOK, Stages, Ends,
     writer, coder, decoder

LEMMA UntouchedStep ==
  ASSUME TypeOK, Untouched, [Next]_vars
  PROVE  Untouched'
<1>1. CASE Measure \/ MeasureFrames \/ Write \/ WriteFrames
  BY <1>1 DEF Untouched, Measure, MeasureFrames, Write, WriteFrames, writer, coder, decoder
<1>2. CASE WriteByClient
  BY <1>2, KindsDisjoint DEF Untouched, WriteByClient, writer, coder, decoder
<1>3. CASE CodecStep /\ UNCHANGED <<writer, at, parser>>
  <2>1. stage' \notin {"size", "sizeFrames", "write", "writeFrames"}
    BY <1>3 DEF CodecStep, StartGroup, CodeByte, CloseGroup, EndCompress, ReadMask,
       DecodeByte, EndDecompress
  <2>2. stage' = "compress" => stage = "compress" /\ UNCHANGED <<decoder, msg>>
    BY <1>3 DEF CodecStep, StartGroup, CodeByte, CloseGroup, EndCompress, ReadMask,
       DecodeByte, EndDecompress, writer, decoder
  <2>3. QED BY <2>1, <2>2 DEF Untouched, decoder
<1>4. CASE Deliver \/ Parse \/ ParseFrames \/ ParseChecksums
  BY <1>4 DEF Untouched, Deliver, Parse, ParseFrames, ParseChecksums
<1>5. CASE UNCHANGED vars
  BY <1>5 DEF Untouched, vars, codec, coder, decoder, writer
<1>6. QED BY <1>1, <1>2, <1>3, <1>4, <1>5 DEF Next

\* In every state, the two buffers of the codec hold no more than Capacity
\* bytes, their positions are inside them, and every variable has its type.
THEOREM PacketTypes == Spec => [](TypeOK /\ Untouched)
<1>1. Init => TypeOK /\ Untouched
  <2> SUFFICES ASSUME Init PROVE TypeOK /\ Untouched
    OBVIOUS
  <2>1. msg \in Messages /\ msg.datagram \in Seq(Byte)
    BY MessageShape DEF Init
  <2>2. msg.kind # "datagram" => wire = <<>>
    BY MessagesAssumption, <2>1 DEF Init
  <2>3. CoderOK /\ DecoderOK
    BY <2>1, <2>2, ZeroType DEF Init, CoderOK, DecoderOK
  <2>4. FormatOK
    BY <2>1 DEF Init, FormatOK, Stages, Ends
  <2>5. Untouched
    BY <2>1, <2>2, KindsDisjoint DEF Init, Untouched
  <2>6. QED BY <2>3, <2>4, <2>5 DEF TypeOK
<1>2. TypeOK /\ Untouched /\ [Next]_vars => (TypeOK /\ Untouched)'
  <2> SUFFICES ASSUME TypeOK, Untouched, [Next]_vars PROVE TypeOK'
    BY UntouchedStep
  <2>1. CASE UNCHANGED vars
    BY <2>1 DEF vars, codec, coder, decoder, writer, parser, TypeOK, CoderOK, DecoderOK, FormatOK
  <2>2. QED BY <2>1, ServerWriterTypes, ClientWriterTypes, CodecTypes, ParserTypes DEF Next
<1>3. QED BY <1>1, <1>2, PTL DEF Spec

-----------------------------------------------------------------------------
(* The serializer.                                                         *)

\* The sizes of a message, as measured and as written, without its frames.
MeasuredFixed == HeaderSize + FixedSize[msg.kind] + OfPlayers(MeasuredPerPlayer, msg)
WrittenFixed  == HeaderSize + FixedSize[msg.kind] + OfPlayers(WrittenPerPlayer, msg)

\* mark records the running size as the frames of the players are measured.
Marked ==
  /\ stage = "sizeFrames" => at <= FramePlayers + 1 /\ Len(mark) = at
  /\ stage # "sizeFrames" => Len(mark) = FramePlayers + 1
  /\ size = mark[Len(mark)]
  /\ mark[1] = MeasuredFixed
  /\ \A k \in 1..Len(mark) - 1 : mark[k + 1] = mark[k] + 4 * msg.frames[k]
  /\ \A k \in 1..Len(mark) : mark[k] <= size

\* The writer stays behind those marks, and behind what its parts can take.
Written ==
  /\ stage \in {"sizeFrames", "write"} => plain = <<>>
  /\ stage = "writeFrames" =>
       /\ at <= FramePlayers + 1
       /\ Len(plain) <= mark[at]
       /\ Len(plain) <= WrittenFixed + 4 * MAX_INPUTS_PER_FRAME * (at - 1)
  /\ stage \notin {"sizeFrames", "write", "writeFrames"} =>
       /\ Len(plain) <= size
       /\ Len(plain) <= WrittenFixed + 4 * MAX_INPUTS_PER_FRAME * FramePlayers

WriterInv ==
  msg.kind \in ServerKinds =>
    IF stage = "size" THEN plain = <<>> ELSE Marked /\ Written

LEMMA FixedParts ==
  ASSUME NEW m \in Messages, msg = m, msg.kind \in ServerKinds
  PROVE  /\ MeasuredFixed \in Nat /\ WrittenFixed \in Nat /\ WrittenFixed <= MeasuredFixed
         /\ FramePlayers \in Nat /\ FramePlayers <= msg.players /\ msg.players \in 0..255
<1>1. FixedSize[msg.kind] \in Nat
  BY FixedSizes
<1>2. /\ OfPlayers(MeasuredPerPlayer, msg) \in Nat /\ OfPlayers(WrittenPerPlayer, msg) \in Nat
      /\ OfPlayers(WrittenPerPlayer, msg) <= OfPlayers(MeasuredPerPlayer, msg)
  BY PlayerSizes
<1>3. msg.players \in 0..255
  BY PlayersType
<1>4. FramePlayers \in Nat /\ FramePlayers <= msg.players
  BY <1>3 DEF FramePlayers
<1>5. QED BY <1>1, <1>2, <1>3, <1>4 DEF MeasuredFixed, WrittenFixed, HeaderSize

LEMMA MeasureKeeps ==
  ASSUME TypeOK, Untouched, WriterInv, Measure
  PROVE  WriterInv'
<1>1. msg' = msg /\ msg.kind \in ServerKinds /\ stage = "size" /\ stage' = "sizeFrames"
  BY DEF Measure, Untouched, writer
<1>2. MeasuredFixed \in Nat /\ FramePlayers \in Nat
  BY <1>1, FixedParts DEF TypeOK, FormatOK
<1>3. size' = MeasuredFixed /\ mark' = <<MeasuredFixed>> /\ at' = 1 /\ plain' = <<>>
  BY <1>1 DEF Measure, MeasuredFixed, WriterInv
<1>4. MeasuredFixed' = MeasuredFixed /\ FramePlayers' = FramePlayers
  BY <1>1 DEF MeasuredFixed, FramePlayers, OfPlayers
<1>5. Len(mark') = 1 /\ mark'[1] = MeasuredFixed
  BY <1>3
<1>6. Marked'
  BY <1>1, <1>2, <1>3, <1>4, <1>5 DEF Marked
<1>7. Written'
  BY <1>1, <1>3 DEF Written
<1>8. QED BY <1>1, <1>6, <1>7 DEF WriterInv

LEMMA MeasureFramesKeeps ==
  ASSUME TypeOK, Untouched, WriterInv, MeasureFrames
  PROVE  WriterInv'
<1>1. msg' = msg /\ msg.kind \in ServerKinds /\ stage = "sizeFrames" /\ plain' = plain
  BY DEF MeasureFrames, Untouched, writer
<1>2. Marked /\ plain = <<>>
  BY <1>1 DEF WriterInv, Written
<1>3. MeasuredFixed' = MeasuredFixed /\ FramePlayers' = FramePlayers /\ FramePlayers \in Nat
  BY <1>1, FixedParts DEF MeasuredFixed, FramePlayers, OfPlayers, TypeOK, FormatOK
<1>4. at \in Nat \ {0} /\ mark \in Seq(Nat) /\ Len(mark) = at /\ size = mark[at] /\ size \in Nat
  BY <1>1, <1>2 DEF TypeOK, FormatOK, Marked
<1>5. CASE /\ at <= FramePlayers /\ size' = size + 4 * msg.frames[at]
           /\ mark' = Append(mark, size') /\ at' = at + 1 /\ UNCHANGED stage
  <2>1. 4 * msg.frames[at] \in Nat
    BY <1>3, <1>4, <1>5, FramesType DEF TypeOK
  <2>2. size' \in Nat /\ size' >= size
    BY <1>4, <1>5, <2>1
  <2>3. /\ Len(mark') = at + 1 /\ mark'[at + 1] = size'
        /\ \A k \in 1..at : mark'[k] = mark[k]
    BY <1>4, <1>5, <2>2
  <2>4. \A k \in 1..at : mark[k] \in Nat
    BY <1>4
  <2>5. \A k \in 1..at + 1 : mark'[k] <= size'
    BY <1>2, <1>4, <2>2, <2>3, <2>4 DEF Marked
  <2>6. \A k \in 1..at : mark'[k + 1] = mark'[k] + 4 * msg.frames[k]
    <3>1. \A k \in 1..at - 1 : mark[k + 1] = mark[k] + 4 * msg.frames[k] /\ k + 1 \in 1..at
      BY <1>2, <1>4 DEF Marked
    <3>2. mark'[at + 1] = mark'[at] + 4 * msg.frames[at]
      BY <1>4, <1>5, <2>3
    <3>3. QED BY <1>4, <2>3, <3>1, <3>2
  <2>7. mark'[1] = MeasuredFixed
    BY <1>2, <1>4, <2>3 DEF Marked
  <2>8. Marked'
    BY <1>1, <1>3, <1>4, <1>5, <2>3, <2>5, <2>6, <2>7 DEF Marked
  <2>9. QED BY <1>1, <1>2, <1>5, <2>8 DEF WriterInv, Written
<1>6. CASE at > FramePlayers /\ stage' = "write" /\ UNCHANGED <<size, mark, at>>
  <2>1. Marked'
    BY <1>1, <1>2, <1>3, <1>4, <1>6 DEF Marked
  <2>2. QED BY <1>1, <1>2, <1>6, <2>1 DEF WriterInv, Written
<1>7. QED BY <1>5, <1>6 DEF MeasureFrames

LEMMA WriteKeeps ==
  ASSUME TypeOK, WriterInv, Write
  PROVE  WriterInv'
<1>1. /\ msg' = msg /\ msg.kind \in ServerKinds /\ stage = "write" /\ stage' = "writeFrames"
      /\ size' = size /\ mark' = mark /\ at' = 1
  BY DEF Write, writer
<1>2. Marked
  BY <1>1 DEF WriterInv
<1>3. /\ MeasuredFixed' = MeasuredFixed /\ WrittenFixed' = WrittenFixed
      /\ FramePlayers' = FramePlayers
  BY <1>1 DEF MeasuredFixed, WrittenFixed, FramePlayers, OfPlayers
<1>4. /\ MeasuredFixed \in Nat /\ WrittenFixed \in Nat /\ WrittenFixed <= MeasuredFixed
      /\ FramePlayers \in Nat
  BY <1>1, FixedParts DEF TypeOK, FormatOK
<1>5. Marked'
  BY <1>1, <1>2, <1>3 DEF Marked
<1>6. Len(plain') = WrittenFixed
  BY <1>4, FieldType DEF Write, WrittenFixed
<1>7. mark[1] = MeasuredFixed
  BY <1>2 DEF Marked
<1>8. Written'
  BY <1>1, <1>3, <1>4, <1>6, <1>7 DEF Written, MAX_INPUTS_PER_FRAME
<1>9. QED BY <1>1, <1>5, <1>8 DEF WriterInv

LEMMA WriteFramesKeeps ==
  ASSUME TypeOK, Untouched, WriterInv, WriteFrames
  PROVE  WriterInv'
<1>1. /\ msg' = msg /\ msg.kind \in ServerKinds /\ stage = "writeFrames"
      /\ size' = size /\ mark' = mark
  BY DEF WriteFrames, writer, Untouched
<1>2. Marked /\ Written
  BY <1>1 DEF WriterInv
<1>3. /\ MeasuredFixed' = MeasuredFixed /\ WrittenFixed' = WrittenFixed
      /\ FramePlayers' = FramePlayers /\ FramePlayers \in Nat /\ WrittenFixed \in Nat
  BY <1>1, FixedParts DEF MeasuredFixed, WrittenFixed, FramePlayers, OfPlayers, TypeOK, FormatOK
<1>4. /\ at \in Nat \ {0} /\ at <= FramePlayers + 1 /\ Len(mark) = FramePlayers + 1
      /\ plain \in Seq(Byte) /\ mark \in Seq(Nat) /\ size \in Nat
  BY <1>1, <1>2 DEF TypeOK, FormatOK, CoderOK, Marked, Written
<1>5. /\ Len(plain) \in Nat /\ Len(plain) <= mark[at]
      /\ Len(plain) <= WrittenFixed + 120 * (at - 1)
  BY <1>1, <1>2, <1>4 DEF Written, MAX_INPUTS_PER_FRAME
<1>6. CASE /\ at <= FramePlayers /\ plain' = plain \o Field(Len(plain), 4 * msg.frames[at])
           /\ at' = at + 1 /\ UNCHANGED stage
  <2>1. msg.frames[at] \in 0..30 /\ 4 * msg.frames[at] \in Nat
    BY <1>3, <1>4, <1>6, FramesType DEF TypeOK, MAX_INPUTS_PER_FRAME
  <2>2. Len(plain') = Len(plain) + 4 * msg.frames[at]
    <3>1. /\ Field(Len(plain), 4 * msg.frames[at]) \in Seq(Byte)
          /\ Len(Field(Len(plain), 4 * msg.frames[at])) = 4 * msg.frames[at]
      BY <1>5, <2>1, FieldType
    <3>2. \A s, t \in Seq(Byte) : Len(s \o t) = Len(s) + Len(t)
      BY ConcatProperties
    <3>3. QED BY <1>4, <1>6, <3>1, <3>2
  <2>3. mark[at + 1] = mark[at] + 4 * msg.frames[at] /\ mark[at] \in Nat
    BY <1>2, <1>3, <1>4, <1>6 DEF Marked
  <2>4. Len(plain') <= mark[at']
    BY <1>5, <1>6, <2>1, <2>2, <2>3
  <2>5. Len(plain') <= WrittenFixed + 120 * (at' - 1)
    <3>1. \A n, f, a, c \in Nat : n <= c + 120 * (a - 1) /\ f <= 30
                                  => n + 4 * f <= c + 120 * ((a + 1) - 1)
      OBVIOUS
    <3>2. msg.frames[at] \in Nat /\ msg.frames[at] <= 30
      BY <2>1
    <3>3. QED BY <1>3, <1>4, <1>5, <1>6, <2>2, <3>1, <3>2
  <2>6. Marked'
    BY <1>1, <1>2, <1>3, <1>6 DEF Marked
  <2>7. at' <= FramePlayers + 1
    BY <1>3, <1>4, <1>6
  <2>8. Written'
    BY <1>1, <1>3, <1>6, <2>4, <2>5, <2>7 DEF Written, MAX_INPUTS_PER_FRAME
  <2>9. QED BY <1>1, <1>6, <2>6, <2>8 DEF WriterInv
<1>7. CASE at > FramePlayers /\ stage' = "compress" /\ UNCHANGED <<plain, at>>
  <2>1. at = FramePlayers + 1
    BY <1>3, <1>4, <1>7
  <2>2. Len(plain) <= size /\ Len(plain) <= WrittenFixed + 120 * FramePlayers
    BY <1>2, <1>3, <1>4, <1>5, <2>1 DEF Marked
  <2>3. Marked'
    BY <1>1, <1>2, <1>3, <1>7 DEF Marked
  <2>4. Written'
    BY <1>1, <1>3, <1>7, <2>2 DEF Written, MAX_INPUTS_PER_FRAME
  <2>5. QED BY <1>1, <1>7, <2>3, <2>4 DEF WriterInv
<1>8. QED BY <1>6, <1>7 DEF WriteFrames

\* The steps after the writer leave what it wrote alone.
LEMMA LaterStepKeeps ==
  ASSUME TypeOK, Untouched, WriterInv,
         \/ CodecStep /\ UNCHANGED <<writer, at, parser>>
         \/ Deliver \/ Parse \/ ParseFrames \/ ParseChecksums
  PROVE  WriterInv'
<1>1. UNCHANGED <<plain, msg, size, mark>>
  BY DEF CodecStep, StartGroup, CodeByte, CloseGroup, EndCompress, ReadMask, DecodeByte,
     EndDecompress, Deliver, Parse, ParseFrames, ParseChecksums, writer
<1>2. {stage, stage'} \cap {"size", "sizeFrames", "write", "writeFrames"} = {}
  BY DEF CodecStep, StartGroup, CodeByte, CloseGroup, EndCompress, ReadMask, DecodeByte,
     EndDecompress, Deliver, Parse, ParseFrames, ParseChecksums
<1>3. /\ MeasuredFixed' = MeasuredFixed /\ WrittenFixed' = WrittenFixed
      /\ FramePlayers' = FramePlayers
  BY <1>1 DEF MeasuredFixed, WrittenFixed, FramePlayers, OfPlayers
<1>4. QED BY <1>1, <1>2, <1>3 DEF WriterInv, Marked, Written

LEMMA WriterInvariant == Spec => []WriterInv
<1>1. Init => WriterInv
  BY KindsDisjoint DEF Init, WriterInv
<1>2. TypeOK /\ Untouched /\ WriterInv /\ [Next]_vars => WriterInv'
  <2> SUFFICES ASSUME TypeOK, Untouched, WriterInv, [Next]_vars PROVE WriterInv'
    OBVIOUS
  <2>1. CASE WriteByClient
    BY <2>1, KindsDisjoint DEF WriterInv, WriteByClient, writer
  <2>2. CASE UNCHANGED vars
    BY <2>2 DEF vars, codec, coder, decoder, writer, parser, WriterInv, Marked, Written,
       MeasuredFixed, WrittenFixed, FramePlayers, OfPlayers
  <2>3. QED BY <2>1, <2>2, MeasureKeeps, MeasureFramesKeeps, WriteKeeps, WriteFramesKeeps,
       LaterStepKeeps DEF Next
<1>3. QED BY <1>1, <1>2, PacketTypes, PTL DEF Spec

\* No payload makes serializeServerMessage write past the end of the vector it
\* has sized, whatever the numbers of players and frames.
THEOREM SerializerStaysInBounds == Spec => []WritesInBounds
<1>1. TypeOK /\ WriterInv => WritesInBounds
  <2> SUFFICES ASSUME TypeOK, WriterInv, msg.kind \in ServerKinds, stage # "size"
               PROVE  Len(plain) <= size
    BY DEF WritesInBounds
  <2>1. Marked /\ Written
    BY DEF WriterInv
  <2>2. size \in Nat /\ mark \in Seq(Nat) /\ at \in Nat /\ Len(plain) \in Nat
    BY DEF TypeOK, FormatOK, CoderOK
  <2>3. CASE stage \in {"sizeFrames", "write"}
    BY <2>1, <2>2, <2>3 DEF Written
  <2>4. CASE stage = "writeFrames"
    <3>1. at \in 1..Len(mark)
      BY <2>1, <2>2, <2>4, FixedParts DEF TypeOK, FormatOK, Marked, Written
    <3>2. mark[at] <= size /\ mark[at] \in Nat
      BY <2>1, <2>2, <3>1 DEF Marked
    <3>3. QED BY <2>1, <2>2, <2>4, <3>2 DEF Written
  <2>5. QED BY <2>1, <2>3, <2>4 DEF Written
<1>2. QED BY <1>1, PacketTypes, WriterInvariant, PTL

-----------------------------------------------------------------------------
(* The room in the packet.                                                 *)

\* While no group is open, eight bytes took at most nine; in an open group, its
\* mask and what it coded come on top.
RoomInv ==
  /\ stage = "compress" /\ maskPos = 0 /\ inPos < Len(plain) => 8 * Len(wire) <= 9 * inPos
  /\ stage = "compress" /\ maskPos # 0 =>
       bit <= inPos /\ 8 * Len(wire) <= 9 * (inPos - bit) + 8 + 8 * bit
  /\ stage = "overflow" => 8 * Capacity <= 9 * Len(plain) + 8

LEMMA RoomStep ==
  ASSUME TypeOK, TypeOK', Untouched, RoomInv, [Next]_vars
  PROVE  RoomInv'
<1>1. /\ Len(wire) \in Nat /\ Len(plain) \in Nat /\ inPos \in Nat /\ inPos <= Len(plain)
      /\ bit \in 0..8 /\ maskPos \in Nat /\ plain \in Seq(Byte) /\ wire \in Seq(Byte)
  BY ZeroType DEF TypeOK, CoderOK
<1>2. CASE StartGroup
  <2>1. stage = "compress" /\ maskPos = 0 /\ inPos < Len(plain) /\ plain' = plain /\ inPos' = inPos
    BY <1>2 DEF StartGroup
  <2>2. 8 * Len(wire) <= 9 * inPos
    BY <2>1 DEF RoomInv
  <2>3. CASE Len(wire) >= Capacity /\ stage' = "overflow"
    BY <1>1, <2>1, <2>2, <2>3, ZeroType DEF RoomInv
  <2>4. CASE wire' = Append(wire, Zero) /\ maskPos' = Len(wire) + 1 /\ bit' = 0 /\ UNCHANGED stage
    <3>1. Len(wire') = Len(wire) + 1
      BY <1>1, <2>4, ZeroType
    <3>2. QED BY <1>1, <2>1, <2>2, <2>4, <3>1 DEF RoomInv
  <2>5. QED BY <1>2, <2>3, <2>4 DEF StartGroup
<1>3. CASE CodeByte
  <2>1. /\ stage = "compress" /\ maskPos # 0 /\ bit < 8 /\ inPos < Len(plain)
        /\ plain' = plain /\ maskPos' = maskPos
    BY <1>3, ZeroType DEF CodeByte, GroupOpen
  <2>2. bit <= inPos /\ 8 * Len(wire) <= 9 * (inPos - bit) + 8 + 8 * bit
    BY <2>1 DEF RoomInv
  <2>3. CASE stage' = "overflow" /\ Len(wire) >= Capacity
    BY <1>1, <2>1, <2>2, <2>3, ZeroType DEF RoomInv
  <2>4. ASSUME inPos' = inPos + 1, bit' = bit + 1, stage' = stage, Len(wire') <= Len(wire) + 1
        PROVE  RoomInv'
    <3>1. Len(wire') \in Nat
      BY DEF TypeOK, CoderOK
    <3>2. bit' <= inPos' /\ 8 * Len(wire') <= 9 * (inPos' - bit') + 8 + 8 * bit'
      BY <1>1, <2>2, <2>4, <3>1
    <3>3. QED BY <2>1, <2>4, <3>2 DEF RoomInv
  <2>5. plain[inPos + 1] \in Byte
    BY <1>1, <2>1
  <2>6. Len(Append(wire, plain[inPos + 1])) = Len(wire) + 1
    BY <1>1, <2>5
  <2>7. QED BY <1>1, <1>3, <2>3, <2>4, <2>6 DEF CodeByte, Advance
<1>4. CASE CloseGroup
  <2>1. /\ stage = "compress" /\ maskPos # 0 /\ stage' = stage /\ maskPos' = 0
        /\ plain' = plain /\ inPos' = inPos /\ (bit = 8 \/ inPos = Len(plain))
    BY <1>1, <1>4, ZeroType DEF CloseGroup, GroupOpen
  <2>2. Len(wire') = Len(wire)
    BY <1>1, <1>4 DEF CloseGroup
  <2>3. 8 * Len(wire) <= 9 * (inPos - bit) + 8 + 8 * bit
    BY <2>1 DEF RoomInv
  <2>4. inPos < Len(plain) => 8 * Len(wire) <= 9 * inPos
    BY <1>1, <2>1, <2>3
  <2>5. QED BY <2>1, <2>2, <2>4 DEF RoomInv
<1>5. CASE WriteFrames \/ WriteByClient
  <2>1. stage' # "overflow" /\ maskPos' = 0 /\ wire' = <<>> /\ inPos' = 0
    BY <1>5 DEF WriteFrames, WriteByClient, Untouched, coder
  <2>2. Len(wire') = 0
    BY <2>1
  <2>3. QED BY <2>1, <2>2 DEF RoomInv
<1>6. CASE UNCHANGED vars
  BY <1>6 DEF vars, codec, coder, RoomInv
<1>7. CASE \/ EndCompress \/ ReadMask \/ DecodeByte \/ EndDecompress
           \/ Measure \/ MeasureFrames \/ Write
           \/ Deliver \/ Parse \/ ParseFrames \/ ParseChecksums
  <2>1. stage' \notin {"compress", "overflow"}
    BY <1>7 DEF EndCompress, ReadMask, DecodeByte, EndDecompress, Measure, MeasureFrames,
       Write, Deliver, Parse, ParseFrames, ParseChecksums
  <2>2. QED BY <2>1 DEF RoomInv
<1>8. QED BY <1>2, <1>3, <1>4, <1>5, <1>6, <1>7 DEF Next, CodecStep

LEMMA RoomInvariant == Spec => []RoomInv
<1>1. Init => RoomInv
  BY DEF Init, RoomInv
<1>2. (TypeOK /\ Untouched) /\ (TypeOK /\ Untouched)' /\ RoomInv /\ [Next]_vars => RoomInv'
  BY RoomStep
<1>3. QED BY <1>1, <1>2, PacketTypes, PTL DEF Spec

\* compressPacket throws for no message to at most 7 players, nor for any other
\* message than a PlayerInput: those fit in a packet whatever they contain.
THEOREM PacketsAlwaysFit == Spec => []PacketsFit
<1>1. TypeOK /\ WriterInv /\ RoomInv => PacketsFit
  <2> SUFFICES ASSUME TypeOK, WriterInv, RoomInv, msg.kind \in ServerKinds, stage = "overflow"
               PROVE  msg.kind = "PlayerInput" /\ msg.players > 7
    BY DEF PacketsFit
  <2>1. 8 * 1024 <= 9 * Len(plain) + 8 /\ Len(plain) \in Nat
    BY DEF RoomInv, Capacity, TypeOK, CoderOK
  <2>2. Len(plain) <= WrittenFixed + 120 * FramePlayers
    BY DEF WriterInv, Written, MAX_INPUTS_PER_FRAME
  <2>3. msg \in Messages /\ msg.players \in 0..255
    BY PlayersType DEF TypeOK, FormatOK
  <2>4. FixedSize[msg.kind] \in 0..15 /\ (msg.kind # "PlayerInput" => FixedSize[msg.kind] <= 9)
    BY FixedSizes
  <2>5. /\ OfPlayers(WrittenPerPlayer, msg) \in Nat
        /\ OfPlayers(WrittenPerPlayer, msg) <=
             IF msg.kind = "PlayerInput" THEN 5 * msg.players ELSE 2 * msg.players
    BY <2>3, PlayerSizes
  <2>6. CASE msg.kind = "PlayerInput"
    <3>1. FramePlayers = msg.players
      BY <2>6 DEF FramePlayers
    <3>2. WrittenFixed <= 20 + 5 * msg.players /\ WrittenFixed \in Nat
      BY <2>3, <2>4, <2>5, <2>6 DEF WrittenFixed, HeaderSize
    <3>3. \A n, w, k \in Nat : 8 * 1024 <= 9 * n + 8 /\ n <= w + 120 * k /\ w <= 20 + 5 * k
                               => k > 7
      OBVIOUS
    <3>4. msg.players \in Nat
      BY <2>3
    <3>5. QED BY <2>1, <2>2, <2>6, <3>1, <3>2, <3>3, <3>4
  <2>7. CASE msg.kind # "PlayerInput"
    <3>1. FramePlayers = 0
      BY <2>7 DEF FramePlayers
    <3>2. WrittenFixed <= 14 + 2 * msg.players /\ WrittenFixed \in Nat
      BY <2>3, <2>4, <2>5, <2>7 DEF WrittenFixed, HeaderSize
    <3>3. \A n, w \in Nat : \A k \in 0..255 :
            ~(8 * 1024 <= 9 * n + 8 /\ n <= w + 120 * 0 /\ w <= 14 + 2 * k)
      OBVIOUS
    <3>4. QED BY <2>1, <2>2, <2>3, <3>1, <3>2, <3>3
  <2>8. QED BY <2>6, <2>7
<1>2. QED BY <1>1, PacketTypes, WriterInvariant, RoomInvariant, PTL

-----------------------------------------------------------------------------
(* The code.                                                               *)

\* Where the output ended after the first i bytes.
EndOf(i) == IF i = 0 THEN 0 ELSE coding[i].end

\* The mask byte at a position of the output; an open group's is not yet there.
MaskAt(p) == IF p = maskPos THEN mask ELSE wire[p]

\* How byte i of the message lies in the output: its group's mask says whether
\* it follows; the group is the one of byte i - 1, or begins after that.
CodedAt(i) ==
  /\ coding[i].mask \in 1..Len(wire) /\ coding[i].end \in 1..Len(wire)
  /\ coding[i].bit = 0 =>
       /\ coding[i].mask = EndOf(i - 1) + 1
       /\ i = 1 \/ coding[i - 1].bit = 7
  /\ coding[i].bit # 0 =>
       /\ i > 1 /\ coding[i - 1].mask = coding[i].mask
       /\ coding[i - 1].bit = coding[i].bit - 1
  /\ coding[i].end = EndOf(i - 1) + (IF coding[i].bit = 0 THEN 1 ELSE 0)
                                  + (IF plain[i] = Zero THEN 0 ELSE 1)
  /\ plain[i] # Zero => wire[coding[i].end] = plain[i] /\ coding[i].end # maskPos
  /\ coding[i].bit \in MaskAt(coding[i].mask) <=> plain[i] # Zero

GroupEnds(i) == i = 0 \/ coding[i].bit = 7

BetweenGroups ==
  /\ Len(wire) = EndOf(inPos)
  /\ inPos < Len(plain) => GroupEnds(inPos)
  /\ inPos > 0 => wire[coding[inPos].mask] \subseteq 0..coding[inPos].bit

InGroup ==
  /\ mask \subseteq 0..bit - 1
  /\ \A i \in 1..inPos : coding[i].mask = maskPos => coding[i].bit < bit
  /\ bit = 0 =>
       /\ inPos < Len(plain) /\ GroupEnds(inPos)
       /\ maskPos = Len(wire) /\ Len(wire) = EndOf(inPos) + 1
  /\ bit > 0 =>
       /\ inPos > 0 /\ Len(wire) = EndOf(inPos)
       /\ coding[inPos].bit = bit - 1 /\ coding[inPos].mask = maskPos

CodedInv ==
  msg.kind # "datagram" /\ stage # "overflow" =>
    /\ Len(coding) = inPos
    /\ \A i \in 1..inPos : CodedAt(i)
    /\ IF maskPos = 0 THEN BetweenGroups ELSE InGroup

\* The message and then zeros, as far as the decoder gives them.
Expected(i) == IF i <= Len(plain) THEN plain[i] ELSE Zero

\* The decoder after k bytes, between two groups or in one: it is where the
\* coder was after as many, or behind the message.
DecoderAt(k) ==
  /\ \A i \in 1..k : decoded[i] = Expected(i)
  /\ k >= Len(plain) => readPos = Len(wire) /\ (bit < GroupSize => mask \cap bit..7 = {})
  /\ k < Len(plain) /\ bit = GroupSize => readPos = EndOf(k) /\ GroupEnds(k)
  /\ k < Len(plain) /\ bit < GroupSize =>
       /\ coding[k + 1].bit = bit /\ mask = wire[coding[k + 1].mask]
       /\ readPos = IF bit = 0 THEN EndOf(k) + 1 ELSE EndOf(k)

DecodedInv ==
  msg.kind # "datagram" =>
    /\ stage # "truncated"
    /\ stage \in {"decompress", "parse", "parseFrames", "parseChecksums", "done", "ignored"} =>
         inPos = Len(plain) /\ maskPos = 0
    /\ stage = "parse" => decoded = [i \in 1..Capacity |-> Expected(i)]
    /\ stage = "decompress" => DecoderAt(Len(decoded))

LEMMA CodingType ==
  ASSUME TypeOK, Len(coding) = inPos, NEW i \in 1..inPos
  PROVE  coding[i].mask \in Nat /\ coding[i].bit \in 0..7 /\ coding[i].end \in Nat
<1>1. coding \in Seq(CodedByte) /\ i \in 1..Len(coding)
  BY DEF TypeOK, CoderOK
<1>2. coding[i] \in CodedByte
  BY <1>1, ElementOfSeq
<1>3. QED BY <1>2, ZeroType DEF CodedByte

LEMMA StartGroupKeeps ==
  ASSUME TypeOK, CodedInv, msg.kind # "datagram", msg' = msg, StartGroup
  PROVE  CodedInv'
<1>1. CASE stage' = "overflow"
  BY <1>1 DEF CodedInv
<1>2. CASE Len(wire) < Capacity /\ wire' = Append(wire, Zero) /\ maskPos' = Len(wire) + 1
           /\ mask' = Zero /\ bit' = 0 /\ UNCHANGED stage
  <2>1. /\ stage = "compress" /\ maskPos = 0 /\ inPos < Len(plain)
        /\ UNCHANGED <<plain, inPos, coding>>
    BY DEF StartGroup
  <2>2. Len(coding) = inPos /\ (\A i \in 1..inPos : CodedAt(i)) /\ BetweenGroups
    BY <2>1 DEF CodedInv
  <2>3. wire \in Seq(Byte) /\ Zero \in Byte /\ Len(wire) \in Nat /\ inPos \in Nat
    BY ZeroType DEF TypeOK, CoderOK
  <2>4. Len(wire') = Len(wire) + 1 /\ \A p \in 1..Len(wire) : wire'[p] = wire[p]
    BY <1>2, <2>3
  <2>5. ASSUME NEW i \in 1..inPos PROVE CodedAt(i)'
    <3>1. CodedAt(i)
      BY <2>2
    <3>2. coding[i].mask \in 1..Len(wire) /\ coding[i].end \in 1..Len(wire)
      BY <3>1 DEF CodedAt
    <3>3. EndOf(i - 1)' = EndOf(i - 1)
      BY <2>1 DEF EndOf
    <3>4. MaskAt(coding[i].mask)' = MaskAt(coding[i].mask)
      BY <1>2, <2>1, <2>3, <2>4, <3>2 DEF MaskAt
    <3>5. wire'[coding[i].end] = wire[coding[i].end] /\ coding[i].end # maskPos'
      BY <1>2, <2>3, <2>4, <3>2
    <3>6. coding'[i].mask \in 1..Len(wire') /\ coding'[i].end \in 1..Len(wire')
      BY <2>1, <2>3, <2>4, <3>2
    <3>7. QED BY <2>1, <3>1, <3>3, <3>4, <3>5, <3>6 DEF CodedAt
  <2>6. InGroup'
    <3>1. \A i \in 1..inPos : coding[i].mask # maskPos'
      BY <1>2, <2>2, <2>3 DEF CodedAt
    <3>2. Len(wire) = EndOf(inPos) /\ GroupEnds(inPos)
      BY <2>1, <2>2 DEF BetweenGroups
    <3>3. EndOf(inPos)' = EndOf(inPos) /\ GroupEnds(inPos)' = GroupEnds(inPos)
      BY <2>1 DEF EndOf, GroupEnds
    <3>4. maskPos' = Len(wire') /\ Len(wire') = EndOf(inPos)' + 1
      BY <1>2, <2>4, <3>2, <3>3
    <3>5. QED BY <1>2, <2>1, <3>1, <3>2, <3>3, <3>4 DEF InGroup, Zero
  <2>7. maskPos' # 0
    BY <1>2, <2>3
  <2>8. QED BY <2>1, <2>2, <2>5, <2>6, <2>7 DEF CodedInv
<1>3. QED BY <1>1, <1>2 DEF StartGroup

LEMMA CodeByteKeeps ==
  ASSUME TypeOK, TypeOK', CodedInv, msg.kind # "datagram", msg' = msg, CodeByte,
         NEW n \in Nat, NEW b \in 0..7, NEW v \in Byte,
         n = inPos, b = bit, v = plain[n + 1]
  PROVE  CodedInv'
<1>1. CASE stage' = "overflow"
  BY <1>1 DEF CodedInv
<1>2. CASE /\ \/ v = Zero /\ UNCHANGED <<stage, wire, mask>>
              \/ /\ v # Zero /\ mask' = mask \cup {bit} /\ wire' = Append(wire, v)
                 /\ UNCHANGED stage
           /\ Advance
  <2>1. /\ stage = "compress" /\ maskPos # 0 /\ n < Len(plain)
        /\ UNCHANGED <<plain, maskPos>>
    BY DEF CodeByte, GroupOpen
  <2>2. Len(coding) = n /\ (\A i \in 1..n : CodedAt(i)) /\ InGroup
    BY <2>1 DEF CodedInv
  <2>i. \A i \in 1..n : coding[i].mask = maskPos => coding[i].bit < b
    <3>1. InGroup
      BY <2>2
    <3>2. \A i \in 1..inPos : coding[i].mask = maskPos => coding[i].bit < bit
      BY <3>1, Zenon DEF InGroup
    <3>3. QED BY <3>2
  <2>3. /\ wire \in Seq(Byte) /\ Len(wire) \in Nat
        /\ maskPos \in 1..Len(wire) /\ coding \in Seq(CodedByte) /\ wire' \in Seq(Byte)
    BY <2>1 DEF TypeOK, CoderOK
  <2>4. /\ Len(wire') = Len(wire) + (IF v = Zero THEN 0 ELSE 1)
        /\ \A p \in 1..Len(wire) : wire'[p] = wire[p]
        /\ v # Zero => wire'[Len(wire')] = v
    <3>1. CASE v = Zero /\ UNCHANGED wire
      BY <2>3, <3>1
    <3>2. CASE v # Zero /\ wire' = Append(wire, v)
      <4>1. Len(wire') = Len(wire) + 1 /\ wire'[Len(wire) + 1] = v
            /\ \A p \in 1..Len(wire) : wire'[p] = wire[p]
        BY <2>3, <3>2
      <4>2. QED BY <3>2, <4>1
    <3>3. QED BY <1>2, <3>1, <3>2
  <2>5. inPos' = n + 1 /\ bit' = b + 1
        /\ coding' = Append(coding, [mask |-> maskPos, bit |-> b, end |-> Len(wire')])
    BY <1>2 DEF Advance
  <2>6. [mask |-> maskPos, bit |-> b, end |-> Len(wire')] \in CodedByte
    BY <2>3, <2>4, ZeroType DEF CodedByte
  <2>7. /\ Len(coding') = n + 1 /\ coding'[n + 1] = [mask |-> maskPos, bit |-> b, end |-> Len(wire')]
        /\ \A i \in 1..n : coding'[i] = coding[i]
    BY <2>2, <2>3, <2>5, <2>6
  <2>8. \A i \in 0..n : EndOf(i)' = EndOf(i)
    BY <2>7 DEF EndOf
  <2>9. ASSUME NEW i \in 1..n PROVE CodedAt(i)'
    <3>1. CodedAt(i)
      BY <2>2
    <3>2. /\ coding[i].mask \in 1..Len(wire) /\ coding[i].end \in 1..Len(wire)
          /\ coding[i].bit \in 0..7
      BY <2>2, <3>1, CodingType DEF CodedAt
    <3>3. coding[i].bit \in MaskAt(coding[i].mask)' <=> coding[i].bit \in MaskAt(coding[i].mask)
      <4>1. CASE coding[i].mask # maskPos
        BY <2>1, <2>4, <2>7, <3>2, <4>1 DEF MaskAt
      <4>2. CASE coding[i].mask = maskPos
        <5>1. MaskAt(coding[i].mask) = mask /\ MaskAt(coding[i].mask)' = mask'
          BY <2>1, <2>7, <4>2 DEF MaskAt
        <5>2. coding[i].bit # bit
          BY <2>i, <3>2, <4>2
        <5>3. QED BY <1>2, <5>1, <5>2
      <4>3. QED BY <4>1, <4>2
    <3>4. wire'[coding[i].end] = wire[coding[i].end]
      BY <2>4, <3>2
    <3>5. coding[i].mask \in 1..Len(wire') /\ coding[i].end \in 1..Len(wire')
      BY <2>3, <2>4, <3>2
    <3>6. coding'[i] = coding[i] /\ (i > 1 => coding'[i - 1] = coding[i - 1])
      BY <2>7
    <3>7. EndOf(i - 1)' = EndOf(i - 1)
      BY <2>8
    <3>8. CASE coding[i].bit = 0
      BY <2>1, <3>1, <3>3, <3>4, <3>5, <3>6, <3>7, <3>8 DEF CodedAt
    <3>9. CASE coding[i].bit # 0
      BY <2>1, <3>1, <3>3, <3>4, <3>5, <3>6, <3>7, <3>9 DEF CodedAt
    <3>10. QED BY <3>8, <3>9
  <2>10. coding'[n + 1].mask = maskPos /\ coding'[n + 1].bit = b /\ coding'[n + 1].end = Len(wire')
    BY <2>7
  <2>11. CodedAt(n + 1)'
    <3>1. b = 0 => maskPos = EndOf(n) + 1 /\ (n = 0 \/ coding[n].bit = 7)
      BY <2>2, <2>3 DEF InGroup, GroupEnds
    <3>2. b # 0 => n > 0 /\ coding[n].mask = maskPos /\ coding[n].bit = b - 1
      BY <2>2, <2>3 DEF InGroup
    <3>3. Len(wire) = EndOf(n) + (IF b = 0 THEN 1 ELSE 0)
      <4>1. CASE b = 0
        BY <2>2, <2>3, <4>1 DEF InGroup
      <4>2. CASE b > 0
        BY <2>2, <2>3, <4>2 DEF InGroup
      <4>3. QED BY <4>1, <4>2
    <3>4. Len(wire') # maskPos \/ v = Zero
      BY <2>3, <2>4
    <3>5. b \in mask' <=> v # Zero
      <4>1. b \notin mask
        BY <2>2 DEF InGroup
      <4>2. QED BY <1>2, <4>1
    <3>6. Len(wire') = EndOf(n) + (IF b = 0 THEN 1 ELSE 0) + (IF v = Zero THEN 0 ELSE 1)
      BY <2>4, <3>3
    <3>7. EndOf((n + 1) - 1)' = EndOf(n) /\ (n > 0 => coding'[(n + 1) - 1] = coding[n])
      <4>1. (n + 1) - 1 = n
        OBVIOUS
      <4>2. QED BY <2>7, <2>8, <4>1
    <3>8. plain'[n + 1] = v /\ MaskAt(coding[n + 1].mask)' = mask'
      BY <2>1, <2>10 DEF MaskAt
    <3>9. /\ coding'[n + 1].mask \in 1..Len(wire') /\ coding'[n + 1].end \in 1..Len(wire')
      BY <2>3, <2>4, <2>10
    <3> QED BY <2>1, <2>4, <2>10, <3>1, <3>2, <3>4, <3>5, <3>6, <3>7, <3>8, <3>9 DEF CodedAt
  <2>12. InGroup'
    <3>1. mask' \subseteq 0..bit' - 1
      <4>1. mask \subseteq 0..b - 1
        BY <2>2 DEF InGroup
      <4>2. mask' \subseteq mask \cup {b}
        BY <1>2
      <4>3. QED BY <2>5, <4>1, <4>2
    <3>2. \A i \in 1..n + 1 : coding'[i].mask = maskPos => coding'[i].bit < b + 1
      <4>1. ASSUME NEW i \in 1..n, coding[i].mask = maskPos PROVE coding[i].bit < b + 1
        <5>1. coding[i].bit \in 0..7
          BY <2>2, CodingType
        <5>2. QED BY <2>i, <4>1, <5>1
      <4>2. coding'[n + 1].bit < b + 1
        BY <2>10
      <4>3. QED BY <2>7, <4>1, <4>2
    <3>3. EndOf(n + 1)' = Len(wire')
      BY <2>10 DEF EndOf
    <3>4. \A i \in 1..inPos' : coding'[i].mask = maskPos' => coding'[i].bit < bit'
      BY <2>1, <2>5, <3>2
    <3>5. bit' # 0 /\ inPos' > 0
      BY <2>5
    <3>6. Len(wire') = EndOf(inPos)'
      BY <2>5, <3>3 DEF EndOf
    <3>7. coding'[inPos'].bit = bit' - 1 /\ coding'[inPos'].mask = maskPos'
      <4>1. b = (b + 1) - 1
        OBVIOUS
      <4>2. coding'[n + 1].bit = b /\ coding'[n + 1].mask = maskPos
        BY <2>10
      <4>3. QED BY <2>1, <2>5, <4>1, <4>2
    <3> QED BY <3>1, <3>4, <3>5, <3>6, <3>7 DEF InGroup
  <2>13. \A i \in 1..n + 1 : CodedAt(i)'
    BY <2>9, <2>11
  <2>14. QED BY <2>1, <2>5, <2>7, <2>12, <2>13 DEF CodedInv
<1>3. QED BY <1>1, <1>2 DEF CodeByte

LEMMA CloseGroupKeeps ==
  ASSUME TypeOK, CodedInv, msg.kind # "datagram", msg' = msg, CloseGroup
  PROVE  CodedInv'
<1>1. /\ stage = "compress" /\ maskPos # 0 /\ ~GroupOpen
      /\ wire' = [wire EXCEPT ![maskPos] = mask] /\ maskPos' = 0
      /\ UNCHANGED <<stage, plain, inPos, coding, bit, mask>>
  BY DEF CloseGroup
<1>2. Len(coding) = inPos /\ (\A i \in 1..inPos : CodedAt(i)) /\ InGroup
  BY <1>1 DEF CodedInv
<1>3. /\ wire \in Seq(Byte) /\ mask \in Byte /\ maskPos \in 1..Len(wire)
      /\ inPos \in Nat /\ bit \in 0..8 /\ Len(plain) \in Nat /\ inPos <= Len(plain)
  BY <1>1, ZeroType DEF TypeOK, CoderOK
<1>4. /\ Len(wire') = Len(wire)
      /\ \A p \in 1..Len(wire) : wire'[p] = IF p = maskPos THEN mask ELSE wire[p]
  BY <1>1, <1>3
<1>5. \A p \in 1..Len(wire) : wire'[p] = MaskAt(p)
  BY <1>4 DEF MaskAt
<1>6. ASSUME NEW i \in 1..inPos PROVE CodedAt(i)'
  <2>1. CodedAt(i)
    BY <1>2
  <2>2. coding[i].mask \in 1..Len(wire) /\ coding[i].end \in 1..Len(wire)
    BY <2>1 DEF CodedAt
  <2>3. EndOf(i - 1)' = EndOf(i - 1)
    BY <1>1 DEF EndOf
  <2>4. MaskAt(coding[i].mask)' = MaskAt(coding[i].mask)
    <3>1. coding[i].mask # 0
      BY <2>2
    <3>2. MaskAt(coding[i].mask)' = wire'[coding[i].mask]
      BY <1>1, <3>1 DEF MaskAt
    <3>3. QED BY <1>5, <2>2, <3>2
  <2>5. plain[i] # Zero => wire'[coding[i].end] = plain[i] /\ coding[i].end # 0
    BY <1>4, <2>1, <2>2 DEF CodedAt
  <2>6. QED BY <1>1, <1>4, <2>1, <2>2, <2>3, <2>4, <2>5 DEF CodedAt
<1>7. BetweenGroups'
  <2>1. bit > 0 /\ (inPos < Len(plain) => bit = 8)
    BY <1>1, <1>2, <1>3, ZeroType DEF GroupOpen, InGroup
  <2>2. /\ inPos > 0 /\ Len(wire) = EndOf(inPos)
        /\ coding[inPos].bit = bit - 1 /\ coding[inPos].mask = maskPos
        /\ mask \subseteq 0..bit - 1
    BY <1>2, <2>1 DEF InGroup
  <2>3. wire'[coding[inPos].mask] = mask
    BY <1>3, <1>4, <2>2
  <2>4. Len(wire') = EndOf(inPos)'
    BY <1>1, <1>4, <2>2 DEF EndOf
  <2>5. inPos < Len(plain) => coding[inPos].bit = 7
    BY <2>1, <2>2
  <2>6. QED BY <1>1, <2>2, <2>3, <2>4, <2>5 DEF BetweenGroups, GroupEnds
<1>8. QED BY <1>1, <1>2, <1>6, <1>7 DEF CodedInv

\* Outside a group, the code depends on the coder's variables only.
LEMMA CodeStays ==
  ASSUME TypeOK, CodedInv, stage # "overflow", maskPos = 0, UNCHANGED <<plain, coder, msg>>
  PROVE  CodedInv'
<1> SUFFICES ASSUME msg.kind # "datagram" PROVE CodedInv'
  BY DEF CodedInv
<1>1. UNCHANGED <<plain, wire, inPos, maskPos, coding, msg>>
  BY DEF coder
<1>2. Len(coding) = inPos /\ (\A i \in 1..inPos : CodedAt(i)) /\ BetweenGroups
  BY DEF CodedInv
<1>3. ASSUME NEW i \in 1..inPos PROVE CodedAt(i)'
  <2>1. CodedAt(i)
    BY <1>2
  <2>2. coding[i].mask # maskPos
    BY <2>1 DEF CodedAt
  <2>3. MaskAt(coding[i].mask)' = MaskAt(coding[i].mask)
    BY <1>1, <2>2 DEF MaskAt
  <2>4. EndOf(i - 1)' = EndOf(i - 1)
    BY <1>1 DEF EndOf
  <2>5. QED BY <1>1, <2>1, <2>3, <2>4 DEF CodedAt
<1>4. BetweenGroups'
  BY <1>1, <1>2 DEF BetweenGroups, GroupEnds, EndOf
<1>5. QED BY <1>1, <1>2, <1>3, <1>4 DEF CodedInv

LEMMA CodedStep ==
  ASSUME TypeOK, TypeOK', Untouched, CodedInv, DecodedInv, [Next]_vars
  PROVE  CodedInv'
<1> SUFFICES ASSUME msg'.kind # "datagram" PROVE CodedInv'
  BY DEF CodedInv
<1>1. msg' = msg
  BY DEF Next, Measure, MeasureFrames, Write, WriteFrames, WriteByClient, Deliver, Parse,
     ParseFrames, ParseChecksums, vars, writer
<1>2. CASE CodecStep /\ stage = "compress"
  <2>1. CASE CodeByte
    <3>1. inPos \in Nat /\ bit \in 0..7 /\ plain[inPos + 1] \in Byte
      BY <2>1, ZeroType DEF TypeOK, CoderOK, CodeByte, GroupOpen
    <3>2. QED BY <1>1, <2>1, <3>1, CodeByteKeeps
  <2>2. CASE EndCompress
    BY <1>1, <2>2, CodeStays DEF EndCompress
  <2>3. QED BY <1>1, <1>2, <2>1, <2>2, StartGroupKeeps, CloseGroupKeeps
        DEF CodecStep, ReadMask, DecodeByte, EndDecompress
<1>3. CASE Measure \/ MeasureFrames \/ Write \/ WriteFrames \/ WriteByClient
  <2>1. wire = <<>> /\ inPos = 0 /\ maskPos = 0 /\ coding = <<>> /\ UNCHANGED coder
    BY <1>3 DEF Measure, MeasureFrames, Write, WriteFrames, WriteByClient, Untouched
  <2>2. wire' = <<>> /\ inPos' = 0 /\ maskPos' = 0 /\ coding' = <<>>
    BY <2>1 DEF coder
  <2>3. QED BY <2>2 DEF CodedInv, BetweenGroups, GroupEnds, EndOf
<1>4. CASE \/ CodecStep /\ stage = "decompress"
           \/ Deliver \/ Parse \/ ParseFrames \/ ParseChecksums
  <2>1. UNCHANGED <<plain, coder>> /\ stage \in {"decompress", "parse", "parseFrames", "parseChecksums"}
    BY <1>4 DEF CodecStep, StartGroup, CodeByte, CloseGroup, EndCompress, ReadMask,
       DecodeByte, EndDecompress, Deliver, Parse, ParseFrames, ParseChecksums
  <2>2. maskPos = 0
    BY <1>1, <2>1 DEF DecodedInv
  <2>3. stage # "overflow" /\ UNCHANGED <<plain, coder, msg>>
    BY <1>1, <2>1
  <2>4. QED BY <2>2, <2>3, CodeStays
<1>5. CASE UNCHANGED vars
  <2>1. UNCHANGED <<stage, plain, wire, inPos, maskPos, coding, bit, mask, msg>>
    BY <1>5 DEF vars, codec, coder, writer
  <2>2. \A i : EndOf(i)' = EndOf(i) /\ MaskAt(i)' = MaskAt(i) /\ GroupEnds(i)' = GroupEnds(i)
    BY <2>1 DEF EndOf, MaskAt, GroupEnds
  <2>3. \A i : CodedAt(i)' = CodedAt(i)
    BY <2>1, <2>2 DEF CodedAt
  <2>4. BetweenGroups' = BetweenGroups /\ InGroup' = InGroup
    BY <2>1, <2>2 DEF BetweenGroups, InGroup
  <2>5. QED BY <2>1, <2>3, <2>4 DEF CodedInv
<1>6. CodecStep => stage \in {"compress", "decompress"}
  BY DEF CodecStep, StartGroup, CodeByte, CloseGroup, EndCompress, ReadMask, DecodeByte,
     EndDecompress
<1>7. QED BY <1>2, <1>3, <1>4, <1>5, <1>6 DEF Next

\* What the code says of the message, once it is complete.
LEMMA CodeOfMessage ==
  ASSUME TypeOK, CodedInv, DecodedInv, msg.kind # "datagram", stage = "decompress"
  PROVE  /\ plain \in Seq(Byte) /\ Len(plain) \in Nat
         /\ wire \in Seq(Byte) /\ Len(wire) \in Nat /\ Len(wire) = EndOf(Len(plain))
         /\ Len(plain) > 0 => wire[coding[Len(plain)].mask] \subseteq 0..coding[Len(plain)].bit
         /\ maskPos = 0
         /\ \A i \in 1..Len(plain) :
              CodedAt(i) /\ coding[i].bit \in 0..7 /\ coding[i].end \in Nat
<1>1. inPos = Len(plain) /\ maskPos = 0
  BY DEF DecodedInv
<1>2. Len(coding) = inPos /\ (\A i \in 1..inPos : CodedAt(i)) /\ BetweenGroups
  BY <1>1 DEF CodedInv
<1>3. \A i \in 1..inPos : coding[i].bit \in 0..7 /\ coding[i].end \in Nat
  BY <1>2, CodingType
<1>4. plain \in Seq(Byte) /\ wire \in Seq(Byte) /\ inPos \in Nat /\ Len(wire) \in Nat
  BY <1>1 DEF TypeOK, CoderOK
<1>5. QED BY <1>1, <1>2, <1>3, <1>4 DEF BetweenGroups

\* A group ended before byte k + 1, if the decoder is between groups.
LEMMA NextGroup ==
  ASSUME TypeOK, CodedInv, DecodedInv, msg.kind # "datagram", stage = "decompress",
         bit = GroupSize, NEW k \in Nat, k = Len(decoded), k < Len(plain)
  PROVE  /\ readPos = EndOf(k) /\ coding[k + 1].bit = 0
         /\ coding[k + 1].mask = readPos + 1
         /\ readPos < Len(wire)
<1>1. readPos = EndOf(k) /\ GroupEnds(k)
  BY DEF DecodedInv, DecoderAt
<1>2. CodedAt(k + 1) /\ coding[k + 1].bit \in 0..7
  BY CodeOfMessage
<1>3. (k + 1) - 1 = k
  OBVIOUS
<1>4. coding[k + 1].bit = 0
  <2>1. coding[k + 1].bit # 0 => k # 0 /\ coding[k].bit = coding[k + 1].bit - 1
    BY <1>2, <1>3 DEF CodedAt
  <2>2. k # 0 => coding[k].bit = 7
    BY <1>1 DEF GroupEnds
  <2>3. QED BY <1>2, <2>1, <2>2
<1>5. coding[k + 1].mask = EndOf(k) + 1 /\ coding[k + 1].mask \in 1..Len(wire)
  BY <1>2, <1>3, <1>4 DEF CodedAt
<1>6. readPos \in Nat /\ Len(wire) \in Nat
  BY DEF TypeOK, CoderOK, DecoderOK
<1>7. QED BY <1>1, <1>4, <1>5, <1>6

LEMMA ReadMaskKeeps ==
  ASSUME TypeOK, CodedInv, DecodedInv, msg.kind # "datagram", msg' = msg, ReadMask,
         NEW k \in Nat, k = Len(decoded)
  PROVE  DecodedInv'
<1>1. /\ stage = "decompress" /\ bit = GroupSize /\ readPos < Len(wire)
      /\ mask' = wire[readPos + 1] /\ readPos' = readPos + 1 /\ bit' = 0
      /\ UNCHANGED <<stage, plain, wire, inPos, maskPos, coding, decoded>>
  BY DEF ReadMask, coder
<1>2. inPos = Len(plain) /\ maskPos = 0 /\ DecoderAt(k)
  BY <1>1 DEF DecodedInv
<1>3. readPos \in Nat /\ Len(wire) \in Nat /\ Len(plain) \in Nat
  BY DEF TypeOK, CoderOK, DecoderOK
<1>4. k < Len(plain)
  <2>1. k >= Len(plain) => readPos = Len(wire)
    BY <1>2 DEF DecoderAt
  <2>2. QED BY <1>1, <1>3, <2>1
<1>5. readPos = EndOf(k) /\ coding[k + 1].bit = 0 /\ coding[k + 1].mask = readPos + 1
  BY <1>1, <1>4, NextGroup
<1>6. EndOf(k)' = EndOf(k) /\ \A i : Expected(i)' = Expected(i)
  BY <1>1 DEF EndOf, Expected
<1>7. \A i \in 1..k : decoded[i] = Expected(i)
  BY <1>2 DEF DecoderAt
<1>8. DecoderAt(k)'
  BY <1>1, <1>3, <1>4, <1>5, <1>6, <1>7, ZeroType DEF DecoderAt
<1>9. QED BY <1>1, <1>2, <1>8 DEF DecodedInv

LEMMA DecodeByteKeeps ==
  ASSUME TypeOK, CodedInv, DecodedInv, msg.kind # "datagram", msg' = msg, DecodeByte,
         NEW k \in Nat, k = Len(decoded), NEW n \in Nat, n = Len(plain),
         NEW b \in 0..7, b = bit, NEW r \in Nat, r = readPos
  PROVE  DecodedInv'
<1>1. /\ stage = "decompress" /\ b < GroupSize
      /\ UNCHANGED <<plain, wire, inPos, maskPos, coding, mask>>
  BY DEF DecodeByte, coder
<1>2. inPos = n /\ maskPos = 0 /\ DecoderAt(k)
  BY <1>1 DEF DecodedInv
<1>3. /\ plain \in Seq(Byte) /\ wire \in Seq(Byte) /\ Len(wire) \in Nat /\ Len(wire) = EndOf(n)
      /\ n > 0 => wire[coding[n].mask] \subseteq 0..coding[n].bit
      /\ \A i \in 1..n : CodedAt(i) /\ coding[i].bit \in 0..7 /\ coding[i].end \in Nat
  BY <1>1, CodeOfMessage
<1>4. decoded \in Seq(Byte)
  BY DEF TypeOK, DecoderOK
<1>5. \A i \in 1..k : decoded[i] = Expected(i)
  BY <1>2 DEF DecoderAt
<1>6. \A i \in Nat : EndOf(i)' = EndOf(i) /\ Expected(i)' = Expected(i)
  BY <1>1 DEF EndOf, Expected
\* Inside the message, the decoder is where the coder was.
<1>7. ASSUME k < n
      PROVE  /\ coding[k + 1].bit = b /\ mask = wire[coding[k + 1].mask]
             /\ b \in mask <=> plain[k + 1] # Zero
             /\ b \in mask => r < Len(wire) /\ wire[r + 1] = plain[k + 1]
             /\ EndOf(k + 1) = IF b \in mask THEN r + 1 ELSE r
  <2>1. /\ coding[k + 1].bit = b /\ mask = wire[coding[k + 1].mask]
        /\ r = EndOf(k) + (IF b = 0 THEN 1 ELSE 0)
    BY <1>1, <1>2, <1>7, ZeroType DEF DecoderAt, EndOf
  <2>2. CodedAt(k + 1) /\ k + 1 \in 1..n /\ (k + 1) - 1 = k
    BY <1>3, <1>7
  <2>3. coding[k + 1].mask \in 1..Len(wire) /\ coding[k + 1].end \in 1..Len(wire)
    BY <2>2 DEF CodedAt
  <2>4. MaskAt(coding[k + 1].mask) = mask
    BY <1>2, <2>1, <2>3 DEF MaskAt
  <2>5. b \in mask <=> plain[k + 1] # Zero
    BY <2>1, <2>2, <2>4 DEF CodedAt
  <2>6. coding[k + 1].end = r + (IF plain[k + 1] = Zero THEN 0 ELSE 1)
    BY <2>1, <2>2 DEF CodedAt
  <2>7. plain[k + 1] # Zero => wire[coding[k + 1].end] = plain[k + 1]
    BY <2>2 DEF CodedAt
  <2>8. EndOf(k + 1) = coding[k + 1].end
    BY DEF EndOf
  <2>9. CASE plain[k + 1] = Zero
    BY <2>1, <2>5, <2>6, <2>8, <2>9
  <2>10. CASE plain[k + 1] # Zero
    BY <1>3, <2>1, <2>3, <2>5, <2>6, <2>7, <2>8, <2>10
  <2>11. QED BY <2>9, <2>10
\* Behind it, the rest of the mask is empty.
<1>8. k >= n => r = Len(wire) /\ mask \cap b..7 = {} /\ b \notin mask
  <2>1. k >= n => r = Len(wire) /\ mask \cap b..7 = {}
    BY <1>1, <1>2 DEF DecoderAt
  <2>2. b \in b..7
    OBVIOUS
  <2>3. QED BY <2>1, <2>2
<1>9. k < n \/ k >= n
  OBVIOUS
<1>10. ~(b \in mask /\ r >= Len(wire))
  BY <1>3, <1>7, <1>8, <1>9
<1>11. /\ decoded' = Append(decoded, IF b \in mask THEN wire[r + 1] ELSE Zero)
       /\ readPos' = (IF b \in mask THEN r + 1 ELSE r)
       /\ bit' = b + 1 /\ stage' = stage
  <2>1. CASE b \in mask
    BY <1>10, <2>1 DEF DecodeByte
  <2>2. CASE b \notin mask
    BY <2>2 DEF DecodeByte
  <2>3. QED BY <2>1, <2>2
<1>12. (IF b \in mask THEN wire[r + 1] ELSE Zero) = Expected(k + 1)
  <2>1. CASE k < n
    BY <1>7, <2>1 DEF Expected
  <2>2. CASE k >= n
    BY <1>8, <2>2 DEF Expected
  <2>3. QED BY <1>9, <2>1, <2>2
<1>13. Expected(k + 1) \in Byte
  BY <1>3, ZeroType DEF Expected
<1>14. /\ Len(decoded') = k + 1 /\ decoded'[k + 1] = Expected(k + 1)
       /\ \A i \in 1..k : decoded'[i] = decoded[i]
  BY <1>4, <1>11, <1>12, <1>13
<1>15. \A i \in 1..k + 1 : decoded'[i] = Expected(i)'
  BY <1>5, <1>6, <1>14
<1>16. DecoderAt(k + 1)'
  <2>1. CASE k + 1 < n
    <3>1. readPos' = EndOf(k + 1)'
      BY <1>6, <1>7, <1>11, <2>1
    <3>2. CASE b = 7
      <4>1. coding[k + 1].bit = 7
        BY <1>7, <2>1, <3>2
      <4>2. GroupEnds(k + 1)'
        BY <1>1, <4>1 DEF GroupEnds
      <4>3. bit' = GroupSize
        BY <1>11, <3>2, ZeroType
      <4>4. ~(k + 1 >= Len(plain')) /\ ~(bit' < GroupSize)
        BY <1>1, <2>1, <4>3, ZeroType
      <4>5. QED BY <1>1, <1>15, <2>1, <3>1, <4>2, <4>4 DEF DecoderAt
    <3>3. CASE b < 7
      <4>1. CodedAt(k + 2) /\ coding[k + 2].bit \in 0..7
        BY <1>3, <2>1
      <4>2. (k + 2) - 1 = k + 1 /\ k + 2 # 1 /\ (k + 1) + 1 = k + 2
        OBVIOUS
      <4>3. coding[k + 1].bit = b /\ mask = wire[coding[k + 1].mask]
        BY <1>7, <2>1
      <4>4. coding[k + 2].bit # 0
        BY <3>3, <4>1, <4>2, <4>3 DEF CodedAt
      <4>5. coding[k + 1].mask = coding[k + 2].mask /\ coding[k + 1].bit = coding[k + 2].bit - 1
        BY <4>1, <4>2, <4>4 DEF CodedAt
      <4>6. coding[k + 2].bit = b + 1 /\ mask = wire[coding[k + 2].mask]
        BY <4>1, <4>3, <4>5
      <4>7. bit' # 0 /\ bit' < GroupSize
        BY <1>11, <3>3, ZeroType
      <4>8. QED BY <1>1, <1>11, <1>15, <2>1, <3>1, <4>2, <4>6, <4>7 DEF DecoderAt
    <3>4. QED BY <3>2, <3>3
  <2>2. CASE k + 1 = n
    <3>1. readPos' = Len(wire')
      BY <1>1, <1>3, <1>7, <1>11, <2>2
    <3>2. mask \subseteq 0..b
      BY <1>3, <1>7, <2>2
    <3>3. mask \cap b + 1 .. 7 = {}
      BY <3>2
    <3>4. QED BY <1>1, <1>11, <1>15, <2>2, <3>1, <3>3 DEF DecoderAt
  <2>3. CASE k >= n
    <3>1. readPos' = Len(wire')
      BY <1>1, <1>8, <1>11, <2>3
    <3>2. mask \cap b + 1 .. 7 = {}
      <4>1. mask \cap b..7 = {}
        BY <1>8, <2>3
      <4>2. b + 1 .. 7 \subseteq b..7
        OBVIOUS
      <4>3. QED BY <4>1, <4>2
    <3>3. QED BY <1>1, <1>11, <1>15, <2>3, <3>1, <3>2 DEF DecoderAt
  <2>4. QED BY <2>1, <2>2, <2>3
<1>17. DecoderAt(Len(decoded))'
  BY <1>14, <1>16
<1>18. QED BY <1>1, <1>2, <1>11, <1>17 DEF DecodedInv

LEMMA EndDecompressKeeps ==
  ASSUME TypeOK, CodedInv, DecodedInv, msg.kind # "datagram", msg' = msg, EndDecompress,
         NEW k \in Nat, k = Len(decoded), NEW c \in Nat, c = Capacity
  PROVE  DecodedInv'
<1>1. /\ stage = "decompress" /\ stage' = "parse"
      /\ decoded' = [i \in 1..c |-> IF i <= k THEN decoded[i] ELSE Zero]
      /\ k = c \/ (bit = GroupSize /\ readPos >= Len(wire))
      /\ UNCHANGED <<plain, inPos, maskPos>>
  BY DEF EndDecompress, coder
<1>2. inPos = Len(plain) /\ maskPos = 0 /\ DecoderAt(k)
  BY <1>1 DEF DecodedInv
<1>3. readPos \in Nat /\ Len(wire) \in Nat /\ Len(plain) \in Nat
  BY DEF TypeOK, CoderOK, DecoderOK
<1>4. k = c \/ k >= Len(plain)
  <2>1. bit = GroupSize /\ k < Len(plain) => readPos < Len(wire)
    BY <1>1, NextGroup
  <2>2. QED BY <1>1, <1>3, <2>1
<1>5. \A i \in 1..k : decoded[i] = Expected(i)
  BY <1>2 DEF DecoderAt
<1>6. ASSUME NEW i \in 1..c
      PROVE  (IF i <= k THEN decoded[i] ELSE Zero) = Expected(i)'
  <2>1. Expected(i)' = Expected(i)
    BY <1>1 DEF Expected
  <2>2. CASE i <= k
    BY <1>5, <2>1, <2>2
  <2>3. CASE i > k
    <3>1. i > Len(plain)
      BY <1>3, <1>4, <2>3
    <3>2. QED BY <1>3, <2>1, <2>3, <3>1 DEF Expected
  <2>4. QED BY <2>2, <2>3
<1>7. decoded' = [i \in 1..c |-> Expected(i)']
  BY <1>1, <1>6
<1>8. decoded' = [i \in 1..Capacity |-> Expected(i)]'
  BY <1>7 DEF Capacity
<1>9. QED BY <1>1, <1>2, <1>8 DEF DecodedInv

LEMMA DecodedStep ==
  ASSUME TypeOK, TypeOK', Untouched, CodedInv, DecodedInv, [Next]_vars
  PROVE  DecodedInv'
<1> SUFFICES ASSUME msg'.kind # "datagram" PROVE DecodedInv'
  BY DEF DecodedInv
<1>1. msg' = msg
  BY DEF Next, Measure, MeasureFrames, Write, WriteFrames, WriteByClient, Deliver, Parse,
     ParseFrames, ParseChecksums, vars, writer
<1>2. Len(decoded) \in Nat /\ Capacity \in Nat /\ readPos \in Nat /\ Len(plain) \in Nat
  BY ZeroType DEF TypeOK, DecoderOK, CoderOK
<1>3. CASE \/ Measure \/ MeasureFrames \/ Write \/ WriteFrames \/ WriteByClient
           \/ StartGroup \/ CodeByte \/ CloseGroup
  <2>1. stage' \in {"size", "sizeFrames", "write", "writeFrames", "compress", "overflow"}
    BY <1>3 DEF Measure, MeasureFrames, Write, WriteFrames, WriteByClient, StartGroup,
       CodeByte, CloseGroup
  <2>2. QED BY <2>1 DEF DecodedInv
<1>4. CASE EndCompress
  <2>1. /\ stage = "compress" /\ maskPos = 0 /\ inPos = Len(plain) /\ stage' = "decompress"
        /\ bit' = GroupSize
        /\ UNCHANGED <<plain, wire, inPos, maskPos, coding, readPos, decoded>>
    BY <1>4 DEF EndCompress, coder, decoder
  <2>2. readPos = 0 /\ decoded = <<>>
    BY <1>1, <2>1 DEF Untouched
  <2>3. Len(wire) = EndOf(Len(plain))
    BY <1>1, <2>1 DEF CodedInv, BetweenGroups
  <2>4. Len(decoded') = 0
    BY <2>1, <2>2
  <2>5. Len(plain) = 0 => Len(wire) = 0
    BY <2>3 DEF EndOf
  <2>6. DecoderAt(0)'
    <3>1. ~(bit' < GroupSize) /\ \A i \in 1..0 : FALSE
      BY <2>1, ZeroType
    <3>2. 0 >= Len(plain') => readPos' = Len(wire')
      BY <1>2, <2>1, <2>2, <2>5
    <3>3. readPos' = EndOf(0)' /\ GroupEnds(0)'
      BY <2>1, <2>2 DEF EndOf, GroupEnds
    <3>4. QED BY <3>1, <3>2, <3>3 DEF DecoderAt
  <2>7. QED BY <2>1, <2>4, <2>6 DEF DecodedInv
<1>5. CASE ReadMask
  BY <1>1, <1>2, <1>5, ReadMaskKeeps
<1>6. CASE DecodeByte
  <2>1. bit \in 0..7
    BY <1>6, ZeroType DEF DecodeByte, TypeOK, CoderOK
  <2>2. QED BY <1>1, <1>2, <1>6, <2>1, DecodeByteKeeps
<1>7. CASE EndDecompress
  BY <1>1, <1>2, <1>7, EndDecompressKeeps
<1>8. CASE Deliver \/ Parse \/ ParseFrames \/ ParseChecksums
  <2>1. /\ stage \in {"parse", "parseFrames", "parseChecksums"}
        /\ stage' \in {"parseFrames", "parseChecksums", "done", "ignored"}
        /\ UNCHANGED <<plain, inPos, maskPos>>
    BY <1>8 DEF Deliver, Parse, ParseFrames, ParseChecksums, coder
  <2>2. QED BY <1>1, <2>1 DEF DecodedInv
<1>9. CASE UNCHANGED vars
  <2>1. UNCHANGED <<stage, plain, wire, inPos, maskPos, coding, bit, mask, readPos, decoded, msg>>
    BY <1>9 DEF vars, codec, coder, decoder, writer
  <2>2. \A i : EndOf(i)' = EndOf(i) /\ GroupEnds(i)' = GroupEnds(i) /\ Expected(i)' = Expected(i)
    BY <2>1 DEF EndOf, GroupEnds, Expected
  <2>3. \A k : DecoderAt(k)' = DecoderAt(k)
    BY <2>1, <2>2 DEF DecoderAt
  <2>4. [i \in 1..Capacity |-> Expected(i)]' = [i \in 1..Capacity |-> Expected(i)]
    BY <2>2
  <2>5. QED BY <2>1, <2>3, <2>4 DEF DecodedInv
<1>10. QED BY <1>3, <1>4, <1>5, <1>6, <1>7, <1>8, <1>9 DEF Next, CodecStep

LEMMA CodeInvariant == Spec => [](CodedInv /\ DecodedInv)
<1>1. Init => CodedInv /\ DecodedInv
  <2> SUFFICES ASSUME Init, msg.kind # "datagram" PROVE CodedInv /\ DecodedInv
    BY DEF CodedInv, DecodedInv
  <2>1. msg \in Messages
    BY DEF Init
  <2>2. msg.datagram = <<>>
    BY <2>1, MessagesAssumption
  <2>3. wire = <<>> /\ inPos = 0 /\ maskPos = 0 /\ coding = <<>> /\ plain = <<>>
    BY <2>2 DEF Init
  <2>4. CodedInv
    BY <2>3 DEF CodedInv, BetweenGroups, GroupEnds, EndOf
  <2>5. msg.kind \in ServerKinds \/ msg.kind \in ClientKinds
    BY <2>1, MessagesAssumption
  <2>6. stage \in {"size", "write"}
    BY <2>5 DEF Init
  <2>7. QED BY <2>4, <2>6 DEF DecodedInv
<1>2. /\ TypeOK /\ Untouched /\ (TypeOK /\ Untouched)' /\ CodedInv /\ DecodedInv /\ [Next]_vars
      => (CodedInv /\ DecodedInv)'
  BY CodedStep, DecodedStep
<1>3. QED BY <1>1, <1>2, PacketTypes, PTL DEF Spec

\* What decompressPacket makes of what compressPacket sent is the message, with
\* zeros after it, for every message that a packet can hold; it never throws.
THEOREM DecodesWhatWasCoded == Spec => []DecodedFaithfully
<1>1. DecodedInv => DecodedFaithfully
  BY DEF DecodedInv, DecodedFaithfully, Expected
<1>2. QED BY <1>1, CodeInvariant, PTL

\* A byte has one value.
LEMMA BitsInjective == ASSUME NEW m \in 0..255, NEW n \in 0..255, Bits[m] = Bits[n] PROVE m = n
<1> DEFINE weight == <<1, 2, 4, 8, 16, 32, 64, 128>>
<1>1. \A k \in 0..255 : Bits[k] = {b \in 0..7 : (k \div weight[b + 1]) % 2 = 1}
  BY DEF Bits
<1>2. \A b \in 0..7 : b \in Bits[m] <=> b \in Bits[n]
  OBVIOUS
<1>3. \A b \in 0..7 : (m \div weight[b + 1]) % 2 = 1 <=> (n \div weight[b + 1]) % 2 = 1
  <2> HIDE DEF weight
  <2>1. QED BY <1>1, <1>2
<1>4. /\ weight[0 + 1] = 1 /\ weight[1 + 1] = 2 /\ weight[2 + 1] = 4 /\ weight[3 + 1] = 8
      /\ weight[4 + 1] = 16 /\ weight[5 + 1] = 32 /\ weight[6 + 1] = 64 /\ weight[7 + 1] = 128
  OBVIOUS
<1> HIDE DEF weight
<1>5. m % 2 = 1 <=> n % 2 = 1
  <2>1. m \div 1 = m /\ n \div 1 = n
    OBVIOUS
  <2>2. (m \div weight[0 + 1]) % 2 = 1 <=> (n \div weight[0 + 1]) % 2 = 1
    BY <1>3
  <2>3. QED BY <1>4, <2>1, <2>2
<1>6. (m \div 2) % 2 = 1 <=> (n \div 2) % 2 = 1
  <2>1. (m \div weight[1 + 1]) % 2 = 1 <=> (n \div weight[1 + 1]) % 2 = 1
    BY <1>3
  <2>2. QED BY <1>4, <2>1
<1>7. (m \div 4) % 2 = 1 <=> (n \div 4) % 2 = 1
  BY <1>3, <1>4
<1>8. (m \div 8) % 2 = 1 <=> (n \div 8) % 2 = 1
  BY <1>3, <1>4
<1>9. (m \div 16) % 2 = 1 <=> (n \div 16) % 2 = 1
  BY <1>3, <1>4
<1>10. (m \div 32) % 2 = 1 <=> (n \div 32) % 2 = 1
  BY <1>3, <1>4
<1>11. (m \div 64) % 2 = 1 <=> (n \div 64) % 2 = 1
  BY <1>3, <1>4
<1>12. (m \div 128) % 2 = 1 <=> (n \div 128) % 2 = 1
  BY <1>3, <1>4
<1>13. QED BY <1>5, <1>6, <1>7, <1>8, <1>9, <1>10, <1>11, <1>12

\* The value that a byte is parsed to is the one it was written for.
LEMMA ValueOfBits == ASSUME NEW n \in 0..255 PROVE ValueOf(Bits[n]) = n
<1>1. \E k \in 0..255 : Bits[k] = Bits[n]
  OBVIOUS
<1>2. ValueOf(Bits[n]) \in 0..255 /\ Bits[ValueOf(Bits[n])] = Bits[n]
  BY <1>1 DEF ValueOf
<1>3. QED BY <1>2, BitsInjective

LEMMA TypeCodesDiffer ==
  ASSUME NEW k \in ClientKinds, NEW l \in ClientKinds, Bits[TypeCode[k]] = Bits[TypeCode[l]]
  PROVE  k = l
<1>1. TypeCode[k] = TypeCode[l]
  BY TypeCodes, BitsInjective
<1>2. QED BY <1>1 DEF ClientKinds, TypeCode

-----------------------------------------------------------------------------
(* What a client writes.                                                   *)

WithWords == {"Input", "PlayerInputAck"}

LEMMA Numbers ==
  ASSUME NEW m \in Messages
  PROVE  /\ m.kind \in WithWords => m.frames[1] \in 0..255 /\ Len(m.frames) >= 1
         /\ m.kind = "Input" => m.frames[2] \in 0..255
<1>1. CASE m.kind = "Input"
  <2>1. Len(m.frames) = 2 /\ 1 \in 1..Len(m.frames) /\ 2 \in 1..Len(m.frames)
    BY <1>1, FramesShape
  <2>2. QED BY <1>1, <2>1, FramesShape
<1>2. CASE m.kind = "PlayerInputAck"
  <2>1. Len(m.frames) = 1 /\ 1 \in 1..Len(m.frames)
    BY <1>2, FramesShape
  <2>2. \A k \in 1..Len(m.frames) : m.frames[k] \in 0..255
    BY FramesShape
  <2>3. m.frames[1] \in 0..255
    BY <2>1, <2>2
  <2>4. QED BY <1>2, <2>1, <2>3
<1>3. QED BY <1>1, <1>2 DEF WithWords

\* Where the elements of two sequences are in the sequence they make together.
LEMMA ConcatBytes ==
  ASSUME NEW s \in Seq(Byte), NEW t \in Seq(Byte)
  PROVE  /\ s \o t \in Seq(Byte) /\ Len(s \o t) = Len(s) + Len(t)
         /\ Len(s) \in Nat /\ Len(t) \in Nat
         /\ \A k \in 1..Len(s) : (s \o t)[k] = s[k]
         /\ \A k \in 1..Len(t) : (s \o t)[Len(s) + k] = t[k]
OBVIOUS

\* Behind the fixed part lie the numbers of words, then the words.
WrittenByClient ==
  msg.kind \in ClientKinds /\ stage # "write" =>
    /\ Len(plain) >= 1 /\ plain[1] = Bits[TypeCode[msg.kind]]
    /\ msg.kind = "Input" =>
         /\ Len(plain) = 15 + 4 * msg.frames[1] + 4 * msg.frames[2]
         /\ plain[14] = Bits[msg.frames[1]] /\ plain[15] = Bits[msg.frames[2]]
    /\ msg.kind = "PlayerInputAck" =>
         Len(plain) = 10 + 4 * msg.frames[1] /\ plain[6] = Bits[msg.frames[1]]

LEMMA WriteByClientKeeps ==
  ASSUME TypeOK, WriteByClient
  PROVE  WrittenByClient'
<1> DEFINE fixed == HeaderSize + ClientBytes(msg.kind)
           start == fixed + Len(msg.frames)
           code  == <<Bits[TypeCode[msg.kind]]>>
           body  == Field(1, fixed - 1)
           words == Field(start, WordBytes(msg))
<1>1. msg \in Messages /\ msg.kind \in ClientKinds /\ msg' = msg
  BY DEF TypeOK, FormatOK, WriteByClient, writer
<1>2. fixed \in Nat /\ fixed - 1 \in Nat /\ Len(msg.frames) \in Nat
  BY <1>1, FramesShape DEF HeaderSize, ClientBytes
<1>3. WordBytes(msg) \in Nat
  <2>1. CASE msg.kind \notin WithWords
    BY <2>1 DEF WordBytes, WithWords
  <2>2. \A a, b \in 0..255 : 4 * (a + b) \in Nat /\ 4 * a + 4 \in Nat
    OBVIOUS
  <2>3. QED BY <1>1, <2>1, <2>2, Numbers DEF WordBytes, WithWords
<1>4. code \in Seq(Byte) /\ Len(code) = 1 /\ code[1] = Bits[TypeCode[msg.kind]]
  <2>1. Bits[TypeCode[msg.kind]] \in Byte
    BY <1>1, TypeCodes, BitsType
  <2>2. QED BY <2>1
<1>5. /\ body \in Seq(Byte) /\ Len(body) = fixed - 1
      /\ words \in Seq(Byte) /\ Len(words) = WordBytes(msg)
  <2>1. start \in Nat
    BY <1>2
  <2>2. QED BY <1>2, <1>3, <2>1, FieldType
<1>6. /\ Counts(msg) \in Seq(Byte) /\ Len(Counts(msg)) = Len(msg.frames)
      /\ \A k \in 1..Len(msg.frames) : Counts(msg)[k] = Bits[msg.frames[k]]
  <2>1. \A k \in 1..Len(msg.frames) : Bits[msg.frames[k]] \in Byte
    BY <1>1, FramesShape, BitsType
  <2>2. QED BY <1>2, <2>1 DEF Counts
<1>7. plain' = code \o body \o Counts(msg) \o words
  BY DEF WriteByClient
<1> HIDE DEF fixed, code, body, words
<1>8. /\ Len(plain') = fixed + Len(msg.frames) + WordBytes(msg)
      /\ plain'[1] = Bits[TypeCode[msg.kind]]
      /\ \A k \in 1..Len(msg.frames) : plain'[fixed + k] = Bits[msg.frames[k]]
  <2> DEFINE counts == Counts(msg)
  <2>1. counts \in Seq(Byte) /\ Len(counts) = Len(msg.frames)
    BY <1>6
  <2>2. \A k \in 1..Len(msg.frames) : counts[k] = Bits[msg.frames[k]]
    BY <1>6
  <2> HIDE DEF counts
  <2>3. /\ code \in Seq(Byte) /\ body \in Seq(Byte) /\ words \in Seq(Byte) /\ Len(code) = 1
    BY <1>4, <1>5
  <2> DEFINE two == code \o body
  <2>4. /\ two \in Seq(Byte) /\ Len(two) = Len(code) + Len(body)
        /\ \A k \in 1..Len(code) : two[k] = code[k]
    BY <2>3, ConcatBytes
  <2> HIDE DEF two
  <2> DEFINE three == two \o counts
  <2>5. /\ three \in Seq(Byte) /\ Len(three) = Len(two) + Len(counts)
        /\ \A k \in 1..Len(two) : three[k] = two[k]
        /\ \A k \in 1..Len(counts) : three[Len(two) + k] = counts[k]
    BY <2>1, <2>4, ConcatBytes
  <2> HIDE DEF three
  <2> DEFINE four == three \o words
  <2>6. /\ four \in Seq(Byte) /\ Len(four) = Len(three) + Len(words)
        /\ \A k \in 1..Len(three) : four[k] = three[k]
    BY <2>3, <2>5, ConcatBytes
  <2>7. plain' = four
    BY <1>7 DEF two, three, counts
  <2> HIDE DEF four
  <2>8. Len(two) = fixed /\ Len(three) = fixed + Len(msg.frames)
    BY <1>2, <1>4, <1>5, <2>1, <2>4, <2>5
  <2>9. /\ 1 \in 1..Len(two) /\ 1 \in 1..Len(three)
        /\ \A k \in 1..Len(msg.frames) : fixed + k \in 1..Len(three)
    BY <1>2, <2>8
  <2>10. four[1] = Bits[TypeCode[msg.kind]]
    BY <1>4, <2>4, <2>5, <2>6, <2>9
  <2>11. \A k \in 1..Len(msg.frames) : four[fixed + k] = Bits[msg.frames[k]]
    BY <2>1, <2>2, <2>5, <2>6, <2>8, <2>9
  <2>12. QED BY <1>5, <2>6, <2>7, <2>8, <2>10, <2>11
<1>9. fixed >= 5
  BY DEF fixed, HeaderSize, ClientBytes
<1>10. Len(plain') >= 1 /\ plain'[1] = Bits[TypeCode[msg.kind]]
  BY <1>2, <1>3, <1>8, <1>9
<1>11. CASE msg.kind = "Input"
  <2>1. Len(msg.frames) = 2 /\ fixed = 13
    BY <1>1, <1>11, FramesShape DEF fixed, HeaderSize, ClientBytes
  <2>2. plain'[14] = Bits[msg.frames[1]] /\ plain'[15] = Bits[msg.frames[2]]
    <3>1. plain'[13 + 1] = Bits[msg.frames[1]] /\ plain'[13 + 2] = Bits[msg.frames[2]]
      BY <1>8, <2>1
    <3>2. QED BY <3>1
  <2>3. WordBytes(msg) = 4 * (msg.frames[1] + msg.frames[2])
    BY <1>11 DEF WordBytes
  <2>4. msg.frames[1] \in 0..255 /\ msg.frames[2] \in 0..255
    BY <1>1, <1>11, Numbers DEF WithWords
  <2>5. Len(plain') = 15 + 4 * msg.frames[1] + 4 * msg.frames[2]
    <3>1. \A a, b \in 0..255 : 13 + 2 + 4 * (a + b) = 15 + 4 * a + 4 * b
      OBVIOUS
    <3>2. Len(plain') = 13 + 2 + 4 * (msg.frames[1] + msg.frames[2])
      BY <1>8, <2>1, <2>3
    <3>3. QED BY <2>4, <3>1, <3>2
  <2>6. QED BY <1>1, <1>10, <1>11, <2>2, <2>5 DEF WrittenByClient
<1>12. CASE msg.kind = "PlayerInputAck"
  <2>1. Len(msg.frames) = 1 /\ fixed = 5
    BY <1>1, <1>12, FramesShape DEF fixed, HeaderSize, ClientBytes
  <2>2. plain'[6] = Bits[msg.frames[1]]
    <3>1. plain'[5 + 1] = Bits[msg.frames[1]]
      BY <1>8, <2>1
    <3>2. QED BY <3>1
  <2>3. WordBytes(msg) = 4 * msg.frames[1] + 4
    BY <1>12 DEF WordBytes
  <2>4. msg.frames[1] \in 0..255
    BY <1>1, <1>12, Numbers DEF WithWords
  <2>5. Len(plain') = 10 + 4 * msg.frames[1]
    <3>1. \A a \in 0..255 : 5 + 1 + (4 * a + 4) = 10 + 4 * a
      OBVIOUS
    <3>2. Len(plain') = 5 + 1 + (4 * msg.frames[1] + 4)
      BY <1>8, <2>1, <2>3
    <3>3. QED BY <2>4, <3>1, <3>2
  <2>6. QED BY <1>1, <1>10, <1>12, <2>2, <2>5 DEF WrittenByClient
<1>13. QED BY <1>1, <1>10, <1>11, <1>12 DEF WrittenByClient

LEMMA ClientWriterInvariant == Spec => []WrittenByClient
<1>1. Init => WrittenByClient
  BY KindsDisjoint DEF Init, WrittenByClient
<1>2. TypeOK /\ Untouched /\ WrittenByClient /\ [Next]_vars => WrittenByClient'
  <2> SUFFICES ASSUME TypeOK, Untouched, WrittenByClient, [Next]_vars PROVE WrittenByClient'
    OBVIOUS
  <2>1. CASE /\ UNCHANGED <<plain, msg>> /\ (stage = "write" => stage' = "write")
    <3>1. plain' = plain /\ msg' = msg
      BY <2>1
    <3>2. QED BY <2>1, <3>1 DEF WrittenByClient
  <2>2. CASE Measure \/ MeasureFrames \/ Write \/ WriteFrames
    BY <2>2, KindsDisjoint
    DEF Measure, MeasureFrames, Write, WriteFrames, Untouched, writer, WrittenByClient
  <2>3. CASE CodecStep /\ UNCHANGED <<writer, at, parser>>
    BY <2>1, <2>3 DEF CodecStep, StartGroup, CodeByte, CloseGroup, EndCompress, ReadMask,
       DecodeByte, EndDecompress, writer
  <2>4. CASE Deliver \/ Parse \/ ParseFrames \/ ParseChecksums \/ UNCHANGED vars
    BY <2>1, <2>4 DEF Deliver, Parse, ParseFrames, ParseChecksums, vars, codec, writer
  <2>5. QED BY <2>2, <2>3, <2>4, WriteByClientKeeps DEF Next
<1>3. QED BY <1>1, <1>2, PacketTypes, PTL DEF Spec

-----------------------------------------------------------------------------
(* What the parser makes of it.                                            *)

\* The packet that the parser is given.
Padded == [i \in 1..Capacity |-> Expected(i)]

\* Of n words from position p on, those that lie in the buffer were read into
\* words, and the parser is at position o: behind them, or at the buffer's end.
WordsRead(o, p, n, words) ==
  /\ words = SentWords(p, n)
  /\ o \in Nat /\ o <= p + 4 * n /\ (o = p + 4 * n \/ o + 4 > Capacity)

LEMMA WordAsSent ==
  ASSUME plain \in Seq(Byte), decoded = Padded, NEW p \in Nat,
         p + 4 <= Capacity, p + 4 <= Len(plain)
  PROVE  Word(p) = SubSeq(plain, p + 1, p + 4)
<1>1. \A k \in 1..4 : p + k \in 1..Capacity /\ p + k <= Len(plain) /\ p + k \in 1..Len(plain)
  BY ZeroType
<1>2. Len(decoded) = Capacity /\ \A k \in 1..4 : decoded[p + k] = plain[p + k]
  BY <1>1, ZeroType DEF Padded, Expected
<1>3. Word(p) = [k \in 1..4 |-> plain[p + k]]
  BY <1>1, <1>2, ZeroType DEF Word
<1>4. SubSeq(plain, p + 1, p + 4) = [k \in 1..4 |-> plain[p + k]]
  BY <1>1
<1>5. QED BY <1>3, <1>4

\* As long as n words lie in the buffer, they form a sequence.
LEMMA SentWordsInside ==
  ASSUME NEW p \in Nat, NEW n \in Nat, p + 4 * n <= Capacity
  PROVE  SentWords(p, n) = [k \in 1..n |-> SubSeq(plain, p + 4 * k - 3, p + 4 * k)]
<1>1. \A k \in 1..n : p + 4 * k <= Capacity
  BY ZeroType
<1>2. {k \in 1..n : p + 4 * k <= Capacity} = 1..n
  BY <1>1
<1>3. QED BY <1>2 DEF SentWords

\* Appending to a sequence that is given by its length and its elements.
LEMMA AppendOne ==
  ASSUME NEW n \in Nat, NEW f, f = [k \in 1..n |-> f[k]], NEW w
  PROVE  Append(f, w) = [k \in 1..n + 1 |-> IF k <= n THEN f[k] ELSE w]
<1>1. DOMAIN f = 1..n /\ f \in Seq({f[k] : k \in 1..n} \cup {w})
  OBVIOUS
<1>2. Len(f) = n
  BY <1>1
<1>3. QED BY <1>1, <1>2

LEMMA WordsStep ==
  ASSUME plain \in Seq(Byte), decoded = Padded, NEW o, NEW p \in Nat, NEW n \in Nat, NEW words,
         WordsRead(o, p, n, words), p + 4 * (n + 1) <= Len(plain)
  PROVE  /\ o + 4 <= Len(decoded) => WordsRead(o + 4, p, n + 1, Append(words, Word(o)))
         /\ o + 4 > Len(decoded) => WordsRead(o, p, n + 1, words)
<1>1. Len(decoded) = Capacity /\ o \in Nat
  BY ZeroType DEF Padded, WordsRead
<1>2. ASSUME o + 4 <= Capacity
      PROVE  WordsRead(o + 4, p, n + 1, Append(words, Word(o)))
  <2>1. o = p + 4 * n /\ p + 4 * (n + 1) <= Capacity /\ p + 4 * n <= Capacity
    BY <1>1, <1>2, ZeroType DEF WordsRead
  <2> DEFINE sent == [k \in 1..n |-> SubSeq(plain, p + 4 * k - 3, p + 4 * k)]
             more == [k \in 1..n + 1 |-> SubSeq(plain, p + 4 * k - 3, p + 4 * k)]
  <2>2. words = sent /\ SentWords(p, n + 1) = more
    <3>1. SentWords(p, n) = sent
      BY <2>1, SentWordsInside
    <3>2. n + 1 \in Nat /\ \A m \in Nat : p + 4 * m <= Capacity =>
            SentWords(p, m) = [k \in 1..m |-> SubSeq(plain, p + 4 * k - 3, p + 4 * k)]
      BY SentWordsInside
    <3>3. SentWords(p, n + 1) = more
      BY <2>1, <3>2
    <3>4. QED BY <3>1, <3>3 DEF WordsRead
  <2>3. Word(o) = SubSeq(plain, p + 4 * (n + 1) - 3, p + 4 * (n + 1))
    <3>1. o + 4 <= Len(plain) /\ o + 1 = p + 4 * (n + 1) - 3 /\ o + 4 = p + 4 * (n + 1)
      BY <2>1
    <3>2. QED BY <1>1, <1>2, <3>1, WordAsSent
  <2>4. Append(sent, Word(o)) = more
    <3>1. Append(sent, Word(o)) = [k \in 1..n + 1 |-> IF k <= n THEN sent[k] ELSE Word(o)]
      <4>1. sent = [k \in 1..n |-> sent[k]]
        OBVIOUS
      <4> HIDE DEF sent
      <4>2. QED BY <4>1, AppendOne
    <3>2. \A k \in 1..n + 1 : (IF k <= n THEN sent[k] ELSE Word(o)) = more[k]
      <4>1. \A k \in 1..n + 1 : k <= n => k \in 1..n
        OBVIOUS
      <4>2. \A k \in 1..n + 1 : ~(k <= n) => k = n + 1
        OBVIOUS
      <4>3. QED BY <2>3, <4>1, <4>2
    <3>3. QED BY <3>1, <3>2
  <2> HIDE DEF sent, more
  <2>5. o + 4 \in Nat /\ o + 4 = p + 4 * (n + 1)
    BY <1>1, <2>1
  <2>6. QED BY <2>2, <2>4, <2>5 DEF WordsRead
<1>3. ASSUME o + 4 > Capacity PROVE WordsRead(o, p, n + 1, words)
  <2>1. o <= p + 4 * n
    BY DEF WordsRead
  <2>2. p + 4 * (n + 1) > Capacity /\ o <= p + 4 * (n + 1)
    BY <1>1, <1>3, <2>1, ZeroType
  <2>3. {k \in 1..n + 1 : p + 4 * k <= Capacity} = {k \in 1..n : p + 4 * k <= Capacity}
    <3>1. \A k \in 1..n + 1 : k \in 1..n \/ k = n + 1
      OBVIOUS
    <3>2. \A k \in 1..n : k \in 1..n + 1
      OBVIOUS
    <3>3. ~(p + 4 * (n + 1) <= Capacity)
      BY <2>2, ZeroType
    <3>4. QED BY <3>1, <3>2, <3>3
  <2>4. SentWords(p, n + 1) = SentWords(p, n)
    BY <2>3 DEF SentWords
  <2>5. QED BY <1>1, <1>3, <2>2, <2>4 DEF WordsRead
<1>4. QED BY <1>1, <1>2, <1>3, ZeroType

\* Before the first word, nothing was read; the words may begin behind the buffer.
LEMMA NoWords ==
  ASSUME NEW o \in Nat, NEW p \in Nat, o <= p, o = p \/ o + 4 > Capacity
  PROVE  WordsRead(o, p, 0, <<>>)
<1>1. {k \in 1..0 : p + 4 * k <= Capacity} = 1..0
  OBVIOUS
<1>2. SentWords(p, 0) = <<>>
  BY <1>1 DEF SentWords
<1>3. QED BY <1>2 DEF WordsRead

\* The parser of a message with words: how far it is, and what it has taken.
Progress(words, sums, sequence) ==
  LET n == msg.frames[1]
      p == FirstWord(msg.kind)
  IN /\ stage = "parseFrames" => /\ sums = <<>> /\ at \in 0..n
                                 /\ WordsRead(offset, p, at, words)
     /\ stage # "parseFrames" => words = SentWords(p, n)
     /\ msg.kind = "Input" =>
          /\ stage = "parseChecksums" => /\ at \in 0..msg.frames[2]
                                         /\ WordsRead(offset, p + 4 * n, at, sums)
          /\ stage = "done" => sums = SentWords(p + 4 * n, msg.frames[2])
     /\ msg.kind = "PlayerInputAck" =>
          /\ stage # "parseFrames" => WordsRead(offset, p, n, words)
          /\ stage = "done" => sequence = Word(offset)

Parsing == stage \in {"parseFrames", "parseChecksums", "done", "ignored"}

ParserInv ==
  msg.kind \in ClientKinds /\ Parsing =>
    /\ stage # "ignored" /\ decoded = Padded
    /\ stage \in {"parseFrames", "parseChecksums"} => msg.kind \in WithWords
    /\ \E words, sums, sequence :
         /\ parsed = [kind |-> msg.kind, frames |-> words, checksums |-> sums,
                      sequence |-> sequence]
         /\ msg.kind \in WithWords => Progress(words, sums, sequence)

LEMMA PaddedByte ==
  ASSUME decoded = Padded, NEW i \in 1..15, i <= Len(plain)
  PROVE  decoded[i] = plain[i]
BY DEF Padded, Expected, Capacity

\* The numbers of words are parsed as they were sent.
LEMMA CountsRead ==
  ASSUME TypeOK, WrittenByClient, decoded = Padded, stage # "write",
         msg.kind \in WithWords, parsed.kind = msg.kind
  PROVE  /\ FrameCount = msg.frames[1]
         /\ ChecksumCount = IF msg.kind = "Input" THEN msg.frames[2] ELSE 0
<1>1. msg \in Messages /\ msg.kind \in ClientKinds /\ Len(plain) \in Nat
  BY KindsDisjoint DEF TypeOK, FormatOK, CoderOK, WithWords
<1>2. CASE msg.kind = "Input"
  <2>1. msg.frames[1] \in 0..255 /\ msg.frames[2] \in 0..255
    BY <1>1, <1>2, Numbers DEF WithWords
  <2>2. Len(plain) >= 15 /\ plain[14] = Bits[msg.frames[1]] /\ plain[15] = Bits[msg.frames[2]]
    <3>1. /\ Len(plain) = 15 + 4 * msg.frames[1] + 4 * msg.frames[2]
          /\ plain[14] = Bits[msg.frames[1]] /\ plain[15] = Bits[msg.frames[2]]
      BY <1>1, <1>2 DEF WrittenByClient
    <3>2. \A a, b \in 0..255 : 15 + 4 * a + 4 * b >= 15
      OBVIOUS
    <3>3. QED BY <2>1, <3>1, <3>2
  <2>3. decoded[14] = Bits[msg.frames[1]] /\ decoded[15] = Bits[msg.frames[2]]
    BY <1>1, <2>2, PaddedByte
  <2>4. FrameCount = ValueOf(decoded[14]) /\ ChecksumCount = ValueOf(decoded[15])
    BY <1>2 DEF FrameCount, ChecksumCount
  <2>5. QED BY <1>2, <2>1, <2>3, <2>4, ValueOfBits
<1>3. CASE msg.kind = "PlayerInputAck"
  <2>1. msg.frames[1] \in 0..255
    BY <1>1, <1>3, Numbers DEF WithWords
  <2>2. Len(plain) >= 6 /\ plain[6] = Bits[msg.frames[1]]
    <3>1. Len(plain) = 10 + 4 * msg.frames[1] /\ plain[6] = Bits[msg.frames[1]]
      BY <1>1, <1>3 DEF WrittenByClient
    <3>2. \A a \in 0..255 : 10 + 4 * a >= 6
      OBVIOUS
    <3>3. QED BY <2>1, <3>1, <3>2
  <2>3. decoded[6] = Bits[msg.frames[1]]
    BY <1>1, <2>2, PaddedByte
  <2>4. FrameCount = ValueOf(decoded[6]) /\ ChecksumCount = 0
    BY <1>3 DEF FrameCount, ChecksumCount
  <2>5. QED BY <1>3, <2>1, <2>3, <2>4, ValueOfBits
<1>4. QED BY <1>2, <1>3 DEF WithWords

LEMMA ParseKeeps ==
  ASSUME TypeOK, WrittenByClient, DecodedFaithfully, Parse
  PROVE  ParserInv'
<1> SUFFICES ASSUME msg'.kind \in ClientKinds PROVE ParserInv'
  BY DEF ParserInv
<1>1. /\ msg' = msg /\ plain' = plain /\ decoded' = decoded /\ stage = "parse"
      /\ msg.kind \in ClientKinds /\ msg \in Messages /\ Len(plain) \in Nat
  BY DEF Parse, writer, decoder, TypeOK, FormatOK, CoderOK
<1>2. decoded = Padded /\ Padded' = Padded
  BY <1>1, KindsDisjoint DEF DecodedFaithfully, Padded, Expected
<1>3. decoded[1] = Bits[TypeCode[msg.kind]]
  BY <1>1, <1>2, PaddedByte DEF WrittenByClient
<1>4. PICK kind \in ClientKinds :
        /\ decoded[1] = Bits[TypeCode[kind]]
        /\ parsed' = [Nothing EXCEPT !.kind = kind]
        /\ \/ /\ kind \in WithWords
              /\ offset' = FirstWord(kind) /\ at' = 0
              /\ stage' = "parseFrames"
           \/ /\ kind \notin WithWords
              /\ stage' = "done"
  BY <1>1, <1>3 DEF Parse, WithWords
<1>5. kind = msg.kind
  BY <1>1, <1>3, <1>4, TypeCodesDiffer
<1>6. parsed' = [kind |-> msg.kind, frames |-> <<>>, checksums |-> <<>>, sequence |-> <<>>]
  BY <1>4, <1>5 DEF Nothing
<1>7. CASE msg.kind \in WithWords
  <2>1. PICK p \in Nat : p = FirstWord(msg.kind)
    BY DEF FirstWord
  <2>2. WordsRead(p, p, 0, <<>>)
    <3>1. p <= p
      OBVIOUS
    <3>2. QED BY <3>1, NoWords
  <2>3. stage' = "parseFrames" /\ at' = 0 /\ offset' = p
    BY <1>4, <1>5, <1>7, <2>1
  <2>4. WordsRead(offset, p, at, <<>>)'
    BY <1>1, <2>2, <2>3 DEF WordsRead, SentWords
  <2>5. Progress(<<>>, <<>>, <<>>)'
    <3>1. msg.frames[1] \in 0..255 /\ p = FirstWord(msg.kind)'
      BY <1>1, <1>7, <2>1, Numbers
    <3>2. at' \in 0..msg.frames[1]
      BY <2>3, <3>1
    <3>3. QED BY <1>1, <2>3, <2>4, <3>1, <3>2 DEF Progress
  <2>6. QED BY <1>1, <1>2, <1>6, <1>7, <2>3, <2>5 DEF ParserInv
<1>8. CASE msg.kind \notin WithWords
  <2>1. stage' = "done"
    BY <1>4, <1>5, <1>8
  <2>2. QED BY <1>1, <1>2, <1>6, <1>8, <2>1 DEF ParserInv
<1>9. QED BY <1>7, <1>8

\* What the later steps of the parser leave alone.
LEMMA ParserSetting ==
  ASSUME TypeOK, ParserInv, WrittenByClient, msg.kind \in ClientKinds,
         ParseFrames \/ ParseChecksums
  PROVE  /\ UNCHANGED <<msg, plain, decoded, Padded>> /\ decoded = Padded
         /\ Len(decoded) = Capacity /\ plain \in Seq(Byte) /\ msg \in Messages
         /\ msg.kind \in WithWords /\ msg.frames[1] \in 0..255
         /\ msg.kind = "Input" => msg.frames[2] \in 0..255
         /\ FirstWord(msg.kind) = IF msg.kind = "Input" THEN 15 ELSE 6
         /\ Len(plain) = FirstWord(msg.kind) + 4 * msg.frames[1]
                           + IF msg.kind = "Input" THEN 4 * msg.frames[2] ELSE 4
         /\ FrameCount = msg.frames[1]
         /\ ChecksumCount = IF msg.kind = "Input" THEN msg.frames[2] ELSE 0
<1>1. /\ stage \in {"parseFrames", "parseChecksums"} /\ UNCHANGED <<msg, plain, decoded>>
      /\ plain \in Seq(Byte) /\ msg \in Messages
  BY DEF ParseFrames, ParseChecksums, writer, decoder, TypeOK, CoderOK, FormatOK
<1>2. msg.kind \in WithWords /\ decoded = Padded /\ parsed.kind = msg.kind
  BY <1>1 DEF ParserInv, Parsing
<1>3. msg.frames[1] \in 0..255 /\ (msg.kind = "Input" => msg.frames[2] \in 0..255)
  BY <1>1, <1>2, Numbers
<1>4. Len(decoded) = Capacity /\ Padded' = Padded
  BY <1>1, <1>2, ZeroType DEF Padded, Expected
<1>5. /\ FirstWord(msg.kind) = IF msg.kind = "Input" THEN 15 ELSE 6
      /\ Len(plain) = FirstWord(msg.kind) + 4 * msg.frames[1]
                        + IF msg.kind = "Input" THEN 4 * msg.frames[2] ELSE 4
  <2>1. CASE msg.kind = "Input"
    <3>1. Len(plain) = 15 + 4 * msg.frames[1] + 4 * msg.frames[2]
      BY <1>1, <2>1 DEF WrittenByClient
    <3>2. QED BY <2>1, <3>1 DEF FirstWord
  <2>2. CASE msg.kind = "PlayerInputAck"
    <3>1. Len(plain) = 10 + 4 * msg.frames[1]
      BY <1>1, <2>2 DEF WrittenByClient
    <3>2. \A a \in 0..255 : 10 + 4 * a = 6 + 4 * a + 4
      OBVIOUS
    <3>3. QED BY <1>3, <2>2, <3>1, <3>2 DEF FirstWord
  <2>3. QED BY <1>2, <2>1, <2>2 DEF WithWords
<1>6. /\ FrameCount = msg.frames[1]
      /\ ChecksumCount = IF msg.kind = "Input" THEN msg.frames[2] ELSE 0
  BY <1>1, <1>2, CountsRead
<1>7. QED BY <1>1, <1>2, <1>3, <1>4, <1>5, <1>6

\* One more word of a list.
LEMMA ReadWordKeeps ==
  ASSUME plain \in Seq(Byte), decoded = Padded, Len(decoded) = Capacity,
         UNCHANGED <<plain, decoded>>, NEW p \in Nat, NEW n \in Nat, NEW words,
         WordsRead(offset, p, n, words), p + 4 * (n + 1) <= Len(plain),
         offset' = IF offset + 4 <= Len(decoded) THEN offset + 4 ELSE offset
  PROVE  \E more :
           /\ WordsRead(offset, p, n + 1, more)'
           /\ more = IF offset + 4 <= Len(decoded) THEN Append(words, Word(offset)) ELSE words
<1>1. \A w : WordsRead(offset', p, n + 1, w) => WordsRead(offset, p, n + 1, w)'
  BY DEF WordsRead, SentWords
<1>2. /\ offset + 4 <= Len(decoded) => WordsRead(offset + 4, p, n + 1, Append(words, Word(offset)))
      /\ offset + 4 > Len(decoded) => WordsRead(offset, p, n + 1, words)
  BY WordsStep
<1>3. PICK more : more = IF offset + 4 <= Len(decoded) THEN Append(words, Word(offset)) ELSE words
  OBVIOUS
<1>4. WordsRead(offset, p, n + 1, more)'
  <2>1. offset \in Nat
    BY DEF WordsRead
  <2>2. offset + 4 <= Len(decoded) \/ offset + 4 > Len(decoded)
    BY <2>1, ZeroType
  <2>3. CASE offset + 4 <= Len(decoded)
    BY <1>1, <1>2, <1>3, <2>3
  <2>4. CASE offset + 4 > Len(decoded)
    <3>1. ~(offset + 4 <= Len(decoded))
      BY <2>1, <2>4, ZeroType
    <3>2. QED BY <1>1, <1>2, <1>3, <2>4, <3>1
  <2>5. QED BY <2>2, <2>3, <2>4
<1>5. QED BY <1>3, <1>4

LEMMA ParseFramesKeeps ==
  ASSUME TypeOK, ParserInv, WrittenByClient, ParseFrames, msg.kind \in ClientKinds
  PROVE  ParserInv'
<1>1. /\ UNCHANGED <<msg, plain, decoded, Padded>> /\ decoded = Padded
      /\ Len(decoded) = Capacity /\ plain \in Seq(Byte) /\ msg.kind \in WithWords
      /\ stage = "parseFrames"
  BY ParserSetting DEF ParseFrames
<1>n. PICK n \in 0..255 : n = msg.frames[1] /\ FrameCount = n
  BY ParserSetting
<1>2. PICK p \in Nat : p = FirstWord(msg.kind)
  BY DEF FirstWord
<1>3. p + 4 * n <= Len(plain)
  <2>1. PICK l \in Nat : Len(plain) = p + 4 * n + l
    <3>1. (IF msg.kind = "Input" THEN 4 * msg.frames[2] ELSE 4) \in Nat
      <4>1. msg.kind = "Input" => msg.frames[2] \in 0..255
        BY ParserSetting
      <4>2. QED BY <4>1
    <3>2. QED BY <1>n, <1>2, <3>1, ParserSetting
  <2>2. QED BY <2>1
<1>4. PICK words, sequence :
        /\ parsed = [kind |-> msg.kind, frames |-> words, checksums |-> <<>>,
                     sequence |-> sequence]
        /\ at \in 0..n /\ WordsRead(offset, p, at, words)
  BY <1>1, <1>n, <1>2 DEF ParserInv, Parsing, Progress
<1>5. CASE at < n /\ ReadWord("frames") /\ at' = Next8(at) /\ UNCHANGED stage
  <2>1. at \in Nat /\ at' = at + 1 /\ at + 1 \in 0..n
    BY <1>4, <1>5 DEF Next8
  <2>2. p + 4 * (at + 1) <= Len(plain)
    <3>1. Len(plain) \in Nat
      BY <1>1
    <3>2. QED BY <1>3, <2>1, <3>1
  <2>3. PICK k \in Nat : k = at
    BY <2>1
  <2>4. PICK more :
          /\ WordsRead(offset, p, k + 1, more)'
          /\ more = IF offset + 4 <= Len(decoded) THEN Append(words, Word(offset)) ELSE words
    <3>1. WordsRead(offset, p, k, words) /\ p + 4 * (k + 1) <= Len(plain)
      BY <1>4, <2>2, <2>3
    <3>2. UNCHANGED <<plain, decoded>>
      BY <1>1
    <3>3. offset' = IF offset + 4 <= Len(decoded) THEN offset + 4 ELSE offset
      BY <1>1, <1>4, <1>5, ZeroType DEF ReadWord, WordsRead, parser
    <3>4. QED BY <1>1, <3>1, <3>2, <3>3, ReadWordKeeps
  <2>5. parsed' = [kind |-> msg.kind, frames |-> more, checksums |-> <<>>,
                   sequence |-> sequence]
    <3>1. offset \in Nat /\ Len(decoded) \in Nat
      BY <1>1, <1>4, ZeroType DEF WordsRead
    <3>2. CASE offset + 4 > Len(decoded)
      <4>1. ~(offset + 4 <= Len(decoded)) /\ parsed' = parsed
        BY <1>5, <3>1, <3>2 DEF ReadWord, parser
      <4>2. QED BY <1>4, <2>4, <4>1
    <3>3. CASE offset + 4 <= Len(decoded)
      <4>1. parsed' = [parsed EXCEPT !["frames"] = Append(@, Word(offset))]
        BY <1>5, <3>1, <3>3 DEF ReadWord
      <4>2. more = Append(words, Word(offset))
        BY <2>4, <3>3
      <4>3. parsed' = [parsed EXCEPT !["frames"] = more]
        BY <1>4, <4>1, <4>2
      <4>4. QED BY <1>4, <4>3
    <3>4. QED BY <3>1, <3>2, <3>3
  <2>6. Progress(more, <<>>, sequence)'
    <3>1. msg'.frames[1] = n /\ FirstWord(msg.kind)' = p /\ stage' = "parseFrames"
      BY <1>1, <1>n, <1>2, <1>5
    <3>2. WordsRead(offset, p, at, more)' /\ at' \in 0..n
      BY <2>1, <2>3, <2>4
    <3>3. QED BY <3>1, <3>2 DEF Progress
  <2>7. QED BY <1>1, <1>5, <2>5, <2>6 DEF ParserInv
<1>6. CASE at >= n /\ stage' = "parseChecksums" /\ at' = 0 /\ UNCHANGED parser
  <2>1. at = n /\ offset' = offset /\ parsed' = parsed
    BY <1>4, <1>6 DEF parser
  <2>2. WordsRead(offset, p, n, words)
    BY <1>4, <2>1
  <2>3. PICK k \in Nat, q \in Nat : k = n /\ q = p + 4 * n
    OBVIOUS
  <2>4. WordsRead(offset, p, k, words)' /\ words = SentWords(p, n)
    BY <1>1, <2>1, <2>2, <2>3 DEF WordsRead, SentWords
  <2>5. WordsRead(offset, q, 0, <<>>)'
    <3>1. offset \in Nat /\ offset <= q /\ (offset = q \/ offset + 4 > Capacity)
      BY <2>2, <2>3 DEF WordsRead
    <3>2. WordsRead(offset, q, 0, <<>>)
      BY <3>1, NoWords
    <3>3. QED BY <1>1, <2>1, <3>2 DEF WordsRead, SentWords
  <2>6. Progress(words, <<>>, sequence)'
    <3>1. /\ msg'.frames[1] = n /\ FirstWord(msg.kind)' = p /\ stage' = "parseChecksums"
          /\ SentWords(p, n)' = SentWords(p, n) /\ msg' = msg
      BY <1>1, <1>n, <1>2, <1>6 DEF SentWords
    <3>2. msg.kind = "Input" => at' \in 0..msg.frames[2]
      <4>1. msg.kind = "Input" => msg.frames[2] \in 0..255
        BY ParserSetting
      <4>2. QED BY <1>6, <4>1
    <3>3. WordsRead(offset, p, n, words)' /\ WordsRead(offset, p + 4 * n, at, <<>>)'
      BY <1>6, <2>3, <2>4, <2>5
    <3>4. QED BY <2>4, <3>1, <3>2, <3>3 DEF Progress
  <2>7. QED BY <1>1, <1>4, <1>6, <2>1, <2>6 DEF ParserInv
<1>7. QED BY <1>n, <1>5, <1>6 DEF ParseFrames

LEMMA ParseChecksumsKeeps ==
  ASSUME TypeOK, ParserInv, WrittenByClient, ParseChecksums, msg.kind \in ClientKinds
  PROVE  ParserInv'
<1>1. /\ UNCHANGED <<msg, plain, decoded, Padded>> /\ decoded = Padded
      /\ Len(decoded) = Capacity /\ plain \in Seq(Byte) /\ msg.kind \in WithWords
      /\ stage = "parseChecksums" /\ at \in Nat
  BY ParserSetting DEF ParseChecksums, TypeOK, FormatOK
<1>2. PICK p \in Nat, n \in 0..255 : p = FirstWord(msg.kind) /\ n = msg.frames[1]
  BY ParserSetting DEF FirstWord
<1>3. PICK words, sums, sequence :
        /\ parsed = [kind |-> msg.kind, frames |-> words, checksums |-> sums,
                     sequence |-> sequence]
        /\ words = SentWords(p, n)
        /\ msg.kind = "Input" => /\ at \in 0..msg.frames[2]
                                 /\ WordsRead(offset, p + 4 * n, at, sums)
        /\ msg.kind = "PlayerInputAck" => WordsRead(offset, p, n, words)
  BY <1>1, <1>2 DEF ParserInv, Parsing, Progress
<1>4. /\ msg' = msg /\ msg'.frames[1] = n /\ FirstWord(msg.kind)' = p
      /\ SentWords(p, n)' = SentWords(p, n)
  BY <1>1, <1>2 DEF SentWords
<1>5. CASE msg.kind = "Input"
  <2>1. PICK m \in 0..255, q \in Nat : m = msg.frames[2] /\ q = p + 4 * n /\ ChecksumCount = m
    <3>1. msg.frames[2] \in 0..255 /\ ChecksumCount = msg.frames[2]
      BY <1>5, ParserSetting
    <3>2. p + 4 * n \in Nat
      OBVIOUS
    <3>3. QED BY <3>1, <3>2
  <2>2. at \in 0..m /\ WordsRead(offset, q, at, sums)
    BY <1>3, <1>5, <2>1
  <2>3. CASE at < m /\ ReadWord("checksums") /\ at' = Next8(at) /\ UNCHANGED stage
    <3>1. at' = at + 1 /\ at + 1 \in 0..m
      BY <2>2, <2>3 DEF Next8
    <3>2. q + 4 * (at + 1) <= Len(plain)
      <4>1. Len(plain) = q + 4 * m
        BY <1>2, <1>5, <2>1, ParserSetting
      <4>2. QED BY <1>1, <3>1, <4>1
    <3>3. PICK k \in Nat : k = at
      BY <1>1
    <3>4. PICK more :
            /\ WordsRead(offset, q, k + 1, more)'
            /\ more = IF offset + 4 <= Len(decoded) THEN Append(sums, Word(offset)) ELSE sums
      <4>1. WordsRead(offset, q, k, sums) /\ q + 4 * (k + 1) <= Len(plain)
        BY <2>2, <3>2, <3>3
      <4>2. UNCHANGED <<plain, decoded>>
        BY <1>1
      <4>3. offset' = IF offset + 4 <= Len(decoded) THEN offset + 4 ELSE offset
        BY <1>1, <2>2, <2>3, ZeroType DEF ReadWord, WordsRead, parser
      <4>4. QED BY <1>1, <4>1, <4>2, <4>3, ReadWordKeeps
    <3>5. parsed' = [kind |-> msg.kind, frames |-> words, checksums |-> more,
                     sequence |-> sequence]
      <4>1. offset \in Nat /\ Len(decoded) \in Nat
        BY <1>1, <2>2, ZeroType DEF WordsRead
      <4>2. CASE offset + 4 > Len(decoded)
        <5>1. ~(offset + 4 <= Len(decoded)) /\ parsed' = parsed
          BY <2>3, <4>1, <4>2 DEF ReadWord, parser
        <5>2. QED BY <1>3, <3>4, <5>1
      <4>3. CASE offset + 4 <= Len(decoded)
        <5>1. parsed' = [parsed EXCEPT !["checksums"] = Append(@, Word(offset))]
          BY <2>3, <4>1, <4>3 DEF ReadWord
        <5>2. more = Append(sums, Word(offset))
          BY <3>4, <4>3
        <5>3. parsed' = [parsed EXCEPT !["checksums"] = more]
          BY <1>3, <5>1, <5>2
        <5>4. QED BY <1>3, <5>3
      <4>4. QED BY <4>1, <4>2, <4>3
    <3>6. Progress(words, more, sequence)'
      <4>1. stage' = "parseChecksums" /\ at' \in 0..m /\ WordsRead(offset, p + 4 * n, at, more)'
        BY <1>1, <2>1, <2>3, <3>1, <3>3, <3>4
      <4>2. QED BY <1>3, <1>4, <1>5, <2>1, <4>1 DEF Progress
    <3>7. QED BY <1>1, <2>3, <3>5, <3>6 DEF ParserInv
  <2>4. CASE at >= m /\ stage' = "done"
    <3>1. at = m /\ sums = SentWords(q, m)
      BY <2>2, <2>4 DEF WordsRead
    <3>2. parsed' = parsed /\ offset' = offset
      BY <1>1, <1>3, <1>5, <2>1, <2>4 DEF ParseChecksums, parser
    <3>3. SentWords(p + 4 * n, m)' = sums
      BY <1>1, <2>1, <3>1 DEF SentWords
    <3>4. Progress(words, sums, sequence)'
      BY <1>3, <1>4, <1>5, <2>1, <2>4, <3>3 DEF Progress
    <3>5. QED BY <1>1, <1>3, <2>4, <3>2, <3>4 DEF ParserInv
  <2>5. QED BY <2>1, <2>3, <2>4 DEF ParseChecksums
<1>6. CASE msg.kind = "PlayerInputAck"
  <2>1. ChecksumCount = 0 /\ ~(at < ChecksumCount)
    BY <1>1, <1>6, ParserSetting
  <2>2. /\ stage' = "done" /\ offset' = offset
        /\ parsed' = [parsed EXCEPT !.sequence = Word(offset)]
    BY <1>3, <1>6, <2>1 DEF ParseChecksums
  <2>3. PICK s : s = Word(offset)
    OBVIOUS
  <2>4. parsed' = [kind |-> msg.kind, frames |-> words, checksums |-> sums, sequence |-> s]
    BY <1>3, <2>2, <2>3
  <2>5. Word(offset)' = s
    BY <1>1, <2>2, <2>3 DEF Word
  <2>6. WordsRead(offset, p, n, words)'
    BY <1>1, <1>3, <1>6, <2>2 DEF WordsRead, SentWords
  <2>7. Progress(words, sums, s)'
    BY <1>3, <1>4, <1>6, <2>2, <2>5, <2>6 DEF Progress
  <2>8. QED BY <1>1, <2>2, <2>4, <2>7 DEF ParserInv
<1>7. QED BY <1>1, <1>5, <1>6 DEF WithWords

LEMMA ParserInvariant == Spec => []ParserInv
<1>1. Init => ParserInv
  BY DEF Init, ParserInv, Parsing
<1>2. /\ TypeOK /\ Untouched /\ WrittenByClient /\ DecodedFaithfully /\ ParserInv /\ [Next]_vars
      => ParserInv'
  <2> SUFFICES ASSUME TypeOK, Untouched, WrittenByClient, DecodedFaithfully, ParserInv,
                      [Next]_vars, msg.kind \in ClientKinds
               PROVE  ParserInv'
    <3>1. [Next]_vars => msg' = msg
      <4>1. UNCHANGED vars => msg' = msg
        BY DEF vars, writer
      <4>2. Measure \/ MeasureFrames \/ Write \/ WriteFrames \/ WriteByClient => msg' = msg
        BY DEF Measure, MeasureFrames, Write, WriteFrames, WriteByClient, writer
      <4>3. UNCHANGED writer => msg' = msg
        BY DEF writer
      <4>4. Deliver \/ Parse \/ ParseFrames \/ ParseChecksums => UNCHANGED writer
        BY DEF Deliver, Parse, ParseFrames, ParseChecksums
      <4>5. QED BY <4>1, <4>2, <4>3, <4>4 DEF Next
    <3>2. QED BY <3>1 DEF ParserInv
  <2>1. CASE UNCHANGED vars
    <3>1. UNCHANGED <<stage, plain, decoded, msg, at, offset, parsed>>
      BY <2>1 DEF vars, codec, decoder, writer, parser
    <3>2. Padded' = Padded /\ Word(offset)' = Word(offset)
      BY <3>1 DEF Padded, Expected, Word
    <3>3. \A p, n : SentWords(p, n)' = SentWords(p, n)
      BY <3>1 DEF SentWords
    <3>4. \A p, n, words : WordsRead(offset, p, n, words)' = WordsRead(offset, p, n, words)
      BY <3>1, <3>3 DEF WordsRead
    <3>5. \A words, sums, sequence :
            Progress(words, sums, sequence)' = Progress(words, sums, sequence)
      BY <3>1, <3>2, <3>3, <3>4 DEF Progress
    <3>6. QED BY <3>1, <3>2, <3>5 DEF ParserInv, Parsing
  <2>2. CASE Measure \/ MeasureFrames \/ Write \/ WriteFrames \/ WriteByClient
    BY <2>2 DEF Measure, MeasureFrames, Write, WriteFrames, WriteByClient, ParserInv, Parsing
  <2>3. CASE CodecStep /\ UNCHANGED <<writer, at, parser>>
    BY <2>3 DEF CodecStep, StartGroup, CodeByte, CloseGroup, EndCompress, ReadMask,
       DecodeByte, EndDecompress, ParserInv, Parsing
  <2>4. ~Deliver
    BY KindsDisjoint DEF Deliver
  <2>5. QED BY <2>1, <2>2, <2>3, <2>4, ParseKeeps, ParseFramesKeeps, ParseChecksumsKeeps DEF Next
<1>3. QED
  BY <1>1, <1>2, PacketTypes, ClientWriterInvariant, DecodesWhatWasCoded, PTL DEF Spec

\* The parser takes from a client's packet what the client put into it: the kind,
\* every frame, checksum and acknowledgement that the buffer reaches, and no more.
THEOREM ParsesWhatWasSent == Spec => []ParsedAsSent
<1>1. TypeOK /\ WrittenByClient /\ ParserInv => ParsedAsSent
  <2> SUFFICES ASSUME TypeOK, WrittenByClient, ParserInv, msg.kind \in ClientKinds,
                      stage \in {"done", "ignored"}
               PROVE  /\ parsed.kind = msg.kind
                      /\ msg.kind = "Input" =>
                           /\ parsed.frames = SentWords(15, msg.frames[1])
                           /\ parsed.checksums = SentWords(15 + 4 * msg.frames[1], msg.frames[2])
                      /\ msg.kind = "PlayerInputAck" /\ Len(plain) <= Capacity =>
                           /\ parsed.frames = SentWords(6, msg.frames[1])
                           /\ parsed.sequence = SubSeq(plain, Len(plain) - 3, Len(plain))
    BY DEF ParsedAsSent
  <2>1. PICK words, sums, sequence :
          /\ parsed = [kind |-> msg.kind, frames |-> words, checksums |-> sums,
                       sequence |-> sequence]
          /\ msg.kind \in WithWords => Progress(words, sums, sequence)
    BY DEF ParserInv, Parsing
  <2>2. stage = "done" /\ decoded = Padded /\ plain \in Seq(Byte) /\ msg \in Messages
    BY DEF ParserInv, Parsing, TypeOK, FormatOK, CoderOK
  <2>3. CASE msg.kind = "Input"
    BY <2>1, <2>2, <2>3 DEF Progress, FirstWord, WithWords
  <2>4. CASE msg.kind = "PlayerInputAck"
    <3>1. /\ words = SentWords(6, msg.frames[1]) /\ sequence = Word(offset)
          /\ WordsRead(offset, 6, msg.frames[1], words)
      BY <2>1, <2>2, <2>4 DEF Progress, FirstWord, WithWords
    <3>2. ASSUME Len(plain) <= Capacity
          PROVE  Word(offset) = SubSeq(plain, Len(plain) - 3, Len(plain))
      <4>1. PICK n \in 0..255 : n = msg.frames[1] /\ Len(plain) = 10 + 4 * n
        BY <2>2, <2>4, Numbers DEF WithWords, WrittenByClient
      <4>2. PICK o \in Nat : o = offset /\ o <= 6 + 4 * n /\ (o = 6 + 4 * n \/ o + 4 > Capacity)
        BY <3>1, <4>1 DEF WordsRead
      <4>3. o = 6 + 4 * n /\ o + 4 <= Capacity /\ o + 4 <= Len(plain)
        BY <3>2, <4>1, <4>2, ZeroType
      <4>4. Word(o) = SubSeq(plain, o + 1, o + 4)
        BY <2>2, <4>3, WordAsSent
      <4>5. o + 1 = Len(plain) - 3 /\ o + 4 = Len(plain)
        BY <4>1, <4>3
      <4>6. QED BY <4>2, <4>4, <4>5
    <3>3. QED BY <2>1, <2>4, <3>1, <3>2
  <2>5. CASE msg.kind \notin WithWords
    BY <2>1, <2>5 DEF WithWords
  <2>6. QED BY <2>3, <2>4, <2>5 DEF WithWords
<1>2. QED BY <1>1, PacketTypes, ClientWriterInvariant, ParserInvariant, PTL
=============================================================================
