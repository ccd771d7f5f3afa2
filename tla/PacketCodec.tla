----------------------------- MODULE PacketCodec -----------------------------
(***************************************************************************)
(* The packet compression (compression.cpp).  Eight bytes of a packet are  *)
(* sent as a mask byte, which says which of them are not zero, followed by *)
(* those that are not.  Both functions work through their buffers with     *)
(* positions they advance themselves, and both buffers end at Capacity.    *)
(*                                                                         *)
(* The variables are the locals of compressPacket and decompressPacket; a  *)
(* byte is the set of its bits that are one.                               *)
(***************************************************************************)
EXTENDS Integers, Sequences

Capacity  == 1024
GroupSize == 8
Byte      == SUBSET (0..7)
Zero      == {}

VARIABLES
  stage,    \* where the packet is: see WireFormat
  plain,    \* compressPacket's input: the serialized message
  wire,     \* its output, and decompressPacket's compressedBuffer
  inPos,    \* compressPacket: bytes of plain that were coded
  maskPos,  \* compressPacket: the open group's mask position; 0, none is open
  coding,   \* history: how each coded byte was coded, and where the output ended
  bit,      \* the position in the group; GroupSize in decompressPacket: none is open
  mask,     \* the mask of the group
  readPos,  \* decompressPacket: bytes of wire that were read
  decoded   \* decompressPacket's output

coder   == <<wire, inPos, maskPos, coding>>
decoder == <<readPos, decoded>>
codec   == <<stage, plain, coder, bit, mask, decoder>>

-----------------------------------------------------------------------------
(* compressPacket.                                                         *)

StartGroup_noRoomCheck ==
  /\ stage = "compress" /\ maskPos = 0 /\ inPos < Len(plain)
  /\ wire' = Append(wire, Zero) /\ maskPos' = Len(wire) + 1
  /\ mask' = Zero /\ bit' = 0 /\ UNCHANGED stage
  /\ UNCHANGED <<plain, inPos, coding, decoder>>

StartGroup ==
  /\ stage = "compress" /\ maskPos = 0 /\ inPos < Len(plain)
  /\ \/ /\ Len(wire) >= Capacity
        /\ stage' = "overflow" /\ UNCHANGED <<wire, maskPos, mask, bit>>
     \/ /\ Len(wire) < Capacity
        /\ wire' = Append(wire, Zero) /\ maskPos' = Len(wire) + 1
        /\ mask' = Zero /\ bit' = 0 /\ UNCHANGED stage
  /\ UNCHANGED <<plain, inPos, coding, decoder>>

GroupOpen == maskPos # 0 /\ bit < GroupSize /\ inPos < Len(plain)

\* One byte is done: the group goes on with the next.
Advance ==
  /\ inPos' = inPos + 1 /\ bit' = bit + 1
  /\ coding' = Append(coding, [mask |-> maskPos, bit |-> bit, end |-> Len(wire')])

CodeByte ==
  LET v == plain[inPos + 1] IN
  /\ stage = "compress" /\ GroupOpen
  /\ \/ /\ v = Zero
        /\ UNCHANGED <<stage, wire, mask>> /\ Advance
     \/ /\ v # Zero /\ Len(wire) < Capacity
        /\ mask' = mask \cup {bit} /\ wire' = Append(wire, v)
        /\ UNCHANGED stage /\ Advance
     \/ /\ v # Zero /\ Len(wire) >= Capacity
        /\ mask' = mask \cup {bit} /\ stage' = "overflow"
        /\ UNCHANGED <<wire, inPos, coding, bit>>
  /\ UNCHANGED <<plain, maskPos, decoder>>

CloseGroup ==
  /\ stage = "compress" /\ maskPos # 0 /\ ~GroupOpen
  /\ wire' = [wire EXCEPT ![maskPos] = mask] /\ maskPos' = 0
  /\ UNCHANGED <<stage, plain, inPos, coding, bit, mask, decoder>>

EndCompress ==
  /\ stage = "compress" /\ maskPos = 0 /\ inPos = Len(plain)
  /\ stage' = "decompress" /\ bit' = GroupSize /\ mask' = Zero
  /\ UNCHANGED <<plain, coder, decoder>>

-----------------------------------------------------------------------------
(* decompressPacket, with its default originalLength of Capacity.          *)

ReadMask ==
  /\ stage = "decompress" /\ bit = GroupSize
  /\ readPos < Len(wire) /\ Len(decoded) < Capacity
  /\ mask' = wire[readPos + 1] /\ readPos' = readPos + 1 /\ bit' = 0
  /\ UNCHANGED <<stage, plain, coder, decoded>>

DecodeByte_keepsReading ==
  /\ stage = "decompress" /\ bit < GroupSize /\ Len(decoded) < Capacity
  /\ \/ /\ bit \in mask /\ readPos >= Len(wire)
        /\ stage' = "truncated" /\ UNCHANGED <<bit, decoder>>
     \/ /\ bit \in mask /\ readPos < Len(wire)
        /\ decoded' = Append(decoded, wire[readPos + 1])
        /\ readPos' = readPos + 1 /\ bit' = bit + 1 /\ UNCHANGED stage
     \/ /\ bit \notin mask
        /\ decoded' = Append(decoded, Zero)
        /\ readPos' = readPos + 1 /\ bit' = bit + 1 /\ UNCHANGED stage
  /\ UNCHANGED <<plain, coder, mask>>

DecodeByte ==
  /\ stage = "decompress" /\ bit < GroupSize /\ Len(decoded) < Capacity
  /\ \/ /\ bit \in mask /\ readPos >= Len(wire)
        /\ stage' = "truncated" /\ UNCHANGED <<bit, decoder>>
     \/ /\ bit \in mask /\ readPos < Len(wire)
        /\ decoded' = Append(decoded, wire[readPos + 1])
        /\ readPos' = readPos + 1 /\ bit' = bit + 1 /\ UNCHANGED stage
     \/ /\ bit \notin mask
        /\ decoded' = Append(decoded, Zero)
        /\ bit' = bit + 1 /\ UNCHANGED <<stage, readPos>>
  /\ UNCHANGED <<plain, coder, mask>>

\* What the input does not cover of the originalLength bytes is zero.
EndDecompress ==
  /\ stage = "decompress"
  /\ \/ Len(decoded) = Capacity
     \/ bit = GroupSize /\ readPos >= Len(wire)
  /\ decoded' = [i \in 1..Capacity |-> IF i <= Len(decoded) THEN decoded[i] ELSE Zero]
  /\ stage' = "parse"
  /\ UNCHANGED <<plain, coder, bit, mask, readPos>>

CodecStep ==
  \/ StartGroup \/ CodeByte \/ CloseGroup \/ EndCompress
  \/ ReadMask \/ DecodeByte \/ EndDecompress
=============================================================================
