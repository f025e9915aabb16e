-------------------------------- MODULE Mcsp --------------------------------
(***************************************************************************)
(* The framing and the command codec of src/bosch_ble/mcsp.py.  Bytes are  *)
(* numbers, a packet is a sequence of them, and the shifts and masks of    *)
(* the source are divisions and remainders.  What raises ValueError there  *)
(* gives Malformed here.                                                   *)
(***************************************************************************)
EXTENDS Integers, Sequences

Byte == 0..255
TwoByteNumber == {n \in Nat : n < 65536}
Channel == 0..7
COMMAND == 0
MaxPayload == 4095   \* 0x0FFF: the length has twelve bits

\* `end' is end_of_channel.
Frame == [end : BOOLEAN, channel : Channel, payload : Seq(Byte)]

Malformed == [ok |-> FALSE]
Decoded(v) == [ok |-> TRUE, value |-> v]
----------------------------------------------------------------------------
(***************************************************************************)
(* Frames.                                                                 *)
(***************************************************************************)
\* Channel in the upper three bits, then the end flag, then the length.
Header(end, channel, length) ==
  <<channel * 32 + (IF end THEN 16 ELSE 0) + length \div 256, length % 256>>

PayloadLength(high, low) == (high % 16) * 256 + low

\* encode_frame raises on a longer payload.
Encodable(frame) == Len(frame.payload) <= MaxPayload

EncodeFrame(frame) ==
  Header(frame.end, frame.channel, Len(frame.payload)) \o frame.payload

DecodeFrame(data) ==
  IF Len(data) < 2 THEN Malformed
  ELSE IF Len(data) # 2 + PayloadLength(data[1], data[2]) THEN Malformed
  ELSE Decoded([end     |-> (data[1] \div 16) % 2 = 1,
                channel |-> data[1] \div 32,
                payload |-> SubSeq(data, 3, Len(data))])

\* The last byte of the frame that begins at byte i.
FrameEnd(data, i) == i + 1 + PayloadLength(data[i], data[i + 1])

\* All the frames of a notification, or none if it ends within one.
SplitFrames(data) ==
  LET from[i \in 1..(Len(data) + 1)] ==
        IF i > Len(data) THEN Decoded(<<>>)
        ELSE IF i = Len(data) \/ FrameEnd(data, i) > Len(data) THEN Malformed
        ELSE IF ~from[FrameEnd(data, i) + 1].ok THEN Malformed
        ELSE Decoded(<<DecodeFrame(SubSeq(data, i, FrameEnd(data, i))).value>>
                       \o from[FrameEnd(data, i) + 1].value)
  IN from[1]
----------------------------------------------------------------------------
(***************************************************************************)
(* Commands.  Every command has a type and an argument: the version, the   *)
(* channel or the packet size; an advance also has its number of bytes.    *)
(***************************************************************************)
VERSION == 1
ADVANCED_TRANSMIT_WINDOW == 2
DISABLE_FLOW_CONTROL == 3
MAX_SEGMENTATION_PACKET == 4

Command ==
  [type : {VERSION}, arg : Byte]
    \cup [type : {ADVANCED_TRANSMIT_WINDOW}, arg : Channel, advance : Nat]
    \cup [type : {DISABLE_FLOW_CONTROL}, arg : Channel]
    \cup [type : {MAX_SEGMENTATION_PACKET}, arg : TwoByteNumber]

\* The two bytes of a number.
HighByte(n) == n \div 256
LowByte(n) == n % 256

\* Mutant: the bytes are read in the order of the machine.
FromLittleEndian2(high, low) == low * 256 + high

FromBigEndian2(high, low) == high * 256 + low

EncodeCommand(c) ==
  CASE c.type \in {VERSION, DISABLE_FLOW_CONTROL} -> <<c.type, c.arg>>
    [] c.type = ADVANCED_TRANSMIT_WINDOW ->
         <<c.type, c.arg, HighByte(c.advance \div 65536), LowByte(c.advance \div 65536),
           HighByte(c.advance % 65536), LowByte(c.advance % 65536)>>
    [] c.type = MAX_SEGMENTATION_PACKET -> <<c.type, HighByte(c.arg), LowByte(c.arg)>>

\* The bytes a command takes at least; a longer payload is accepted.
MinLength(type) ==
  CASE type \in {VERSION, DISABLE_FLOW_CONTROL} -> 2
    [] type = ADVANCED_TRANSMIT_WINDOW -> 6
    [] type = MAX_SEGMENTATION_PACKET -> 3

DecodeCommand(p) ==
  IF p = <<>> THEN Malformed
  ELSE IF p[1] \notin VERSION..MAX_SEGMENTATION_PACKET \/ Len(p) < MinLength(p[1]) THEN Malformed
  ELSE CASE p[1] = VERSION -> Decoded([type |-> VERSION, arg |-> p[2]])
         [] p[1] = MAX_SEGMENTATION_PACKET ->
              Decoded([type |-> p[1], arg |-> FromBigEndian2(p[2], p[3])])
         [] p[1] \in {ADVANCED_TRANSMIT_WINDOW, DISABLE_FLOW_CONTROL} /\ p[2] \notin Channel ->
              Malformed
         [] p[1] = ADVANCED_TRANSMIT_WINDOW /\ p[2] \in Channel ->
              Decoded([type |-> p[1], arg |-> p[2],
                       advance |-> FromBigEndian2(p[3], p[4]) * 65536
                                     + FromBigEndian2(p[5], p[6])])
         [] p[1] = DISABLE_FLOW_CONTROL /\ p[2] \in Channel ->
              Decoded([type |-> p[1], arg |-> p[2]])

EncodeCommandFrame(c) ==
  EncodeFrame([end |-> TRUE, channel |-> COMMAND, payload |-> EncodeCommand(c)])
=============================================================================
