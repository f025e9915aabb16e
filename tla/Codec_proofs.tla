---------------------------- MODULE Codec_proofs ----------------------------
(***************************************************************************)
(* The codecs of mcsp.py and messagebus.py lose nothing: what one side     *)
(* encodes, the other decodes to the same frame, command or message,       *)
(* whatever the payload and at every length that the header can carry.     *)
(*                                                                         *)
(* From it, the two safety properties of StartupExchange: the bike hears   *)
(* the answers it is owed, and the session reads the commands it was sent, *)
(* in their order.  The argument is one of conservation: what has arrived, *)
(* with what the bytes under way will give, is what is owed so far; each   *)
(* step moves a part of it along, and when nothing is under way what has   *)
(* arrived is all of it.                                                   *)
(***************************************************************************)
EXTENDS StartupExchange, Recursion_proofs, SequenceTheorems, TLAPS

(***************************************************************************)
(* Bit fields.                                                             *)
(***************************************************************************)
\* A number of four bytes is two numbers of two bytes.
FourByteNumber == {n \in Nat : n \div 65536 \in TwoByteNumber}

\* Two bytes are a number of two bytes.
LEMMA TwoBytes ==
  ASSUME NEW n \in TwoByteNumber
  PROVE  /\ n \div 256 \in Byte /\ n % 256 \in Byte
         /\ (n \div 256) * 256 + (n % 256) = n
BY SMT DEF Byte, TwoByteNumber

\* Four bytes are a number of four bytes.
LEMMA FourBytes ==
  ASSUME NEW n \in FourByteNumber
  PROVE  /\ n \div 65536 \in TwoByteNumber /\ n % 65536 \in TwoByteNumber
         /\ (n \div 65536) * 65536 + (n % 65536) = n
<1>1. n \in Nat /\ n \div 65536 \in TwoByteNumber
  BY SMT DEF FourByteNumber
<1>2. n % 65536 \in Int /\ n % 65536 >= 0 /\ n % 65536 < 65536
  BY <1>1, SMT
<1>3. (n \div 65536) * 65536 + (n % 65536) = n
  BY <1>1, SMT
<1>4. n % 65536 \in TwoByteNumber
  BY <1>2, SMT DEF TwoByteNumber
<1> QED BY <1>1, <1>3, <1>4

\* Every field of the header is read back.
LEMMA HeaderFields ==
  ASSUME NEW c \in Channel, NEW n \in 0..MaxPayload, NEW end \in BOOLEAN
  PROVE  /\ Header(end, c, n) \in Seq(Byte) /\ Len(Header(end, c, n)) = 2
         /\ PayloadLength(Header(end, c, n)[1], Header(end, c, n)[2]) = n
         /\ ((Header(end, c, n)[1] \div 16) % 2 = 1) <=> end
         /\ Header(end, c, n)[1] \div 32 = c
<1> DEFINE q == n \div 256
           r == n % 256
           flag == IF end THEN 16 ELSE 0
           high == c * 32 + flag + q
<1>1. q \in 0..15 /\ r \in Byte /\ q * 256 + r = n
  BY SMT DEF MaxPayload, Byte
<1>2. Header(end, c, n) = <<high, r>>
  BY DEF Header
<1>3. flag \in {0, 16} /\ (flag = 16 <=> end)
  OBVIOUS
<1> HIDE DEF q, r, flag
<1>4. high \in Byte /\ high % 16 = q /\ ((high \div 16) % 2 = 1 <=> flag = 16) /\ high \div 32 = c
  BY <1>1, <1>3, SMT DEF Channel, Byte
<1> HIDE DEF high
<1>5. PayloadLength(high, r) = n
  BY <1>1, <1>4 DEF PayloadLength
<1> DEFINE h == <<high, r>>
<1>6. h \in Seq(Byte) /\ Len(h) = 2 /\ h[1] = high /\ h[2] = r
  BY <1>1, <1>4
<1> HIDE DEF h
<1> QED BY <1>2, <1>3, <1>4, <1>5, <1>6 DEF h

\* An address survives, with either value of the bit that shares its upper byte.
LEMMA AddressFields ==
  ASSUME NEW a \in Address, NEW msb \in BOOLEAN
  PROVE  LET b == EncodeAddress(a, msb) IN
         /\ b \in Seq(Byte) /\ Len(b) = 2
         /\ b[1] >= 128 <=> msb
         /\ DecodeAddress(b[1], b[2]) = a
<1> DEFINE d == a \div 256
           q == d % 128
           r == a % 256
<1>0. d \in 0..127 /\ r \in Byte /\ d * 256 + r = a
  BY SMTT(30) DEF Address, MaxAddress, Byte
<1>1. q \in 0..127 /\ r \in Byte /\ q * 256 + r = a
  <2> HIDE DEF d, r
  <2> QED BY <1>0, SMT
<1> HIDE DEF q, r
<1>2. CASE msb
  BY <1>1, <1>2, SMT DEF EncodeAddress, DecodeAddress, Byte, d, q, r
<1>3. CASE ~msb
  BY <1>1, <1>3, SMT DEF EncodeAddress, DecodeAddress, Byte, d, q, r
<1> QED BY <1>2, <1>3

(***************************************************************************)
(* Frames and commands.                                                    *)
(***************************************************************************)
\* The payload of a packet is what follows its header.
LEMMA Rest ==
  ASSUME NEW h \in Seq(Byte), NEW p \in Seq(Byte)
  PROVE  /\ h \o p \in Seq(Byte) /\ Len(h \o p) = Len(h) + Len(p)
         /\ \A i \in 1..Len(h) : (h \o p)[i] = h[i]
         /\ SubSeq(h \o p, Len(h) + 1, Len(h \o p)) = p
<1>1. /\ h \o p \in Seq(Byte) /\ Len(h \o p) = Len(h) + Len(p)
      /\ \A i \in 1..Len(h) : (h \o p)[i] = h[i]
  OBVIOUS
<1> DEFINE s == SubSeq(h \o p, Len(h) + 1, Len(h \o p))
<1>3. s \in Seq(Byte) /\ Len(s) = Len(p)
  BY <1>1
<1>4. \A i \in 1..Len(p) : s[i] = p[i]
  BY <1>1
<1>5. s = p
  <2> HIDE DEF s
  <2> QED BY <1>3, <1>4
<1> QED BY <1>1, <1>5

\* What follows a header is read after it.
LEMMA Appended ==
  ASSUME NEW h \in Seq(Byte), NEW p \in Seq(Byte)
  PROVE  \A i \in 1..Len(p) : (h \o p)[Len(h) + i] = p[i]
OBVIOUS

\* The first byte is a number.
LEMMA FirstByte ==
  ASSUME NEW w \in Seq(Byte), Len(w) >= 1
  PROVE  w[1] \in Int
<1>1. w[1] \in Byte
  OBVIOUS
<1>2. \A b \in Byte : b \in Int
  BY DEF Byte
<1> QED BY <1>1, <1>2, Zenon

\* decode_frame undoes encode_frame: every frame that encode_frame accepts, empty or of
\* 4095 bytes, comes out as it went in.
THEOREM FrameRoundTrip ==
  ASSUME NEW f \in Frame, Encodable(f)
  PROVE  EncodeFrame(f) \in Seq(Byte) /\ DecodeFrame(EncodeFrame(f)) = Decoded(f)
<1> DEFINE n == Len(f.payload)
           h == Header(f.end, f.channel, n)
           e == h \o f.payload
<1>1. f.channel \in Channel /\ f.end \in BOOLEAN /\ f.payload \in Seq(Byte)
  BY DEF Frame
<1>2. n \in 0..MaxPayload
  <2>1. n \in Nat
    BY <1>1
  <2>2. n <= MaxPayload
    BY DEF Encodable
  <2> HIDE DEF n
  <2> QED BY <2>1, <2>2 DEF MaxPayload
<1> HIDE DEF n
<1>3. /\ h \in Seq(Byte) /\ Len(h) = 2 /\ PayloadLength(h[1], h[2]) = n
      /\ ((h[1] \div 16) % 2 = 1) <=> f.end
      /\ h[1] \div 32 = f.channel
  BY <1>1, <1>2, HeaderFields
<1> HIDE DEF h
<1>4. /\ e \in Seq(Byte) /\ Len(e) = 2 + n /\ e[1] = h[1] /\ e[2] = h[2]
      /\ SubSeq(e, 3, Len(e)) = f.payload
  <2>1. /\ e \in Seq(Byte) /\ Len(e) = Len(h) + Len(f.payload)
        /\ \A i \in 1..Len(h) : e[i] = h[i]
        /\ SubSeq(e, Len(h) + 1, Len(e)) = f.payload
    BY <1>1, <1>3, Rest
  <2> HIDE DEF e
  <2> QED BY <1>3, <2>1 DEF n
<1>5. ((h[1] \div 16) % 2 = 1) = f.end
  BY <1>1, <1>3
<1>6. f = [end |-> f.end, channel |-> f.channel, payload |-> f.payload]
  BY DEF Frame
<1>7. DecodeFrame(e) = Decoded(f)
  <2> HIDE DEF e
  <2>1. DecodeFrame(e) = Decoded([end     |-> (e[1] \div 16) % 2 = 1,
                                  channel |-> e[1] \div 32,
                                  payload |-> SubSeq(e, 3, Len(e))])
    <3>1. ~(Len(e) < 2) /\ Len(e) = 2 + PayloadLength(e[1], e[2])
      BY <1>2, <1>3, <1>4 DEF MaxPayload
    <3> QED BY <3>1 DEF DecodeFrame
  <2> QED BY <1>3, <1>4, <1>5, <1>6, <2>1
<1>8. EncodeFrame(f) = e
  BY DEF EncodeFrame, e, h, n
<1> HIDE DEF e
<1> QED BY <1>4, <1>7, <1>8

\* decode_command undoes encode_command for every command whose fields fit their bytes.
THEOREM CommandRoundTrip ==
  ASSUME NEW c \in Command,
         c.type = ADVANCED_TRANSMIT_WINDOW => c.advance \in FourByteNumber
  PROVE  EncodeCommand(c) \in Seq(Byte) /\ DecodeCommand(EncodeCommand(c)) = Decoded(c)
<1> USE DEF VERSION, ADVANCED_TRANSMIT_WINDOW, DISABLE_FLOW_CONTROL, MAX_SEGMENTATION_PACKET
<1>1. CASE c \in [type : {VERSION}, arg : Byte]
  <2> DEFINE p == <<1, c.arg>>
  <2>1. EncodeCommand(c) = p
    BY <1>1 DEF EncodeCommand
  <2>2. p \in Seq(Byte) /\ p # <<>> /\ Len(p) = 2 /\ p[1] = 1 /\ p[2] = c.arg
    BY <1>1 DEF Byte
  <2>3. c = [type |-> 1, arg |-> c.arg]
    BY <1>1
  <2> HIDE DEF p
  <2>4. DecodeCommand(p) = Decoded([type |-> 1, arg |-> p[2]])
    BY <2>2 DEF DecodeCommand, MinLength
  <2> QED BY <2>1, <2>2, <2>3, <2>4
<1>2. CASE c \in [type : {DISABLE_FLOW_CONTROL}, arg : Channel]
  <2> DEFINE p == <<3, c.arg>>
  <2>1. EncodeCommand(c) = p
    BY <1>2 DEF EncodeCommand
  <2>2. p \in Seq(Byte) /\ p # <<>> /\ Len(p) = 2 /\ p[1] = 3 /\ p[2] = c.arg /\ p[2] \in Channel
    BY <1>2 DEF Byte, Channel
  <2>3. c = [type |-> 3, arg |-> c.arg]
    BY <1>2
  <2> HIDE DEF p
  <2>4. DecodeCommand(p) = Decoded([type |-> 3, arg |-> p[2]])
    BY <2>2 DEF DecodeCommand, MinLength
  <2> QED BY <2>1, <2>2, <2>3, <2>4
<1>3. CASE c \in [type : {MAX_SEGMENTATION_PACKET}, arg : TwoByteNumber]
  <2> DEFINE x == c.arg \div 256
             y == c.arg % 256
             p == <<4, x, y>>
  <2>1. EncodeCommand(c) = p
    BY <1>3 DEF EncodeCommand, HighByte, LowByte
  <2>2. x \in Byte /\ y \in Byte /\ (x * 256) + y = c.arg
    BY <1>3, TwoBytes
  <2>3. c = [type |-> 4, arg |-> c.arg]
    BY <1>3
  <2> HIDE DEF x, y
  <2>4. /\ p \in Seq(Byte) /\ p # <<>> /\ Len(p) = 3 /\ p[1] = 4 /\ p[2] = x /\ p[3] = y
    BY <2>2 DEF Byte
  <2> HIDE DEF p
  <2>5. DecodeCommand(p) = Decoded([type |-> 4, arg |-> FromBigEndian2(p[2], p[3])])
    BY <2>4 DEF DecodeCommand, MinLength
  <2>6. FromBigEndian2(p[2], p[3]) = c.arg
    BY <2>2, <2>4 DEF FromBigEndian2
  <2> QED BY <2>1, <2>3, <2>4, <2>5, <2>6
<1>4. CASE c \in [type : {ADVANCED_TRANSMIT_WINDOW}, arg : Channel, advance : Nat]
  <2> DEFINE v == c.advance \div 65536
             w == c.advance % 65536
             x1 == v \div 256
             x2 == v % 256
             x3 == w \div 256
             x4 == w % 256
             p == <<2, c.arg, x1, x2, x3, x4>>
  <2>1. EncodeCommand(c) = p
    BY <1>4 DEF EncodeCommand, HighByte, LowByte
  <2>2. c = [type |-> 2, arg |-> c.arg, advance |-> c.advance] /\ c.arg \in Channel
    BY <1>4
  <2>3. v \in TwoByteNumber /\ w \in TwoByteNumber /\ (v * 65536) + w = c.advance
    BY <1>4, FourBytes
  <2> HIDE DEF v, w
  <2>4. /\ x1 \in Byte /\ x2 \in Byte /\ (x1 * 256) + x2 = v
        /\ x3 \in Byte /\ x4 \in Byte /\ (x3 * 256) + x4 = w
    BY <2>3, TwoBytes
  <2> HIDE DEF x1, x2, x3, x4
  <2>5. /\ p \in Seq(Byte) /\ p # <<>> /\ Len(p) = 6
        /\ p[1] = 2 /\ p[2] = c.arg /\ p[3] = x1 /\ p[4] = x2 /\ p[5] = x3 /\ p[6] = x4
    BY <2>2, <2>4 DEF Byte, Channel
  <2> HIDE DEF p
  <2>6. DecodeCommand(p)
          = Decoded([type |-> 2, arg |-> p[2],
                     advance |-> (FromBigEndian2(p[3], p[4]) * 65536) + FromBigEndian2(p[5], p[6])])
    BY <2>2, <2>5 DEF DecodeCommand, MinLength
  <2>7. FromBigEndian2(p[3], p[4]) = v /\ FromBigEndian2(p[5], p[6]) = w
    BY <2>4, <2>5 DEF FromBigEndian2
  <2> QED BY <2>1, <2>2, <2>3, <2>5, <2>6, <2>7
<1>5. \/ c \in [type : {VERSION}, arg : Byte]
      \/ c \in [type : {ADVANCED_TRANSMIT_WINDOW}, arg : Channel, advance : Nat]
      \/ c \in [type : {DISABLE_FLOW_CONTROL}, arg : Channel]
      \/ c \in [type : {MAX_SEGMENTATION_PACKET}, arg : TwoByteNumber]
  BY Zenon DEF Command
<1> QED BY <1>1, <1>2, <1>3, <1>4, <1>5, Zenon

(***************************************************************************)
(* Messages.                                                               *)
(***************************************************************************)
\* The five bytes that a directed message begins with.
DirectedHeader(source, destination, ok, type, sequence) ==
  EncodeAddress(source, FALSE) \o EncodeAddress(destination, ok) \o <<type * 16 + sequence>>

\* What they say.
HasFields(g, source, destination, ok, type, sequence) ==
  /\ g \in Seq(Byte) /\ Len(g) = 5
  /\ g[1] < 128 /\ DecodeAddress(g[1], g[2]) = source
  /\ g[3] < 128 <=> ~ok
  /\ DecodeAddress(g[3], g[4]) = destination
  /\ g[5] \div 16 = type /\ g[5] % 16 = sequence

\* They are read back.
LEMMA DirectedHeaderFields ==
  ASSUME NEW source \in Address, NEW destination \in Address, NEW ok \in BOOLEAN,
         NEW type \in READ..NOTIFY, NEW sequence \in 0..15
  PROVE  HasFields(DirectedHeader(source, destination, ok, type, sequence),
                   source, destination, ok, type, sequence)
<1> DEFINE d == EncodeAddress(source, FALSE)
           s == EncodeAddress(destination, ok)
           b == type * 16 + sequence
           t == <<b>>
           g == d \o s \o t
<1>2. /\ d \in Seq(Byte) /\ Len(d) = 2 /\ ~(d[1] >= 128)
      /\ DecodeAddress(d[1], d[2]) = source
  BY AddressFields
<1>3. /\ s \in Seq(Byte) /\ Len(s) = 2 /\ (s[1] >= 128 <=> ok)
      /\ DecodeAddress(s[1], s[2]) = destination
  BY AddressFields
<1>4. b \in Byte /\ b \div 16 = type /\ b % 16 = sequence
  BY SMT DEF Byte, READ, NOTIFY
<1> HIDE DEF b, d, s
<1>5. t \in Seq(Byte) /\ Len(t) = 1 /\ t[1] = b
  BY <1>4
<1> HIDE DEF t
<1> DEFINE c == d \o s
<1>6. /\ c \in Seq(Byte) /\ Len(c) = 4
      /\ c[1] = d[1] /\ c[2] = d[2] /\ c[3] = s[1] /\ c[4] = s[2]
  <2>1. /\ c \in Seq(Byte) /\ Len(c) = Len(d) + Len(s)
        /\ \A i \in 1..Len(d) : c[i] = d[i]
        /\ \A i \in 1..Len(s) : c[Len(d) + i] = s[i]
    BY <1>2, <1>3, Rest, Appended
  <2> HIDE DEF c, g
  <2>2. c[2 + 1] = s[1] /\ c[2 + 2] = s[2]
    BY <1>2, <1>3, <2>1
  <2> QED BY <1>2, <1>3, <2>1, <2>2
<1> HIDE DEF c
<1>7. /\ c \o t \in Seq(Byte) /\ Len(c \o t) = 5
      /\ \A i \in 1..4 : (c \o t)[i] = c[i]
      /\ (c \o t)[5] = b
  <2> DEFINE u == c \o t
  <2>1. /\ u \in Seq(Byte) /\ Len(u) = Len(c) + Len(t)
        /\ \A i \in 1..Len(c) : u[i] = c[i]
        /\ \A i \in 1..Len(t) : u[Len(c) + i] = t[i]
    BY <1>5, <1>6, Rest, Appended
  <2> HIDE DEF u
  <2>2. u[4 + 1] = t[1]
    BY <1>5, <1>6, <2>1
  <2>3. /\ u \in Seq(Byte) /\ Len(u) = 5
        /\ \A i \in 1..4 : u[i] = c[i]
        /\ u[5] = b
    BY <1>5, <1>6, <2>1, <2>2
  <2> QED BY <2>3 DEF u
<1>8. g = c \o t
  BY DEF c
<1>9. /\ g \in Seq(Byte) /\ Len(g) = 5 /\ g[1] = d[1] /\ g[2] = d[2]
      /\ g[3] = s[1] /\ g[4] = s[2] /\ g[5] = b
  <2> HIDE DEF g
  <2>1. g \in Seq(Byte) /\ Len(g) = 5 /\ g[5] = b /\ \A i \in 1..4 : g[i] = c[i]
    BY <1>7, <1>8, Zenon
  <2>2. g[1] = c[1] /\ g[2] = c[2] /\ g[3] = c[3] /\ g[4] = c[4]
    BY <2>1
  <2> QED BY <1>6, <2>1, <2>2, Zenon
<1> HIDE DEF g
<1>10. d[1] \in Int /\ s[1] \in Int
  <2>1. Len(d) >= 1 /\ Len(s) >= 1
    BY <1>2, <1>3
  <2> QED BY <1>2, <1>3, <2>1, FirstByte, Zenon
<1>11. HasFields(g, source, destination, ok, type, sequence)
  BY <1>2, <1>3, <1>4, <1>9, <1>10 DEF HasFields
<1> QED BY <1>11 DEF g, d, s, t, b, DirectedHeader

\* A directed message: only a response says that something failed.
DirectedMessage(source, destination, type, sequence, status, payload) ==
  [form |-> "directed", source |-> source, destination |-> destination, type |-> type,
   sequence |-> sequence, status |-> status, payload |-> payload]

\* The bytes it is written as.
DirectedBytes(source, destination, type, sequence, status, payload) ==
  DirectedHeader(source, destination, type \in ResponseTypes /\ status = SUCCESS, type, sequence)
    \o (IF status = SUCCESS THEN <<>> ELSE <<status>>) \o payload

\* What is to be shown of the bytes w.
ReadsAsMeant(w, source, destination, type, sequence, status, payload) ==
  /\ w \in Seq(Byte) /\ Len(w) = Len(payload) + (IF status = SUCCESS THEN 5 ELSE 6)
  /\ DecodeMessage(w)
       = Decoded(DirectedMessage(source, destination, type, sequence, status, payload))

\* The message is decoded from its bytes, whether or not the status takes a byte of its own, which
\* makes at most six with the header.
LEMMA DirectedRoundTrip ==
  ASSUME NEW source \in Address, NEW destination \in Address, NEW type \in READ..NOTIFY,
         NEW sequence \in 0..15, NEW status \in StatusCodes, NEW payload \in Seq(Byte),
         type \in ResponseTypes \/ status = SUCCESS
  PROVE  ReadsAsMeant(DirectedBytes(source, destination, type, sequence, status, payload),
                      source, destination, type, sequence, status, payload)
<1> DEFINE ok == status = SUCCESS
           flag == type \in ResponseTypes /\ status = SUCCESS
           g == DirectedHeader(source, destination, flag, type, sequence)
           st == IF ok THEN <<>> ELSE <<status>>
           e == g \o st \o payload
<1>1. DirectedBytes(source, destination, type, sequence, status, payload) = e
  BY DEF DirectedBytes
<1>2. /\ g \in Seq(Byte) /\ Len(g) = 5
      /\ g[1] < 128 /\ DecodeAddress(g[1], g[2]) = source
      /\ (g[3] < 128 <=> ~flag) /\ DecodeAddress(g[3], g[4]) = destination
      /\ g[5] \div 16 = type /\ g[5] % 16 = sequence
  <2>1. flag \in BOOLEAN
    OBVIOUS
  <2> HIDE DEF flag
  <2>2. HasFields(g, source, destination, flag, type, sequence)
    BY <2>1, DirectedHeaderFields
  <2> HIDE DEF g
  <2> QED BY <2>2 DEF HasFields
<1> HIDE DEF g
<1>3. status \in Byte /\ StatusFromByte(status) = status
  BY DEF StatusCodes, UNKNOWN_ERROR, Byte, StatusFromByte
<1>4. st \in Seq(Byte) /\ Len(st) = (IF ok THEN 0 ELSE 1) /\ (~ok => st[1] = status)
  BY <1>3
<1> HIDE DEF st
<1> DEFINE h == g \o st
<1>5. /\ h \in Seq(Byte) /\ Len(h) = (IF ok THEN 5 ELSE 6)
      /\ h[1] = g[1] /\ h[2] = g[2] /\ h[3] = g[3] /\ h[4] = g[4] /\ h[5] = g[5]
      /\ (~ok => h[6] = status)
  <2>1. /\ h \in Seq(Byte) /\ Len(h) = Len(g) + Len(st)
        /\ \A i \in 1..Len(g) : h[i] = g[i]
        /\ \A i \in 1..Len(st) : h[Len(g) + i] = st[i]
    BY <1>2, <1>4, Rest, Appended
  <2> HIDE DEF h, e, ok
  <2>2. ~ok => h[5 + 1] = st[1]
    BY <1>2, <1>4, <2>1
  <2> QED BY <1>2, <1>4, <2>1, <2>2
<1>6. e = h \o payload
  OBVIOUS
<1> HIDE DEF h, e
<1>7. /\ e \in Seq(Byte) /\ Len(e) = Len(h) + Len(payload)
      /\ \A i \in 1..Len(h) : e[i] = h[i]
      /\ SubSeq(e, Len(h) + 1, Len(e)) = payload
  BY <1>5, <1>6, Rest
<1>8. /\ e[1] = g[1] /\ e[2] = g[2] /\ e[3] = g[3] /\ e[4] = g[4] /\ e[5] = g[5]
      /\ (~ok => e[6] = status)
  BY <1>5, <1>7
<1>9. Len(e) >= 5 /\ (~ok => Len(e) >= 6) /\ Len(e) = Len(payload) + (IF ok THEN 5 ELSE 6)
  BY <1>5, <1>7
<1>10. HasStatus(e) <=> ~ok
  <2>1. HasStatus(e) <=> type \in ResponseTypes /\ ~flag
    BY <1>2, <1>8 DEF HasStatus
  <2>2. ~ok => type \in ResponseTypes
    OBVIOUS
  <2> QED BY <2>1, <2>2
<1>12. DecodeMessage(e) = DecodeDirected(e)
  <2>1. ~(Len(e) < 2)
    BY <1>7, <1>9
  <2>2. g[1] \in Int
    BY <1>2, FirstByte
  <2>3. ~(e[1] >= 128)
    BY <1>2, <1>8, <2>2
  <2> QED BY <2>1, <2>3 DEF DecodeMessage
<1>13. ~(Len(e) < 5) /\ ~(e[5] \div 16 \notin READ..NOTIFY) /\ ~(HasStatus(e) /\ Len(e) < 6)
  BY <1>2, <1>7, <1>8, <1>9, <1>10
<1>14. DecodeDirected(e)
         = Decoded(DirectedMessage(DecodeAddress(e[1], e[2]), DecodeAddress(e[3], e[4]),
                                   e[5] \div 16, e[5] % 16,
                                   IF HasStatus(e) THEN StatusFromByte(e[6]) ELSE SUCCESS,
                                   SubSeq(e, IF HasStatus(e) THEN 7 ELSE 6, Len(e))))
  BY <1>13 DEF DecodeDirected, DirectedMessage
<1>15. (IF HasStatus(e) THEN StatusFromByte(e[6]) ELSE SUCCESS) = status
  BY <1>3, <1>8, <1>10
<1>16. SubSeq(e, IF HasStatus(e) THEN 7 ELSE 6, Len(e)) = payload
  <2>1. Len(h) + 1 = IF HasStatus(e) THEN 7 ELSE 6
    BY <1>5, <1>10
  <2> HIDE DEF ok
  <2> QED BY <1>7, <2>1
<1>17. /\ DecodeAddress(e[1], e[2]) = source
       /\ DecodeAddress(e[3], e[4]) = destination
       /\ e[5] \div 16 = type /\ e[5] % 16 = sequence
  BY <1>2, <1>8
<1>18. DecodeMessage(e)
         = Decoded(DirectedMessage(source, destination, type, sequence, status, payload))
  BY <1>12, <1>14, <1>15, <1>16, <1>17
<1> QED BY <1>1, <1>7, <1>9, <1>18 DEF ReadsAsMeant

\* Request and response types have codes that are those of messages.
LEMMA TypeCodes ==
  /\ ResponseTypes \subseteq READ..NOTIFY
  /\ \A type \in {READ, WRITE, RPC, SUBSCRIBE, UNSUBSCRIBE} : type + 1 \in ResponseTypes
  /\ \A sequence \in 0..15 : sequence % 16 = sequence
BY DEF ResponseTypes, READ, READ_RESPONSE, WRITE, WRITE_RESPONSE, RPC, RPC_RESPONSE,
       SUBSCRIBE, SUBSCRIBE_RESPONSE, UNSUBSCRIBE, UNSUBSCRIBE_RESPONSE, NOTIFY

\* What the bike decodes from a response is the answer that was meant: the request's
\* addresses exchanged, its sequence number, the status and the payload.
THEOREM ResponseRoundTrip ==
  ASSUME NEW request \in Directed, NEW type \in ResponseTypes,
         NEW status \in StatusCodes, NEW payload \in Seq(Byte)
  PROVE  /\ EncodeResponse(request, type, status, payload) \in Seq(Byte)
         /\ Len(EncodeResponse(request, type, status, payload)) <= Len(payload) + 6
         /\ status = SUCCESS =>
              Len(EncodeResponse(request, type, status, payload)) = Len(payload) + 5
         /\ DecodeMessage(EncodeResponse(request, type, status, payload))
              = Decoded([form |-> "directed", source |-> request.destination,
                         destination |-> request.source, type |-> type,
                         sequence |-> request.sequence, status |-> status, payload |-> payload])
<1> DEFINE e == DirectedBytes(request.destination, request.source, type, request.sequence,
                              status, payload)
<1>1. /\ request.destination \in Address /\ request.source \in Address
      /\ request.sequence \in 0..15 /\ type \in READ..NOTIFY
  BY TypeCodes DEF Directed
<1>2. EncodeResponse(request, type, status, payload) = e
  BY <1>1, TypeCodes DEF EncodeResponse, DirectedBytes, DirectedHeader
<1>3. /\ e \in Seq(Byte) /\ Len(e) = Len(payload) + (IF status = SUCCESS THEN 5 ELSE 6)
      /\ DecodeMessage(e) = Decoded(DirectedMessage(request.destination, request.source, type,
                                                    request.sequence, status, payload))
  <2>1. ReadsAsMeant(e, request.destination, request.source, type, request.sequence, status, payload)
    BY <1>1, DirectedRoundTrip
  <2> HIDE DEF e
  <2> QED BY <2>1 DEF ReadsAsMeant
<1> HIDE DEF e
<1>4. Len(e) <= Len(payload) + 6 /\ (status = SUCCESS => Len(e) = Len(payload) + 5)
  BY <1>3
<1> QED BY <1>2, <1>3, <1>4 DEF DirectedMessage

\* A notification is read back, from whatever address it says it comes.
LEMMA NotifyRoundTrip ==
  ASSUME NEW source \in Address, NEW payload \in Seq(Byte)
  PROVE  /\ EncodeNotify(source, payload) \in Seq(Byte)
         /\ Len(EncodeNotify(source, payload)) = Len(payload) + 2
         /\ DecodeMessage(EncodeNotify(source, payload))
              = Decoded([form |-> "notify", source |-> source, payload |-> payload])
<1> DEFINE h == EncodeAddress(source, TRUE)
           e == h \o payload
<1>1. h \in Seq(Byte) /\ Len(h) = 2 /\ h[1] >= 128 /\ DecodeAddress(h[1], h[2]) = source
  BY AddressFields
<1> HIDE DEF h
<1>2. /\ e \in Seq(Byte) /\ Len(e) = Len(h) + Len(payload)
      /\ \A i \in 1..Len(h) : e[i] = h[i]
      /\ SubSeq(e, Len(h) + 1, Len(e)) = payload
  BY <1>1, Rest
<1>3. EncodeNotify(source, payload) = e
  BY DEF EncodeNotify, h
<1> HIDE DEF e
<1>4. e[1] = h[1] /\ e[2] = h[2] /\ SubSeq(e, 3, Len(e)) = payload /\ ~(Len(e) < 2)
      /\ Len(e) = Len(payload) + 2
  BY <1>1, <1>2
<1>5. DecodeMessage(e) = Decoded([form |-> "notify", source |-> source, payload |-> payload])
  BY <1>1, <1>4 DEF DecodeMessage
<1> QED BY <1>2, <1>3, <1>4, <1>5

\* decode_message_frame reads every message as the bike meant it: a notification, a
\* request, or a response that may say that something failed.
THEOREM MessageRoundTrip ==
  ASSUME NEW m \in Directed \cup Notification,
         m.form = "directed" => m.type \in ResponseTypes \/ m.status = SUCCESS
  PROVE  EncodeMessage(m) \in Seq(Byte) /\ DecodeMessage(EncodeMessage(m)) = Decoded(m)
<1>1. CASE m \in Notification
  <2>1. m.form = "notify" /\ m.source \in Address /\ m.payload \in Seq(Byte)
    BY <1>1 DEF Notification
  <2>2. m = [form |-> "notify", source |-> m.source, payload |-> m.payload]
    BY <1>1 DEF Notification
  <2>3. EncodeMessage(m) = EncodeNotify(m.source, m.payload)
    BY <2>1 DEF EncodeMessage
  <2> QED BY <2>1, <2>2, <2>3, NotifyRoundTrip
<1>2. CASE m \in Directed
  <2> DEFINE e == DirectedBytes(m.source, m.destination, m.type, m.sequence, m.status, m.payload)
  <2>1. /\ m.form = "directed" /\ m.source \in Address /\ m.destination \in Address
        /\ m.type \in READ..NOTIFY /\ m.sequence \in 0..15 /\ m.status \in StatusCodes
        /\ m.payload \in Seq(Byte)
    BY <1>2 DEF Directed
  <2>2. m = DirectedMessage(m.source, m.destination, m.type, m.sequence, m.status, m.payload)
    BY <1>2 DEF Directed, DirectedMessage
  <2>3. EncodeMessage(m) = e
    BY <2>1 DEF EncodeMessage, DirectedBytes, DirectedHeader
  <2>4. e \in Seq(Byte) /\ DecodeMessage(e)
          = Decoded(DirectedMessage(m.source, m.destination, m.type, m.sequence, m.status, m.payload))
    <3>1. m.type \in ResponseTypes \/ m.status = SUCCESS
      BY <2>1
    <3> HIDE DEF e
    <3>2. ReadsAsMeant(e, m.source, m.destination, m.type, m.sequence, m.status, m.payload)
      BY <2>1, <3>1, DirectedRoundTrip DEF e
    <3> QED BY <3>2 DEF ReadsAsMeant
  <2> HIDE DEF e
  <2> QED BY <2>2, <2>3, <2>4, Zenon
<1> QED BY <1>1, <1>2

(***************************************************************************)
(* Sequences of sequences, laid end to end by FlattenSeq.                  *)
(***************************************************************************)
\* Three sequences are laid end to end in either order.
Associates(a, b, c) == (a \o b) \o c = a \o (b \o c)
\* So it is for sequences over any set.
LEMMA Regrouped ==
  ASSUME NEW S, NEW a \in Seq(S), NEW b \in Seq(S), NEW c \in Seq(S)
  PROVE  Associates(a, b, c) /\ a \o b \in Seq(S)
<1>1. (a \o b) \o c = a \o (b \o c)
  BY ConcatAssociative, SMTT(30)
<1>2. a \o b \in Seq(S)
  OBVIOUS
<1> QED BY <1>1, <1>2 DEF Associates

\* The recursion of FlattenSeq at i, with f for what was laid before it.
FlattenAt(ss, i, f) == IF i = 1 THEN ss[i] ELSE f[i - 1] \o ss[i]

\* FlattenSeq is the last value of that recursion.
LEMMA FlattenUnfolded ==
  ASSUME NEW ss
  PROVE  FlattenSeq(ss) =
           IF Len(ss) = 0 THEN ss
           ELSE (CHOOSE f : f = [i \in 1..Len(ss) |-> FlattenAt(ss, i, f)])[Len(ss)]
BY DEF FlattenSeq, FlattenAt

\* f lays the sequences of ss end to end.
Lays(f, ss, S) ==
  /\ f \in [1..Len(ss) -> Seq(S)]
  /\ \A i \in 1..Len(ss) : f[i] = FlattenAt(ss, i, f)
  /\ FlattenSeq(ss) = IF Len(ss) = 0 THEN <<>> ELSE f[Len(ss)]

\* There is such a function.
LEMMA LaidEndToEnd ==
  ASSUME NEW S, NEW ss \in Seq(Seq(S))
  PROVE  \E f : Lays(f, ss, S)
<1> DEFINE D == 1..Len(ss)
           V == Seq(S)
           rank == [i \in D |-> i]
           step == [q \in D \X [D -> V] |-> FlattenAt(ss, q[1], q[2])]
<1>1. rank \in [D -> Nat] /\ V # {}
  <2>1. <<>> \in V
    OBVIOUS
  <2> QED BY <2>1
<1>2. ASSUME NEW i \in D, NEW f \in [D -> V]
      PROVE  FlattenAt(ss, i, f) \in V
  <2>1. ss[i] \in V
    OBVIOUS
  <2>2. CASE i = 1
    BY <2>1, <2>2 DEF FlattenAt
  <2>3. CASE i # 1
    <3>1. i - 1 \in D
      BY <2>3
    <3>2. f[i - 1] \in V
      BY <3>1
    <3>3. f[i - 1] \o ss[i] \in V
      BY <2>1, <3>2
    <3> QED BY <2>3, <3>3 DEF FlattenAt
  <2> QED BY <2>2, <2>3
<1>3. ASSUME NEW i \in D, NEW f \in [D -> V]
      PROVE  step[<<i, f>>] = FlattenAt(ss, i, f) /\ step[<<i, f>>] \in V
  <2>1. <<i, f>> \in D \X [D -> V] /\ <<i, f>>[1] = i /\ <<i, f>>[2] = f
    OBVIOUS
  <2>2. step[<<i, f>>] = FlattenAt(ss, i, f)
    BY <2>1
  <2> QED BY <1>2, <2>2
<1>4. step \in [D \X [D -> V] -> V]
  <2>1. \A q \in D \X [D -> V] : q[1] \in D /\ q[2] \in [D -> V]
    OBVIOUS
  <2>2. \A q \in D \X [D -> V] : FlattenAt(ss, q[1], q[2]) \in V
    BY <1>2, <2>1
  <2> QED BY <2>2
<1>5. Descends(step, rank, D, V)
  <2> SUFFICES ASSUME NEW i \in D, NEW f \in [D -> V], NEW g \in [D -> V],
                      \A j \in D : rank[j] < rank[i] => f[j] = g[j]
               PROVE  step[<<i, f>>] = step[<<i, g>>]
    BY DEF Descends
  <2>1. i # 1 => f[i - 1] = g[i - 1]
    <3> SUFFICES ASSUME i # 1 PROVE f[i - 1] = g[i - 1]
      OBVIOUS
    <3>1. i - 1 \in D /\ rank[i - 1] < rank[i]
      OBVIOUS
    <3> QED BY <3>1
  <2>2. FlattenAt(ss, i, f) = FlattenAt(ss, i, g)
    BY <2>1 DEF FlattenAt
  <2> QED BY <1>3, <2>2
<1> HIDE DEF step, rank, D, V
<1>6. PICK f \in [D -> V] : Solves(f, step, D)
  BY <1>1, <1>4, <1>5, RecursionExists
<1>7. f = [i \in D |-> FlattenAt(ss, i, f)]
  <2>1. f = [i \in D |-> step[<<i, f>>]]
    BY <1>6 DEF Solves
  <2>2. \A i \in D : step[<<i, f>>] = FlattenAt(ss, i, f)
    BY <1>3
  <2>3. [i \in D |-> step[<<i, f>>]] = [i \in D |-> FlattenAt(ss, i, f)]
    BY <2>2, Zenon
  <2> QED BY <2>1, <2>3
<1> DEFINE h == CHOOSE g : g = [i \in 1..Len(ss) |-> FlattenAt(ss, i, g)]
<1>8. h = [i \in 1..Len(ss) |-> FlattenAt(ss, i, h)]
  BY <1>7, Zenon DEF D
<1>9. FlattenSeq(ss) = IF Len(ss) = 0 THEN ss ELSE h[Len(ss)]
  BY FlattenUnfolded
<1> HIDE DEF h
<1>10. \A i \in 1..Len(ss) : h[i] = FlattenAt(ss, i, h)
  BY <1>8
<1>11. \A i \in 1..Len(ss) : h[i] \in Seq(S)
  <2> DEFINE T == {n \in Nat : n \in 1..Len(ss) => h[n] \in Seq(S)}
  <2>1. 0 \in T
    OBVIOUS
  <2>2. ASSUME NEW n \in Nat, n \in T PROVE n + 1 \in T
    <3> SUFFICES ASSUME n + 1 \in 1..Len(ss) PROVE h[n + 1] \in Seq(S)
      OBVIOUS
    <3>1. ss[n + 1] \in Seq(S) /\ h[n + 1] = FlattenAt(ss, n + 1, h)
      BY <1>10
    <3>2. CASE n = 0
      BY <3>1, <3>2 DEF FlattenAt
    <3>3. CASE n # 0
      <4>1. n \in 1..Len(ss) /\ (n + 1) - 1 = n /\ n + 1 # 1
        BY <3>3
      <4>2. h[n] \in Seq(S)
        BY <2>2, <4>1
      <4>3. h[n + 1] = h[n] \o ss[n + 1]
        BY <3>1, <4>1 DEF FlattenAt
      <4> QED BY <3>1, <4>2, <4>3, ConcatProperties
    <3> QED BY <3>2, <3>3
  <2>3. Nat \subseteq T
    <3> HIDE DEF T
    <3>1. \A n \in Nat : n \in T => n + 1 \in T
      BY <2>2
    <3> QED BY <2>1, <3>1, SetInduction
  <2> QED BY <2>3
<1>12. h \in [1..Len(ss) -> Seq(S)]
  BY <1>8, <1>11
<1>13. Len(ss) = 0 => ss = <<>>
  OBVIOUS
<1> QED BY <1>9, <1>10, <1>12, <1>13 DEF Lays

\* The same up to n.
BeginAlike(s, t, n) == \A i \in 1..n : s[i] = t[i]

\* Sequences that begin alike are laid alike.
LEMMA LaidAlike ==
  ASSUME NEW S, NEW ss \in Seq(Seq(S)), NEW tt \in Seq(Seq(S)), NEW f, NEW g,
         Lays(f, ss, S), Lays(g, tt, S), Len(ss) <= Len(tt), BeginAlike(ss, tt, Len(ss))
  PROVE  BeginAlike(f, g, Len(ss))
<1> DEFINE T == {n \in Nat : n \in 1..Len(ss) => f[n] = g[n]}
<1>1. /\ \A i \in 1..Len(ss) : f[i] = FlattenAt(ss, i, f)
      /\ \A i \in 1..Len(tt) : g[i] = FlattenAt(tt, i, g)
  BY DEF Lays
<1>2. 0 \in T
  OBVIOUS
<1>3. ASSUME NEW n \in Nat, n \in T PROVE n + 1 \in T
  <2> SUFFICES ASSUME n + 1 \in 1..Len(ss) PROVE f[n + 1] = g[n + 1]
    OBVIOUS
  <2>1. n + 1 \in 1..Len(tt) /\ ss[n + 1] = tt[n + 1] /\ (n + 1) - 1 = n
    BY DEF BeginAlike
  <2>2. n # 0 => f[n] = g[n]
    BY <1>3
  <2>3. FlattenAt(ss, n + 1, f) = FlattenAt(tt, n + 1, g)
    <3>1. CASE n = 0
      BY <2>1, <3>1 DEF FlattenAt
    <3>2. CASE n # 0
      BY <2>1, <2>2, <3>2 DEF FlattenAt
    <3> QED BY <3>1, <3>2
  <2> QED BY <1>1, <2>1, <2>3
<1>4. Nat \subseteq T
  <2> HIDE DEF T
  <2>1. \A n \in Nat : n \in T => n + 1 \in T
    BY <1>3
  <2> QED BY <1>2, <2>1, SetInduction
<1> QED BY <1>4 DEF BeginAlike

\* One sequence more.
LEMMA FlattenAppend ==
  ASSUME NEW S, NEW ss \in Seq(Seq(S)), NEW s \in Seq(S)
  PROVE  /\ FlattenSeq(ss) \in Seq(S)
         /\ FlattenSeq(Append(ss, s)) = FlattenSeq(ss) \o s
<1> DEFINE tt == Append(ss, s)
           n == Len(ss)
<1>1. /\ n \in Nat /\ tt \in Seq(Seq(S)) /\ Len(tt) = n + 1 /\ tt[n + 1] = s
      /\ \A i \in 1..n : tt[i] = ss[i]
  OBVIOUS
<1> HIDE DEF tt
<1>2. PICK f : Lays(f, ss, S)
  BY LaidEndToEnd
<1>3. PICK g : Lays(g, tt, S)
  BY <1>1, LaidEndToEnd
<1>4. \A i \in 1..n : f[i] = g[i]
  <2>1. Len(ss) <= Len(tt) /\ BeginAlike(ss, tt, Len(ss))
    BY <1>1 DEF BeginAlike
  <2>2. BeginAlike(f, g, Len(ss))
    BY <1>1, <1>2, <1>3, <2>1, LaidAlike
  <2> QED BY <2>2 DEF BeginAlike
<1>5. FlattenSeq(tt) = g[n + 1] /\ g[n + 1] = FlattenAt(tt, n + 1, g)
  BY <1>1, <1>3 DEF Lays
<1>6. CASE n = 0
  <2>1. FlattenSeq(ss) = <<>>
    BY <1>2, <1>6 DEF Lays
  <2>2. FlattenSeq(tt) = s
    BY <1>1, <1>5, <1>6 DEF FlattenAt
  <2> QED BY <2>1, <2>2 DEF tt
<1>7. CASE n # 0
  <2>1. FlattenSeq(ss) = f[n] /\ f[n] \in Seq(S)
    BY <1>1, <1>2, <1>7 DEF Lays
  <2>2. FlattenSeq(tt) = g[n] \o s
    BY <1>1, <1>5, <1>7 DEF FlattenAt
  <2>3. f[n] = g[n]
    BY <1>1, <1>4, <1>7
  <2> QED BY <2>1, <2>2, <2>3 DEF tt
<1> QED BY <1>6, <1>7

\* No sequence, and one.
LEMMA FlattenFew ==
  ASSUME NEW S, NEW s \in Seq(S)
  PROVE  FlattenSeq(<<>>) = <<>> /\ FlattenSeq(<<s>>) = s
<1>1. FlattenSeq(<<>>) = <<>>
  BY DEF FlattenSeq
<1>2. <<>> \in Seq(Seq(S))
  OBVIOUS
<1>3. FlattenSeq(Append(<<>>, s)) = FlattenSeq(<<>>) \o s
  BY <1>2, FlattenAppend
<1>4. Append(<<>>, s) = <<s>>
  OBVIOUS
<1>5. <<>> \o s = s
  OBVIOUS
<1> QED BY <1>1, <1>3, <1>4, <1>5

\* Several more.
LEMMA FlattenConcatenated ==
  ASSUME NEW S, NEW ss \in Seq(Seq(S)), NEW tt \in Seq(Seq(S))
  PROVE  FlattenSeq(ss \o tt) = FlattenSeq(ss) \o FlattenSeq(tt)
<1> DEFINE T == {n \in Nat : \A uu \in Seq(Seq(S)) :
                   Len(uu) = n => FlattenSeq(ss \o uu) = FlattenSeq(ss) \o FlattenSeq(uu)}
<1>1. \A uu \in Seq(Seq(S)) : FlattenSeq(uu) \in Seq(S)
  <2>1. <<>> \in Seq(S)
    OBVIOUS
  <2> QED BY <2>1, FlattenAppend
<1>2. 0 \in T
  <2> SUFFICES ASSUME NEW uu \in Seq(Seq(S)), Len(uu) = 0
               PROVE  FlattenSeq(ss \o uu) = FlattenSeq(ss) \o FlattenSeq(uu)
    OBVIOUS
  <2>1. uu = <<>>
    OBVIOUS
  <2>2. ss \o uu = ss
    BY <2>1
  <2>3. FlattenSeq(uu) = <<>>
    BY <2>1 DEF FlattenSeq
  <2>4. FlattenSeq(ss) \o <<>> = FlattenSeq(ss)
    BY <1>1
  <2> QED BY <2>2, <2>3, <2>4
<1>3. ASSUME NEW n \in Nat, n \in T PROVE n + 1 \in T
  <2> SUFFICES ASSUME NEW uu \in Seq(Seq(S)), Len(uu) = n + 1
               PROVE  FlattenSeq(ss \o uu) = FlattenSeq(ss) \o FlattenSeq(uu)
    OBVIOUS
  <2> DEFINE front == SubSeq(uu, 1, n)
             last == uu[n + 1]
  <2>1. front \in Seq(Seq(S)) /\ Len(front) = n /\ last \in Seq(S)
    OBVIOUS
  <2>2. uu = Append(front, last)
    OBVIOUS
  <2>3. ss \o front \in Seq(Seq(S))
    <3> HIDE DEF front, last
    <3> QED BY <2>1
  <2>4. ss \o Append(front, last) = Append(ss \o front, last)
    <3> HIDE DEF front, last
    <3> QED BY <2>1
  <2>5. FlattenSeq(ss \o front) = FlattenSeq(ss) \o FlattenSeq(front)
    BY <1>3, <2>1
  <2> HIDE DEF front, last
  <2>6. FlattenSeq(Append(ss \o front, last)) = FlattenSeq(ss \o front) \o last
    BY <2>1, <2>3, FlattenAppend
  <2>7. FlattenSeq(uu) = FlattenSeq(front) \o last
    BY <2>1, <2>2, FlattenAppend
  <2>8. (FlattenSeq(ss) \o FlattenSeq(front)) \o last = FlattenSeq(ss) \o (FlattenSeq(front) \o last)
    <3> DEFINE a == FlattenSeq(ss)
               b == FlattenSeq(front)
    <3>1. a \in Seq(S) /\ b \in Seq(S)
      BY <1>1, <2>1
    <3> HIDE DEF a, b
    <3>2. (a \o b) \o last = a \o (b \o last)
      <4>1. Associates(a, b, last)
        BY <2>1, <3>1, Regrouped, Zenon
      <4> QED BY <4>1 DEF Associates
    <3> QED BY <3>2, Zenon DEF a, b
  <2> QED BY <2>2, <2>4, <2>5, <2>6, <2>7, <2>8
<1>4. Nat \subseteq T
  <2> HIDE DEF T
  <2>1. \A n \in Nat : n \in T => n + 1 \in T
    BY <1>3
  <2> QED BY <1>2, <2>1, SetInduction
<1>5. Len(tt) \in T
  BY <1>4
<1> QED BY <1>5

\* What a function makes of the elements of a sequence, laid end to end.
Gathered(g, s) == FlattenSeq([i \in 1..Len(s) |-> g[s[i]]])

\* The function makes sequences over S of the elements of X.
Yields(g, X, S) == g \in [X -> Seq(S)]

\* It is gathered from a sequence as from its parts.
GatheredFromParts(g, s, t) == Gathered(g, s \o t) = Gathered(g, s) \o Gathered(g, t)
\* So does every function that yields sequences.
LEMMA GatheredParts ==
  ASSUME NEW S, NEW X, NEW g, Yields(g, X, S), NEW s \in Seq(X), NEW t \in Seq(X)
  PROVE  Gathered(g, s) \in Seq(S) /\ GatheredFromParts(g, s, t)
<1>0. g \in [X -> Seq(S)]
  BY DEF Yields
<1> DEFINE ss == [i \in 1..Len(s) |-> g[s[i]]]
           tt == [i \in 1..Len(t) |-> g[t[i]]]
           st == [i \in 1..Len(s \o t) |-> g[(s \o t)[i]]]
<1>1. ss \in Seq(Seq(S)) /\ Len(ss) = Len(s)
  <2>1. \A i \in 1..Len(s) : g[s[i]] \in Seq(S)
    BY <1>0
  <2> QED BY <2>1
<1>2. tt \in Seq(Seq(S)) /\ Len(tt) = Len(t)
  <2>1. \A i \in 1..Len(t) : g[t[i]] \in Seq(S)
    BY <1>0
  <2> QED BY <2>1
<1>3. st = ss \o tt
  <2>1. Len(s \o t) = Len(s) + Len(t)
    OBVIOUS
  <2>2. \A i \in 1..Len(s \o t) : (s \o t)[i] = IF i <= Len(s) THEN s[i] ELSE t[i - Len(s)]
    OBVIOUS
  <2>3. /\ \A i \in 1..Len(s) : ss[i] = g[s[i]]
        /\ \A i \in 1..Len(t) : tt[i] = g[t[i]]
        /\ \A i \in 1..Len(s \o t) : st[i] = g[(s \o t)[i]]
    OBVIOUS
  <2>4. ss \o tt \in Seq(Seq(S)) /\ Len(ss \o tt) = Len(s) + Len(t)
    <3> HIDE DEF ss, tt
    <3>1. ss \o tt \in Seq(Seq(S)) /\ Len(ss \o tt) = Len(ss) + Len(tt)
      <4>1. ss \in Seq(Seq(S)) /\ tt \in Seq(Seq(S))
        BY <1>1, <1>2, Zenon
      <4> QED BY <4>1, ConcatProperties
    <3> QED BY <1>1, <1>2, <3>1, Zenon
  <2>5. \A i \in 1..(Len(s) + Len(t)) :
          (ss \o tt)[i] = IF i <= Len(s) THEN ss[i] ELSE tt[i - Len(s)]
    <3> HIDE DEF ss, tt
    <3> QED BY <1>1, <1>2, ConcatProperties
  <2>6. \A i \in 1..(Len(s) + Len(t)) : (ss \o tt)[i] = st[i]
    <3> SUFFICES ASSUME NEW i \in 1..(Len(s) + Len(t)) PROVE (ss \o tt)[i] = st[i]
      OBVIOUS
    <3>1. CASE i <= Len(s)
      <4>1. i \in 1..Len(s)
        BY <3>1
      <4>2. (s \o t)[i] = s[i] /\ st[i] = g[(s \o t)[i]] /\ ss[i] = g[s[i]] /\ (ss \o tt)[i] = ss[i]
        BY <2>1, <2>2, <2>3, <2>5, <3>1, <4>1
      <4> QED BY <4>2
    <3>2. CASE ~ (i <= Len(s))
      <4> DEFINE j == i - Len(s)
      <4>1. j \in 1..Len(t)
        BY <3>2
      <4>2. (s \o t)[i] = t[j] /\ st[i] = g[(s \o t)[i]] /\ tt[j] = g[t[j]] /\ (ss \o tt)[i] = tt[j]
        BY <2>1, <2>2, <2>3, <2>5, <3>2, <4>1
      <4> QED BY <4>2
    <3> QED BY <3>1, <3>2
  <2>7. st \in Seq(Seq(S)) /\ Len(st) = Len(s) + Len(t)
    <3>1. \A i \in 1..Len(s \o t) : g[(s \o t)[i]] \in Seq(S)
      BY <1>0
    <3> QED BY <2>1, <3>1
  <2> HIDE DEF ss, tt, st
  <2> QED BY <2>4, <2>6, <2>7, SeqEqual
<1> HIDE DEF ss, tt, st
<1>4. FlattenSeq(ss) \in Seq(S)
  <2>1. <<>> \in Seq(S)
    OBVIOUS
  <2> QED BY <1>1, <2>1, FlattenAppend
<1>5. FlattenSeq(ss \o tt) = FlattenSeq(ss) \o FlattenSeq(tt)
  BY <1>1, <1>2, FlattenConcatenated
<1> QED BY <1>3, <1>4, <1>5 DEF Gathered, GatheredFromParts, ss, tt, st

\* From nothing, and from one element.
LEMMA GatheredFew ==
  ASSUME NEW S, NEW X, NEW g, Yields(g, X, S), NEW x \in X
  PROVE  Gathered(g, <<>>) = <<>> /\ Gathered(g, <<x>>) = g[x]
<1>0. g \in [X -> Seq(S)]
  BY DEF Yields
<1>1. [i \in 1..Len(<<>>) |-> g[(<<>>)[i]]] = <<>>
  OBVIOUS
<1>2. [i \in 1..Len(<<x>>) |-> g[<<x>>[i]]] = <<g[x]>>
  OBVIOUS
<1>3. FlattenSeq(<<>>) = <<>> /\ FlattenSeq(<<g[x]>>) = g[x]
  <2>1. g[x] \in Seq(S)
    BY <1>0
  <2> QED BY <2>1, FlattenFew
<1> QED BY <1>1, <1>2, <1>3 DEF Gathered

\* Two elements laid end to end.
LEMMA Pair ==
  ASSUME NEW x, NEW y
  PROVE  <<x>> \o <<y>> = <<x, y>>
<1> DEFINE S == {x, y}
           s == <<x>>
           t == <<y>>
           st == <<x, y>>
<1>1. s \in Seq(S) /\ t \in Seq(S) /\ Len(s) = 1 /\ Len(t) = 1 /\ s[1] = x /\ t[1] = y
  OBVIOUS
<1>2. st \in Seq(S) /\ Len(st) = 2 /\ st[1] = x /\ st[2] = y
  OBVIOUS
<1> HIDE DEF s, t, st, S
<1>3. /\ s \o t \in Seq(S) /\ Len(s \o t) = 2
      /\ \A i \in 1..2 : (s \o t)[i] = IF i <= 1 THEN s[i] ELSE t[i - 1]
  BY <1>1, ConcatProperties
<1>4. (s \o t)[1] = x /\ (s \o t)[2] = y
  BY <1>1, <1>3
<1>5. \A i \in 1..2 : (s \o t)[i] = st[i]
  <2>1. 1..2 = {1, 2}
    OBVIOUS
  <2>2. \A i \in {1, 2} : (s \o t)[i] = st[i]
    BY <1>2, <1>4, Zenon
  <2> QED BY <2>1, <2>2, Zenon
<1>6. s \o t = st
  BY <1>2, <1>3, <1>5, SeqEqual
<1> QED BY <1>6 DEF s, t, st

\* From two elements.
GatheredFromTwo(g, x, y) == Gathered(g, <<x, y>>) = g[x] \o g[y]
\* And so from two elements.
LEMMA GatheredPair ==
  ASSUME NEW S, NEW X, NEW g, Yields(g, X, S), NEW x \in X, NEW y \in X
  PROVE  GatheredFromTwo(g, x, y)
<1> DEFINE s == <<x>>
           t == <<y>>
<1>1. s \in Seq(X) /\ t \in Seq(X)
  OBVIOUS
<1>2. Gathered(g, s) = g[x] /\ Gathered(g, t) = g[y]
  BY GatheredFew
<1>3. s \o t = <<x, y>>
  BY Pair, Zenon
<1> HIDE DEF s, t
<1>4. Gathered(g, s \o t) = Gathered(g, s) \o Gathered(g, t)
  BY <1>1, GatheredParts DEF GatheredFromParts
<1> QED BY <1>2, <1>3, <1>4, Zenon DEF GatheredFromTwo

(***************************************************************************)
(* The frames of a notification.                                           *)
(***************************************************************************)
\* The recursion of SplitFrames at byte i, with f for what is split further on.
SplitAt(data, i, f) ==
  IF i > Len(data) THEN Decoded(<<>>)
  ELSE IF i = Len(data) \/ FrameEnd(data, i) > Len(data) THEN Malformed
  ELSE IF ~f[FrameEnd(data, i) + 1].ok THEN Malformed
  ELSE Decoded(<<DecodeFrame(SubSeq(data, i, FrameEnd(data, i))).value>>
                 \o f[FrameEnd(data, i) + 1].value)

\* SplitFrames is the value of that recursion at the first byte.
LEMMA SplitUnfolded ==
  ASSUME NEW data
  PROVE  SplitFrames(data) =
           (CHOOSE f : f = [i \in 1..(Len(data) + 1) |-> SplitAt(data, i, f)])[1]
BY DEF SplitFrames, SplitAt

\* Some frames, or none because the notification ends within one.
Split == {Malformed} \cup [ok : {TRUE}, value : Seq(Frame)]

\* The channel and the length in a header.
LEMMA HeaderBytes ==
  ASSUME NEW b \in Byte, NEW c \in Byte
  PROVE  b \div 32 \in Channel /\ PayloadLength(b, c) \in Nat
<1>1. b \in Int /\ b >= 0 /\ b <= 255 /\ c \in Int /\ c >= 0
  BY DEF Byte
<1>2. b \div 32 \in Int /\ b \div 32 >= 0 /\ b \div 32 <= 7
  BY <1>1, SMT
<1>3. b % 16 \in Int /\ b % 16 >= 0
  BY <1>1, SMT
<1> DEFINE r == b % 16
<1> HIDE DEF r
<1>4. r * 256 + c \in Int /\ r * 256 + c >= 0
  BY <1>1, <1>3, SMT DEF r
<1> QED BY <1>2, <1>4 DEF Channel, PayloadLength, r

\* What is decoded is a frame.
LEMMA DecodeFrameType ==
  ASSUME NEW w \in Seq(Byte), DecodeFrame(w).ok
  PROVE  DecodeFrame(w).value \in Frame
<1> DEFINE frame == [end     |-> (w[1] \div 16) % 2 = 1,
                     channel |-> w[1] \div 32,
                     payload |-> SubSeq(w, 3, Len(w))]
<1>1. ~(Len(w) < 2) /\ DecodeFrame(w) = Decoded(frame)
  BY DEF DecodeFrame, Malformed, Decoded
<1>2. w[1] \in Byte
  BY <1>1
<1>3. w[1] \div 32 \in Channel
  BY <1>2, HeaderBytes
<1>4. SubSeq(w, 3, Len(w)) \in Seq(Byte)
  BY <1>1
<1>5. frame \in Frame
  BY <1>3, <1>4 DEF Frame
<1> QED BY <1>1, <1>5 DEF Decoded

\* A frame that lies in the notification ends behind its header, and is one.
LEMMA FrameThere ==
  ASSUME NEW data \in Seq(Byte), NEW i \in 1..Len(data), i # Len(data),
         FrameEnd(data, i) <= Len(data)
  PROVE  /\ FrameEnd(data, i) \in (i + 1)..Len(data)
         /\ DecodeFrame(SubSeq(data, i, FrameEnd(data, i))).value \in Frame
<1> DEFINE p == PayloadLength(data[i], data[i + 1])
           k == FrameEnd(data, i)
           w == SubSeq(data, i, k)
<1>1. data[i] \in Byte /\ data[i + 1] \in Byte
  OBVIOUS
<1>2. p \in Nat
  BY <1>1, HeaderBytes
<1>3. k = i + 1 + p
  BY DEF FrameEnd
<1> HIDE DEF p
<1>4. k \in (i + 1)..Len(data)
  BY <1>2, <1>3
<1> HIDE DEF k
<1>5. /\ w \in Seq(Byte) /\ Len(w) = 2 + p /\ w[1] = data[i] /\ w[2] = data[i + 1]
  <2>1. w \in Seq(Byte) /\ Len(w) = k - i + 1 /\ \A j \in 1..(k - i + 1) : w[j] = data[i + j - 1]
    BY <1>4, SubSeqProperties
  <2> HIDE DEF w
  <2>2. 1 \in 1..(k - i + 1) /\ 2 \in 1..(k - i + 1) /\ k - i + 1 = 2 + p
        /\ i + 1 - 1 = i /\ i + 2 - 1 = i + 1
    BY <1>2, <1>3, <1>4
  <2>3. w[1] = data[i + 1 - 1] /\ w[2] = data[i + 2 - 1]
    BY <2>1, <2>2, Zenon
  <2> QED BY <2>1, <2>2, <2>3, Zenon
<1> HIDE DEF w
<1>6. ~(Len(w) < 2) /\ Len(w) = 2 + PayloadLength(w[1], w[2])
  BY <1>2, <1>5 DEF p
<1>7. DecodeFrame(w).ok
  BY <1>6 DEF DecodeFrame, Decoded
<1> QED BY <1>4, <1>5, <1>7, DecodeFrameType DEF k, w

\* What is split is some frames or none, if what follows is.
LEMMA SplitAtType ==
  ASSUME NEW data \in Seq(Byte), NEW i \in 1..(Len(data) + 1), NEW f,
         \A later \in (i + 1)..(Len(data) + 1) : f[later] \in Split
  PROVE  SplitAt(data, i, f) \in Split
<1>1. Decoded(<<>>) \in Split /\ Malformed \in Split
  <2>1. <<>> \in Seq(Frame)
    OBVIOUS
  <2> QED BY <2>1 DEF Split, Decoded
<1>2. CASE i > Len(data) \/ i = Len(data) \/ FrameEnd(data, i) > Len(data)
  BY <1>1, <1>2 DEF SplitAt
<1>3. CASE ~(i > Len(data) \/ i = Len(data) \/ FrameEnd(data, i) > Len(data))
  <2> DEFINE k == FrameEnd(data, i)
             frame == DecodeFrame(SubSeq(data, i, k)).value
  <2>0. i \in 1..Len(data) /\ i # Len(data)
    BY <1>3
  <2>1. FrameEnd(data, i) <= Len(data)
    <3>1. FrameEnd(data, i) \in Int
      <4>1. data[i] \in Byte /\ data[i + 1] \in Byte
        BY <2>0
      <4>2. PayloadLength(data[i], data[i + 1]) \in Nat
        BY <4>1, HeaderBytes
      <4> QED BY <4>2 DEF FrameEnd
    <3> QED BY <1>3, <3>1
  <2>2. k \in (i + 1)..Len(data) /\ frame \in Frame
    BY <2>0, <2>1, FrameThere
  <2>3. f[k + 1] \in Split
    <3>1. k + 1 \in (i + 1)..(Len(data) + 1)
      BY <2>2
    <3> QED BY <3>1
  <2>4. SplitAt(data, i, f) = IF ~f[k + 1].ok THEN Malformed ELSE Decoded(<<frame>> \o f[k + 1].value)
    BY <1>3 DEF SplitAt
  <2> HIDE DEF k, frame
  <2>5. CASE ~f[k + 1].ok
    BY <1>1, <2>4, <2>5
  <2>6. CASE f[k + 1].ok
    <3> DEFINE later == f[k + 1]
    <3>3. later \in Split /\ later.ok
      BY <2>3, <2>6
    <3> HIDE DEF later
    <3>4. later # Malformed
      BY <3>3 DEF Malformed
    <3>1. f[k + 1].value \in Seq(Frame)
      BY <3>3, <3>4 DEF Split, later
    <3>2. <<frame>> \o f[k + 1].value \in Seq(Frame)
      BY <2>2, <3>1
    <3> QED BY <2>4, <2>6, <3>2 DEF Split, Decoded
  <2> QED BY <2>5, <2>6
<1> QED BY <1>2, <1>3

\* Only what is split further on matters.
LEMMA SplitAtDescends ==
  ASSUME NEW data \in Seq(Byte), NEW i \in 1..(Len(data) + 1), NEW f, NEW g,
         \A later \in (i + 1)..(Len(data) + 1) : f[later] = g[later]
  PROVE  SplitAt(data, i, f) = SplitAt(data, i, g)
<1>1. CASE i > Len(data) \/ i = Len(data) \/ FrameEnd(data, i) > Len(data)
  BY <1>1 DEF SplitAt
<1>2. CASE ~(i > Len(data) \/ i = Len(data) \/ FrameEnd(data, i) > Len(data))
  <2>0. i \in 1..Len(data) /\ i # Len(data)
    BY <1>2
  <2>1. FrameEnd(data, i) + 1 \in (i + 1)..(Len(data) + 1)
    <3>1. data[i] \in Byte /\ data[i + 1] \in Byte
      BY <2>0
    <3>3. PayloadLength(data[i], data[i + 1]) \in Nat
      BY <3>1, HeaderBytes
    <3>2. FrameEnd(data, i) \in Int /\ FrameEnd(data, i) >= i + 1
      BY <2>0, <3>3 DEF FrameEnd
    <3> QED BY <1>2, <2>0, <3>2
  <2>2. f[FrameEnd(data, i) + 1] = g[FrameEnd(data, i) + 1]
    BY <2>1
  <2> QED BY <2>2 DEF SplitAt
<1> QED BY <1>1, <1>2

\* f splits the notification at every byte.
Splits(f, data) ==
  /\ SplitFrames(data) = f[1]
  /\ \A i \in 1..(Len(data) + 1) : f[i] \in Split /\ f[i] = SplitAt(data, i, f)

\* Every notification is split, or found not to end with a frame.
LEMMA FramesAreSplit ==
  ASSUME NEW data \in Seq(Byte)
  PROVE  \E f : Splits(f, data)
<1> DEFINE n == Len(data) + 1
           D == 1..n
           rank == [i \in D |-> n - i]
           step == [q \in D \X [D -> Split] |-> SplitAt(data, q[1], q[2])]
<1>0. n \in Nat /\ n >= 1
  OBVIOUS
<1>1. rank \in [D -> Nat] /\ Split # {}
  <2>1. \A i \in D : n - i \in Nat
    BY <1>0
  <2>2. Malformed \in Split
    BY DEF Split
  <2> QED BY <2>1, <2>2
<1>2. ASSUME NEW i \in D, NEW f \in [D -> Split]
      PROVE  step[<<i, f>>] = SplitAt(data, i, f) /\ step[<<i, f>>] \in Split
  <2>1. <<i, f>> \in D \X [D -> Split] /\ <<i, f>>[1] = i /\ <<i, f>>[2] = f
    OBVIOUS
  <2>2. step[<<i, f>>] = SplitAt(data, i, f)
    BY <2>1
  <2>3. \A later \in (i + 1)..n : f[later] \in Split
    OBVIOUS
  <2> QED BY <2>2, <2>3, SplitAtType
<1>3. step \in [D \X [D -> Split] -> Split]
  <2>1. \A q \in D \X [D -> Split] : q[1] \in D /\ q[2] \in [D -> Split]
    OBVIOUS
  <2>2. \A i \in D : \A f \in [D -> Split] : \A later \in (i + 1)..n : f[later] \in Split
    OBVIOUS
  <2>3. \A q \in D \X [D -> Split] : SplitAt(data, q[1], q[2]) \in Split
    <3> SUFFICES ASSUME NEW q \in D \X [D -> Split] PROVE SplitAt(data, q[1], q[2]) \in Split
      OBVIOUS
    <3> DEFINE i == q[1]
               f == q[2]
    <3>1. i \in D /\ f \in [D -> Split]
      BY <2>1
    <3> HIDE DEF i, f
    <3>2. \A later \in (i + 1)..n : f[later] \in Split
      BY <2>2, <3>1
    <3>3. SplitAt(data, i, f) \in Split
      BY <3>1, <3>2, SplitAtType
    <3> QED BY <3>3 DEF i, f
  <2> QED BY <2>3
<1>4. Descends(step, rank, D, Split)
  <2> SUFFICES ASSUME NEW i \in D, NEW f \in [D -> Split], NEW g \in [D -> Split],
                      \A j \in D : rank[j] < rank[i] => f[j] = g[j]
               PROVE  step[<<i, f>>] = step[<<i, g>>]
    BY DEF Descends
  <2>1. \A later \in (i + 1)..n : f[later] = g[later]
    <3>1. \A later \in (i + 1)..n : later \in D /\ rank[later] < rank[i]
      BY <1>0
    <3> QED BY <3>1
  <2>2. SplitAt(data, i, f) = SplitAt(data, i, g)
    BY <2>1, SplitAtDescends
  <2> QED BY <1>2, <2>2
<1> HIDE DEF step, rank, D
<1>5. PICK f \in [D -> Split] : Solves(f, step, D)
  BY <1>1, <1>3, <1>4, RecursionExists
<1>6. f = [i \in D |-> SplitAt(data, i, f)]
  <2>1. f = [i \in D |-> step[<<i, f>>]]
    BY <1>5 DEF Solves
  <2>2. \A i \in D : step[<<i, f>>] = SplitAt(data, i, f)
    BY <1>2
  <2>3. [i \in D |-> step[<<i, f>>]] = [i \in D |-> SplitAt(data, i, f)]
    BY <2>2, Zenon
  <2> QED BY <2>1, <2>3
<1> DEFINE h == CHOOSE g : g = [i \in 1..(Len(data) + 1) |-> SplitAt(data, i, g)]
<1>7. h = [i \in 1..(Len(data) + 1) |-> SplitAt(data, i, h)]
  BY <1>6, Zenon DEF D
<1>8. SplitFrames(data) = h[1]
  BY SplitUnfolded
<1> HIDE DEF h
<1>9. \A i \in 1..n : h[i] = SplitAt(data, i, h)
  BY <1>7
<1>10. \A i \in 1..n : h[i] \in Split
  <2> DEFINE T == {k \in Nat : \A i \in 1..n : n - i < k => h[i] \in Split}
  <2>1. 0 \in T
    BY <1>0
  <2>2. ASSUME NEW k \in Nat, k \in T PROVE k + 1 \in T
    <3> SUFFICES ASSUME NEW i \in 1..n, n - i < k + 1 PROVE h[i] \in Split
      OBVIOUS
    <3>1. \A later \in (i + 1)..n : h[later] \in Split
      <4> SUFFICES ASSUME NEW later \in (i + 1)..n PROVE h[later] \in Split
        OBVIOUS
      <4>1. later \in 1..n /\ n - later < k
        BY <1>0
      <4> QED BY <2>2, <4>1
    <3>2. SplitAt(data, i, h) \in Split
      BY <3>1, SplitAtType
    <3> QED BY <1>9, <3>2
  <2>3. Nat \subseteq T
    <3> HIDE DEF T
    <3>1. \A k \in Nat : k \in T => k + 1 \in T
      BY <2>2
    <3> QED BY <2>1, <3>1, SetInduction
  <2>4. n \in T
    BY <1>0, <2>3
  <2> QED BY <1>0, <2>4
<1> QED BY <1>8, <1>9, <1>10 DEF Splits

\* The bytes e lie in the notification from byte i on.
LiesAt(e, data, i) ==
  /\ i + Len(e) - 1 <= Len(data)
  /\ SubSeq(data, i, i + Len(e) - 1) = e

\* The frame is split off at byte i, if what follows its bytes e is split.
SplitsOff(frame, e, data, i, f) ==
  LiesAt(e, data, i) /\ f[i + Len(e)].ok = TRUE
    => SplitAt(data, i, f) = Decoded(<<frame>> \o f[i + Len(e)].value)

\* What encode_frame wrote is split off.
LEMMA EncodedIsSplitOff ==
  ASSUME NEW data \in Seq(Byte), NEW i \in 1..Len(data), NEW f,
         NEW frame \in Frame, Encodable(frame)
  PROVE  SplitsOff(frame, EncodeFrame(frame), data, i, f)
<1> DEFINE e == EncodeFrame(frame)
           k == FrameEnd(data, i)
<1> SUFFICES ASSUME LiesAt(e, data, i), f[i + Len(e)].ok = TRUE
             PROVE  SplitAt(data, i, f) = Decoded(<<frame>> \o f[i + Len(e)].value)
  BY DEF SplitsOff
<1>1. e \in Seq(Byte) /\ DecodeFrame(e) = Decoded(frame)
  BY FrameRoundTrip
<1> HIDE DEF e
<1>2. ~(Len(e) < 2) /\ Len(e) = 2 + PayloadLength(e[1], e[2])
  BY <1>1 DEF DecodeFrame, Malformed, Decoded
<1>3. e[1] = data[i] /\ e[2] = data[i + 1]
  <2> DEFINE last == i + Len(e) - 1
             s == SubSeq(data, i, last)
  <2>1. last \in i..Len(data) /\ last - i + 1 = Len(e) /\ s = e
    BY <1>1, <1>2 DEF LiesAt
  <2>2. \A j \in 1..(last - i + 1) : s[j] = data[i + j - 1]
    <3> HIDE DEF last
    <3>1. i \in 1..(Len(data) + 1) /\ last \in (i - 1)..Len(data)
      BY <2>1
    <3> QED BY <3>1, SubSeqProperties
  <2> HIDE DEF s, last
  <2>3. 1 \in 1..(last - i + 1) /\ 2 \in 1..(last - i + 1) /\ i + 1 - 1 = i /\ i + 2 - 1 = i + 1
    BY <1>1, <1>2, <2>1
  <2>4. s[1] = data[i + 1 - 1] /\ s[2] = data[i + 2 - 1]
    BY <2>2, <2>3, Zenon
  <2> QED BY <2>1, <2>3, <2>4, Zenon
<1>4. k = i + Len(e) - 1
  <2>1. k = i + 1 + PayloadLength(e[1], e[2])
    BY <1>3 DEF FrameEnd
  <2>2. PayloadLength(e[1], e[2]) \in Int
    <3>1. e[1] \in Byte /\ e[2] \in Byte
      BY <1>1, <1>2
    <3>2. PayloadLength(e[1], e[2]) \in Nat
      BY <3>1, HeaderBytes
    <3> QED BY <3>2
  <2> HIDE DEF k
  <2> QED BY <1>1, <1>2, <2>1, <2>2
<1>5. k <= Len(data) /\ i # Len(data) /\ SubSeq(data, i, k) = e /\ k + 1 = i + Len(e)
  BY <1>1, <1>2, <1>4 DEF LiesAt
<1> HIDE DEF k
<1>6. SplitAt(data, i, f) = Decoded(<<DecodeFrame(SubSeq(data, i, k)).value>> \o f[k + 1].value)
  <2>1. ~(i > Len(data)) /\ ~(i = Len(data) \/ k > Len(data)) /\ ~(~f[k + 1].ok)
    <3>1. k \in Int
      BY <1>1, <1>4
    <3>2. ~(i > Len(data)) /\ ~(i = Len(data) \/ k > Len(data))
      BY <1>5, <3>1
    <3>3. f[k + 1].ok = TRUE
      BY <1>5
    <3> QED BY <3>2, <3>3
  <2> QED BY <2>1, Zenon DEF SplitAt, k
<1>7. DecodeFrame(SubSeq(data, i, k)).value = frame
  BY <1>1, <1>5 DEF Decoded
<1> QED BY <1>5, <1>6, <1>7, Zenon DEF e

\* Beyond the last byte there is nothing to split.
LEMMA SplitEnd ==
  ASSUME NEW data \in Seq(Byte), NEW f
  PROVE  SplitAt(data, Len(data) + 1, f) = Decoded(<<>>)
<1>1. Len(data) + 1 > Len(data)
  OBVIOUS
<1> QED BY <1>1 DEF SplitAt

\* Where the parts of a notification lie.
LEMMA PartsLie ==
  ASSUME NEW a \in Seq(Byte), NEW b \in Seq(Byte)
  PROVE  LiesAt(a, a \o b, 1) /\ LiesAt(b, a \o b, Len(a) + 1)
<1> DEFINE ab == a \o b
           s == SubSeq(ab, 1, Len(a))
<1>1. /\ ab \in Seq(Byte) /\ Len(ab) = Len(a) + Len(b)
      /\ \A i \in 1..Len(a) : ab[i] = a[i]
      /\ SubSeq(ab, Len(a) + 1, Len(ab)) = b
  BY Rest
<1> HIDE DEF ab
<1>2. s \in Seq(Byte) /\ Len(s) = Len(a) /\ \A i \in 1..Len(a) : s[i] = a[i]
  BY <1>1
<1>3. s = a
  <2> HIDE DEF s
  <2> QED BY <1>2, SeqEqual
<1>4. LiesAt(a, ab, 1)
  <2>1. 1 + Len(a) - 1 = Len(a) /\ Len(a) <= Len(ab)
    BY <1>1
  <2> QED BY <1>3, <2>1 DEF LiesAt
<1>5. LiesAt(b, ab, Len(a) + 1)
  <2>1. Len(a) + 1 + Len(b) - 1 = Len(ab) /\ Len(ab) <= Len(ab)
    BY <1>1
  <2> QED BY <1>1, <2>1 DEF LiesAt
<1> QED BY <1>4, <1>5 DEF ab

\* Every frame has a header.
LEMMA FrameBytes ==
  ASSUME NEW x \in Frame, Encodable(x)
  PROVE  EncodeFrame(x) \in Seq(Byte) /\ Len(EncodeFrame(x)) \in Nat /\ Len(EncodeFrame(x)) >= 2
<1> DEFINE a == EncodeFrame(x)
<1>1. a \in Seq(Byte) /\ DecodeFrame(a) = Decoded(x)
  BY FrameRoundTrip
<1> HIDE DEF a
<1>2. ~(Len(a) < 2)
  BY <1>1 DEF DecodeFrame, Malformed, Decoded
<1>3. Len(a) \in Nat /\ Len(a) >= 2
  BY <1>1, <1>2
<1> QED BY <1>1, <1>3 DEF a

\* A notification of one frame is split into it.
LEMMA OneFrame ==
  ASSUME NEW x \in Frame, Encodable(x)
  PROVE  SplitFrames(EncodeFrame(x)) = Decoded(<<x>>)
<1> DEFINE a == EncodeFrame(x)
           n == Len(a)
<1>1. a \in Seq(Byte) /\ n \in Nat /\ n >= 2
  BY FrameBytes
<1>2. PICK f : Splits(f, a)
  BY <1>1, FramesAreSplit
<1>3. SplitFrames(a) = f[1] /\ f[1] = SplitAt(a, 1, f) /\ f[n + 1] = SplitAt(a, n + 1, f)
  BY <1>1, <1>2 DEF Splits
<1>4. f[n + 1] = Decoded(<<>>)
  BY <1>1, <1>3, SplitEnd
<1>5. SplitsOff(x, a, a, 1, f)
  <2>1. 1 \in 1..Len(a)
    BY <1>1
  <2> QED BY <1>1, <2>1, EncodedIsSplitOff
<1> HIDE DEF a
<1>6. LiesAt(a, a, 1)
  <2>1. SubSeq(a, 1, Len(a)) = a /\ 1 + Len(a) - 1 = Len(a) /\ Len(a) <= Len(a)
    BY <1>1
  <2> QED BY <2>1 DEF LiesAt
<1>7. f[1 + n].ok = TRUE /\ f[1 + n].value = <<>>
  <2>1. 1 + n = n + 1
    BY <1>1
  <2> QED BY <1>4, <2>1 DEF Decoded
<1>8. f[1] = Decoded(<<x>> \o <<>>)
  BY <1>3, <1>5, <1>6, <1>7 DEF SplitsOff
<1>9. <<x>> \o <<>> = <<x>>
  OBVIOUS
<1> QED BY <1>3, <1>8, <1>9 DEF a

\* A notification of two frames is split into them.
LEMMA TwoFrames ==
  ASSUME NEW x \in Frame, Encodable(x), NEW y \in Frame, Encodable(y)
  PROVE  SplitFrames(EncodeFrame(x) \o EncodeFrame(y)) = Decoded(<<x, y>>)
<1> DEFINE a == EncodeFrame(x)
           b == EncodeFrame(y)
           ab == a \o b
           n == Len(ab)
<1>1. /\ a \in Seq(Byte) /\ Len(a) \in Nat /\ Len(a) >= 2
      /\ b \in Seq(Byte) /\ Len(b) \in Nat /\ Len(b) >= 2
  BY FrameBytes
<1>2. ab \in Seq(Byte) /\ n = Len(a) + Len(b) /\ n \in Nat
  <2> HIDE DEF a, b
  <2> QED BY <1>1, Rest
<1>3. LiesAt(a, ab, 1) /\ LiesAt(b, ab, Len(a) + 1)
  <2> HIDE DEF a, b
  <2> QED BY <1>1, PartsLie
<1> HIDE DEF ab
<1>4. PICK f : Splits(f, ab)
  BY <1>2, FramesAreSplit
<1>5. 1 \in 1..Len(ab) /\ Len(a) + 1 \in 1..Len(ab) /\ n + 1 \in 1..(Len(ab) + 1)
  <2> HIDE DEF a, b
  <2> QED BY <1>1, <1>2
<1>6. /\ SplitFrames(ab) = f[1] /\ f[1] = SplitAt(ab, 1, f)
      /\ f[Len(a) + 1] = SplitAt(ab, Len(a) + 1, f)
      /\ f[n + 1] = SplitAt(ab, n + 1, f)
  <2>1. \A i \in 1..Len(ab) : i \in 1..(Len(ab) + 1)
    BY <1>2
  <2> HIDE DEF a, b, n
  <2> QED BY <1>4, <1>5, <2>1, Zenon DEF Splits
<1>7. f[n + 1] = Decoded(<<>>)
  BY <1>2, <1>6, SplitEnd
<1>8. SplitsOff(x, a, ab, 1, f) /\ SplitsOff(y, b, ab, Len(a) + 1, f)
  BY <1>2, <1>5, EncodedIsSplitOff
<1> HIDE DEF a, b
<1>9. f[Len(a) + 1] = Decoded(<<y>>)
  <2>1. Len(a) + 1 + Len(b) = n + 1
    BY <1>1, <1>2
  <2>2. f[Len(a) + 1 + Len(b)].ok = TRUE /\ f[Len(a) + 1 + Len(b)].value = <<>>
    BY <1>7, <2>1 DEF Decoded
  <2>3. f[Len(a) + 1] = Decoded(<<y>> \o <<>>)
    BY <1>3, <1>6, <1>8, <2>2 DEF SplitsOff
  <2>4. <<y>> \o <<>> = <<y>>
    OBVIOUS
  <2> QED BY <2>3, <2>4
<1>10. f[1] = Decoded(<<x, y>>)
  <2>1. 1 + Len(a) = Len(a) + 1
    BY <1>1
  <2>2. f[1 + Len(a)].ok = TRUE /\ f[1 + Len(a)].value = <<y>>
    BY <1>9, <2>1 DEF Decoded
  <2>3. f[1] = Decoded(<<x>> \o <<y>>)
    BY <1>3, <1>6, <1>8, <2>2 DEF SplitsOff
  <2>4. <<x>> \o <<y>> = <<x, y>>
    BY Pair, Zenon
  <2> QED BY <2>3, <2>4
<1> QED BY <1>6, <1>10 DEF ab, a, b

(***************************************************************************)
(* The answers to a frame.                                                 *)
(***************************************************************************)
\* What decode_message_frame may return.
Message == Directed \cup Notification

\* An address is read from any two bytes.
LEMMA AnyAddress ==
  ASSUME NEW b \in Byte, NEW c \in Byte
  PROVE  DecodeAddress(b, c) \in Address
<1>1. b \in Int /\ b >= 0 /\ c \in Int /\ c >= 0 /\ c <= 255
  BY DEF Byte
<1> DEFINE r == b % 128
<1>2. r \in Int /\ r >= 0 /\ r <= 127
  BY <1>1, SMT
<1> HIDE DEF r
<1>3. r * 256 + c \in Int /\ r * 256 + c >= 0 /\ r * 256 + c <= MaxAddress
  BY <1>1, <1>2, SMT DEF MaxAddress
<1>4. r * 256 + c \in Address
  <2>1. MaxAddress \in Int
    BY DEF MaxAddress
  <2> QED BY <1>3, <2>1 DEF Address
<1> QED BY <1>4, Zenon DEF DecodeAddress, r

\* The end of a sequence of bytes is one.
LEMMA RestOfBytes ==
  ASSUME NEW raw \in Seq(Byte), NEW i \in 1..(Len(raw) + 1)
  PROVE  SubSeq(raw, i, Len(raw)) \in Seq(Byte)
OBVIOUS

\* What is decoded from any bytes is a message.
LEMMA DecodeMessageType ==
  ASSUME NEW raw \in Seq(Byte), DecodeMessage(raw).ok
  PROVE  DecodeMessage(raw).value \in Message
<1>1. ~(Len(raw) < 2)
  BY DEF DecodeMessage, Malformed
<1>2. raw[1] \in Byte /\ raw[2] \in Byte
  BY <1>1
<1>3. DecodeAddress(raw[1], raw[2]) \in Address
  BY <1>2, AnyAddress
<1>4. CASE raw[1] >= 128
  <2> DEFINE m == [form |-> "notify", source |-> DecodeAddress(raw[1], raw[2]),
                   payload |-> SubSeq(raw, 3, Len(raw))]
  <2>1. DecodeMessage(raw).value = m
    BY <1>1, <1>4 DEF DecodeMessage, Decoded
  <2>2. SubSeq(raw, 3, Len(raw)) \in Seq(Byte)
    <3>1. 3 \in 1..(Len(raw) + 1)
      BY <1>1
    <3> QED BY <3>1, RestOfBytes
  <2>3. m \in Notification
    BY <1>3, <2>2 DEF Notification
  <2> QED BY <2>1, <2>3 DEF Message
<1>5. CASE ~(raw[1] >= 128)
  <2> DEFINE status == IF HasStatus(raw) THEN StatusFromByte(raw[6]) ELSE SUCCESS
             payload == SubSeq(raw, IF HasStatus(raw) THEN 7 ELSE 6, Len(raw))
             m == [form |-> "directed", source |-> DecodeAddress(raw[1], raw[2]),
                   destination |-> DecodeAddress(raw[3], raw[4]), type |-> raw[5] \div 16,
                   sequence |-> raw[5] % 16, status |-> status, payload |-> payload]
  <2>1. DecodeMessage(raw) = DecodeDirected(raw)
    BY <1>1, <1>5 DEF DecodeMessage
  <2>2. /\ ~(Len(raw) < 5) /\ raw[5] \div 16 \in READ..NOTIFY
        /\ ~(HasStatus(raw) /\ Len(raw) < 6)
    BY <2>1 DEF DecodeDirected, Malformed
  <2>3. DecodeMessage(raw).value = m
    BY <2>1, <2>2 DEF DecodeDirected, Decoded
  <2>4. raw[3] \in Byte /\ raw[4] \in Byte /\ raw[5] \in Byte
    BY <2>2
  <2>5. DecodeAddress(raw[3], raw[4]) \in Address
    BY <2>4, AnyAddress
  <2>6. raw[5] % 16 \in 0..15
    <3> DEFINE b == raw[5]
    <3>1. b \in Int
      <4>1. b \in Byte
        BY <2>4
      <4> HIDE DEF b
      <4> QED BY <4>1 DEF Byte
    <3> HIDE DEF b
    <3>2. b % 16 \in 0..15
      BY <3>1, SMT
    <3> QED BY <3>2 DEF b
  <2>7. status \in StatusCodes
    BY DEF StatusFromByte, StatusCodes, SUCCESS
  <2>8. payload \in Seq(Byte)
    <3>1. CASE HasStatus(raw)
      <4>1. 7 \in 1..(Len(raw) + 1)
        BY <2>2, <3>1
      <4>2. SubSeq(raw, 7, Len(raw)) \in Seq(Byte)
        BY <4>1, RestOfBytes
      <4> QED BY <3>1, <4>2
    <3>2. CASE ~HasStatus(raw)
      <4>1. 6 \in 1..(Len(raw) + 1)
        BY <2>2
      <4>2. SubSeq(raw, 6, Len(raw)) \in Seq(Byte)
        BY <4>1, RestOfBytes
      <4> QED BY <3>2, <4>2
    <3> QED BY <3>1, <3>2
  <2> HIDE DEF status, payload
  <2>9. m \in Directed
    BY <1>3, <2>2, <2>5, <2>6, <2>7, <2>8 DEF Directed
  <2> QED BY <2>3, <2>9 DEF Message
<1> QED BY <1>4, <1>5

\* The packet that carries a message to the bike.
PacketWith(channel, bytes) == EncodeFrame([end |-> TRUE, channel |-> channel, payload |-> bytes])

\* The bike hears what the bytes decode to.
LEMMA PacketIsHeard ==
  ASSUME NEW channel \in Channel, NEW bytes \in Seq(Byte), Len(bytes) <= MaxPayload,
         NEW m, DecodeMessage(bytes) = Decoded(m)
  PROVE  /\ PacketWith(channel, bytes) \in Seq(Byte)
         /\ Hear(PacketWith(channel, bytes)) = [channel |-> channel, message |-> m]
<1> DEFINE frame == [end |-> TRUE, channel |-> channel, payload |-> bytes]
           p == EncodeFrame(frame)
<1>1. frame \in Frame /\ Encodable(frame)
  BY DEF Frame, Encodable
<1>2. frame.channel = channel /\ frame.payload = bytes
  OBVIOUS
<1> HIDE DEF frame
<1>3. p \in Seq(Byte) /\ DecodeFrame(p) = Decoded(frame)
  BY <1>1, FrameRoundTrip
<1> HIDE DEF p
<1>4. DecodeFrame(p).value = frame
  BY <1>3 DEF Decoded
<1>5. DecodeMessage(bytes).ok = TRUE /\ DecodeMessage(bytes).value = m
  BY DEF Decoded
<1>6. Hear(p) = [channel |-> channel, message |-> m]
  BY <1>2, <1>4, <1>5 DEF Hear
<1> QED BY <1>3, <1>6 DEF p, frame, PacketWith

\* What a request is owed, in the words of the responder.
LEMMA RequestIsOwed ==
  ASSUME NEW m \in Directed, m.type \in {READ, WRITE, RPC, SUBSCRIBE, UNSUBSCRIBE}
  PROVE  Owed(m) =
           <<Reply(m, IF Supported(m) THEN SUCCESS ELSE UNSUPPORTED, ResponsePayload(m))>>
             \o (IF m.type = SUBSCRIBE /\ Supported(m)
                 THEN <<[form |-> "notify", source |-> m.destination,
                         payload |-> Payloads[m.destination]]>> ELSE <<>>)
<1> DEFINE reply == Reply(m, IF Supported(m) THEN SUCCESS ELSE UNSUPPORTED, ResponsePayload(m))
           value == [form |-> "notify", source |-> m.destination,
                     payload |-> Payloads[m.destination]]
<1> USE DEF READ, WRITE, RPC, SUBSCRIBE, UNSUBSCRIBE
<1>1. m.form = "directed" /\ ~(m.type \in ResponseTypes \cup {NOTIFY})
  BY DEF Directed, ResponseTypes, NOTIFY, READ_RESPONSE, WRITE_RESPONSE, RPC_RESPONSE,
         SUBSCRIBE_RESPONSE, UNSUBSCRIBE_RESPONSE
<1>2. <<reply>> \o <<>> = <<reply>>
  OBVIOUS
<1>3. <<reply>> \o <<value>> = <<reply, value>>
  BY Pair, Zenon
<1>4. ~(m.type = SUBSCRIBE /\ Supported(m)) => Owed(m) = <<reply>>
  <2> SUFFICES ASSUME ~(m.type = SUBSCRIBE /\ Supported(m)) PROVE Owed(m) = <<reply>>
    OBVIOUS
  <2>1. CASE m.type = RPC
    BY <1>1, <2>1 DEF Owed, Supported, ResponsePayload
  <2>2. CASE m.type = WRITE
    BY <1>1, <2>2 DEF Owed, Supported, ResponsePayload
  <2>3. CASE m.type \in {READ, SUBSCRIBE, UNSUBSCRIBE} /\ m.destination \notin DOMAIN Payloads
    <3>1. ~Supported(m) /\ ResponsePayload(m) = <<>>
      BY <2>3 DEF Supported, ResponsePayload
    <3> QED BY <1>1, <2>3, <3>1 DEF Owed
  <2>4. CASE m.type = READ /\ m.destination \in DOMAIN Payloads
    <3>1. Supported(m) /\ ResponsePayload(m) = Payloads[m.destination]
      BY <2>4 DEF Supported, ResponsePayload
    <3> QED BY <1>1, <2>4, <3>1 DEF Owed
  <2>5. CASE m.type = UNSUBSCRIBE /\ m.destination \in DOMAIN Payloads
    <3>1. Supported(m) /\ ResponsePayload(m) = <<>>
      BY <2>5 DEF Supported, ResponsePayload
    <3> QED BY <1>1, <2>5, <3>1 DEF Owed
  <2>6. CASE m.type = SUBSCRIBE /\ m.destination \in DOMAIN Payloads
    BY <2>6 DEF Supported
  <2> QED BY <2>1, <2>2, <2>3, <2>4, <2>5, <2>6
<1>5. (m.type = SUBSCRIBE /\ Supported(m)) => Owed(m) = <<reply, value>>
  <2> SUFFICES ASSUME m.type = SUBSCRIBE, Supported(m) PROVE Owed(m) = <<reply, value>>
    OBVIOUS
  <2>1. m.destination \in DOMAIN Payloads /\ ResponsePayload(m) = <<>>
    BY DEF Supported, ResponsePayload
  <2> QED BY <1>1, <2>1 DEF Owed
<1> HIDE DEF reply, value
<1>6. Owed(m) = <<reply>> \o (IF m.type = SUBSCRIBE /\ Supported(m) THEN <<value>> ELSE <<>>)
  BY <1>2, <1>3, <1>4, <1>5, Zenon
<1> QED BY <1>6 DEF reply, value

\* What the bike hears of a packet.
Heard == {Hear(packet) : packet \in Seq(Byte)}
HearIt == [packet \in Seq(Byte) |-> <<Hear(packet)>>]

\* What it hears of packets is gathered from them.
LEMMA HearYields == Yields(HearIt, Seq(Byte), Heard)
<1>1. \A packet \in Seq(Byte) : <<Hear(packet)>> \in Seq(Heard)
  BY DEF Heard
<1> QED BY <1>1 DEF HearIt, Yields

\* What it hears of a packet is one thing, and of two packets two.
LEMMA HeardFew ==
  ASSUME NEW p \in Seq(Byte), NEW q \in Seq(Byte)
  PROVE  /\ Gathered(HearIt, <<>>) = <<>>
         /\ Gathered(HearIt, <<p>>) = <<Hear(p)>>
         /\ Gathered(HearIt, <<p, q>>) = <<Hear(p), Hear(q)>>
<1> DEFINE X == Seq(Byte)
           S == Heard
           g == HearIt
<1>1. Yields(g, X, S) /\ p \in X /\ q \in X
  BY HearYields
<1>2. g[p] = <<Hear(p)>> /\ g[q] = <<Hear(q)>>
  BY DEF HearIt
<1> HIDE DEF X, S, g
<1>3. Gathered(g, <<>>) = <<>> /\ Gathered(g, <<p>>) = g[p]
  BY <1>1, GatheredFew
<1>4. Gathered(g, <<p, q>>) = g[p] \o g[q]
  <2>1. GatheredFromTwo(g, p, q)
    BY <1>1, GatheredPair
  <2> QED BY <2>1 DEF GatheredFromTwo
<1>5. <<Hear(p)>> \o <<Hear(q)>> = <<Hear(p), Hear(q)>>
  BY Pair, Zenon
<1> QED BY <1>2, <1>3, <1>4, <1>5, Zenon DEF g

\* One on a channel: a message, as the bike hears it.
On(channel, m) == [channel |-> channel, message |-> m]

\* The answers of the responder are packets, and the bike hears in them what it is owed.
AnsweredAsOwed(channel, m) ==
  /\ StartupResponsePackets(channel, m) \in Seq(Seq(Byte))
  /\ Gathered(HearIt, StartupResponsePackets(channel, m))
       = [i \in 1..Len(Owed(m)) |-> On(channel, Owed(m)[i])]

\* Whatever the message and the channel.
LEMMA AnswersAreOwed ==
  ASSUME NEW channel \in Channel \ {COMMAND}, NEW m \in Message
  PROVE  AnsweredAsOwed(channel, m)
<1> DEFINE packets == StartupResponsePackets(channel, m)
           owed == Owed(m)
           responses == Responses(m)
<1>1. packets = [i \in 1..Len(responses) |-> PacketWith(channel, responses[i])]
  BY DEF StartupResponsePackets, PacketWith
<1>2. <<>> \in Seq(Byte)
  OBVIOUS
<1>3. CASE m.form # "directed" \/ m.type \notin {READ, WRITE, RPC, SUBSCRIBE, UNSUBSCRIBE}
  <2>1. responses = <<>>
    BY <1>3 DEF Responses
  <2>2. owed = <<>>
    <3>1. CASE m \in Notification
      <4>1. m.form = "notify"
        BY <3>1 DEF Notification
      <4> QED BY <4>1 DEF Owed
    <3>2. CASE m \in Directed
      <4>1. m.form = "directed" /\ m.type \in READ..NOTIFY
        BY <3>2 DEF Directed
      <4>2. m.type \in ResponseTypes \cup {NOTIFY}
        BY <1>3, <4>1 DEF ResponseTypes, NOTIFY, READ, WRITE, RPC, SUBSCRIBE, UNSUBSCRIBE,
             READ_RESPONSE, WRITE_RESPONSE, RPC_RESPONSE, SUBSCRIBE_RESPONSE, UNSUBSCRIBE_RESPONSE
      <4>3. m.form # "notify" /\ m.type \notin {READ, WRITE, RPC, SUBSCRIBE, UNSUBSCRIBE}
        BY <1>3, <4>1
      <4> QED BY <4>1, <4>2, <4>3, SMT DEF Owed
    <3> QED BY <3>1, <3>2 DEF Message
  <2>3. packets = <<>>
    BY <1>1, <2>1
  <2>4. [i \in 1..Len(owed) |-> On(channel, owed[i])] = <<>>
    <3> HIDE DEF owed
    <3> QED BY <2>2
  <2>5. <<>> \in Seq(Seq(Byte))
    OBVIOUS
  <2> HIDE DEF packets
  <2>6. packets \in Seq(Seq(Byte)) /\ Gathered(HearIt, packets) = <<>>
    BY <1>2, <2>3, <2>5, HeardFew
  <2> QED BY <2>4, <2>6 DEF AnsweredAsOwed, packets
<1>4. CASE m.form = "directed" /\ m.type \in {READ, WRITE, RPC, SUBSCRIBE, UNSUBSCRIBE}
  <2> DEFINE status == IF Supported(m) THEN SUCCESS ELSE UNSUPPORTED
             payload == ResponsePayload(m)
             reply == Reply(m, status, payload)
             value == [form |-> "notify", source |-> m.destination,
                       payload |-> Payloads[m.destination]]
             r == EncodeResponse(m, m.type + 1, status, payload)
             n == EncodeNotify(m.destination, Payloads[m.destination])
             both == m.type = SUBSCRIBE /\ Supported(m)
             p == PacketWith(channel, r)
             q == PacketWith(channel, n)
  <2>1. m \in Directed
    BY <1>4 DEF Message, Notification
  <2>2. responses = <<r>> \o (IF both THEN <<n>> ELSE <<>>)
    BY <1>4 DEF Responses
  <2>3. owed = <<reply>> \o (IF both THEN <<value>> ELSE <<>>)
    BY <1>4, <2>1, RequestIsOwed
  <2>4. /\ payload \in Seq(Byte) /\ Len(payload) + 5 <= MaxPayload
        /\ Supported(m) \/ payload = <<>>
    <3>1. CASE m.type = READ /\ Supported(m)
      <4>1. m.destination \in DOMAIN Payloads
        BY <3>1 DEF Supported, READ, WRITE, RPC, SUBSCRIBE, UNSUBSCRIBE
      <4>2. payload = Payloads[m.destination]
        BY <3>1 DEF ResponsePayload
      <4> QED BY <3>1, <4>1, <4>2, ResponderAssumption
    <3>2. CASE ~(m.type = READ /\ Supported(m))
      <4>1. payload = <<>>
        BY <3>2 DEF ResponsePayload
      <4> QED BY <1>2, <4>1 DEF MaxPayload
    <3> QED BY <3>1, <3>2
  <2>5. status \in StatusCodes /\ (Supported(m) <=> status = SUCCESS)
    BY DEF StatusCodes, SUCCESS, UNSUPPORTED
  <2>6. m.type + 1 \in ResponseTypes
    BY <1>4, TypeCodes
  <2> HIDE DEF status, payload
  <2>7. /\ r \in Seq(Byte) /\ Len(r) <= Len(payload) + 6
        /\ status = SUCCESS => Len(r) = Len(payload) + 5
        /\ DecodeMessage(r) = Decoded(reply)
    BY <2>1, <2>4, <2>5, <2>6, ResponseRoundTrip DEF Reply
  <2> HIDE DEF r, reply
  <2>8. Len(r) <= MaxPayload
    <3>1. CASE status = SUCCESS
      BY <2>4, <2>7, <3>1
    <3>2. CASE status # SUCCESS
      <4>1. payload = <<>>
        BY <2>4, <2>5, <3>2
      <4>2. Len(payload) = 0
        BY <4>1
      <4> QED BY <2>7, <4>2 DEF MaxPayload
    <3> QED BY <3>1, <3>2
  <2>9. p \in Seq(Byte) /\ Hear(p) = On(channel, reply)
    BY <2>7, <2>8, PacketIsHeard DEF On
  <2>10. CASE ~both
    <3>1. responses = <<r>> /\ owed = <<reply>>
      <4> HIDE DEF both, responses, owed
      <4>1. <<r>> \o <<>> = <<r>> /\ <<reply>> \o <<>> = <<reply>>
        OBVIOUS
      <4> QED BY <2>2, <2>3, <2>10, <4>1, Zenon
    <3>2. packets = <<p>>
      <4> HIDE DEF p, responses, packets
      <4>1. packets = [i \in 1..1 |-> PacketWith(channel, <<r>>[i])]
        BY <1>1, <3>1
      <4>2. packets = <<PacketWith(channel, r)>>
        BY <4>1
      <4> QED BY <4>2 DEF p
    <3>3. [i \in 1..Len(owed) |-> On(channel, owed[i])] = <<On(channel, reply)>>
      <4> HIDE DEF owed
      <4> QED BY <3>1
    <3> HIDE DEF p, packets
    <3>4. packets \in Seq(Seq(Byte))
      BY <2>9, <3>2
    <3>5. Gathered(HearIt, packets) = <<On(channel, reply)>>
      BY <2>9, <3>2, HeardFew
    <3> QED BY <3>3, <3>4, <3>5 DEF AnsweredAsOwed, packets
  <2>11. CASE both
    <3>1. responses = <<r, n>> /\ owed = <<reply, value>>
      <4>1. <<r>> \o <<n>> = <<r, n>> /\ <<reply>> \o <<value>> = <<reply, value>>
        BY Pair, Zenon
      <4> QED BY <2>2, <2>3, <2>11, <4>1, Zenon
    <3>2. /\ m.destination \in Address /\ m.destination \in DOMAIN Payloads
          /\ Payloads[m.destination] \in Seq(Byte)
          /\ Len(Payloads[m.destination]) + 5 <= MaxPayload
      <4>1. m.destination \in DOMAIN Payloads
        BY <2>11 DEF Supported, READ, WRITE, RPC, SUBSCRIBE, UNSUBSCRIBE
      <4> QED BY <2>1, <4>1, ResponderAssumption DEF Directed
    <3>3. /\ n \in Seq(Byte) /\ Len(n) = Len(Payloads[m.destination]) + 2
          /\ DecodeMessage(n) = Decoded(value)
      BY <3>2, NotifyRoundTrip
    <3> HIDE DEF n, value
    <3>4. Len(n) <= MaxPayload
      BY <3>2, <3>3 DEF MaxPayload
    <3>5. q \in Seq(Byte) /\ Hear(q) = On(channel, value)
      BY <3>3, <3>4, PacketIsHeard DEF On
    <3>6. packets = <<p, q>>
      <4> HIDE DEF p, q, responses, packets
      <4>1. packets = [i \in 1..2 |-> PacketWith(channel, <<r, n>>[i])]
        BY <1>1, <3>1
      <4>2. packets = <<PacketWith(channel, r), PacketWith(channel, n)>>
        BY <4>1
      <4> QED BY <4>2 DEF p, q
    <3>7. [i \in 1..Len(owed) |-> On(channel, owed[i])] = <<On(channel, reply), On(channel, value)>>
      <4> HIDE DEF owed
      <4> QED BY <3>1
    <3> HIDE DEF p, q, packets
    <3>8. packets \in Seq(Seq(Byte))
      BY <2>9, <3>5, <3>6
    <3>9. Gathered(HearIt, packets) = <<On(channel, reply), On(channel, value)>>
      BY <2>9, <3>5, <3>6, HeardFew
    <3> QED BY <3>7, <3>8, <3>9 DEF AnsweredAsOwed, packets
  <2> QED BY <2>10, <2>11
<1> QED BY <1>3, <1>4

(***************************************************************************)
(* What a notification gives to the session and, in its answers, to the    *)
(* bike.                                                                   *)
(***************************************************************************)
\* The answers to a frame, and the command in it.
AnswerIt == [frame \in Frame |-> AnswersTo(frame)]
ReadIt == [frame \in Frame |-> CommandIn(frame)]

\* What decode_command may return.
Readable == {DecodeCommand(p).value : p \in Seq(Byte)}

\* Every frame is answered by packets, and has commands.
LEMMA FrameYields ==
  Yields(AnswerIt, Frame, Seq(Byte)) /\ Yields(ReadIt, Frame, Readable)
<1>1. ASSUME NEW frame \in Frame PROVE AnswersTo(frame) \in Seq(Seq(Byte))
  <2>1. frame.channel \in Channel /\ frame.payload \in Seq(Byte)
    BY DEF Frame
  <2>2. CASE frame.channel = COMMAND \/ ~DecodeMessage(frame.payload).ok
    BY <2>2 DEF AnswersTo
  <2>3. CASE ~(frame.channel = COMMAND \/ ~DecodeMessage(frame.payload).ok)
    <3> DEFINE m == DecodeMessage(frame.payload).value
    <3>1. m \in Message
      BY <2>1, <2>3, DecodeMessageType
    <3>2. AnswersTo(frame) = StartupResponsePackets(frame.channel, m)
      BY <2>3 DEF AnswersTo
    <3> HIDE DEF m
    <3>3. AnsweredAsOwed(frame.channel, m)
      <4>1. frame.channel \in Channel \ {COMMAND}
        BY <2>1, <2>3
      <4> QED BY <3>1, <4>1, AnswersAreOwed
    <3> QED BY <3>2, <3>3 DEF AnsweredAsOwed
  <2> QED BY <2>2, <2>3
<1>2. ASSUME NEW frame \in Frame PROVE CommandIn(frame) \in Seq(Readable)
  <2>1. frame.payload \in Seq(Byte)
    BY DEF Frame
  <2>2. DecodeCommand(frame.payload).value \in Readable
    BY <2>1 DEF Readable
  <2>3. <<DecodeCommand(frame.payload).value>> \in Seq(Readable)
    BY <2>2
  <2>4. <<>> \in Seq(Readable)
    OBVIOUS
  <2> QED BY <2>3, <2>4, Zenon DEF CommandIn
<1>3. AnswerIt \in [Frame -> Seq(Seq(Byte))]
  BY <1>1, Zenon DEF AnswerIt
<1>4. ReadIt \in [Frame -> Seq(Readable)]
  BY <1>2, Zenon DEF ReadIt
<1> QED BY <1>3, <1>4 DEF Yields

\* The answers and commands of several frames are gathered from them.
LEMMA AllGathered ==
  ASSUME NEW frames \in Seq(Frame)
  PROVE  /\ AnswersToAll(frames) = Gathered(AnswerIt, frames)
         /\ CommandsIn(frames) = Gathered(ReadIt, frames)
<1>1. \A i \in 1..Len(frames) : frames[i] \in Frame
  OBVIOUS
<1>2. \A i \in 1..Len(frames) :
        AnswerIt[frames[i]] = AnswersTo(frames[i]) /\ ReadIt[frames[i]] = CommandIn(frames[i])
  BY <1>1, Zenon DEF AnswerIt, ReadIt
<1>3. [i \in 1..Len(frames) |-> AnswerIt[frames[i]]] = [i \in 1..Len(frames) |-> AnswersTo(frames[i])]
  BY <1>2, Zenon
<1>4. [i \in 1..Len(frames) |-> ReadIt[frames[i]]] = [i \in 1..Len(frames) |-> CommandIn(frames[i])]
  BY <1>2, Zenon
<1> QED BY <1>3, <1>4, Zenon DEF AnswersToAll, CommandsIn, Gathered

\* Those of one frame and of two.
LEMMA AnswersOfFew ==
  ASSUME NEW x \in Frame, NEW y \in Frame
  PROVE  /\ AnswersTo(x) \in Seq(Seq(Byte))
         /\ AnswersToAll(<<x>>) = AnswersTo(x)
         /\ AnswersToAll(<<x, y>>) = AnswersTo(x) \o AnswersTo(y)
         /\ CommandsIn(<<x>>) = CommandIn(x)
         /\ CommandsIn(<<x, y>>) = CommandIn(x) \o CommandIn(y)
<1> DEFINE s == <<x>>
           st == <<x, y>>
<1>1. s \in Seq(Frame) /\ st \in Seq(Frame)
  OBVIOUS
<1>2. Yields(AnswerIt, Frame, Seq(Byte)) /\ Yields(ReadIt, Frame, Readable)
  BY FrameYields
<1>3. /\ AnswerIt[x] = AnswersTo(x) /\ AnswerIt[y] = AnswersTo(y)
      /\ ReadIt[x] = CommandIn(x) /\ ReadIt[y] = CommandIn(y)
  BY DEF AnswerIt, ReadIt
<1>4. Gathered(AnswerIt, s) = AnswerIt[x] /\ Gathered(ReadIt, s) = ReadIt[x]
  BY <1>2, GatheredFew
<1>5. AnswerIt[x] \in Seq(Seq(Byte))
  BY <1>2 DEF Yields
<1>6. /\ Gathered(AnswerIt, st) = AnswerIt[x] \o AnswerIt[y]
      /\ Gathered(ReadIt, st) = ReadIt[x] \o ReadIt[y]
  <2>1. GatheredFromTwo(AnswerIt, x, y) /\ GatheredFromTwo(ReadIt, x, y)
    BY <1>2, GatheredPair
  <2> QED BY <2>1 DEF GatheredFromTwo
<1> HIDE DEF s, st
<1>7. /\ AnswersToAll(s) = Gathered(AnswerIt, s) /\ AnswersToAll(st) = Gathered(AnswerIt, st)
      /\ CommandsIn(s) = Gathered(ReadIt, s) /\ CommandsIn(st) = Gathered(ReadIt, st)
  BY <1>1, AllGathered
<1>8. /\ AnswersToAll(st) = AnswersTo(x) \o AnswersTo(y)
      /\ CommandsIn(st) = CommandIn(x) \o CommandIn(y)
  BY <1>3, <1>6, <1>7, Zenon
<1> QED BY <1>3, <1>4, <1>5, <1>7, <1>8, Zenon DEF s, st

\* What the bike will hear of a notification, and the commands read in it.
HeardIn == [data \in Seq(Byte) |-> IF SplitFrames(data).ok
                                   THEN Gathered(HearIt, AnswersToAll(SplitFrames(data).value))
                                   ELSE <<>>]
ReadIn == [data \in Seq(Byte) |-> IF SplitFrames(data).ok THEN CommandsIn(SplitFrames(data).value)
                                  ELSE <<>>]

\* Every notification is split into frames, if it is split.
LEMMA SplitType ==
  ASSUME NEW data \in Seq(Byte), SplitFrames(data).ok
  PROVE  SplitFrames(data).value \in Seq(Frame)
<1>1. PICK f : Splits(f, data)
  BY FramesAreSplit
<1>2. 1 \in 1..(Len(data) + 1)
  OBVIOUS
<1>3. SplitFrames(data) \in Split
  BY <1>1, <1>2 DEF Splits
<1>4. SplitFrames(data) # Malformed
  BY DEF Malformed
<1> QED BY <1>3, <1>4 DEF Split

\* Notifications give such sequences.
LEMMA NotificationYields ==
  Yields(HeardIn, Seq(Byte), Heard) /\ Yields(ReadIn, Seq(Byte), Readable)
<1>1. ASSUME NEW data \in Seq(Byte), SplitFrames(data).ok
      PROVE  /\ Gathered(HearIt, AnswersToAll(SplitFrames(data).value)) \in Seq(Heard)
             /\ CommandsIn(SplitFrames(data).value) \in Seq(Readable)
  <2> DEFINE frames == SplitFrames(data).value
             packets == AnswersToAll(frames)
  <2>1. frames \in Seq(Frame)
    BY <1>1, SplitType
  <2> HIDE DEF frames
  <2>2. packets = Gathered(AnswerIt, frames) /\ CommandsIn(frames) = Gathered(ReadIt, frames)
    BY <2>1, AllGathered
  <2>3. packets \in Seq(Seq(Byte))
    BY <2>1, <2>2, FrameYields, GatheredParts
  <2>4. CommandsIn(frames) \in Seq(Readable)
    BY <2>1, <2>2, FrameYields, GatheredParts
  <2> HIDE DEF packets
  <2>5. Gathered(HearIt, packets) \in Seq(Heard)
    BY <2>3, HearYields, GatheredParts
  <2> QED BY <2>4, <2>5 DEF packets, frames
<1>2. <<>> \in Seq(Heard) /\ <<>> \in Seq(Readable)
  OBVIOUS
<1>3. HeardIn \in [Seq(Byte) -> Seq(Heard)]
  BY <1>1, <1>2, Zenon DEF HeardIn
<1>4. ReadIn \in [Seq(Byte) -> Seq(Readable)]
  BY <1>1, <1>2, Zenon DEF ReadIn
<1> QED BY <1>3, <1>4 DEF Yields

(***************************************************************************)
(* What the bike sends.                                                    *)
(***************************************************************************)
\* The frame that carries an item.
PayloadOf(item) ==
  CASE item.kind = "command" -> EncodeCommand(item.command)
    [] item.kind = "message" -> EncodeMessage(item.message)
    [] item.kind = "garbage" -> item.payload
ChannelOf(item) == IF item.kind = "command" THEN COMMAND ELSE item.channel
FrameOf(item) == [end |-> TRUE, channel |-> ChannelOf(item), payload |-> PayloadOf(item)]

\* The item survives its way: its frame is written whole, the answers to the frame are
\* what the item is owed, and the command in the frame is the command sent.
Survives(item) ==
  /\ FrameOf(item) \in Frame /\ Encodable(FrameOf(item))
  /\ EncodeItem(item) = EncodeFrame(FrameOf(item))
  /\ Gathered(HearIt, AnswersTo(FrameOf(item))) = OwedTo(item)
  /\ CommandIn(FrameOf(item)) = CommandsOf(item)

\* A command takes at most six bytes.
LEMMA CommandLength ==
  ASSUME NEW c \in Command
  PROVE  Len(EncodeCommand(c)) <= 6
<1>1. c.type \in {VERSION, ADVANCED_TRANSMIT_WINDOW, DISABLE_FLOW_CONTROL, MAX_SEGMENTATION_PACKET}
  BY DEF Command
<1> QED
  BY <1>1 DEF EncodeCommand, VERSION, ADVANCED_TRANSMIT_WINDOW, DISABLE_FLOW_CONTROL,
              MAX_SEGMENTATION_PACKET

\* Nothing is heard when nothing is answered.
LEMMA NothingHeard ==
  Gathered(HearIt, <<>>) = <<>>
<1>1. <<>> \in Seq(Byte)
  OBVIOUS
<1> QED BY <1>1, HeardFew

\* A command.
LEMMA CommandSurvives ==
  ASSUME NEW item \in Items, item.kind = "command"
  PROVE  Survives(item)
<1> DEFINE c == item.command
           p == EncodeCommand(c)
           frame == [end |-> TRUE, channel |-> COMMAND, payload |-> p]
<1>1. item \in Item /\ Sendable(item)
  BY ItemsAssumption
<1>2. c \in Command
  BY <1>1 DEF Item
<1>3. c.type = ADVANCED_TRANSMIT_WINDOW => c.advance \in FourByteNumber
  <2> SUFFICES ASSUME c.type = ADVANCED_TRANSMIT_WINDOW PROVE c.advance \in FourByteNumber
    OBVIOUS
  <2>1. c.advance \div 65536 \in TwoByteNumber
    BY <1>1 DEF Sendable
  <2>2. c.advance \in Nat
    BY <1>2 DEF Command, VERSION, ADVANCED_TRANSMIT_WINDOW, DISABLE_FLOW_CONTROL,
                MAX_SEGMENTATION_PACKET
  <2> HIDE DEF c
  <2> QED BY <2>1, <2>2 DEF FourByteNumber
<1>4. p \in Seq(Byte) /\ DecodeCommand(p) = Decoded(c) /\ Len(p) <= 6
  BY <1>2, <1>3, CommandRoundTrip, CommandLength
<1>5. PayloadOf(item) = p /\ FrameOf(item) = frame /\ EncodeItem(item) = EncodeFrame(frame)
  <2>1. PayloadOf(item) = p
    BY DEF PayloadOf
  <2>2. ChannelOf(item) = COMMAND
    BY DEF ChannelOf
  <2>3. EncodeItem(item) = EncodeCommandFrame(c)
    BY DEF EncodeItem
  <2> QED BY <2>1, <2>2, <2>3, Zenon DEF FrameOf, EncodeCommandFrame
<1> HIDE DEF p, c
<1>6. frame \in Frame /\ Encodable(frame) /\ frame.channel = COMMAND /\ frame.payload = p
  <2>1. Len(p) \in Nat
    BY <1>4
  <2> QED BY <1>4, <2>1 DEF Frame, Encodable, Channel, COMMAND, MaxPayload
<1> HIDE DEF frame
<1>7. AnswersTo(frame) = <<>> /\ OwedTo(item) = <<>>
  BY <1>6 DEF AnswersTo, OwedTo
<1>8. CommandIn(frame) = <<c>> /\ CommandsOf(item) = <<c>>
  BY <1>4, <1>6 DEF CommandIn, CommandsOf, Decoded, c
<1>9. Gathered(HearIt, AnswersTo(frame)) = OwedTo(item)
  BY <1>7, NothingHeard, Zenon
<1> QED BY <1>5, <1>6, <1>8, <1>9, Zenon DEF Survives

\* A message.
LEMMA MessageSurvives ==
  ASSUME NEW item \in Items, item.kind = "message"
  PROVE  Survives(item)
<1> DEFINE m == item.message
           p == EncodeMessage(m)
           frame == [end |-> TRUE, channel |-> item.channel, payload |-> p]
<1>1. item \in Item /\ Sendable(item)
  BY ItemsAssumption
<1>2. m \in Message /\ item.channel \in Channel \ {COMMAND}
  BY <1>1 DEF Item, Message
<1>3. /\ Len(p) <= MaxPayload
      /\ m.form = "directed" => m.type \in ResponseTypes \/ m.status = SUCCESS
  BY <1>1 DEF Sendable
<1>4. p \in Seq(Byte) /\ DecodeMessage(p) = Decoded(m)
  BY <1>2, <1>3, MessageRoundTrip DEF Message
<1>5. PayloadOf(item) = p /\ FrameOf(item) = frame /\ EncodeItem(item) = EncodeFrame(frame)
  <2>1. PayloadOf(item) = p
    BY DEF PayloadOf
  <2>2. ChannelOf(item) = item.channel
    BY DEF ChannelOf
  <2>3. EncodeItem(item) = EncodeFrame(frame)
    BY DEF EncodeItem
  <2> QED BY <2>1, <2>2, <2>3, Zenon DEF FrameOf
<1> HIDE DEF p, m
<1>6. frame \in Frame /\ Encodable(frame) /\ frame.channel = item.channel /\ frame.payload = p
  BY <1>2, <1>3, <1>4 DEF Frame, Encodable
<1> HIDE DEF frame
<1>7. AnswersTo(frame) = StartupResponsePackets(item.channel, m)
  BY <1>2, <1>4, <1>6 DEF AnswersTo, Decoded
<1>8. AnsweredAsOwed(item.channel, m)
  BY <1>2, AnswersAreOwed
<1>9. Gathered(HearIt, AnswersTo(frame)) = [i \in 1..Len(Owed(m)) |-> On(item.channel, Owed(m)[i])]
  BY <1>7, <1>8, Zenon DEF AnsweredAsOwed
<1>10. OwedTo(item) = [i \in 1..Len(Owed(m)) |-> On(item.channel, Owed(m)[i])]
  BY Zenon DEF OwedTo, On, m
<1>11. CommandIn(frame) = <<>> /\ CommandsOf(item) = <<>>
  BY <1>2, <1>6 DEF CommandIn, CommandsOf
<1>12. Gathered(HearIt, AnswersTo(frame)) = OwedTo(item)
  BY <1>9, <1>10, Zenon
<1>13. CommandIn(frame) = CommandsOf(item)
  BY <1>11
<1> QED BY <1>5, <1>6, <1>12, <1>13, Zenon DEF Survives

\* What is no message.
LEMMA GarbageSurvives ==
  ASSUME NEW item \in Items, item.kind = "garbage"
  PROVE  Survives(item)
<1> DEFINE p == item.payload
           frame == [end |-> TRUE, channel |-> item.channel, payload |-> p]
<1>1. item \in Item /\ Sendable(item)
  BY ItemsAssumption
<1>2. p \in Seq(Byte) /\ item.channel \in Channel
  BY <1>1 DEF Item
<1>3. /\ Len(p) <= MaxPayload
      /\ item.channel = COMMAND => ~DecodeCommand(p).ok
      /\ item.channel # COMMAND => ~DecodeMessage(p).ok
  BY <1>1 DEF Sendable
<1>5. PayloadOf(item) = p /\ FrameOf(item) = frame /\ EncodeItem(item) = EncodeFrame(frame)
  <2>1. PayloadOf(item) = p
    BY DEF PayloadOf
  <2>2. ChannelOf(item) = item.channel
    BY DEF ChannelOf
  <2>3. EncodeItem(item) = EncodeFrame(frame)
    BY DEF EncodeItem
  <2> QED BY <2>1, <2>2, <2>3, Zenon DEF FrameOf
<1> HIDE DEF p
<1>6. frame \in Frame /\ Encodable(frame) /\ frame.channel = item.channel /\ frame.payload = p
  BY <1>2, <1>3 DEF Frame, Encodable
<1> HIDE DEF frame
<1>7. AnswersTo(frame) = <<>> /\ OwedTo(item) = <<>>
  BY <1>3, <1>6 DEF AnswersTo, OwedTo
<1>8. CommandIn(frame) = <<>> /\ CommandsOf(item) = <<>>
  BY <1>3, <1>6 DEF CommandIn, CommandsOf
<1>9. Gathered(HearIt, AnswersTo(frame)) = OwedTo(item)
  BY <1>7, NothingHeard, Zenon
<1>10. CommandIn(frame) = CommandsOf(item)
  BY <1>8
<1> QED BY <1>5, <1>6, <1>9, <1>10, Zenon DEF Survives

\* Whatever the bike sends.
LEMMA ItemSurvives ==
  ASSUME NEW item \in Items
  PROVE  Survives(item)
<1>1. item.kind \in {"command", "message", "garbage"}
  <2>1. item \in Item
    BY ItemsAssumption
  <2> QED BY <2>1 DEF Item
<1> QED BY <1>1, CommandSurvives, MessageSurvives, GarbageSurvives

\* What notifications of one item, and of two, give.
LEMMA NotificationOfItems ==
  ASSUME NEW item \in Items, NEW another \in Items
  PROVE  /\ EncodeItem(item) \in Seq(Byte)
         /\ EncodeItem(item) \o EncodeItem(another) \in Seq(Byte)
         /\ HeardIn[EncodeItem(item)] = OwedTo(item)
         /\ ReadIn[EncodeItem(item)] = CommandsOf(item)
         /\ HeardIn[EncodeItem(item) \o EncodeItem(another)] = OwedTo(item) \o OwedTo(another)
         /\ ReadIn[EncodeItem(item) \o EncodeItem(another)] = CommandsOf(item) \o CommandsOf(another)
<1> DEFINE x == FrameOf(item)
           y == FrameOf(another)
           a == EncodeItem(item)
           b == EncodeItem(another)
           ab == a \o b
<1>1. /\ x \in Frame /\ Encodable(x) /\ a = EncodeFrame(x)
      /\ Gathered(HearIt, AnswersTo(x)) = OwedTo(item) /\ CommandIn(x) = CommandsOf(item)
  BY ItemSurvives DEF Survives
<1>2. /\ y \in Frame /\ Encodable(y) /\ b = EncodeFrame(y)
      /\ Gathered(HearIt, AnswersTo(y)) = OwedTo(another) /\ CommandIn(y) = CommandsOf(another)
  BY ItemSurvives DEF Survives
<1> HIDE DEF x, y, a, b
<1>3. a \in Seq(Byte) /\ b \in Seq(Byte)
  BY <1>1, <1>2, FrameBytes
<1>4. ab \in Seq(Byte)
  BY <1>3
<1>5. SplitFrames(a) = Decoded(<<x>>) /\ SplitFrames(ab) = Decoded(<<x, y>>)
  BY <1>1, <1>2, OneFrame, TwoFrames
<1> HIDE DEF ab
<1>6. /\ SplitFrames(a).ok = TRUE /\ SplitFrames(a).value = <<x>>
      /\ SplitFrames(ab).ok = TRUE /\ SplitFrames(ab).value = <<x, y>>
  BY <1>5 DEF Decoded
<1>7. /\ AnswersTo(x) \in Seq(Seq(Byte)) /\ AnswersTo(y) \in Seq(Seq(Byte))
      /\ AnswersToAll(<<x>>) = AnswersTo(x)
      /\ AnswersToAll(<<x, y>>) = AnswersTo(x) \o AnswersTo(y)
      /\ CommandsIn(<<x>>) = CommandIn(x)
      /\ CommandsIn(<<x, y>>) = CommandIn(x) \o CommandIn(y)
  BY <1>1, <1>2, AnswersOfFew
<1>8. Gathered(HearIt, AnswersTo(x) \o AnswersTo(y))
        = Gathered(HearIt, AnswersTo(x)) \o Gathered(HearIt, AnswersTo(y))
  <2> DEFINE s == AnswersTo(x)
             t == AnswersTo(y)
             B == Seq(Byte)
  <2>1. s \in Seq(B) /\ t \in Seq(B) /\ Yields(HearIt, B, Heard)
    BY <1>7, HearYields
  <2> HIDE DEF s, t, B
  <2>2. Gathered(HearIt, s \o t) = Gathered(HearIt, s) \o Gathered(HearIt, t)
    BY <2>1, GatheredParts DEF GatheredFromParts
  <2> QED BY <2>2 DEF s, t
<1>9. HeardIn[a] = OwedTo(item) /\ ReadIn[a] = CommandsOf(item)
  BY <1>1, <1>3, <1>6, <1>7, Zenon DEF HeardIn, ReadIn
<1>10. /\ HeardIn[ab] = OwedTo(item) \o OwedTo(another)
       /\ ReadIn[ab] = CommandsOf(item) \o CommandsOf(another)
  BY <1>1, <1>2, <1>4, <1>6, <1>7, <1>8, Zenon DEF HeardIn, ReadIn
<1> QED BY <1>3, <1>4, <1>9, <1>10, Zenon DEF a, b, ab

(***************************************************************************)
(* What is got of what is owed.                                            *)
(***************************************************************************)
\* A sequence is some of itself.
LEMMA SubsequenceOfSelf ==
  ASSUME NEW S, NEW s \in Seq(S)
  PROVE  Subsequence(s, s)
<1> DEFINE at == [i \in 1..Len(s) |-> i]
<1>1. at \in [1..Len(s) -> 1..Len(s)] /\ \A i \in 1..Len(s) : at[i] = i
  OBVIOUS
<1> HIDE DEF at
<1>2. \A i, j \in 1..Len(s) : i < j => at[i] < at[j]
  BY <1>1
<1>3. \A i \in 1..Len(s) : s[i] = s[at[i]]
  BY <1>1
<1> QED BY <1>1, <1>2, <1>3, Zenon DEF Subsequence

\* What comes after does not matter.
LEMMA SubsequenceOfLonger ==
  ASSUME NEW S, NEW s \in Seq(S), NEW t \in Seq(S), NEW u \in Seq(S), Subsequence(s, t)
  PROVE  Subsequence(s, t \o u)
<1>1. PICK at \in [1..Len(s) -> 1..Len(t)] :
        /\ \A i, j \in 1..Len(s) : i < j => at[i] < at[j]
        /\ \A i \in 1..Len(s) : s[i] = t[at[i]]
  BY Zenon DEF Subsequence
<1> DEFINE v == t \o u
<1>2. Len(v) = Len(t) + Len(u) /\ \A i \in 1..Len(t) : v[i] = t[i]
  OBVIOUS
<1> HIDE DEF v
<1>3. at \in [1..Len(s) -> 1..Len(v)]
  BY <1>2
<1>4. \A i \in 1..Len(s) : s[i] = v[at[i]]
  BY <1>1, <1>2
<1>5. Subsequence(s, v)
  BY <1>1, <1>3, <1>4, Zenon DEF Subsequence
<1> QED BY <1>5 DEF v

\* The same may come after both.
LEMMA SubsequenceOfBoth ==
  ASSUME NEW S, NEW s \in Seq(S), NEW t \in Seq(S), NEW u \in Seq(S), Subsequence(s, t)
  PROVE  Subsequence(s \o u, t \o u)
<1>1. PICK at \in [1..Len(s) -> 1..Len(t)] :
        /\ \A i, j \in 1..Len(s) : i < j => at[i] < at[j]
        /\ \A i \in 1..Len(s) : s[i] = t[at[i]]
  BY Zenon DEF Subsequence
<1> DEFINE v == t \o u
           w == s \o u
           m == Len(s)
           n == Len(t)
           l == Len(u)
           to == [i \in 1..(m + l) |-> IF i <= m THEN at[i] ELSE n + (i - m)]
<1>2. /\ m \in Nat /\ n \in Nat /\ l \in Nat /\ Len(v) = n + l /\ Len(w) = m + l
      /\ \A i \in 1..(n + l) : v[i] = IF i <= n THEN t[i] ELSE u[i - n]
      /\ \A i \in 1..(m + l) : w[i] = IF i <= m THEN s[i] ELSE u[i - m]
  BY ConcatProperties
<1> HIDE DEF v, w
<1>3. \A i \in 1..m : at[i] \in 1..n
  OBVIOUS
<1> HIDE DEF m, n, l
<1>4. \A i \in 1..(m + l) : to[i] = (IF i <= m THEN at[i] ELSE n + (i - m)) /\ to[i] \in 1..(n + l)
  <2> SUFFICES ASSUME NEW i \in 1..(m + l)
               PROVE  to[i] = (IF i <= m THEN at[i] ELSE n + (i - m)) /\ to[i] \in 1..(n + l)
    OBVIOUS
  <2>1. to[i] = IF i <= m THEN at[i] ELSE n + (i - m)
    OBVIOUS
  <2>2. CASE i <= m
    <3>1. at[i] \in 1..n
      BY <1>2, <1>3, <2>2
    <3>2. at[i] \in 1..(n + l)
      BY <1>2, <3>1
    <3> QED BY <2>1, <2>2, <3>2
  <2>3. CASE ~(i <= m)
    BY <1>2, <2>1, <2>3
  <2> QED BY <2>2, <2>3
<1>5. to \in [1..(m + l) -> 1..(n + l)]
  <2>1. to = [i \in 1..(m + l) |-> to[i]]
    OBVIOUS
  <2> HIDE DEF to
  <2> QED BY <1>4, <2>1
<1> HIDE DEF to
<1>6. ASSUME NEW i \in 1..(m + l), NEW j \in 1..(m + l), i < j
      PROVE  to[i] < to[j]
  <2>1. CASE j <= m
    <3>1. i \in 1..m /\ j \in 1..m
      BY <1>2, <1>6, <2>1
    <3>2. at[i] < at[j]
      BY <1>1, <1>6, <3>1 DEF m
    <3> QED BY <1>4, <3>1, <3>2
  <2>2. CASE i <= m /\ ~(j <= m)
    <3>1. i \in 1..m
      BY <1>2, <2>2
    <3>2. at[i] \in 1..n /\ to[i] = at[i] /\ to[j] = n + (j - m)
      BY <1>3, <1>4, <2>2, <3>1
    <3> QED BY <1>2, <2>2, <3>2
  <2>3. CASE ~(i <= m)
    <3>1. to[i] = n + (i - m) /\ to[j] = n + (j - m)
      BY <1>2, <1>4, <1>6, <2>3
    <3> QED BY <1>2, <1>6, <3>1
  <2> QED BY <1>2, <1>6, <2>1, <2>2, <2>3
<1>7. ASSUME NEW i \in 1..(m + l)
      PROVE  w[i] = v[to[i]]
  <2>1. CASE i <= m
    <3>1. i \in 1..m
      BY <1>2, <2>1
    <3>2. at[i] \in 1..n /\ to[i] = at[i]
      BY <1>3, <1>4, <2>1, <3>1
    <3>3. s[i] = t[at[i]]
      BY <1>1, <3>1 DEF m
    <3>4. at[i] \in 1..(n + l) /\ at[i] <= n
      BY <1>2, <3>2
    <3>5. v[at[i]] = t[at[i]] /\ w[i] = s[i]
      BY <1>2, <2>1, <3>4
    <3> QED BY <3>2, <3>3, <3>5
  <2>2. CASE ~(i <= m)
    <3>1. to[i] = n + (i - m) /\ to[i] \in 1..(n + l)
      BY <1>4, <2>2
    <3>2. ~(to[i] <= n) /\ to[i] - n = i - m
      BY <1>2, <2>2, <3>1
    <3>3. v[to[i]] = u[to[i] - n] /\ w[i] = u[i - m]
      BY <1>2, <2>2, <3>1, <3>2
    <3> QED BY <3>2, <3>3
  <2> QED BY <2>1, <2>2
<1>8. Subsequence(w, v)
  <2>1. to \in [1..Len(w) -> 1..Len(v)]
    BY <1>2, <1>5
  <2>2. /\ \A i, j \in 1..Len(w) : i < j => to[i] < to[j]
        /\ \A i \in 1..Len(w) : w[i] = v[to[i]]
    BY <1>2, <1>6, <1>7
  <2> QED BY <2>1, <2>2, Zenon DEF Subsequence
<1> QED BY <1>8 DEF v, w

\* Got, with torn for the existence of a cut frame.
GotOf(got, owed, torn) == got = owed \/ (torn /\ Subsequence(owed, got))

\* More is owed, and got.
LEMMA GotMore ==
  ASSUME NEW S, NEW got \in Seq(S), NEW owed \in Seq(S), NEW more \in Seq(S), NEW torn,
         GotOf(got, owed, torn)
  PROVE  GotOf(got \o more, owed \o more, torn)
<1>1. CASE got = owed
  BY <1>1 DEF GotOf
<1>2. CASE torn /\ Subsequence(owed, got)
  <2>1. Subsequence(owed \o more, got \o more)
    BY <1>2, SubsequenceOfBoth
  <2> QED BY <1>2, <2>1 DEF GotOf
<1> QED BY <1>1, <1>2 DEF GotOf

\* A torn frame may give anything.
LEMMA GotTorn ==
  ASSUME NEW S, NEW got \in Seq(S), NEW owed \in Seq(S), NEW more \in Seq(S), NEW torn,
         GotOf(got, owed, torn)
  PROVE  GotOf(got \o more, owed, TRUE)
<1>1. Subsequence(owed, got)
  <2>1. CASE got = owed
    BY <2>1, SubsequenceOfSelf
  <2> QED BY <2>1 DEF GotOf
<1>2. Subsequence(owed, got \o more)
  BY <1>1, SubsequenceOfLonger
<1> QED BY <1>2 DEF GotOf

(***************************************************************************)
(* What the bike will have heard, and the session read, when nothing is    *)
(* under way any more.                                                     *)
(***************************************************************************)
Total(have, packets, data) == have \o (Gathered(HearIt, packets) \o Gathered(HeardIn, data))
Orders(have, data) == have \o Gathered(ReadIn, data)

\* One element more, or the first of several.
GatheredFromNext(g, s, x) == Gathered(g, Append(s, x)) = Gathered(g, s) \o g[x]
GatheredFromFirst(g, s) == Gathered(g, s) = g[Head(s)] \o Gathered(g, Tail(s))

\* Both are gathered.
LEMMA GatheredNext ==
  ASSUME NEW S, NEW X, NEW g, Yields(g, X, S), NEW s \in Seq(X), NEW x \in X
  PROVE  GatheredFromNext(g, s, x)
<1> DEFINE t == <<x>>
<1>1. t \in Seq(X) /\ Append(s, x) = s \o t /\ Gathered(g, t) = g[x]
  <2>1. Append(s, x) = s \o t
    BY AppendIsConcat
  <2> QED BY <2>1, GatheredFew
<1> HIDE DEF t
<1>2. Gathered(g, s \o t) = Gathered(g, s) \o Gathered(g, t)
  <2>1. t \in Seq(X)
    BY <1>1
  <2>2. GatheredFromParts(g, s, t)
    BY <2>1, GatheredParts
  <2> QED BY <2>2 DEF GatheredFromParts
<1> QED BY <1>1, <1>2 DEF GatheredFromNext

\* The first element is gathered first.
LEMMA GatheredFirst ==
  ASSUME NEW S, NEW X, NEW g, Yields(g, X, S), NEW s \in Seq(X), s # <<>>
  PROVE  GatheredFromFirst(g, s)
<1> DEFINE t == <<Head(s)>>
           u == Tail(s)
<1>1. Head(s) \in X /\ t \in Seq(X) /\ u \in Seq(X) /\ s = t \o u
  OBVIOUS
<1>2. Gathered(g, t) = g[Head(s)]
  BY <1>1, GatheredFew
<1> HIDE DEF t, u
<1>3. Gathered(g, t \o u) = Gathered(g, t) \o Gathered(g, u)
  BY <1>1, GatheredParts DEF GatheredFromParts
<1> QED BY <1>1, <1>2, <1>3 DEF GatheredFromFirst, u

\* The sequences that the totals are made of.
LEMMA TotalType ==
  ASSUME NEW have \in Seq(Heard), NEW orders \in Seq(Readable),
         NEW packets \in Seq(Seq(Byte)), NEW data \in Seq(Seq(Byte))
  PROVE  /\ Gathered(HearIt, packets) \in Seq(Heard)
         /\ Gathered(HeardIn, data) \in Seq(Heard)
         /\ Gathered(ReadIn, data) \in Seq(Readable)
         /\ Total(have, packets, data) \in Seq(Heard)
         /\ Orders(orders, data) \in Seq(Readable)
<1> DEFINE h == Gathered(HearIt, packets)
           d == Gathered(HeardIn, data)
           r == Gathered(ReadIn, data)
<1>1. h \in Seq(Heard)
  BY HearYields, GatheredParts
<1>2. d \in Seq(Heard)
  BY NotificationYields, GatheredParts
<1>3. r \in Seq(Readable)
  BY NotificationYields, GatheredParts
<1> HIDE DEF h, d, r
<1>4. have \o (h \o d) \in Seq(Heard)
  BY <1>1, <1>2
<1>5. orders \o r \in Seq(Readable)
  BY <1>3
<1> QED BY <1>1, <1>2, <1>3, <1>4, <1>5 DEF Total, Orders, h, d, r

\* Notifications that are sent add what they give.
SentAdds(have, packets, orders, data, more) ==
  /\ Total(have, packets, data \o more) = Total(have, packets, data) \o Gathered(HeardIn, more)
  /\ Orders(orders, data \o more) = Orders(orders, data) \o Gathered(ReadIn, more)

\* So they do, to what is under way.
LEMMA TotalOfSent ==
  ASSUME NEW have \in Seq(Heard), NEW orders \in Seq(Readable),
         NEW packets \in Seq(Seq(Byte)), NEW data \in Seq(Seq(Byte)), NEW more \in Seq(Seq(Byte))
  PROVE  SentAdds(have, packets, orders, data, more)
<1> DEFINE h == Gathered(HearIt, packets)
           d == Gathered(HeardIn, data)
           e == Gathered(HeardIn, more)
           r == Gathered(ReadIn, data)
           q == Gathered(ReadIn, more)
           both == data \o more
<1>1. /\ h \in Seq(Heard) /\ d \in Seq(Heard) /\ r \in Seq(Readable)
      /\ e \in Seq(Heard) /\ q \in Seq(Readable)
  BY TotalType
<1>2. Gathered(HeardIn, both) = d \o e
  <2>1. GatheredFromParts(HeardIn, data, more)
    BY NotificationYields, GatheredParts
  <2> QED BY <2>1 DEF GatheredFromParts
<1>3. Gathered(ReadIn, both) = r \o q
  <2>1. GatheredFromParts(ReadIn, data, more)
    BY NotificationYields, GatheredParts
  <2> QED BY <2>1 DEF GatheredFromParts
<1> HIDE DEF h, d, e, r, q, both
<1>4. Associates(h, d, e) /\ Associates(have, h \o d, e) /\ h \o d \in Seq(Heard)
  BY <1>1, Regrouped
<1>5. Associates(orders, r, q)
  BY <1>1, Regrouped
<1>6. Total(have, packets, both) = Total(have, packets, data) \o e
  BY <1>2, <1>4, Zenon DEF Total, Associates, h, d
<1>7. Orders(orders, both) = Orders(orders, data) \o q
  BY <1>3, <1>5, Zenon DEF Orders, Associates, r
<1> QED BY <1>6, <1>7, Zenon DEF SentAdds, both, e, q

\* A notification that is handled is replaced by its answers and commands.
LEMMA TotalOfHandled ==
  ASSUME NEW have \in Seq(Heard), NEW orders \in Seq(Readable),
         NEW packets \in Seq(Seq(Byte)), NEW data \in Seq(Seq(Byte)), data # <<>>,
         NEW answers \in Seq(Seq(Byte)), Gathered(HearIt, answers) = HeardIn[Head(data)],
         NEW read, read = ReadIn[Head(data)]
  PROVE  /\ Total(have, packets \o answers, Tail(data)) = Total(have, packets, data)
         /\ Orders(orders \o read, Tail(data)) = Orders(orders, data)
<1> DEFINE h == Gathered(HearIt, packets)
           a == Gathered(HearIt, answers)
           rest == Tail(data)
           d == Gathered(HeardIn, rest)
           r == Gathered(ReadIn, rest)
           all == packets \o answers
<1>1. rest \in Seq(Seq(Byte)) /\ Head(data) \in Seq(Byte)
  OBVIOUS
<1>2. GatheredFromFirst(HeardIn, data) /\ GatheredFromFirst(ReadIn, data)
  BY NotificationYields, GatheredFirst
<1>3. Gathered(HeardIn, data) = a \o d /\ Gathered(ReadIn, data) = read \o r
  BY <1>2 DEF GatheredFromFirst
<1>4. read \in Seq(Readable)
  BY <1>1, NotificationYields DEF Yields
<1>5. Gathered(HearIt, all) = h \o a
  <2>1. GatheredFromParts(HearIt, packets, answers)
    BY HearYields, GatheredParts
  <2> QED BY <2>1 DEF GatheredFromParts
<1>6. h \in Seq(Heard) /\ a \in Seq(Heard) /\ d \in Seq(Heard) /\ r \in Seq(Readable)
  BY <1>1, TotalType
<1> HIDE DEF h, a, d, r, all
<1>7. Associates(h, a, d) /\ Associates(orders, read, r)
  BY <1>4, <1>6, Regrouped
<1>8. Total(have, all, rest) = Total(have, packets, data)
  BY <1>3, <1>5, <1>7, Zenon DEF Total, Associates, h, d
<1>9. Orders(orders \o read, rest) = Orders(orders, data)
  BY <1>3, <1>7, Zenon DEF Orders, Associates, r
<1> QED BY <1>8, <1>9, Zenon DEF all

\* A packet that is received is heard.
LEMMA TotalOfReceived ==
  ASSUME NEW have \in Seq(Heard), NEW packets \in Seq(Seq(Byte)), packets # <<>>,
         NEW data \in Seq(Seq(Byte))
  PROVE  /\ Append(have, Hear(Head(packets))) \in Seq(Heard)
         /\ Total(Append(have, Hear(Head(packets))), Tail(packets), data) = Total(have, packets, data)
<1> DEFINE rest == Tail(packets)
           x == Hear(Head(packets))
           one == <<x>>
           h == Gathered(HearIt, rest)
           d == Gathered(HeardIn, data)
<1>1. rest \in Seq(Seq(Byte)) /\ Head(packets) \in Seq(Byte)
  OBVIOUS
<1>2. x \in Heard
  BY <1>1 DEF Heard
<1> HIDE DEF x
<1>3. one \in Seq(Heard) /\ Append(have, x) = have \o one /\ Append(have, x) \in Seq(Heard)
  BY <1>2, AppendIsConcat
<1>4. GatheredFromFirst(HearIt, packets)
  BY HearYields, GatheredFirst
<1>5. HearIt[Head(packets)] = one
  BY <1>1, Zenon DEF HearIt, x
<1>6. Gathered(HearIt, packets) = one \o h
  BY <1>4, <1>5, Zenon DEF GatheredFromFirst
<1>7. h \in Seq(Heard) /\ d \in Seq(Heard)
  <2>1. <<>> \in Seq(Readable)
    OBVIOUS
  <2> QED BY <1>1, <2>1, TotalType
<1> HIDE DEF one, h, d
<1>8. /\ Associates(one, h, d) /\ h \o d \in Seq(Heard)
      /\ Associates(have, one, h \o d)
  BY <1>3, <1>7, Regrouped
<1>9. Total(Append(have, x), rest, data) = Total(have, packets, data)
  BY <1>3, <1>6, <1>8, Zenon DEF Total, Associates, h, d
<1> QED BY <1>3, <1>9, Zenon DEF x

(***************************************************************************)
(* What is owed for the items sent whole.                                  *)
(***************************************************************************)
\* An item that was cut counts as nothing.
Nothing == [kind |-> "nothing"]
Sent == Items \cup {Nothing}

\* What an item is owed, and the command it is.
OwedIt == [item \in Sent |-> OwedTo(item)]
OrderIt == [item \in Sent |-> CommandsOf(item)]

\* Both are what a notification may give.
LEMMA SentYields ==
  /\ Yields(OwedIt, Sent, Heard) /\ Yields(OrderIt, Sent, Readable)
  /\ OwedIt[Nothing] = <<>> /\ OrderIt[Nothing] = <<>>
<1>1. ASSUME NEW item \in Items
      PROVE  OwedTo(item) \in Seq(Heard) /\ CommandsOf(item) \in Seq(Readable)
  <2> DEFINE a == EncodeItem(item)
  <2>1. a \in Seq(Byte) /\ HeardIn[a] = OwedTo(item) /\ ReadIn[a] = CommandsOf(item)
    BY NotificationOfItems
  <2> HIDE DEF a
  <2>2. HeardIn[a] \in Seq(Heard) /\ ReadIn[a] \in Seq(Readable)
    BY <2>1, NotificationYields DEF Yields
  <2> QED BY <2>1, <2>2
<1>2. OwedTo(Nothing) = <<>> /\ CommandsOf(Nothing) = <<>>
  BY DEF OwedTo, CommandsOf, Nothing
<1>3. <<>> \in Seq(Heard) /\ <<>> \in Seq(Readable)
  OBVIOUS
<1>4. \A item \in Sent : OwedTo(item) \in Seq(Heard) /\ CommandsOf(item) \in Seq(Readable)
  BY <1>1, <1>2, <1>3, Zenon DEF Sent
<1>5. OwedIt \in [Sent -> Seq(Heard)] /\ OrderIt \in [Sent -> Seq(Readable)]
  BY <1>4, Zenon DEF OwedIt, OrderIt
<1>6. Nothing \in Sent
  BY Zenon DEF Sent
<1>7. OwedIt[Nothing] = <<>> /\ OrderIt[Nothing] = <<>>
  BY <1>2, <1>6, Zenon DEF OwedIt, OrderIt
<1> QED BY <1>5, <1>7 DEF Yields

\* The items of s that are not in c.
WholeOf(s, c) == [i \in 1..Len(s) |-> IF i \in c THEN Nothing ELSE s[i]]

\* They are such items, or nothing.
LEMMA WholeType ==
  ASSUME NEW s \in Seq(Items), NEW c
  PROVE  WholeOf(s, c) \in Seq(Sent) /\ Len(WholeOf(s, c)) = Len(s)
<1>1. \A i \in 1..Len(s) : (IF i \in c THEN Nothing ELSE s[i]) \in Sent
  BY DEF Sent
<1> DEFINE w == WholeOf(s, c)
<1>2. w = [i \in 1..Len(s) |-> IF i \in c THEN Nothing ELSE s[i]]
  BY DEF WholeOf
<1>3. w \in [1..Len(s) -> Sent]
  BY <1>1, <1>2, Zenon
<1> HIDE DEF w
<1>4. w \in Seq(Sent) /\ Len(w) = Len(s)
  BY <1>3
<1> QED BY <1>4 DEF w

\* Items that are sent whole are added as they are.
LEMMA WholeOfMore ==
  ASSUME NEW s \in Seq(Items), NEW c \in SUBSET (1..Len(s)), NEW t \in Seq(Items)
  PROVE  WholeOf(s \o t, c) = WholeOf(s, c) \o t
<1> DEFINE st == s \o t
           w == WholeOf(s, c)
           v == WholeOf(st, c)
           m == Len(s)
           n == Len(t)
<1>1. /\ st \in Seq(Items) /\ Len(st) = m + n /\ m \in Nat /\ n \in Nat
      /\ \A i \in 1..(m + n) : st[i] = IF i <= m THEN s[i] ELSE t[i - m]
  BY ConcatProperties
<1> HIDE DEF st
<1>2. w \in Seq(Sent) /\ Len(w) = m /\ v \in Seq(Sent) /\ Len(v) = m + n
  BY <1>1, WholeType
<1>3. /\ \A i \in 1..m : w[i] = IF i \in c THEN Nothing ELSE s[i]
      /\ \A i \in 1..(m + n) : v[i] = IF i \in c THEN Nothing ELSE st[i]
  <2>1. \A i \in 1..Len(st) : v[i] = IF i \in c THEN Nothing ELSE st[i]
    BY Zenon DEF WholeOf
  <2>2. \A i \in 1..Len(s) : w[i] = IF i \in c THEN Nothing ELSE s[i]
    BY Zenon DEF WholeOf
  <2> QED BY <1>1, <2>1, <2>2, Zenon
<1>4. t \in Seq(Sent)
  <2>1. Items \subseteq Sent
    BY DEF Sent
  <2> QED BY <2>1
<1> HIDE DEF w, v
<1>5. /\ w \o t \in Seq(Sent) /\ Len(w \o t) = m + n
      /\ \A i \in 1..(m + n) : (w \o t)[i] = IF i <= m THEN w[i] ELSE t[i - m]
  BY <1>2, <1>4, ConcatProperties, SMTT(30)
<1>6. \A i \in 1..(m + n) : v[i] = (w \o t)[i]
  <2> SUFFICES ASSUME NEW i \in 1..(m + n) PROVE v[i] = (w \o t)[i]
    OBVIOUS
  <2>1. CASE i <= m
    <3>1. i \in 1..m
      BY <1>1, <2>1
    <3>2. st[i] = s[i] /\ (w \o t)[i] = w[i]
      BY <1>1, <1>5, <2>1
    <3> QED BY <1>3, <3>1, <3>2
  <2>2. CASE ~(i <= m)
    <3>1. i \notin c
      BY <1>1, <2>2
    <3>2. st[i] = t[i - m] /\ (w \o t)[i] = t[i - m]
      BY <1>1, <1>5, <2>2
    <3> QED BY <1>3, <3>1, <3>2
  <2> QED BY <2>1, <2>2
<1>7. v = w \o t
  BY <1>2, <1>5, <1>6, SeqEqual
<1> QED BY <1>7 DEF v, w, st

\* An item that is sent cut is added as nothing.
LEMMA WholeOfCut ==
  ASSUME NEW s \in Seq(Items), NEW c \in SUBSET (1..Len(s)), NEW x \in Items
  PROVE  WholeOf(Append(s, x), c \cup {Len(s) + 1}) = Append(WholeOf(s, c), Nothing)
<1> DEFINE sx == Append(s, x)
           w == WholeOf(s, c)
           v == WholeOf(sx, c \cup {Len(s) + 1})
           u == Append(w, Nothing)
           m == Len(s)
<1>1. /\ sx \in Seq(Items) /\ Len(sx) = m + 1 /\ m \in Nat
      /\ \A i \in 1..m : sx[i] = s[i]
  OBVIOUS
<1> HIDE DEF sx
<1>2. w \in Seq(Sent) /\ Len(w) = m /\ v \in Seq(Sent) /\ Len(v) = m + 1
  BY <1>1, WholeType
<1>3. /\ \A i \in 1..m : w[i] = IF i \in c THEN Nothing ELSE s[i]
      /\ \A i \in 1..(m + 1) : v[i] = IF i \in c \cup {m + 1} THEN Nothing ELSE sx[i]
  <2>1. \A i \in 1..Len(sx) : v[i] = IF i \in c \cup {m + 1} THEN Nothing ELSE sx[i]
    BY Zenon DEF WholeOf
  <2>2. \A i \in 1..Len(s) : w[i] = IF i \in c THEN Nothing ELSE s[i]
    BY Zenon DEF WholeOf
  <2> QED BY <1>1, <2>1, <2>2, Zenon
<1> HIDE DEF w, v
<1>4. Nothing \in Sent
  BY DEF Sent
<1>5. /\ u \in Seq(Sent) /\ Len(u) = m + 1 /\ u[m + 1] = Nothing
      /\ \A i \in 1..m : u[i] = w[i]
  BY <1>1, <1>2, <1>4
<1> HIDE DEF u
<1>6. \A i \in 1..(m + 1) : v[i] = u[i]
  <2> SUFFICES ASSUME NEW i \in 1..(m + 1) PROVE v[i] = u[i]
    OBVIOUS
  <2>1. CASE i = m + 1
    BY <1>3, <1>5, <2>1
  <2>2. CASE i # m + 1
    <3>1. i \in 1..m
      BY <1>1, <2>2
    <3>2. i \in c \cup {m + 1} <=> i \in c
      BY <2>2
    <3>3. sx[i] = s[i] /\ u[i] = w[i]
      BY <1>1, <1>5, <3>1
    <3> QED BY <1>3, <3>1, <3>2, <3>3
  <2> QED BY <2>1, <2>2
<1>7. v = u
  BY <1>2, <1>5, <1>6, SeqEqual
<1> QED BY <1>7 DEF v, u, w, sx

\* What is owed for items, and the commands among them.
OwedFor(w) == Gathered(OwedIt, w)
OrderedBy(w) == Gathered(OrderIt, w)

\* One or two items that are sent whole add what their notification gives.
WholeAdds(s, c, t, data) ==
  /\ OwedFor(WholeOf(s \o t, c)) = OwedFor(WholeOf(s, c)) \o Gathered(HeardIn, <<data>>)
  /\ OrderedBy(WholeOf(s \o t, c)) = OrderedBy(WholeOf(s, c)) \o Gathered(ReadIn, <<data>>)

\* So it is, if what they are owed one after the other is what the notification gives.
LEMMA OwedForMore ==
  ASSUME NEW s \in Seq(Items), NEW c \in SUBSET (1..Len(s)), NEW t \in Seq(Items),
         NEW data \in Seq(Byte),
         Gathered(OwedIt, t) = HeardIn[data], Gathered(OrderIt, t) = ReadIn[data]
  PROVE  WholeAdds(s, c, t, data)
<1> DEFINE w == WholeOf(s, c)
           wt == w \o t
<1>1. w \in Seq(Sent) /\ t \in Seq(Sent)
  <2>1. Items \subseteq Sent
    BY DEF Sent
  <2> QED BY <2>1, WholeType
<1>2. WholeOf(s \o t, c) = wt
  BY WholeOfMore
<1> HIDE DEF w
<1>3. GatheredFromParts(OwedIt, w, t) /\ GatheredFromParts(OrderIt, w, t)
  BY <1>1, SentYields, GatheredParts
<1>4. Gathered(HeardIn, <<data>>) = HeardIn[data] /\ Gathered(ReadIn, <<data>>) = ReadIn[data]
  BY NotificationYields, GatheredFew
<1> QED BY <1>2, <1>3, <1>4, Zenon DEF WholeAdds, OwedFor, OrderedBy, GatheredFromParts, w

\* An item that is sent cut adds nothing to what is owed.
CutAdds(s, c, x) ==
  /\ OwedFor(WholeOf(Append(s, x), c \cup {Len(s) + 1})) = OwedFor(WholeOf(s, c))
  /\ OrderedBy(WholeOf(Append(s, x), c \cup {Len(s) + 1})) = OrderedBy(WholeOf(s, c))

\* So it is, whatever was sent before.
LEMMA OwedForCut ==
  ASSUME NEW s \in Seq(Items), NEW c \in SUBSET (1..Len(s)), NEW x \in Items
  PROVE  CutAdds(s, c, x)
<1> DEFINE w == WholeOf(s, c)
           owed == Gathered(OwedIt, w)
           orders == Gathered(OrderIt, w)
<1>1. w \in Seq(Sent) /\ Nothing \in Sent
  BY WholeType DEF Sent
<1>2. WholeOf(Append(s, x), c \cup {Len(s) + 1}) = Append(w, Nothing)
  BY WholeOfCut
<1> HIDE DEF w
<1>3. GatheredFromNext(OwedIt, w, Nothing) /\ GatheredFromNext(OrderIt, w, Nothing)
  BY <1>1, SentYields, GatheredNext
<1>4. owed \in Seq(Heard)
  BY <1>1, SentYields, GatheredParts
<1>5. orders \in Seq(Readable)
  BY <1>1, SentYields, GatheredParts
<1>6. Gathered(OwedIt, Append(w, Nothing)) = owed \o <<>>
  BY <1>3, SentYields, Zenon DEF GatheredFromNext
<1>7. Gathered(OrderIt, Append(w, Nothing)) = orders \o <<>>
  BY <1>3, SentYields, Zenon DEF GatheredFromNext
<1> HIDE DEF owed, orders
<1>8. owed \o <<>> = owed /\ orders \o <<>> = orders
  BY <1>4, <1>5
<1> QED BY <1>2, <1>6, <1>7, <1>8, Zenon DEF CutAdds, OwedFor, OrderedBy, owed, orders, w

\* One item, and two, in a notification.
LEMMA OwedForNotification ==
  ASSUME NEW s \in Seq(Items), NEW c \in SUBSET (1..Len(s)), NEW x \in Items, NEW y \in Items
  PROVE  /\ WholeAdds(s, c, <<x>>, EncodeItem(x))
         /\ WholeAdds(s, c, <<x, y>>, EncodeItem(x) \o EncodeItem(y))
<1> DEFINE a == EncodeItem(x)
           ab == EncodeItem(x) \o EncodeItem(y)
           one == <<x>>
           two == <<x, y>>
<1>1. /\ a \in Seq(Byte) /\ HeardIn[a] = OwedTo(x) /\ ReadIn[a] = CommandsOf(x)
      /\ ab \in Seq(Byte) /\ HeardIn[ab] = OwedTo(x) \o OwedTo(y)
      /\ ReadIn[ab] = CommandsOf(x) \o CommandsOf(y)
  BY NotificationOfItems
<1> HIDE DEF a, ab
<1>2. x \in Sent /\ y \in Sent
  BY DEF Sent
<1>3. /\ OwedIt[x] = OwedTo(x) /\ OwedIt[y] = OwedTo(y)
      /\ OrderIt[x] = CommandsOf(x) /\ OrderIt[y] = CommandsOf(y)
  BY <1>2, Zenon DEF OwedIt, OrderIt
<1>4. Gathered(OwedIt, one) = OwedIt[x] /\ Gathered(OrderIt, one) = OrderIt[x]
  BY <1>2, SentYields, GatheredFew
<1>5. GatheredFromTwo(OwedIt, x, y) /\ GatheredFromTwo(OrderIt, x, y)
  BY <1>2, SentYields, GatheredPair
<1>6. one \in Seq(Items) /\ two \in Seq(Items)
  OBVIOUS
<1>7. Gathered(OwedIt, one) = HeardIn[a] /\ Gathered(OrderIt, one) = ReadIn[a]
  BY <1>1, <1>3, <1>4, Zenon
<1>8. Gathered(OwedIt, two) = HeardIn[ab] /\ Gathered(OrderIt, two) = ReadIn[ab]
  BY <1>1, <1>3, <1>5, Zenon DEF GatheredFromTwo
<1> HIDE DEF one, two
<1>9. WholeAdds(s, c, one, a) /\ WholeAdds(s, c, two, ab)
  BY <1>1, <1>6, <1>7, <1>8, OwedForMore
<1> QED BY <1>9, Zenon DEF one, two, a, ab

(***************************************************************************)
(* The exchange.                                                           *)
(***************************************************************************)
\* The items that the bike sends, the bytes under way, and what came of them.
Typed(sent, torn, data, orders, packets, have) ==
  /\ sent \in Seq(Items) /\ torn \in SUBSET (1..Len(sent))
  /\ data \in Seq(Seq(Byte)) /\ packets \in Seq(Seq(Byte))
  /\ have \in Seq(Heard) /\ orders \in Seq(Readable)

\* What has arrived, with what is under way, is what is owed.
Balanced(sent, torn, data, orders, packets, have) ==
  /\ GotOf(Total(have, packets, data), OwedFor(WholeOf(sent, torn)), torn # {})
  /\ GotOf(Orders(orders, data), OrderedBy(WholeOf(sent, torn)), torn # {})

\* Both totals and both debts are sequences of what may be heard and read.
LEMMA DebtType ==
  ASSUME NEW sent \in Seq(Items), NEW torn
  PROVE  /\ OwedFor(WholeOf(sent, torn)) \in Seq(Heard)
         /\ OrderedBy(WholeOf(sent, torn)) \in Seq(Readable)
<1> DEFINE w == WholeOf(sent, torn)
<1>1. w \in Seq(Sent)
  BY WholeType
<1> HIDE DEF w
<1>2. OwedFor(w) \in Seq(Heard)
  BY <1>1, SentYields, GatheredParts DEF OwedFor
<1>3. OrderedBy(w) \in Seq(Readable)
  BY <1>1, SentYields, GatheredParts DEF OrderedBy
<1> QED BY <1>2, <1>3 DEF w

\* Items sent whole keep the balance.
LEMMA BalancedSent ==
  ASSUME NEW sent, NEW torn, NEW data, NEW orders, NEW packets, NEW have,
         Typed(sent, torn, data, orders, packets, have),
         Balanced(sent, torn, data, orders, packets, have),
         NEW items, NEW bytes \in Seq(Byte), WholeAdds(sent, torn, items, bytes)
  PROVE  Balanced(sent \o items, torn, Append(data, bytes), orders, packets, have)
<1> DEFINE more == <<bytes>>
           heardMore == Gathered(HeardIn, more)
           readMore == Gathered(ReadIn, more)
           total == Total(have, packets, data)
           read == Orders(orders, data)
           owed == OwedFor(WholeOf(sent, torn))
           due == OrderedBy(WholeOf(sent, torn))
<1>1. /\ sent \in Seq(Items) /\ data \in Seq(Seq(Byte)) /\ packets \in Seq(Seq(Byte))
      /\ have \in Seq(Heard) /\ orders \in Seq(Readable)
  BY DEF Typed
<1>2. more \in Seq(Seq(Byte)) /\ Append(data, bytes) = data \o more
  BY <1>1, AppendIsConcat
<1> HIDE DEF more
<1>3. /\ heardMore \in Seq(Heard) /\ readMore \in Seq(Readable)
      /\ total \in Seq(Heard) /\ read \in Seq(Readable)
  BY <1>1, <1>2, TotalType
<1>4. owed \in Seq(Heard) /\ due \in Seq(Readable)
  BY <1>1, DebtType
<1>5. SentAdds(have, packets, orders, data, more)
  BY <1>1, <1>2, TotalOfSent
<1>6. /\ Total(have, packets, data \o more) = total \o heardMore
      /\ Orders(orders, data \o more) = read \o readMore
  BY <1>5, Zenon DEF SentAdds
<1>7. /\ OwedFor(WholeOf(sent \o items, torn)) = owed \o heardMore
      /\ OrderedBy(WholeOf(sent \o items, torn)) = due \o readMore
  BY Zenon DEF WholeAdds, more
<1>8. GotOf(total, owed, torn # {}) /\ GotOf(read, due, torn # {})
  BY Zenon DEF Balanced
<1> DEFINE anyTorn == torn # {}
<1> HIDE DEF heardMore, readMore, total, read, owed, due, anyTorn
<1>9. GotOf(total, owed, anyTorn) /\ GotOf(read, due, anyTorn)
  BY <1>8 DEF anyTorn
<1>10. GotOf(total \o heardMore, owed \o heardMore, anyTorn)
  BY <1>3, <1>4, <1>9, GotMore
<1>11. GotOf(read \o readMore, due \o readMore, anyTorn)
  BY <1>3, <1>4, <1>9, GotMore
<1> QED BY <1>2, <1>6, <1>7, <1>10, <1>11, Zenon DEF Balanced, anyTorn

\* An item sent cut keeps it too: whatever is made of its two parts.
LEMMA BalancedCut ==
  ASSUME NEW sent, NEW torn, NEW data, NEW orders, NEW packets, NEW have,
         Typed(sent, torn, data, orders, packets, have),
         Balanced(sent, torn, data, orders, packets, have),
         NEW item \in Items, NEW parts \in Seq(Seq(Byte))
  PROVE  Balanced(Append(sent, item), torn \cup {Len(sent) + 1}, data \o parts,
                  orders, packets, have)
<1> DEFINE heardMore == Gathered(HeardIn, parts)
           readMore == Gathered(ReadIn, parts)
           total == Total(have, packets, data)
           read == Orders(orders, data)
           owed == OwedFor(WholeOf(sent, torn))
           due == OrderedBy(WholeOf(sent, torn))
           now == torn \cup {Len(sent) + 1}
<1>1. /\ sent \in Seq(Items) /\ data \in Seq(Seq(Byte)) /\ packets \in Seq(Seq(Byte))
      /\ have \in Seq(Heard) /\ orders \in Seq(Readable) /\ torn \in SUBSET (1..Len(sent))
  BY DEF Typed
<1>3. /\ heardMore \in Seq(Heard) /\ readMore \in Seq(Readable)
      /\ total \in Seq(Heard) /\ read \in Seq(Readable)
  BY <1>1, TotalType
<1>4. owed \in Seq(Heard) /\ due \in Seq(Readable)
  BY <1>1, DebtType
<1>5. SentAdds(have, packets, orders, data, parts)
  BY <1>1, TotalOfSent
<1>6. /\ Total(have, packets, data \o parts) = total \o heardMore
      /\ Orders(orders, data \o parts) = read \o readMore
  BY <1>5, Zenon DEF SentAdds
<1>7. /\ OwedFor(WholeOf(Append(sent, item), now)) = owed
      /\ OrderedBy(WholeOf(Append(sent, item), now)) = due
  <2>1. CutAdds(sent, torn, item)
    BY <1>1, OwedForCut
  <2> QED BY <2>1, Zenon DEF CutAdds
<1>8. GotOf(total, owed, torn # {}) /\ GotOf(read, due, torn # {})
  BY Zenon DEF Balanced
<1>9. now # {}
  OBVIOUS
<1> DEFINE anyTorn == torn # {}
<1> HIDE DEF heardMore, readMore, total, read, owed, due, anyTorn, now
<1>10. GotOf(total, owed, anyTorn) /\ GotOf(read, due, anyTorn)
  BY <1>8 DEF anyTorn
<1>11. GotOf(total \o heardMore, owed, TRUE)
  BY <1>3, <1>4, <1>10, GotTorn
<1>12. GotOf(read \o readMore, due, TRUE)
  BY <1>3, <1>4, <1>10, GotTorn
<1>13. GotOf(total \o heardMore, owed, now # {}) /\ GotOf(read \o readMore, due, now # {})
  BY <1>9, <1>11, <1>12 DEF GotOf
<1> QED BY <1>6, <1>7, <1>13, Zenon DEF Balanced, now

\* A notification that is handled, and a packet that is received, keep both totals.
LEMMA BalancedHandled ==
  ASSUME NEW sent, NEW torn, NEW data, NEW orders, NEW packets, NEW have,
         Typed(sent, torn, data, orders, packets, have),
         Balanced(sent, torn, data, orders, packets, have), data # <<>>,
         NEW answers \in Seq(Seq(Byte)), Gathered(HearIt, answers) = HeardIn[Head(data)],
         NEW read, read = ReadIn[Head(data)]
  PROVE  Balanced(sent, torn, Tail(data), orders \o read, packets \o answers, have)
<1>1. /\ data \in Seq(Seq(Byte)) /\ packets \in Seq(Seq(Byte))
      /\ have \in Seq(Heard) /\ orders \in Seq(Readable)
  BY DEF Typed
<1>2. /\ Total(have, packets \o answers, Tail(data)) = Total(have, packets, data)
      /\ Orders(orders \o read, Tail(data)) = Orders(orders, data)
  BY <1>1, TotalOfHandled
<1> QED BY <1>2, Zenon DEF Balanced

\* When the bike hears a packet, it moves from under way to heard.
LEMMA BalancedReceived ==
  ASSUME NEW sent, NEW torn, NEW data, NEW orders, NEW packets, NEW have,
         Typed(sent, torn, data, orders, packets, have),
         Balanced(sent, torn, data, orders, packets, have), packets # <<>>
  PROVE  /\ Append(have, Hear(Head(packets))) \in Seq(Heard)
         /\ Balanced(sent, torn, data, orders, Tail(packets), Append(have, Hear(Head(packets))))
<1>1. data \in Seq(Seq(Byte)) /\ packets \in Seq(Seq(Byte)) /\ have \in Seq(Heard)
  BY DEF Typed
<1>2. /\ Append(have, Hear(Head(packets))) \in Seq(Heard)
      /\ Total(Append(have, Hear(Head(packets))), Tail(packets), data) = Total(have, packets, data)
  BY <1>1, TotalOfReceived
<1> QED BY <1>2, Zenon DEF Balanced

\* The inductive invariant.
ExchangeInv ==
  /\ Typed(asked, cut, air, commands, replies, heard)
  /\ Balanced(asked, cut, air, commands, replies, heard)

\* What the properties call owed is what the invariant does.
LEMMA DebtIsOwed ==
  ASSUME ExchangeInv
  PROVE  OwedToWhole = OwedFor(WholeOf(asked, cut)) /\ CommandsOfWhole = OrderedBy(WholeOf(asked, cut))
<1> DEFINE w == WholeOf(asked, cut)
<1>1. asked \in Seq(Items)
  BY DEF ExchangeInv, Typed
<1>2. w \in Seq(Sent) /\ Len(w) = Len(asked)
  BY <1>1, WholeType
<1>3. Whole = w
  BY DEF Whole, WholeOf, Nothing
<1> HIDE DEF w
<1>4. \A i \in 1..Len(asked) : w[i] \in Sent
  BY <1>2
<1>5. \A i \in 1..Len(asked) : OwedIt[w[i]] = OwedTo(w[i]) /\ OrderIt[w[i]] = CommandsOf(w[i])
  BY <1>4, Zenon DEF OwedIt, OrderIt
<1>6. [i \in 1..Len(asked) |-> OwedIt[w[i]]] = [i \in 1..Len(asked) |-> OwedTo(w[i])]
  BY <1>5, Zenon
<1>7. [i \in 1..Len(asked) |-> OrderIt[w[i]]] = [i \in 1..Len(asked) |-> CommandsOf(w[i])]
  BY <1>5, Zenon
<1>8. OwedFor(w) = OwedToWhole
  BY <1>2, <1>3, <1>6, Zenon DEF OwedFor, Gathered, OwedToWhole
<1>9. OrderedBy(w) = CommandsOfWhole
  BY <1>2, <1>3, <1>7, Zenon DEF OrderedBy, Gathered, CommandsOfWhole
<1> QED BY <1>8, <1>9 DEF w

\* At the start nothing is owed.
LEMMA ExchangeInit ==
  ASSUME Init
  PROVE  ExchangeInv
<1> DEFINE none == WholeOf(<<>>, {})
<1>1. none = <<>>
  BY DEF WholeOf
<1>2. <<>> \in Seq(Items) /\ <<>> \in Seq(Seq(Byte)) /\ <<>> \in Seq(Heard) /\ <<>> \in Seq(Readable)
  OBVIOUS
<1>3. Typed(<<>>, {}, <<>>, <<>>, <<>>, <<>>)
  BY <1>2 DEF Typed
<1>4. Gathered(HearIt, <<>>) = <<>> /\ Gathered(HeardIn, <<>>) = <<>> /\ Gathered(ReadIn, <<>>) = <<>>
  <2>1. <<>> \in Seq(Byte)
    OBVIOUS
  <2> QED BY <2>1, HearYields, NotificationYields, GatheredFew
<1>5. Gathered(OwedIt, <<>>) = <<>> /\ Gathered(OrderIt, <<>>) = <<>>
  <2>1. Nothing \in Sent
    BY DEF Sent
  <2> QED BY <2>1, SentYields, GatheredFew
<1>6. <<>> \o <<>> = <<>>
  OBVIOUS
<1>7. Total(<<>>, <<>>, <<>>) = <<>> /\ Orders(<<>>, <<>>) = <<>>
  BY <1>4, <1>6, Zenon DEF Total, Orders
<1> HIDE DEF none
<1>8. OwedFor(none) = <<>> /\ OrderedBy(none) = <<>>
  BY <1>1, <1>5, Zenon DEF OwedFor, OrderedBy
<1>9. Balanced(<<>>, {}, <<>>, <<>>, <<>>, <<>>)
  BY <1>7, <1>8, Zenon DEF Balanced, GotOf, none
<1> QED BY <1>3, <1>9, Zenon DEF Init, ExchangeInv

\* Every step keeps the balance.
LEMMA ExchangeStep ==
  ASSUME ExchangeInv, [Next]_vars
  PROVE  ExchangeInv'
<1>1. Typed(asked, cut, air, commands, replies, heard) /\ Balanced(asked, cut, air, commands, replies, heard)
  BY DEF ExchangeInv
<1>2. /\ asked \in Seq(Items) /\ cut \in SUBSET (1..Len(asked))
      /\ air \in Seq(Seq(Byte)) /\ replies \in Seq(Seq(Byte))
      /\ heard \in Seq(Heard) /\ commands \in Seq(Readable)
  BY <1>1 DEF Typed
<1>3. CASE BikeSends
  <2>1. PICK item \in Items : asked' = Append(asked, item) /\ air' = Append(air, EncodeItem(item))
    BY <1>3 DEF BikeSends
  <2>2. UNCHANGED <<cut, commands, replies, heard>>
    BY <1>3 DEF BikeSends
  <2> DEFINE items == <<item>>
             bytes == EncodeItem(item)
  <2>3. bytes \in Seq(Byte)
    BY NotificationOfItems
  <2>4. WholeAdds(asked, cut, items, bytes)
    BY <1>2, OwedForNotification
  <2>5. items \in Seq(Items) /\ asked' = asked \o items
    BY <1>2, <2>1, AppendIsConcat
  <2> HIDE DEF items, bytes
  <2>6. Balanced(asked \o items, cut, Append(air, bytes), commands, replies, heard)
    BY <1>1, <2>3, <2>4, BalancedSent
  <2>7. Typed(asked \o items, cut, Append(air, bytes), commands, replies, heard)
    BY <1>2, <2>3, <2>5 DEF Typed
  <2> QED BY <2>1, <2>2, <2>5, <2>6, <2>7 DEF ExchangeInv, bytes
<1>4. CASE BikeSendsTwo
  <2>1. PICK item \in Items, another \in Items :
          /\ asked' = asked \o <<item, another>>
          /\ air' = Append(air, EncodeItem(item) \o EncodeItem(another))
    BY <1>4 DEF BikeSendsTwo
  <2>2. UNCHANGED <<cut, commands, replies, heard>>
    BY <1>4 DEF BikeSendsTwo
  <2> DEFINE items == <<item, another>>
             bytes == EncodeItem(item) \o EncodeItem(another)
  <2>3. bytes \in Seq(Byte)
    BY NotificationOfItems
  <2>4. WholeAdds(asked, cut, items, bytes)
    BY <1>2, OwedForNotification
  <2>5. items \in Seq(Items) /\ asked' = asked \o items /\ air' = Append(air, bytes)
    BY <2>1
  <2> HIDE DEF items, bytes
  <2>6. Balanced(asked \o items, cut, Append(air, bytes), commands, replies, heard)
    BY <1>1, <2>3, <2>4, BalancedSent
  <2>7. Typed(asked \o items, cut, Append(air, bytes), commands, replies, heard)
    BY <1>2, <2>3, <2>5 DEF Typed
  <2> QED BY <2>2, <2>5, <2>6, <2>7 DEF ExchangeInv
<1>5. CASE BikeCuts
  <2>1. PICK item \in Items : \E at \in 1..(Len(EncodeItem(item)) - 1) :
          /\ asked' = Append(asked, item)
          /\ air' = air \o <<SubSeq(EncodeItem(item), 1, at),
                             SubSeq(EncodeItem(item), at + 1, Len(EncodeItem(item)))>>
    BY <1>5 DEF BikeCuts
  <2> DEFINE bytes == EncodeItem(item)
  <2>2. bytes \in Seq(Byte)
    BY NotificationOfItems
  <2>3. PICK at \in 1..(Len(bytes) - 1) :
          /\ asked' = Append(asked, item)
          /\ air' = air \o <<SubSeq(bytes, 1, at), SubSeq(bytes, at + 1, Len(bytes))>>
    BY <2>1
  <2>4. cut' = cut \cup {Len(asked) + 1} /\ UNCHANGED <<commands, replies, heard>>
    BY <1>5 DEF BikeCuts
  <2> HIDE DEF bytes
  <2> DEFINE parts == <<SubSeq(bytes, 1, at), SubSeq(bytes, at + 1, Len(bytes))>>
  <2>5. parts \in Seq(Seq(Byte))
    <3>1. SubSeq(bytes, 1, at) \in Seq(Byte)
      BY <2>2
    <3>2. SubSeq(bytes, at + 1, Len(bytes)) \in Seq(Byte)
      BY <2>2
    <3> QED BY <3>1, <3>2
  <2>6. air' = air \o parts
    BY <2>3
  <2> HIDE DEF parts
  <2>7. Balanced(Append(asked, item), cut \cup {Len(asked) + 1}, air \o parts,
                 commands, replies, heard)
    BY <1>1, <2>5, BalancedCut
  <2>8. Typed(Append(asked, item), cut \cup {Len(asked) + 1}, air \o parts,
              commands, replies, heard)
    <3> DEFINE more == Append(asked, item)
    <3>1. more \in Seq(Items) /\ Len(more) = Len(asked) + 1 /\ Len(asked) \in Nat
      BY <1>2
    <3> HIDE DEF more
    <3>2. cut \cup {Len(asked) + 1} \in SUBSET (1..Len(more))
      <4>1. \A i \in cut : i \in 1..Len(asked)
        BY <1>2
      <4>2. \A i \in 1..Len(asked) : i \in 1..Len(more)
        BY <3>1, SMT
      <4>3. Len(asked) + 1 \in 1..Len(more)
        BY <3>1, SMT
      <4> QED BY <4>1, <4>2, <4>3, Zenon
    <3>3. air \o parts \in Seq(Seq(Byte))
      BY <1>2, <2>5
    <3> QED BY <1>2, <3>1, <3>2, <3>3, Zenon DEF Typed, more
  <2> QED BY <2>3, <2>4, <2>6, <2>7, <2>8 DEF ExchangeInv
<1>6. CASE SessionHandles
  <2> DEFINE data == Head(air)
             split == SplitFrames(data)
             answers == IF split.ok THEN AnswersToAll(split.value) ELSE <<>>
             read == IF split.ok THEN CommandsIn(split.value) ELSE <<>>
  <2>1. air # <<>> /\ air' = Tail(air) /\ UNCHANGED <<asked, cut, heard>>
    BY <1>6 DEF SessionHandles
  <2>2. replies' = replies \o answers /\ commands' = commands \o read
    <3>1. CASE split.ok
      BY <1>6, <3>1 DEF SessionHandles
    <3>2. CASE ~split.ok
      <4>1. UNCHANGED <<commands, replies>>
        BY <1>6, <3>2 DEF SessionHandles
      <4>2. replies \o <<>> = replies /\ commands \o <<>> = commands
        BY <1>2
      <4> QED BY <3>2, <4>1, <4>2
    <3> QED BY <3>1, <3>2
  <2>3. data \in Seq(Byte)
    BY <1>2, <2>1
  <2>4. answers \in Seq(Seq(Byte)) /\ read \in Seq(Readable)
    <3>1. CASE split.ok
      <4> DEFINE frames == split.value
      <4>1. frames \in Seq(Frame)
        BY <2>3, <3>1, SplitType
      <4> HIDE DEF frames
      <4>2. AnswersToAll(frames) = Gathered(AnswerIt, frames) /\ CommandsIn(frames) = Gathered(ReadIt, frames)
        BY <4>1, AllGathered
      <4>3. Gathered(AnswerIt, frames) \in Seq(Seq(Byte))
        BY <4>1, FrameYields, GatheredParts
      <4>4. Gathered(ReadIt, frames) \in Seq(Readable)
        BY <4>1, FrameYields, GatheredParts
      <4> QED BY <3>1, <4>2, <4>3, <4>4 DEF frames
    <3>2. CASE ~split.ok
      BY <3>2
    <3> QED BY <3>1, <3>2
  <2>5. Gathered(HearIt, answers) = HeardIn[data] /\ read = ReadIn[data]
    <3>1. CASE split.ok
      BY <2>3, <3>1, Zenon DEF HeardIn, ReadIn
    <3>2. CASE ~split.ok
      BY <2>3, <3>2, NothingHeard, Zenon DEF HeardIn, ReadIn
    <3> QED BY <3>1, <3>2
  <2> HIDE DEF split, answers, read
  <2>6. Balanced(asked, cut, Tail(air), commands \o read, replies \o answers, heard)
    BY <1>1, <2>1, <2>4, <2>5, BalancedHandled
  <2>7. Typed(asked, cut, Tail(air), commands \o read, replies \o answers, heard)
    BY <1>2, <2>1, <2>4 DEF Typed
  <2> QED BY <2>1, <2>2, <2>6, <2>7 DEF ExchangeInv
<1>7. CASE BikeReceives
  <2> DEFINE more == Append(heard, Hear(Head(replies)))
  <2>1. /\ replies # <<>> /\ replies' = Tail(replies) /\ heard' = more
        /\ UNCHANGED <<asked, cut, air, commands>>
    BY <1>7 DEF BikeReceives
  <2>2. more \in Seq(Heard) /\ Balanced(asked, cut, air, commands, Tail(replies), more)
    BY <1>1, <2>1, BalancedReceived
  <2> HIDE DEF more
  <2>3. Typed(asked, cut, air, commands, Tail(replies), more)
    BY <1>2, <2>1, <2>2 DEF Typed
  <2> QED BY <2>1, <2>2, <2>3 DEF ExchangeInv
<1>8. CASE UNCHANGED vars
  BY <1>1, <1>8 DEF vars, ExchangeInv
<1> QED BY <1>3, <1>4, <1>5, <1>6, <1>7, <1>8 DEF Next

\* With nothing under way, what was got is all that is owed.
LEMMA ExchangeSettles ==
  ASSUME ExchangeInv
  PROVE  AnswersMatch /\ CommandsMatch
<1>1. /\ OwedToWhole = OwedFor(WholeOf(asked, cut))
      /\ CommandsOfWhole = OrderedBy(WholeOf(asked, cut))
  BY DebtIsOwed
<1>2. /\ GotOf(Total(heard, replies, air), OwedToWhole, cut # {})
      /\ GotOf(Orders(commands, air), CommandsOfWhole, cut # {})
  BY <1>1, Zenon DEF ExchangeInv, Balanced
<1>3. heard \in Seq(Heard) /\ commands \in Seq(Readable)
  BY DEF ExchangeInv, Typed
<1>4. Gathered(HearIt, <<>>) = <<>> /\ Gathered(HeardIn, <<>>) = <<>> /\ Gathered(ReadIn, <<>>) = <<>>
  <2>1. <<>> \in Seq(Byte)
    OBVIOUS
  <2> QED BY <2>1, HearYields, NotificationYields, GatheredFew
<1>5. heard \o <<>> = heard /\ commands \o <<>> = commands /\ <<>> \o <<>> = <<>>
  BY <1>3
<1>6. Total(heard, <<>>, <<>>) = heard /\ Orders(commands, <<>>) = commands
  BY <1>4, <1>5, Zenon DEF Total, Orders
<1>7. ASSUME air = <<>>, replies = <<>> PROVE Got(heard, OwedToWhole)
  BY <1>2, <1>6, <1>7, Zenon DEF GotOf, Got
<1>8. ASSUME air = <<>> PROVE Got(commands, CommandsOfWhole)
  BY <1>2, <1>6, <1>8, Zenon DEF GotOf, Got
<1> QED BY <1>7, <1>8 DEF AnswersMatch, CommandsMatch

\* The invariant of the exchange: what has arrived, with what the bytes under way will
\* give, is what the items sent so far are owed.
THEOREM ExchangeInvariance == Spec => []ExchangeInv
BY ExchangeInit, ExchangeStep, PTL DEF Spec

\* When nothing is under way, the bike has heard what the requests that it sent whole
\* were owed, in their order and each on its channel, and nothing else unless a frame
\* was cut; nothing is lost for what shares a notification with it, or for a frame that
\* was cut before it, whatever the requests, the provider payloads and the number of
\* messages.
THEOREM AnswersArrive == Spec => []AnswersMatch
BY ExchangeInvariance, ExchangeSettles, PTL

\* The session has read the commands that were sent whole, in their order and
\* with their arguments, whatever was sent with them.
THEOREM CommandsArrive == Spec => []CommandsMatch
BY ExchangeInvariance, ExchangeSettles, PTL
=============================================================================
