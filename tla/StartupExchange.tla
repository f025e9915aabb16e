-------------------------- MODULE StartupExchange --------------------------
(***************************************************************************)
(* The startup exchange on the wire: the bike sends commands and requests  *)
(* in MCSP frames, several to a notification; the session splits, decodes  *)
(* and answers them (the notification handler of src/bosch_ble/live.py     *)
(* with the codecs of mcsp.py and messagebus.py); the bike decodes the     *)
(* answers.  When the answers are written is the subject of LiveSession.   *)
(***************************************************************************)
EXTENDS MessageBus, SequencesExt

CONSTANTS
  Items,      \* what the bike may send, see Item
  MaxItems,   \* bound: how many items it sends
  Cuts        \* may the bike cut a frame in two notifications?

\* A command, a message on a channel, or a payload that is no message.
Item ==
  [kind : {"command"}, command : Command]
    \cup [kind : {"message"}, channel : Channel \ {COMMAND}, message : Directed \cup Notification]
    \cup [kind : {"garbage"}, channel : Channel, payload : Seq(Byte)]

\* A request has no status; a response of the bike's own may have one.
EncodeMessage(m) ==
  IF m.form = "notify" THEN EncodeNotify(m.source, m.payload)
  ELSE EncodeAddress(m.source, FALSE)
         \o EncodeAddress(m.destination, m.type \in ResponseTypes /\ m.status = SUCCESS)
         \o <<m.type * 16 + m.sequence>>
         \o (IF m.status = SUCCESS THEN <<>> ELSE <<m.status>>)
         \o m.payload

\* What fits its bytes; only a response says that something failed; garbage is what
\* the channel's codec does not read.
Sendable(item) ==
  CASE item.kind = "command" ->
         item.command.type = ADVANCED_TRANSMIT_WINDOW
           => item.command.advance \div 65536 \in TwoByteNumber
    [] item.kind = "message" ->
         /\ Len(EncodeMessage(item.message)) <= MaxPayload
         /\ item.message.form = "directed"
              => item.message.type \in ResponseTypes \/ item.message.status = SUCCESS
    [] item.kind = "garbage" ->
         /\ Len(item.payload) <= MaxPayload
         /\ IF item.channel = COMMAND THEN ~DecodeCommand(item.payload).ok
            ELSE ~DecodeMessage(item.payload).ok

ASSUME ItemsAssumption == Items \subseteq {item \in Item : Sendable(item)}

VARIABLES
  asked,      \* history: the items sent by the bike
  cut,        \* history: which of them were cut in two
  air,        \* the notifications under way to the session
  commands,   \* _handshake_commands
  replies,    \* the packets under way to the bike
  heard       \* what the bike has decoded of them

vars == <<asked, cut, air, commands, replies, heard>>

Init ==
  /\ asked = <<>> /\ cut = {} /\ air = <<>>
  /\ commands = <<>> /\ replies = <<>> /\ heard = <<>>
----------------------------------------------------------------------------
(***************************************************************************)
(* The bike.                                                               *)
(***************************************************************************)
EncodeItem(item) ==
  CASE item.kind = "command" -> EncodeCommandFrame(item.command)
    [] item.kind = "message" ->
         EncodeFrame([end |-> TRUE, channel |-> item.channel,
                      payload |-> EncodeMessage(item.message)])
    [] item.kind = "garbage" ->
         EncodeFrame([end |-> TRUE, channel |-> item.channel, payload |-> item.payload])

\* One item, or two in one notification.
BikeSends ==
  /\ Len(asked) < MaxItems
  /\ \E item \in Items : asked' = Append(asked, item) /\ air' = Append(air, EncodeItem(item))
  /\ UNCHANGED <<cut, commands, replies, heard>>

BikeSendsTwo ==
  /\ Len(asked) + 1 < MaxItems
  /\ \E item, another \in Items :
       /\ asked' = asked \o <<item, another>>
       /\ air' = Append(air, EncodeItem(item) \o EncodeItem(another))
  /\ UNCHANGED <<cut, commands, replies, heard>>

\* One frame in two notifications.
BikeCuts ==
  /\ Cuts /\ Len(asked) < MaxItems
  /\ \E item \in Items : LET bytes == EncodeItem(item) IN \E at \in 1..(Len(bytes) - 1) :
       /\ asked' = Append(asked, item)
       /\ air' = air \o <<SubSeq(bytes, 1, at), SubSeq(bytes, at + 1, Len(bytes))>>
  /\ cut' = cut \cup {Len(asked) + 1}
  /\ UNCHANGED <<commands, replies, heard>>

\* The message in a packet, if it is one, and the channel it came on.
Hear(packet) ==
  LET frame == DecodeFrame(packet).value
      read == DecodeMessage(frame.payload)
  IN [channel |-> frame.channel, message |-> IF read.ok THEN read.value ELSE [form |-> "none"]]

BikeReceives ==
  /\ replies # <<>> /\ replies' = Tail(replies)
  /\ heard' = Append(heard, Hear(Head(replies)))
  /\ UNCHANGED <<asked, cut, air, commands>>
----------------------------------------------------------------------------
(***************************************************************************)
(* The session.  A frame that does not decode is reported and skipped.     *)
(***************************************************************************)
CommandIn(frame) ==
  IF frame.channel # COMMAND \/ ~DecodeCommand(frame.payload).ok THEN <<>>
  ELSE <<DecodeCommand(frame.payload).value>>

CommandsIn(frames) == FlattenSeq([i \in 1..Len(frames) |-> CommandIn(frames[i])])

AnswersTo(frame) ==
  IF frame.channel = COMMAND \/ ~DecodeMessage(frame.payload).ok THEN <<>>
  ELSE StartupResponsePackets(frame.channel, DecodeMessage(frame.payload).value)

AnswersToAll(frames) == FlattenSeq([i \in 1..Len(frames) |-> AnswersTo(frames[i])])

SessionHandles ==
  /\ air # <<>> /\ air' = Tail(air)
  /\ LET split == SplitFrames(Head(air)) IN
     IF split.ok
     THEN /\ commands' = commands \o CommandsIn(split.value)
          /\ replies' = replies \o AnswersToAll(split.value)
     ELSE UNCHANGED <<commands, replies>>
  /\ UNCHANGED <<asked, cut, heard>>

Next == BikeSends \/ BikeSendsTwo \/ BikeCuts \/ SessionHandles \/ BikeReceives

Spec == Init /\ [][Next]_vars
----------------------------------------------------------------------------
(***************************************************************************)
(* What the exchange promises, stated on messages and not on bytes.        *)
(***************************************************************************)
\* The reply to a request: its mirror image, with the same sequence number.
Reply(m, status, payload) ==
  [form |-> "directed", source |-> m.destination, destination |-> m.source,
   type |-> m.type + 1, sequence |-> m.sequence, status |-> status, payload |-> payload]

\* A known address answers a read with its value and a subscription with a confirmation
\* and its value; what is not served is declared unsupported.
Owed(m) ==
  CASE m.form = "notify" -> <<>>
    [] m.form = "directed" /\ m.type \in ResponseTypes \cup {NOTIFY} -> <<>>
    [] m.form = "directed" /\ m.type = RPC ->
         <<Reply(m, IF m.destination \in RpcAddresses THEN SUCCESS ELSE UNSUPPORTED, <<>>)>>
    [] m.form = "directed" /\ m.type = WRITE ->
         <<Reply(m, IF m.destination \in WriteAddresses \cup DOMAIN Payloads
                    THEN SUCCESS ELSE UNSUPPORTED, <<>>)>>
    [] m.form = "directed" /\ m.type \in {READ, SUBSCRIBE, UNSUBSCRIBE} ->
         IF m.destination \notin DOMAIN Payloads THEN <<Reply(m, UNSUPPORTED, <<>>)>>
         ELSE LET value == Payloads[m.destination] IN
              CASE m.type = READ -> <<Reply(m, SUCCESS, value)>>
                [] m.type = UNSUBSCRIBE -> <<Reply(m, SUCCESS, <<>>)>>
                [] m.type = SUBSCRIBE ->
                     <<Reply(m, SUCCESS, <<>>),
                       [form |-> "notify", source |-> m.destination, payload |-> value]>>

OwedTo(item) ==
  IF item.kind # "message" THEN <<>>
  ELSE LET owed == Owed(item.message)
       IN [i \in 1..Len(owed) |-> [channel |-> item.channel, message |-> owed[i]]]

\* The items that were sent whole.
Whole == [i \in 1..Len(asked) |-> IF i \in cut THEN [kind |-> "nothing"] ELSE asked[i]]

OwedToWhole == FlattenSeq([i \in 1..Len(asked) |-> OwedTo(Whole[i])])

CommandsOf(item) == IF item.kind = "command" THEN <<item.command>> ELSE <<>>

CommandsOfWhole == FlattenSeq([i \in 1..Len(asked) |-> CommandsOf(Whole[i])])

\* Some of t, in its order, is s.
Subsequence(s, t) ==
  \E at \in [1..Len(s) -> 1..Len(t)] :
    /\ \A i, j \in 1..Len(s) : i < j => at[i] < at[j]
    /\ \A i \in 1..Len(s) : s[i] = t[at[i]]

\* All of `owed' was got in its order; and nothing else, unless the rest of a cut frame
\* was read as one.
Got(got, owed) == got = owed \/ (cut # {} /\ Subsequence(owed, got))

\* When nothing is under way the bike has heard what the requests it sent whole were
\* owed, in the order it asked and on the channel it used: no answer is lost or altered by
\* what shares its notification or by a frame cut before it, and every byte written
\* decodes to the intended message.
AnswersMatch == air = <<>> /\ replies = <<>> => Got(heard, OwedToWhole)

\* The commands sent whole were read, in their order and with their arguments.
CommandsMatch == air = <<>> => Got(commands, CommandsOfWhole)
=============================================================================
