----------------------------- MODULE MessageBus -----------------------------
(***************************************************************************)
(* The MessageBus codec of src/bosch_ble/messagebus.py and the responder   *)
(* to startup requests of src/bosch_ble/handshake.py.                      *)
(***************************************************************************)
EXTENDS Mcsp

CONSTANTS
  Payloads,         \* STARTUP_PROVIDER_PAYLOADS: a function from addresses to bytes
  WriteAddresses,   \* STARTUP_WRITE_ADDRESSES
  RpcAddresses      \* STARTUP_RPC_ADDRESSES

\* Addresses have fifteen bits: the sixteenth is the flag described below.
MaxAddress == 32767
Address == 0..MaxAddress

ASSUME ResponderAssumption ==
  /\ DOMAIN Payloads \subseteq Address
  /\ \A a \in DOMAIN Payloads : Payloads[a] \in Seq(Byte) /\ Len(Payloads[a]) + 5 <= MaxPayload
  /\ WriteAddresses \subseteq Address /\ RpcAddresses \subseteq Address

\* MessageType, by its codes; a response has the code after that of its request.
READ == 0
READ_RESPONSE == 1
WRITE == 2
WRITE_RESPONSE == 3
RPC == 4
RPC_RESPONSE == 5
SUBSCRIBE == 6
SUBSCRIBE_RESPONSE == 7
UNSUBSCRIBE == 8
UNSUBSCRIBE_RESPONSE == 9
NOTIFY == 10
ResponseTypes == {READ_RESPONSE, WRITE_RESPONSE, RPC_RESPONSE, SUBSCRIBE_RESPONSE,
                  UNSUBSCRIBE_RESPONSE}

SUCCESS == 0
UNSUPPORTED == 4
UNKNOWN_ERROR == 255
StatusCodes == 0..5 \cup {UNKNOWN_ERROR}
StatusFromByte(b) == IF b \in StatusCodes THEN b ELSE UNKNOWN_ERROR

Directed ==
  [form : {"directed"}, source : Address, destination : Address, type : READ..NOTIFY,
   sequence : 0..15, status : StatusCodes, payload : Seq(Byte)]
Notification == [form : {"notify"}, source : Address, payload : Seq(Byte)]
----------------------------------------------------------------------------
(***************************************************************************)
(* The codec.  The top bit of a message marks a notification; the top bit  *)
(* of the destination of a response marks success, and without it a status *)
(* byte follows the header.                                                *)
(***************************************************************************)
EncodeAddress(address, msb) ==
  <<((address \div 256) % 128) + (IF msb THEN 128 ELSE 0), address % 256>>

DecodeAddress(high, low) == (high % 128) * 256 + low

\* Does a status byte follow the header?
HasStatus(raw) == raw[5] \div 16 \in ResponseTypes /\ raw[3] < 128

DecodeDirected(raw) ==
  IF Len(raw) < 5 THEN Malformed
  ELSE IF raw[5] \div 16 \notin READ..NOTIFY THEN Malformed
  ELSE IF HasStatus(raw) /\ Len(raw) < 6 THEN Malformed
  ELSE Decoded([form        |-> "directed",
                source      |-> DecodeAddress(raw[1], raw[2]),
                destination |-> DecodeAddress(raw[3], raw[4]),
                type        |-> raw[5] \div 16,
                sequence    |-> raw[5] % 16,
                status      |-> IF HasStatus(raw) THEN StatusFromByte(raw[6]) ELSE SUCCESS,
                payload     |-> SubSeq(raw, IF HasStatus(raw) THEN 7 ELSE 6, Len(raw))])

DecodeMessage(raw) ==
  IF Len(raw) < 2 THEN Malformed
  ELSE IF raw[1] >= 128
  THEN Decoded([form |-> "notify", source |-> DecodeAddress(raw[1], raw[2]),
                payload |-> SubSeq(raw, 3, Len(raw))])
  ELSE DecodeDirected(raw)

\* Mutant: the top bit of the destination marks an error.
EncodeResponseFlagInverted(request, type, status, payload) ==
  EncodeAddress(request.destination, FALSE)
    \o EncodeAddress(request.source, status # SUCCESS)
    \o <<type * 16 + (request.sequence % 16)>>
    \o (IF status = SUCCESS THEN <<>> ELSE <<status>>)
    \o payload

EncodeResponse(request, type, status, payload) ==
  EncodeAddress(request.destination, FALSE)
    \o EncodeAddress(request.source, status = SUCCESS)
    \o <<type * 16 + (request.sequence % 16)>>
    \o (IF status = SUCCESS THEN <<>> ELSE <<status>>)
    \o payload

EncodeNotify(source, payload) == EncodeAddress(source, TRUE) \o payload
----------------------------------------------------------------------------
(***************************************************************************)
(* build_startup_response_packets.                                         *)
(***************************************************************************)
\* Which requests are answered with success, and with what payload.
Supported(request) ==
  \/ request.type \in {READ, SUBSCRIBE, UNSUBSCRIBE, WRITE} /\ request.destination \in DOMAIN Payloads
  \/ request.type = WRITE /\ request.destination \in WriteAddresses
  \/ request.type = RPC /\ request.destination \in RpcAddresses

ResponsePayload(request) ==
  IF request.type = READ /\ Supported(request) THEN Payloads[request.destination] ELSE <<>>

\* One response to each request, and the current value after a subscription.
Responses(request) ==
  IF request.form # "directed" THEN <<>>
  ELSE IF request.type \notin {READ, WRITE, RPC, SUBSCRIBE, UNSUBSCRIBE} THEN <<>>
  ELSE <<EncodeResponse(request, request.type + 1,
                        IF Supported(request) THEN SUCCESS ELSE UNSUPPORTED,
                        ResponsePayload(request))>>
       \o (IF request.type = SUBSCRIBE /\ Supported(request)
           THEN <<EncodeNotify(request.destination, Payloads[request.destination])>> ELSE <<>>)

\* The packets that answer a decoded message frame, on the channel it came on.
StartupResponsePackets(channel, message) ==
  LET responses == IF channel = COMMAND THEN <<>> ELSE Responses(message)
  IN [i \in 1..Len(responses) |->
        EncodeFrame([end |-> TRUE, channel |-> channel, payload |-> responses[i]])]
=============================================================================
