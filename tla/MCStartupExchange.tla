------------------------- MODULE MCStartupExchange -------------------------
(***************************************************************************)
(* Instances of StartupExchange for TLC.  The addresses stand for their    *)
(* classes: with a value (0x4081), with an empty one (0x4082), writable    *)
(* (0x40A9), callable (0x409B), unknown (0x7FFF, the largest).             *)
(***************************************************************************)
EXTENDS StartupExchange

MCPayloads == [a \in {16513, 16514} |-> IF a = 16513 THEN <<8, 36>> ELSE <<>>]
MCWriteAddresses == {16553}
MCRpcAddresses == {16539}

MCRequests ==
  {[form |-> "directed", source |-> s[1], destination |-> d, type |-> t, sequence |-> s[2],
    status |-> SUCCESS, payload |-> <<>>] :
     s \in {<<1, 0>>, <<32640, 15>>}, d \in {16513, 16514, 16553, 16539, 32767},
     t \in {READ, WRITE, RPC, SUBSCRIBE, UNSUBSCRIBE}}

\* Messages of the bike that call for no answer.
MCSilent ==
  {[form |-> "notify", source |-> 16552, payload |-> <<1>>],
   [form |-> "directed", source |-> 16513, destination |-> 1, type |-> READ_RESPONSE,
    sequence |-> 3, status |-> UNSUPPORTED, payload |-> <<>>]}

MCMessages == {[kind |-> "message", channel |-> 1, message |-> m] : m \in MCRequests \cup MCSilent}

\* The last four bytes of the second advance would make a frame of their own.
MCCommands ==
  {[kind |-> "command", command |-> c] :
     c \in {[type |-> VERSION, arg |-> 3], [type |-> MAX_SEGMENTATION_PACKET, arg |-> 244],
            [type |-> ADVANCED_TRANSMIT_WINDOW, arg |-> 7, advance |-> 66052],
            [type |-> ADVANCED_TRANSMIT_WINDOW, arg |-> 1, advance |-> 131331],
            [type |-> DISABLE_FLOW_CONTROL, arg |-> 2]}}

\* Too short for a message; of an unknown type; an error response without its status
\* byte; an unknown command; a command for channel 8.
MCGarbage ==
  {[kind |-> "garbage", channel |-> 7, payload |-> <<1>>],
   [kind |-> "garbage", channel |-> 1, payload |-> <<64, 129, 0, 1, 176>>],
   [kind |-> "garbage", channel |-> 1, payload |-> <<64, 129, 0, 1, 16>>],
   [kind |-> "garbage", channel |-> 0, payload |-> <<9, 1>>],
   [kind |-> "garbage", channel |-> 0, payload |-> <<2, 8, 0, 0, 0, 1>>]}

MCItems == MCMessages \cup MCCommands \cup MCGarbage
=============================================================================
