------------------------------ MODULE Packets ------------------------------
(***************************************************************************)
(* What travels through the send queue of a live MCSP session              *)
(* (src/bosch_ble/live.py).  The bytes of a packet do not matter to the    *)
(* session: what does is whether a packet belongs to the handshake         *)
(* response or answers a MessageBus startup request, and its rank among    *)
(* the packets of its kind.                                                *)
(***************************************************************************)
EXTENDS Naturals, Sequences

Packet == [kind : {"handshake", "startup"}, n : Nat]

\* The i-th packet that build_startup_response_packets produced in this session.
StartupReply(i) == [kind |-> "startup", n |-> i]

\* The i-th packet of the list that build_handshake_response returns.
HandshakePacket(i) == [kind |-> "handshake", n |-> i]

\* The None that stop() queues to make the writer return.
CloseMarker == [kind |-> "close", n |-> 0]

\* The startup replies first..last, in the order they were produced.
StartupReplies(first, last) ==
  [i \in 1..(last - first + 1) |-> StartupReply(first + i - 1)]
=============================================================================
