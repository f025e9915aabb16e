-------------------------------- MODULE Mgmt --------------------------------
(***************************************************************************)
(* load_connection_parameters of mgmt.py: one command to the kernel over a *)
(* management socket, and the search for its answer among the events that  *)
(* the kernel sends meanwhile, whatever pieces recv returns them in.       *)
(***************************************************************************)
EXTENDS Integers, Sequences

CONSTANTS Events,     \* the events the kernel may send
          MaxEvents   \* bound: how many it sends

Byte == 0..255
TwoBytes == {n \in Nat : n < 65536}
Event == [code : TwoBytes, index : TwoBytes, payload : Seq(Byte)]

ASSUME MgmtAssumption ==
  /\ Events \subseteq Event
  /\ \A e \in Events : Len(e.payload) \in TwoBytes
  /\ MaxEvents \in Nat

VARIABLES
  pc, outcome,      \* where the helper is, and how it ended
  buf, offset,      \* of receive_mgmt_response
  stream, got,      \* the bytes the kernel sent, and how many recv has returned
  sends, ends, answer   \* bound; history: where events end, the status it answered

kernelVars == <<stream, sends, ends, answer>>
readerVars == <<buf, offset, got>>
vars == <<pc, outcome, readerVars, kernelVars>>

LoadConnParam == 53   \* MGMT_OP_LOAD_CONN_PARAM
Complete == 1         \* MGMT_EV_CMD_COMPLETE
Status == 2           \* MGMT_EV_CMD_STATUS
None == -1
Ended(kind, status) == [kind |-> kind, status |-> status]
Running == Ended("running", None)

Init ==
  /\ pc = "start" /\ outcome = Running
  /\ buf = <<>> /\ offset = 0 /\ got = 0
  /\ stream = <<>> /\ sends = 0 /\ ends = {} /\ answer = None
----------------------------------------------------------------------------
Low(n) == n % 256
High(n) == n \div 256
FromLittle2(bytes, i) == bytes[i] + 256 * bytes[i + 1]

\* Three numbers of two bytes, the low byte first.
Header(e) == <<Low(e.code), High(e.code), Low(e.index), High(e.index),
               Low(Len(e.payload)), High(Len(e.payload))>>
Encode(e) == Header(e) \o e.payload

\* The event answers the command.
Answers(code, payload) ==
  code \in {Complete, Status} /\ Len(payload) >= 3 /\ FromLittle2(payload, 1) = LoadConnParam

\* The kernel sends an event to a bound socket, and the answer to the command once.
KernelSends ==
  \E e \in Events :
    /\ pc \in {"sending", "receiving", "parsing"} /\ sends < MaxEvents
    /\ Answers(e.code, e.payload) => pc # "sending" /\ answer = None
    /\ stream' = stream \o Encode(e)
    /\ sends' = sends + 1 /\ ends' = ends \cup {Len(stream')}
    /\ answer' = IF Answers(e.code, e.payload) THEN e.payload[3] ELSE answer
    /\ UNCHANGED <<pc, outcome, readerVars>>
----------------------------------------------------------------------------
End(kind, status) == pc' = "done" /\ outcome' = Ended(kind, status)

Bind == pc = "start" /\ pc' = "sending" /\ UNCHANGED <<outcome, readerVars, kernelVars>>

Send == pc = "sending" /\ pc' = "receiving" /\ UNCHANGED <<outcome, readerVars, kernelVars>>

\* socket or bind fails; or sendall does, with ENOMEM where the socket is not trusted.
SocketFails ==
  /\ \/ pc = "start" /\ End("os_error", None)
     \/ pc = "sending" /\ (End("permission", None) \/ End("os_error", None))
  /\ UNCHANGED <<readerVars, kernelVars>>

\* Five seconds without a byte: the time-out of each recv.
RecvTimesOut ==
  /\ pc = "receiving" /\ got = Len(stream)
  /\ End("timeout", None)
  /\ UNCHANGED <<readerVars, kernelVars>>

\* recv returns some of the bytes sent.  An empty chunk is asked for again.
Recv ==
  /\ pc = "receiving"
  /\ \E upto \in (got + 1)..Len(stream) :
       /\ buf' = buf \o SubSeq(stream, got + 1, upto) /\ got' = upto
  /\ pc' = "parsing"
  /\ UNCHANGED <<outcome, offset, kernelVars>>

EventEnd == offset + 6 + FromLittle2(buf, offset + 5)

\* Mutant: an event that ends the buffer is taken for an incomplete one.
WholeAndMore == offset + 6 <= Len(buf) /\ EventEnd < Len(buf)

\* The buffer holds the event at the offset to its end.
WholeEvent == offset + 6 <= Len(buf) /\ EventEnd <= Len(buf)

EventCode == FromLittle2(buf, offset + 1)
EventPayload == SubSeq(buf, offset + 7, EventEnd)

\* load_connection_parameters returns, or raises RuntimeError with the status.
Report ==
  /\ pc = "parsing" /\ WholeEvent /\ Answers(EventCode, EventPayload)
  /\ End("status", EventPayload[3])
  /\ UNCHANGED <<readerVars, kernelVars>>

PassOver ==
  /\ pc = "parsing" /\ WholeEvent /\ ~Answers(EventCode, EventPayload)
  /\ offset' = EventEnd
  /\ UNCHANGED <<pc, outcome, buf, got, kernelVars>>

\* Mutant: an incomplete event is dropped with the events before it.
KeepNothing ==
  /\ pc = "parsing" /\ ~WholeEvent
  /\ pc' = "receiving" /\ offset' = 0 /\ buf' = IF offset > 0 THEN <<>> ELSE buf
  /\ UNCHANGED <<outcome, got, kernelVars>>

\* The incomplete event is kept for the next chunk.
KeepRest ==
  /\ pc = "parsing" /\ ~WholeEvent
  /\ pc' = "receiving" /\ offset' = 0 /\ buf' = SubSeq(buf, offset + 1, Len(buf))
  /\ UNCHANGED <<outcome, got, kernelVars>>

Terminated == pc = "done" /\ UNCHANGED vars

Reader ==
  Bind \/ Send \/ SocketFails \/ RecvTimesOut \/ Recv \/ Report \/ PassOver \/ KeepRest

Next == Reader \/ KernelSends \/ Terminated

\* recv returns what there is or times out; the kernel owes nothing.
Spec == Init /\ [][Next]_vars /\ WF_vars(Reader)
----------------------------------------------------------------------------
(***************************************************************************)
(* Properties.                                                             *)
(***************************************************************************)
\* Every variable keeps its type, and what is buffered was received.
TypeOK ==
  /\ pc \in {"start", "sending", "receiving", "parsing", "done"}
  /\ outcome \in [kind : {"running", "os_error", "permission", "timeout", "status"},
                  status : Byte \cup {None}]
  /\ (outcome.kind = "running") = (pc # "done")
  /\ buf \in Seq(Byte) /\ offset \in 0..Len(buf)
  /\ stream \in Seq(Byte) /\ got \in Len(buf)..Len(stream)
  /\ sends \in Nat /\ ends \subseteq 1..Len(stream) /\ answer \in Byte \cup {None}
  /\ pc \notin {"parsing", "done"} => offset = 0

\* Whatever pieces the bytes arrive in, and whatever events surround or resemble the
\* answer, the status reported is the one the kernel answered, and the helper does not
\* report a time-out when the kernel has answered.
AnswerIsReported ==
  /\ outcome.kind = "status" => outcome.status = answer
  /\ outcome.kind = "timeout" => answer = None

\* Once the command is answered the helper ends, and does so with the answer.
AnswerEndsIt == (answer # None) ~> (outcome.kind = "status")
----------------------------------------------------------------------------
(***************************************************************************)
(* The inductive invariant.                                                *)
(***************************************************************************)
Boundaries == ends \cup {0}

\* The bytes of the event were sent from the position on.
SentAt(p, e) ==
  /\ p + Len(Encode(e)) <= Len(stream)
  /\ \A i \in 1..Len(Encode(e)) : stream[p + i] = Encode(e)[i]

\* The bytes sent are events, one behind the other.
Framed ==
  /\ Len(stream) \in Boundaries
  /\ \A p \in Boundaries : p < Len(stream) =>
       \E e \in Events :
         /\ SentAt(p, e) /\ p + Len(Encode(e)) \in Boundaries
         /\ \A q \in Boundaries : q <= p \/ p + Len(Encode(e)) <= q
         /\ Answers(e.code, e.payload) => e.payload[3] = answer

\* The position of the reader in the bytes sent.
Cursor == got - Len(buf) + offset

\* The buffer is the end of what was received, and the reader is between two events.
InStep ==
  /\ \A i \in 1..Len(buf) : buf[i] = stream[got - Len(buf) + i]
  /\ Cursor \in Boundaries

\* The answer does not lie behind the reader.
NotPassed ==
  answer # None /\ pc # "done" =>
    \E p \in Boundaries, e \in Events :
      Cursor <= p /\ SentAt(p, e) /\ Answers(e.code, e.payload)

\* Until more bytes come the buffer holds no whole event.
Starved == pc \in {"start", "sending", "receiving"} => ~WholeEvent

\* The reader never loses its place among the events, so it finds the answer whenever
\* there is one (the invariant that AnswerIsReported rests on).
IInv == TypeOK /\ Framed /\ InStep /\ NotPassed /\ Starved /\ AnswerIsReported
=============================================================================
