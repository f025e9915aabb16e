---------------------------- MODULE Mgmt_proofs ----------------------------
(***************************************************************************)
(* The reader of mgmt.py reports the kernel's answer, for all events and   *)
(* all ways of cutting the bytes into chunks.                              *)
(***************************************************************************)
EXTENDS Mgmt, SequenceTheorems, TLAPS

\* Two bytes, low one first, read back as the number they were written from.
LEMMA Little2RoundTrip ==
  ASSUME NEW n \in TwoBytes
  PROVE  Low(n) \in Byte /\ High(n) \in Byte /\ Low(n) + 256 * High(n) = n
<1>1. n \in Nat /\ n < 65536
  BY DEF TwoBytes
<1>2. (n \div 256) \in 0..255 /\ (n % 256) \in 0..255 /\ (n % 256) + 256 * (n \div 256) = n
  BY <1>1, SMT
<1>. QED  BY <1>2 DEF Low, High, Byte

\* Six bytes and what follows them.
LEMMA SixAndMore ==
  ASSUME NEW a \in Byte, NEW b \in Byte, NEW c \in Byte, NEW d \in Byte, NEW x \in Byte,
         NEW y \in Byte, NEW rest \in Seq(Byte)
  PROVE  /\ <<a, b, c, d, x, y>> \o rest \in Seq(Byte)
         /\ Len(<<a, b, c, d, x, y>> \o rest) = 6 + Len(rest)
         /\ (<<a, b, c, d, x, y>> \o rest)[1] = a
         /\ (<<a, b, c, d, x, y>> \o rest)[2] = b
         /\ (<<a, b, c, d, x, y>> \o rest)[5] = x
         /\ (<<a, b, c, d, x, y>> \o rest)[6] = y
         /\ \A i \in 1..Len(rest) : (<<a, b, c, d, x, y>> \o rest)[6 + i] = rest[i]
<1>. DEFINE h == <<a, b, c, d, x, y>>
<1>1. h \in Seq(Byte)
  OBVIOUS
<1>2. Len(h) = 6 /\ h[1] = a /\ h[2] = b /\ h[5] = x /\ h[6] = y
  OBVIOUS
<1>. HIDE DEF h
<1>3. /\ h \o rest \in Seq(Byte) /\ Len(h \o rest) = Len(h) + Len(rest)
      /\ \A i \in 1..(Len(h) + Len(rest)) :
           (h \o rest)[i] = IF i <= Len(h) THEN h[i] ELSE rest[i - Len(h)]
  BY <1>1, ConcatProperties
<1>4. Len(rest) \in Nat /\ 6 + Len(rest) \in Nat
  BY LenProperties
<1>5. /\ (h \o rest)[1] = h[1] /\ (h \o rest)[2] = h[2] /\ (h \o rest)[5] = h[5]
      /\ (h \o rest)[6] = h[6]
  BY <1>2, <1>3, <1>4
<1>6. \A i \in 1..Len(rest) : (h \o rest)[6 + i] = rest[i]
  <2>. SUFFICES ASSUME NEW i \in 1..Len(rest) PROVE (h \o rest)[6 + i] = rest[i]
    OBVIOUS
  <2>1. 6 + i \in 1..(6 + Len(rest)) /\ ~(6 + i <= 6) /\ (6 + i) - 6 = i
    BY <1>4
  <2>. QED  BY <2>1, <1>2, <1>3
<1>. QED  BY <1>2, <1>3, <1>5, <1>6 DEF h

\* The layout of an encoded event.
LEMMA EncodeShape ==
  ASSUME NEW e \in Events
  PROVE  /\ e.payload \in Seq(Byte) /\ Len(e.payload) \in Nat
         /\ Encode(e) \in Seq(Byte) /\ Len(Encode(e)) = 6 + Len(e.payload)
         /\ FromLittle2(Encode(e), 1) = e.code
         /\ FromLittle2(Encode(e), 5) = Len(e.payload)
         /\ \A i \in 1..Len(e.payload) : Encode(e)[6 + i] = e.payload[i]
<1>1. /\ e.code \in TwoBytes /\ e.index \in TwoBytes
      /\ e.payload \in Seq(Byte) /\ Len(e.payload) \in TwoBytes /\ Len(e.payload) \in Nat
  BY MgmtAssumption DEF Event, TwoBytes
<1>2. /\ Low(e.code) \in Byte /\ High(e.code) \in Byte
      /\ Low(e.index) \in Byte /\ High(e.index) \in Byte
      /\ Low(Len(e.payload)) \in Byte /\ High(Len(e.payload)) \in Byte
      /\ Low(e.code) + 256 * High(e.code) = e.code
      /\ Low(Len(e.payload)) + 256 * High(Len(e.payload)) = Len(e.payload)
  BY <1>1, Little2RoundTrip
<1>3. /\ Encode(e) \in Seq(Byte) /\ Len(Encode(e)) = 6 + Len(e.payload)
      /\ Encode(e)[1] = Low(e.code) /\ Encode(e)[2] = High(e.code)
      /\ Encode(e)[5] = Low(Len(e.payload)) /\ Encode(e)[6] = High(Len(e.payload))
      /\ \A i \in 1..Len(e.payload) : Encode(e)[6 + i] = e.payload[i]
  BY <1>1, <1>2, SixAndMore DEF Encode, Header
<1>4. 1 + 1 = 2 /\ 5 + 1 = 6
  OBVIOUS
<1>. QED  BY <1>1, <1>2, <1>3, <1>4 DEF FromLittle2

\* Two sequences of the same elements are the same.
LEMMA SameSequence ==
  ASSUME NEW S, NEW s \in Seq(S), NEW t \in Seq(S), Len(s) = Len(t),
         \A i \in 1..Len(s) : s[i] = t[i]
  PROVE  s = t
OBVIOUS

\* A part of a sequence.
LEMMA Part ==
  ASSUME NEW S, NEW s \in Seq(S), NEW a \in Nat, NEW n \in Nat, a + n <= Len(s)
  PROVE  /\ SubSeq(s, a + 1, a + n) \in Seq(S) /\ Len(SubSeq(s, a + 1, a + n)) = n
         /\ \A i \in 1..n : SubSeq(s, a + 1, a + n)[i] = s[a + i]
OBVIOUS

\* What the reader decodes at its offset is the event that was sent from there.
LEMMA ReadsEvent ==
  ASSUME TypeOK, InStep, NEW e \in Events, SentAt(Cursor, e), offset + 6 <= Len(buf)
  PROVE  /\ EventEnd = offset + Len(Encode(e))
         /\ WholeEvent => EventCode = e.code /\ EventPayload = e.payload
<1>. DEFINE n == Len(e.payload)
<1>0. /\ e.payload \in Seq(Byte) /\ n \in Nat /\ Len(Encode(e)) = 6 + n
      /\ FromLittle2(Encode(e), 1) = e.code /\ FromLittle2(Encode(e), 5) = n
      /\ \A i \in 1..n : Encode(e)[6 + i] = e.payload[i]
  BY EncodeShape
<1>1. /\ buf \in Seq(Byte) /\ Len(buf) \in Nat /\ offset \in Nat /\ got \in Nat
      /\ got >= Len(buf)
  BY DEF TypeOK
<1>. HIDE DEF n
<1>2. \A i \in 1..(6 + n) : offset + i <= Len(buf) => buf[offset + i] = Encode(e)[i]
  <2>. SUFFICES ASSUME NEW i \in 1..(6 + n), offset + i <= Len(buf)
                PROVE  buf[offset + i] = Encode(e)[i]
    OBVIOUS
  <2>1. offset + i \in 1..Len(buf)
    BY <1>0, <1>1
  <2>2. buf[offset + i] = stream[got - Len(buf) + (offset + i)]
    BY <2>1 DEF InStep
  <2>3. stream[Cursor + i] = Encode(e)[i]
    BY <1>0 DEF SentAt
  <2>4. Cursor + i = got - Len(buf) + (offset + i)
    BY <1>0, <1>1 DEF Cursor
  <2>. QED  BY <2>2, <2>3, <2>4
<1>3. 1 \in 1..(6 + n) /\ 2 \in 1..(6 + n) /\ 5 \in 1..(6 + n) /\ 6 \in 1..(6 + n)
  BY <1>0
<1>4. /\ offset + 1 <= Len(buf) /\ offset + 2 <= Len(buf)
      /\ offset + 5 <= Len(buf) /\ offset + 6 <= Len(buf)
      /\ offset + 1 + 1 = offset + 2 /\ offset + 5 + 1 = offset + 6
  BY <1>1
<1>5. /\ buf[offset + 1] = Encode(e)[1] /\ buf[offset + 2] = Encode(e)[2]
      /\ buf[offset + 5] = Encode(e)[5] /\ buf[offset + 6] = Encode(e)[6]
  BY <1>2, <1>3, <1>4
<1>6. FromLittle2(buf, offset + 1) = e.code /\ FromLittle2(buf, offset + 5) = n
  <2>1. 1 + 1 = 2 /\ 5 + 1 = 6
    OBVIOUS
  <2>. QED  BY <1>0, <1>4, <1>5, <2>1 DEF FromLittle2
<1>7. EventEnd = offset + 6 + n /\ EventEnd = offset + Len(Encode(e))
  BY <1>0, <1>1, <1>6 DEF EventEnd
<1>8. ASSUME WholeEvent PROVE EventPayload = e.payload
  <2>1. offset + 6 + n <= Len(buf)
    BY <1>7, <1>8 DEF WholeEvent
  <2>2. /\ EventPayload \in Seq(Byte) /\ Len(EventPayload) = n
        /\ \A i \in 1..n : EventPayload[i] = buf[offset + 6 + i]
    <3>1. EventPayload = SubSeq(buf, (offset + 6) + 1, (offset + 6) + n)
      BY <1>0, <1>1, <1>7 DEF EventPayload
    <3>2. offset + 6 \in Nat /\ (offset + 6) + n <= Len(buf)
      BY <1>0, <1>1, <2>1
    <3>. QED  BY <1>0, <1>1, <3>1, <3>2, Part
  <2>3. \A i \in 1..n : EventPayload[i] = e.payload[i]
    <3>. SUFFICES ASSUME NEW i \in 1..n PROVE EventPayload[i] = e.payload[i]
      OBVIOUS
    <3>1. 6 + i \in 1..(6 + n) /\ offset + (6 + i) <= Len(buf)
          /\ offset + (6 + i) = offset + 6 + i
      BY <1>0, <1>1, <2>1
    <3>2. buf[offset + (6 + i)] = Encode(e)[6 + i]
      BY <1>2, <3>1
    <3>3. EventPayload[i] = buf[offset + (6 + i)]
      BY <2>2, <3>1
    <3>. QED  BY <1>0, <3>2, <3>3
  <2>4. Len(EventPayload) = Len(e.payload)
    BY <2>2 DEF n
  <2>. QED  BY <1>0, <2>2, <2>3, <2>4, SameSequence
<1>. QED  BY <1>6, <1>7, <1>8 DEF EventCode

(***************************************************************************)
(* The steps.                                                              *)
(***************************************************************************)
\* When the reader has not seen all the bytes, an event begins where it is.
LEMMA EventAhead ==
  ASSUME IInv, Cursor < Len(stream)
  PROVE  \E e \in Events :
           /\ SentAt(Cursor, e) /\ Cursor + Len(Encode(e)) \in Boundaries
           /\ \A q \in Boundaries : q <= Cursor \/ Cursor + Len(Encode(e)) <= q
           /\ Answers(e.code, e.payload) => e.payload[3] = answer
BY DEF IInv, InStep, Framed

\* The positions of the reader.
LEMMA Positions ==
  ASSUME TypeOK
  PROVE  /\ Len(buf) \in Nat /\ Len(stream) \in Nat /\ offset \in Nat /\ got \in Nat
         /\ Cursor \in Nat /\ Cursor <= got /\ got <= Len(stream) /\ offset <= Len(buf)
         /\ Len(buf) <= got /\ Boundaries \subseteq Nat
         /\ \A q \in Boundaries : q <= Len(stream)
<1>1. Len(buf) \in Nat /\ Len(stream) \in Nat
  BY LenProperties DEF TypeOK
<1>. QED  BY <1>1 DEF TypeOK, Cursor, Boundaries

\* A whole event at the reader is one that was sent.
LEMMA WholeEventSent ==
  ASSUME IInv, WholeEvent
  PROVE  \E e \in Events :
           /\ Cursor + Len(Encode(e)) \in Boundaries
           /\ \A q \in Boundaries : q <= Cursor \/ Cursor + Len(Encode(e)) <= q
           /\ Answers(e.code, e.payload) => e.payload[3] = answer
           /\ EventCode = e.code /\ EventPayload = e.payload
           /\ EventEnd = offset + Len(Encode(e)) /\ SentAt(Cursor, e)
<1>1. Cursor < Len(stream) /\ offset + 6 <= Len(buf)
  BY Positions DEF IInv, WholeEvent, Cursor
<1>2. PICK e \in Events :
         /\ SentAt(Cursor, e) /\ Cursor + Len(Encode(e)) \in Boundaries
         /\ \A q \in Boundaries : q <= Cursor \/ Cursor + Len(Encode(e)) <= q
         /\ Answers(e.code, e.payload) => e.payload[3] = answer
  BY <1>1, EventAhead
<1>3. /\ EventEnd = offset + Len(Encode(e))
      /\ EventCode = e.code /\ EventPayload = e.payload
  BY <1>1, <1>2, ReadsEvent DEF IInv
<1>. QED  BY <1>2, <1>3

\* Waiting with every byte in the buffer means that the buffer is empty.
LEMMA AllRead ==
  ASSUME IInv, pc = "receiving", got = Len(stream)
  PROVE  Cursor = Len(stream)
<1>. SUFFICES ASSUME Cursor < Len(stream) PROVE FALSE
  BY Positions DEF IInv
<1>1. PICK e \in Events : SentAt(Cursor, e)
  BY EventAhead
<1>2. offset = 0 /\ Len(Encode(e)) \in Nat /\ Len(Encode(e)) >= 6
  BY EncodeShape DEF IInv, TypeOK
<1>3. Cursor + Len(Encode(e)) <= got
  BY <1>1 DEF SentAt
<1>4. offset + Len(Encode(e)) <= Len(buf)
  BY <1>2, <1>3, Positions DEF Cursor, IInv
<1>5. offset + 6 <= Len(buf)
  BY <1>2, <1>4, Positions DEF IInv
<1>6. EventEnd = offset + Len(Encode(e))
  BY <1>1, <1>5, ReadsEvent DEF IInv
<1>. QED  BY <1>4, <1>5, <1>6 DEF IInv, Starved, WholeEvent

\* A time-out means that there was no answer to find.
LEMMA TimeoutStep == IInv /\ RecvTimesOut => IInv'
<1>. SUFFICES ASSUME IInv, RecvTimesOut PROVE IInv'
  OBVIOUS
<1>. USE DEF RecvTimesOut, End, Ended, readerVars, kernelVars
<1>1. answer = None
  <2>. SUFFICES ASSUME answer # None PROVE FALSE
    OBVIOUS
  <2>1. PICK p \in Boundaries, e \in Events : Cursor <= p /\ SentAt(p, e)
    BY DEF IInv, NotPassed
  <2>2. Len(Encode(e)) \in Nat /\ Len(Encode(e)) >= 6
    BY EncodeShape
  <2>3. Cursor = Len(stream)
    BY AllRead
  <2>. QED  BY <2>1, <2>2, <2>3, Positions DEF IInv, SentAt
<1>2. TypeOK'  BY DEF IInv, TypeOK, None
<1>3. Framed'  BY DEF IInv, Framed, Boundaries, SentAt
<1>4. InStep'  BY DEF IInv, InStep, Cursor, Boundaries
<1>5. NotPassed' /\ Starved'  BY DEF NotPassed, Starved
<1>6. AnswerIsReported'  BY <1>1 DEF AnswerIsReported
<1>. QED  BY <1>2, <1>3, <1>4, <1>5, <1>6 DEF IInv

\* The status reported is that of the event under the reader.
LEMMA ReportStep == IInv /\ Report => IInv'
<1>. SUFFICES ASSUME IInv, Report PROVE IInv'
  OBVIOUS
<1>. USE DEF Report, End, Ended, readerVars, kernelVars
<1>1. PICK e \in Events : /\ Answers(e.code, e.payload) => e.payload[3] = answer
                         /\ EventCode = e.code /\ EventPayload = e.payload
  BY WholeEventSent
<1>2. EventPayload[3] = answer /\ EventPayload[3] \in Byte
  <2>1. Answers(e.code, e.payload)
    BY <1>1
  <2>2. e.payload \in Seq(Byte) /\ Len(e.payload) \in Nat /\ 3 <= Len(e.payload)
    BY <2>1, EncodeShape DEF Answers
  <2>3. e.payload[3] \in Byte
    BY <2>2
  <2>. QED  BY <1>1, <2>1, <2>3
<1>3. TypeOK'  BY <1>2 DEF IInv, TypeOK
<1>4. Framed'  BY DEF IInv, Framed, Boundaries, SentAt
<1>5. InStep'  BY DEF IInv, InStep, Cursor, Boundaries
<1>6. NotPassed' /\ Starved'  BY DEF NotPassed, Starved
<1>7. AnswerIsReported'  BY <1>2 DEF AnswerIsReported
<1>. QED  BY <1>3, <1>4, <1>5, <1>6, <1>7 DEF IInv

\* An event that is not the answer is passed over whole.
LEMMA PassOverStep == IInv /\ PassOver => IInv'
<1>. SUFFICES ASSUME IInv, PassOver PROVE IInv'
  OBVIOUS
<1>. USE DEF PassOver, kernelVars
<1>1. PICK e \in Events :
         /\ Cursor + Len(Encode(e)) \in Boundaries
         /\ \A q \in Boundaries : q <= Cursor \/ Cursor + Len(Encode(e)) <= q
         /\ EventCode = e.code /\ EventPayload = e.payload
         /\ EventEnd = offset + Len(Encode(e)) /\ SentAt(Cursor, e)
  BY WholeEventSent
<1>2. Len(Encode(e)) \in Nat /\ Len(Encode(e)) >= 6
  BY EncodeShape
<1>3. offset' \in 0..Len(buf) /\ Cursor' = Cursor + Len(Encode(e)) /\ Cursor' \in Nat
  BY <1>1, <1>2, Positions DEF IInv, WholeEvent, Cursor
<1>4. TypeOK'  BY <1>3 DEF IInv, TypeOK
<1>5. Framed'  BY DEF IInv, Framed, Boundaries, SentAt
<1>6. InStep'  BY <1>1, <1>3 DEF IInv, InStep, Boundaries
<1>7. NotPassed'
  <2>. SUFFICES ASSUME answer # None
                PROVE  \E p \in Boundaries, f \in Events :
                         Cursor' <= p /\ SentAt(p, f) /\ Answers(f.code, f.payload)
    BY DEF NotPassed, Boundaries, SentAt
  <2>1. PICK p \in Boundaries, f \in Events :
           Cursor <= p /\ SentAt(p, f) /\ Answers(f.code, f.payload)
    BY DEF IInv, NotPassed
  <2>2. p # Cursor
    <3>. SUFFICES ASSUME p = Cursor PROVE FALSE
      OBVIOUS
    <3>1. offset + 6 <= Len(buf)
      BY DEF WholeEvent
    <3>2. EventCode = f.code /\ EventPayload = f.payload
      BY <2>1, <3>1, ReadsEvent DEF IInv
    <3>. QED  BY <2>1, <3>2
  <2>3. Cursor' <= p
    BY <1>1, <1>3, <2>1, <2>2, Positions DEF IInv
  <2>. QED  BY <2>1, <2>3
<1>8. Starved' /\ AnswerIsReported'  BY DEF IInv, Starved, AnswerIsReported
<1>. QED  BY <1>4, <1>5, <1>6, <1>7, <1>8 DEF IInv

\* What is cut off the buffer was passed over.
LEMMA KeepRestStep == IInv /\ KeepRest => IInv'
<1>. SUFFICES ASSUME IInv, KeepRest PROVE IInv'
  OBVIOUS
<1>. USE DEF KeepRest, kernelVars
<1>. DEFINE n == Len(buf) - offset
<1>1. n \in Nat /\ offset \in Nat /\ offset + n = Len(buf) /\ buf \in Seq(Byte)
  BY Positions DEF IInv, TypeOK
<1>2. /\ buf' \in Seq(Byte) /\ Len(buf') = n
      /\ \A i \in 1..n : buf'[i] = buf[offset + i]
  <2>1. buf' = SubSeq(buf, offset + 1, offset + n)
    BY <1>1
  <2>. HIDE DEF n, KeepRest
  <2>2. /\ SubSeq(buf, offset + 1, offset + n) \in Seq(Byte)
        /\ Len(SubSeq(buf, offset + 1, offset + n)) = n
        /\ \A i \in 1..n : SubSeq(buf, offset + 1, offset + n)[i] = buf[offset + i]
    BY <1>1, Part
  <2>. QED  BY <2>1, <2>2
<1>. HIDE DEF n
<1>3. got - n = got - Len(buf) + offset /\ Cursor' = Cursor /\ offset' = 0 /\ got' = got
  BY <1>1, <1>2, Positions DEF IInv, Cursor
<1>4. TypeOK'
  BY <1>1, <1>2, Positions DEF IInv, TypeOK
<1>5. Framed'  BY DEF IInv, Framed, Boundaries, SentAt
<1>6. InStep'
  <2>1. \A i \in 1..n : buf'[i] = stream[got - n + i]
    <3>. SUFFICES ASSUME NEW i \in 1..n PROVE buf'[i] = stream[got - n + i]
      OBVIOUS
    <3>1. offset + i \in 1..Len(buf)
      BY <1>1
    <3>2. buf[offset + i] = stream[got - Len(buf) + (offset + i)]
      BY <3>1 DEF IInv, InStep
    <3>3. got - Len(buf) + (offset + i) = got - n + i
      BY <1>1, <1>3, Positions DEF IInv
    <3>. QED  BY <1>2, <3>2, <3>3
  <2>. QED  BY <1>2, <1>3, <2>1 DEF IInv, InStep, Boundaries
<1>7. NotPassed'  BY <1>3 DEF IInv, NotPassed, Boundaries, SentAt
<1>8. Starved'
  <2>. SUFFICES ASSUME WholeEvent' PROVE FALSE
    BY DEF Starved
  <2>1. 6 <= n /\ EventEnd' <= n
    BY <1>2, <1>3 DEF WholeEvent
  <2>2. EventEnd' = 6 + FromLittle2(buf', 5)
    BY <1>1, <1>2, <1>3 DEF EventEnd
  <2>3. buf'[5] = buf[offset + 5] /\ buf'[6] = buf[offset + 6]
    BY <1>1, <1>2, <2>1
  <2>4. FromLittle2(buf', 5) = FromLittle2(buf, offset + 5)
    <3>1. 5 + 1 = 6 /\ offset + 5 + 1 = offset + 6
      BY <1>1
    <3>. QED  BY <2>3, <3>1 DEF FromLittle2
  <2>5. FromLittle2(buf, offset + 5) \in Int
    <3>1. offset + 5 \in 1..Len(buf) /\ offset + 5 + 1 \in 1..Len(buf)
      BY <1>1, <2>1
    <3>2. buf[offset + 5] \in Byte /\ buf[offset + 5 + 1] \in Byte
      BY <1>1, <3>1
    <3>. HIDE DEF KeepRest
    <3>3. \A a, b \in Byte : a + 256 * b \in Int
      BY DEF Byte
    <3>. QED  BY <3>2, <3>3 DEF FromLittle2
  <2>6. EventEnd = offset + 6 + FromLittle2(buf, offset + 5)
    BY DEF EventEnd
  <2>7. 6 + FromLittle2(buf, offset + 5) <= n
    BY <2>1, <2>2, <2>4
  <2>8. offset + 6 <= Len(buf) /\ EventEnd <= Len(buf)
    <3>. HIDE DEF KeepRest
    <3>. QED  BY <1>1, <2>1, <2>5, <2>6, <2>7
  <2>. QED  BY <2>8 DEF WholeEvent
<1>9. AnswerIsReported'  BY DEF IInv, AnswerIsReported
<1>. QED  BY <1>4, <1>5, <1>6, <1>7, <1>8, <1>9 DEF IInv

\* recv appends the next bytes.
LEMMA RecvStep == IInv /\ Recv => IInv'
<1>. SUFFICES ASSUME IInv, Recv PROVE IInv'
  OBVIOUS
<1>. USE DEF Recv, kernelVars
<1>1. PICK upto \in (got + 1)..Len(stream) :
         buf' = buf \o SubSeq(stream, got + 1, upto) /\ got' = upto
  OBVIOUS
<1>. DEFINE n == upto - got
            chunk == SubSeq(stream, got + 1, upto)
<1>2. n \in Nat /\ got \in Nat /\ got + n = upto /\ got + n <= Len(stream)
      /\ stream \in Seq(Byte) /\ buf \in Seq(Byte) /\ Len(buf) \in Nat
  BY Positions DEF IInv, TypeOK
<1>3. chunk \in Seq(Byte) /\ Len(chunk) = n /\ \A i \in 1..n : chunk[i] = stream[got + i]
  <2>1. chunk = SubSeq(stream, got + 1, got + n)
    BY <1>2
  <2>. QED  BY <1>2, <2>1, Part
<1>. HIDE DEF chunk, n
<1>4. buf' = buf \o chunk
  BY <1>1 DEF chunk
<1>5. /\ buf' \in Seq(Byte) /\ Len(buf') = Len(buf) + n
      /\ \A i \in 1..(Len(buf) + n) :
           buf'[i] = IF i <= Len(buf) THEN buf[i] ELSE chunk[i - Len(buf)]
  BY <1>2, <1>3, <1>4, ConcatProperties
<1>6. got' = got + n /\ got' - Len(buf') = got - Len(buf) /\ Cursor' = Cursor
  BY <1>1, <1>2, <1>5, Positions DEF IInv, Cursor
<1>7. TypeOK'
  BY <1>2, <1>5, <1>6, Positions DEF IInv, TypeOK
<1>8. Framed'  BY DEF IInv, Framed, Boundaries, SentAt
<1>9. InStep'
  <2>1. ASSUME NEW i \in 1..(Len(buf) + n)
        PROVE  buf'[i] = stream[got - Len(buf) + i]
    <3>1. CASE i <= Len(buf)
      <4>1. i \in 1..Len(buf)
        BY <1>2, <3>1
      <4>. QED  BY <1>5, <3>1, <4>1 DEF IInv, InStep
    <3>2. CASE ~(i <= Len(buf))
      <4>1. i - Len(buf) \in 1..n /\ got + (i - Len(buf)) = got - Len(buf) + i
        BY <1>2, <3>2
      <4>. QED  BY <1>3, <1>5, <3>2, <4>1
    <3>. QED  BY <3>1, <3>2
  <2>. QED  BY <1>5, <1>6, <2>1 DEF IInv, InStep, Boundaries
<1>10. NotPassed'  BY <1>6 DEF IInv, NotPassed, Boundaries, SentAt
<1>11. Starved' /\ AnswerIsReported'  BY DEF IInv, Starved, AnswerIsReported
<1>. QED  BY <1>7, <1>8, <1>9, <1>10, <1>11 DEF IInv

\* The kernel's events follow each other.
LEMMA KernelStep == IInv /\ KernelSends => IInv'
<1>. SUFFICES ASSUME IInv, KernelSends PROVE IInv'
  OBVIOUS
<1>. USE DEF readerVars
<1>1. PICK e \in Events :
         /\ pc \in {"sending", "receiving", "parsing"}
         /\ Answers(e.code, e.payload) => answer = None
         /\ stream' = stream \o Encode(e)
         /\ sends' = sends + 1 /\ ends' = ends \cup {Len(stream')}
         /\ answer' = IF Answers(e.code, e.payload) THEN e.payload[3] ELSE answer
         /\ UNCHANGED <<pc, outcome, readerVars>>
  BY DEF KernelSends
<1>0. PICK L \in Nat : L = Len(stream)
  BY Positions DEF IInv
<1>. DEFINE n == Len(Encode(e))
<1>2. /\ Encode(e) \in Seq(Byte) /\ n \in Nat /\ n >= 6 /\ stream \in Seq(Byte)
      /\ e.payload \in Seq(Byte) /\ Len(e.payload) \in Nat
  BY EncodeShape, Positions DEF IInv, TypeOK
<1>3. /\ stream' \in Seq(Byte) /\ Len(stream') = L + n
      /\ \A i \in 1..(L + n) : stream'[i] = IF i <= L THEN stream[i] ELSE Encode(e)[i - L]
  BY <1>0, <1>1, <1>2, ConcatProperties
<1>. HIDE DEF n
<1>4. Answers(e.code, e.payload) => e.payload[3] \in Byte
  BY <1>2 DEF Answers
<1>5. Boundaries' = Boundaries \cup {L + n}
  BY <1>1, <1>3 DEF Boundaries
<1>6. /\ L \in Boundaries /\ Boundaries \subseteq Nat /\ \A q \in Boundaries : q <= L
  BY <1>0, Positions DEF IInv, Framed
<1>7. /\ Cursor' = Cursor /\ Cursor \in Nat /\ Cursor <= got /\ got <= L
      /\ Len(buf) \in Nat /\ Len(buf) <= got /\ got \in Nat
  BY <1>0, <1>1, Positions DEF IInv, Cursor
<1>8. TypeOK'
  <2>1. got \in Len(buf)..(L + n)
    BY <1>2, <1>7
  <2>2. ends' \subseteq 1..(L + n)
    <3>1. ends \subseteq 1..L /\ ends' = ends \cup {L + n}
      BY <1>0, <1>1, <1>3 DEF IInv, TypeOK
    <3>2. 1..L \subseteq 1..(L + n) /\ L + n \in 1..(L + n)
      BY <1>2
    <3>. QED  BY <3>1, <3>2
  <2>3. answer' \in Byte \cup {None}
    BY <1>1, <1>4 DEF IInv, TypeOK
  <2>4. stream' \in Seq(Byte) /\ got' \in Len(buf')..Len(stream') /\ ends' \subseteq 1..Len(stream')
    BY <1>1, <1>3, <2>1, <2>2
  <2>5. sends' \in Nat
    BY <1>1 DEF IInv, TypeOK
  <2>. QED  BY <1>1, <2>3, <2>4, <2>5 DEF IInv, TypeOK
<1>9. SentAt(L, e)'
  <2>1. ASSUME NEW i \in 1..n PROVE stream'[L + i] = Encode(e)[i]
    <3>1. L + i \in 1..(L + n) /\ ~(L + i <= L) /\ (L + i) - L = i
      BY <1>2
    <3>. QED  BY <1>3, <3>1
  <2>2. L + Len(Encode(e)) <= Len(stream') /\ n = Len(Encode(e))
    BY <1>2, <1>3 DEF n
  <2>. QED  BY <2>1, <2>2 DEF SentAt
<1>10. ASSUME NEW p \in Boundaries, NEW f \in Events, SentAt(p, f)
       PROVE  SentAt(p, f)'
  <2>1. Len(Encode(f)) \in Nat /\ p \in Nat /\ p + Len(Encode(f)) <= L
    BY <1>0, <1>6, <1>10, EncodeShape DEF SentAt
  <2>2. ASSUME NEW i \in 1..Len(Encode(f)) PROVE stream'[p + i] = Encode(f)[i]
    <3>1. p + i \in 1..(L + n) /\ p + i <= L
      BY <1>2, <2>1
    <3>2. stream'[p + i] = stream[p + i]
      BY <1>3, <3>1
    <3>. QED  BY <1>10, <3>2 DEF SentAt
  <2>3. p + Len(Encode(f)) <= Len(stream')
    BY <1>2, <1>3, <2>1
  <2>. QED  BY <2>2, <2>3 DEF SentAt
<1>11. Framed'
  <2>1. ASSUME NEW p \in Boundaries', p < L + n
        PROVE  \E f \in Events :
                 /\ SentAt(p, f)' /\ p + Len(Encode(f)) \in Boundaries'
                 /\ \A q \in Boundaries' : q <= p \/ p + Len(Encode(f)) <= q
                 /\ Answers(f.code, f.payload) => f.payload[3] = answer'
    <3>1. p \in Boundaries /\ p \in Nat /\ p <= L
      BY <1>2, <1>5, <1>6, <2>1
    <3>2. CASE p = L
      <4>1. \A q \in Boundaries' : q <= p \/ p + n <= q
        BY <1>2, <1>5, <1>6, <3>2
      <4>2. p + n \in Boundaries'
        BY <1>5, <3>2
      <4>. QED  BY <1>1, <1>9, <3>2, <4>1, <4>2 DEF n
    <3>3. CASE p < L
      <4>1. PICK f \in Events :
               /\ SentAt(p, f) /\ p + Len(Encode(f)) \in Boundaries
               /\ \A q \in Boundaries : q <= p \/ p + Len(Encode(f)) <= q
               /\ Answers(f.code, f.payload) => f.payload[3] = answer
        BY <1>0, <3>1, <3>3 DEF IInv, Framed
      <4>2. SentAt(p, f)'
        BY <1>10, <3>1, <4>1
      <4>3. Len(Encode(f)) \in Nat /\ f.payload \in Seq(Byte)
        BY EncodeShape
      <4>4. \A q \in Boundaries' : q <= p \/ p + Len(Encode(f)) <= q
        BY <1>2, <1>5, <1>6, <3>1, <4>1, <4>3
      <4>5. Answers(f.code, f.payload) => f.payload[3] = answer'
        <5>. SUFFICES ASSUME Answers(f.code, f.payload) PROVE f.payload[3] = answer'
          OBVIOUS
        <5>1. 3 \in 1..Len(f.payload)
          BY EncodeShape DEF Answers
        <5>2. f.payload[3] \in Byte
          BY <4>3, <5>1
        <5>3. answer # None
          <6>1. answer \in Byte
            BY <4>1, <5>2
          <6>. QED  BY <6>1 DEF Byte, None
        <5>. QED  BY <1>1, <4>1, <5>3
      <4>. QED  BY <1>5, <4>1, <4>2, <4>4, <4>5
    <3>. QED  BY <1>2, <3>1, <3>2, <3>3
  <2>. QED  BY <1>3, <1>5, <2>1 DEF Framed
<1>12. InStep'
  <2>1. ASSUME NEW i \in 1..Len(buf) PROVE stream'[got - Len(buf) + i] = stream[got - Len(buf) + i]
    <3>1. got - Len(buf) + i \in 1..(L + n) /\ got - Len(buf) + i <= L
      BY <1>2, <1>7
    <3>. QED  BY <1>3, <3>1
  <2>. QED  BY <1>1, <1>5, <1>7, <2>1 DEF IInv, InStep
<1>13. NotPassed'
  <2>. SUFFICES ASSUME answer' # None
                PROVE  \E p \in Boundaries', f \in Events :
                         Cursor' <= p /\ SentAt(p, f)' /\ Answers(f.code, f.payload)
    BY DEF NotPassed
  <2>1. CASE Answers(e.code, e.payload)
    <3>1. L \in Boundaries' /\ Cursor' <= L
      BY <1>5, <1>6, <1>7
    <3>. QED  BY <1>9, <2>1, <3>1
  <2>2. CASE ~Answers(e.code, e.payload)
    <3>1. PICK p \in Boundaries, f \in Events :
             Cursor <= p /\ SentAt(p, f) /\ Answers(f.code, f.payload)
      BY <1>1, <2>2 DEF IInv, NotPassed
    <3>. QED  BY <1>5, <1>7, <1>10, <3>1
  <2>. QED  BY <2>1, <2>2
<1>14. Starved'  BY <1>1 DEF IInv, Starved, WholeEvent, EventEnd
<1>15. AnswerIsReported'
  <2>1. outcome.kind = "running" /\ outcome' = outcome
    BY <1>1 DEF IInv, TypeOK
  <2>. QED  BY <2>1 DEF AnswerIsReported
<1>. QED  BY <1>8, <1>11, <1>12, <1>13, <1>14, <1>15 DEF IInv

\* The steps that leave the reader and the kernel alone.
LEMMA OutsideStep ==
  ASSUME IInv, Bind \/ Send \/ SocketFails \/ UNCHANGED vars
  PROVE  IInv'
<1>. USE DEF Bind, Send, SocketFails, End, Ended, vars, readerVars, kernelVars
<1>1. TypeOK'
  <2>1. CASE Bind \/ Send  BY <2>1 DEF IInv, TypeOK
  <2>2. CASE SocketFails  BY <2>2 DEF IInv, TypeOK, None
  <2>3. CASE UNCHANGED vars  BY <2>3 DEF IInv, TypeOK
  <2>. QED  BY <2>1, <2>2, <2>3
<1>2. Framed'  BY DEF IInv, Framed, Boundaries, SentAt
<1>3. InStep'  BY DEF IInv, InStep, Cursor, Boundaries
<1>4. NotPassed'  BY DEF IInv, NotPassed, Cursor, Boundaries, SentAt
<1>5. AnswerIsReported'  BY DEF IInv, AnswerIsReported
<1>6. Starved'  BY DEF IInv, Starved, WholeEvent, EventEnd
<1>. QED  BY <1>1, <1>2, <1>3, <1>4, <1>5, <1>6 DEF IInv

\* The reader is in step with the kernel's events in every reachable state.
THEOREM Invariance == Spec => []IInv
<1>1. Init => IInv
  <2>. SUFFICES ASSUME Init PROVE IInv
    OBVIOUS
  <2>1. buf = <<>> /\ stream = <<>> /\ Len(buf) = 0 /\ Len(stream) = 0
    BY DEF Init
  <2>2. TypeOK
    <3>1. buf \in Seq(Byte) /\ stream \in Seq(Byte)
      BY <2>1
    <3>2. got \in Len(buf)..Len(stream) /\ offset \in 0..Len(buf) /\ ends \subseteq 1..Len(stream)
      BY <2>1 DEF Init
    <3>3. outcome \in [kind : {"running", "os_error", "permission", "timeout", "status"},
                       status : Byte \cup {None}]
      BY DEF Init, Running, Ended
    <3>4. outcome.kind = "running" /\ pc = "start"
      BY DEF Init, Running, Ended
    <3>. QED  BY <3>1, <3>2, <3>3, <3>4 DEF Init, TypeOK
  <2>3. Framed /\ InStep /\ NotPassed
    <3>1. Boundaries = {0} /\ Cursor = 0
      <4>1. Boundaries = {0}
        BY DEF Init, Boundaries
      <4>2. got = 0 /\ offset = 0
        BY DEF Init
      <4>3. Len(buf) = 0
        BY <2>1
      <4>4. Cursor = 0 - 0 + 0
        BY <4>2, <4>3, Zenon DEF Cursor
      <4>. QED  BY <4>1, <4>4
    <3>2. 1..Len(buf) = {}
      BY <2>1
    <3>3. Framed
      <4>1. Len(stream) = 0 /\ Boundaries = {0} /\ ~(0 < 0)
        BY <2>1, <3>1
      <4>. QED  BY <4>1 DEF Framed
    <3>4. InStep
      BY <3>1, <3>2 DEF InStep
    <3>5. NotPassed
      BY DEF Init, NotPassed
    <3>. QED  BY <3>3, <3>4, <3>5
  <2>4. Starved /\ AnswerIsReported
    BY <2>1 DEF Init, Starved, WholeEvent, AnswerIsReported, Running, Ended
  <2>. QED  BY <2>2, <2>3, <2>4 DEF IInv
<1>2. IInv /\ [Next]_vars => IInv'
  BY TimeoutStep, ReportStep, PassOverStep, KeepRestStep, RecvStep, KernelStep, OutsideStep
     DEF Next, Reader, Terminated
<1>. QED  BY <1>1, <1>2, PTL DEF Spec

\* The status reported is the kernel's, and a time-out is reported only when the kernel
\* has not answered, for all events and all ways of cutting them into chunks.
THEOREM ReportsTheAnswer == Spec => []AnswerIsReported
<1>1. IInv => AnswerIsReported
  BY DEF IInv
<1>. QED  BY <1>1, Invariance, PTL
=============================================================================
