------------------------- MODULE LiveSession_proofs -------------------------
(***************************************************************************)
(* Safety of a live session, with and without a display, for every set of  *)
(* channels, every set of notifications and every bound.                   *)
(***************************************************************************)
EXTENDS Dashboard, Recursion_proofs, FiniteSetTheorems, SequenceTheorems, TLAPS

(***************************************************************************)
(* What the operators of the module return.                                *)
(***************************************************************************)
\* The handshake response is a sequence of handshake packets.
LEMMA ResponseType ==
  /\ HandshakeLength \in Nat
  /\ HandshakeResponse \in Seq(Packet)
  /\ Len(HandshakeResponse) = HandshakeLength
  /\ \A i \in 1..HandshakeLength : HandshakeResponse[i].kind = "handshake"
<1>1. IsFiniteSet(NonCommandChannels)
  BY SessionAssumption, FS_Subset DEF NonCommandChannels
<1>2. HandshakeLength \in Nat
  BY <1>1, FS_CardinalityType DEF HandshakeLength
<1>3. \A i \in 1..HandshakeLength : HandshakePacket(i) \in Packet
  BY <1>2 DEF HandshakePacket, Packet
<1>4. HandshakeResponse \in [1..HandshakeLength -> Packet]
  BY <1>3 DEF HandshakeResponse
<1>5. HandshakeResponse \in Seq(Packet) /\ Len(HandshakeResponse) = HandshakeLength
  BY <1>2, <1>4
<1>. QED  BY <1>2, <1>5 DEF HandshakeResponse, HandshakePacket

\* Startup replies are a sequence of startup packets, one for each rank.
LEMMA RepliesType ==
  ASSUME NEW first \in Nat, NEW count \in Nat
  PROVE  /\ StartupReplies(first + 1, first + count) \in Seq(Packet)
         /\ Len(StartupReplies(first + 1, first + count)) = count
         /\ \A i \in 1..count :
              StartupReplies(first + 1, first + count)[i].kind = "startup"
<1>. DEFINE s == StartupReplies(first + 1, first + count)
            e(i) == StartupReply(first + 1 + i - 1)
<1>1. first + count - (first + 1) + 1 = count
  OBVIOUS
<1>2. \A i \in 1..count : first + 1 + i - 1 \in Nat
  OBVIOUS
<1>3. \A i \in 1..count : e(i) \in Packet /\ e(i).kind = "startup"
  BY <1>2 DEF StartupReply, Packet
<1>4. s = [i \in 1..count |-> e(i)]
  BY <1>1 DEF StartupReplies
<1>5. \A i \in 1..count : s[i] = e(i)
  BY <1>4, Zenon
<1>6. \A i \in 1..count : s[i] \in Packet /\ s[i].kind = "startup"
  BY <1>3, <1>5, Zenon
<1>. HIDE DEF e
<1>7. s \in [1..count -> Packet]
  BY <1>3, <1>4, Zenon
<1>8. s \in Seq(Packet) /\ Len(s) = count
  BY <1>7
<1>. QED  BY <1>6, <1>8

\* A notification calls for finitely many replies.
LEMMA ReplyCountType ==
  ASSUME NEW frames \in Seq(Frame)
  PROVE  ReplyCount(frames) \in Nat
<1>. DEFINE All == (1..Len(frames)) \X (1..MaxReplies)
            Some == {r \in Handled(frames) \X (1..MaxReplies) : r[2] <= frames[r[1]].replies}
<1>1. Len(frames) \in Int /\ MaxReplies \in Int /\ 1 \in Int
  BY LenProperties DEF MaxReplies
<1>2. IsFiniteSet(1..Len(frames)) /\ IsFiniteSet(1..MaxReplies)
  BY <1>1, FS_Interval
<1>3. IsFiniteSet(All)
  BY <1>2, FS_Product
<1>4. Handled(frames) \subseteq 1..Len(frames)
  BY DEF Handled
<1>5. Some \in SUBSET All
  BY <1>4
<1>6. IsFiniteSet(Some)
  BY <1>3, <1>5, FS_Subset
<1>7. Cardinality(Some) \in Nat
  BY <1>6, FS_CardinalityType
<1>. QED  BY <1>7 DEF ReplyCount

\* What a notification decodes to is commands.
LEMMA DecodedType ==
  ASSUME NEW frames \in Seq(Frame)
  PROVE  DecodedCommands(frames) \subseteq Command
<1>1. \A i \in 1..Len(frames) : frames[i] \in Frame
  BY ElementOfSeq
<1>2. \A i \in 1..Len(frames) : frames[i].command \in Command \cup {NoCommand}
  BY <1>1 DEF Frame
<1>3. Handled(frames) \subseteq 1..Len(frames)
  BY DEF Handled
<1>. QED  BY <1>2, <1>3 DEF DecodedCommands

\* The head and the tail of a queue that is not empty.
LEMMA QueueParts ==
  ASSUME NEW S, NEW q \in Seq(S), q # <<>>
  PROVE  /\ Head(q) \in S /\ Head(q) = q[1] /\ Len(q) \in Nat /\ 1 \in 1..Len(q)
         /\ Tail(q) \in Seq(S) /\ Len(Tail(q)) = Len(q) - 1
         /\ \A i \in 1..Len(Tail(q)) : Tail(q)[i] = q[i + 1] /\ i + 1 \in 1..Len(q)
OBVIOUS

\* An element of a concatenation is one of its first or of its second part.
LEMMA ConcatElement ==
  ASSUME NEW S, NEW s \in Seq(S), NEW t \in Seq(S)
  PROVE  \A i \in 1..Len(s \o t) :
           \/ i \in 1..Len(s) /\ (s \o t)[i] = s[i]
           \/ i > Len(s) /\ i - Len(s) \in 1..Len(t) /\ (s \o t)[i] = t[i - Len(s)]
<1>1. Len(s) \in Nat /\ Len(t) \in Nat /\ Len(s \o t) = Len(s) + Len(t)
  BY LenProperties, ConcatProperties
<1>2. \A i \in 1..(Len(s) + Len(t)) :
        (s \o t)[i] = IF i <= Len(s) THEN s[i] ELSE t[i - Len(s)]
  BY ConcatProperties
<1>. DEFINE m == Len(s)
            n == Len(t)
<1>3. m \in Nat /\ n \in Nat /\ Len(s \o t) = m + n
  BY <1>1
<1>. HIDE DEF m, n
<1>4. ASSUME NEW i \in 1..(m + n)
      PROVE  \/ i \in 1..m /\ (s \o t)[i] = s[i]
             \/ i > m /\ i - m \in 1..n /\ (s \o t)[i] = t[i - m]
  <2>1. CASE i <= m
    <3>1. i \in 1..m  BY <1>3, <2>1
    <3>. QED  BY <1>2, <2>1, <3>1 DEF m, n
  <2>2. CASE ~(i <= m)
    <3>1. i > m /\ i - m \in 1..n  BY <1>3, <2>2
    <3>. QED  BY <1>2, <2>2, <3>1 DEF m, n
  <2>. QED  BY <2>1, <2>2
<1>. QED  BY <1>3, <1>4 DEF m, n

\* The close marker is not a packet.
LEMMA CloseMarkerIsNoPacket == CloseMarker \notin Packet
BY DEF CloseMarker, Packet

(***************************************************************************)
(* The initial states and the steps preserve IInv.                         *)
(***************************************************************************)
\* A session starts with nothing queued, pending or written.
LEMMA InitIInv == Init => IInv
<1>. SUFFICES ASSUME Init PROVE IInv
  OBVIOUS
<1>a. queue = <<>> /\ queue \in Seq(Packet \cup {CloseMarker}) /\ Len(queue) = 0
  BY DEF Init
<1>b. pending \in Seq(Packet) /\ sent \in Seq(Packet)
  BY DEF Init
<1>c. notified \in 0..MaxNotifications /\ replies \in Nat
  BY SessionAssumption DEF Init
<1>d. unfinished = Len(queue) + (IF wpc = "writing" THEN 1 ELSE 0)
  BY <1>a DEF Init
<1>e. inflight \in Packet \cup {Nothing}
  BY DEF Init
<1>f. commands \in SUBSET Command
  BY DEF Init
<1>1. TypeOK
  BY <1>a, <1>b, <1>c, <1>d, <1>e, <1>f DEF Init, TypeOK
<1>2. WritesPackets /\ Phases /\ StopJoins
  BY DEF Init, WritesPackets, Phases, StopJoins
<1>3. HandshakeFirst /\ StartupAfterHandshake
  BY DEF Init, HandshakeFirst, StartupAfterHandshake
<1>. QED  BY <1>1, <1>2, <1>3 DEF IInv

(***************************************************************************)
(* A step that writes, queues and defers nothing keeps the order of the    *)
(* packets.                                                                *)
(***************************************************************************)
LEMMA OrderFrame ==
  ASSUME HandshakeFirst, StartupAfterHandshake, WritesPackets,
         UNCHANGED <<queue, pending, sent, inflight>>, wpc' = "writing" => wpc = "writing"
  PROVE  HandshakeFirst' /\ StartupAfterHandshake' /\ WritesPackets'
BY DEF HandshakeFirst, StartupAfterHandshake, WritesPackets

\* The steps of the main task that leave the queue alone.
LEMMA QuietMainStep ==
  ASSUME IInv,
         \/ Start \/ Subscribe \/ StartNotifyReturns \/ StartNotifyRaises
         \/ HandshakeTimeout \/ HoldEnds \/ StopNotifyReturns \/ StopNotifyRaises
         \/ JoinStarts \/ CloseReturns \/ RunCancels \/ Signal \/ Disconnect
         \/ NotifyMalformed
  PROVE  IInv'
<1>. USE DEF IInv
<1>. USE DEF queueVars, startupVars, detectVars, writerVars, mainVars, clientVars,
             otherVars, mainFrame
<1>1. CASE Start
  <2>a. unfinished' = Len(queue') + (IF wpc' = "writing" THEN 1 ELSE 0)
    BY <1>1 DEF Start, TypeOK, Phases
  <2>1. TypeOK'  BY <1>1, <2>a DEF Start, TypeOK
  <2>2. Phases'  BY <1>1 DEF Start, Phases, TypeOK
  <2>3. StopJoins'  BY <1>1 DEF Start, StopJoins
  <2>4. HandshakeFirst' /\ StartupAfterHandshake' /\ WritesPackets'
    BY <1>1, OrderFrame DEF Start
  <2>. QED  BY <2>1, <2>2, <2>3, <2>4
<1>2. CASE Subscribe
  <2>1. TypeOK'  BY <1>2 DEF Subscribe, TypeOK
  <2>2. Phases'  BY <1>2 DEF Subscribe, Phases
  <2>3. StopJoins'  BY <1>2 DEF Subscribe, StopJoins, WriterEnded
  <2>4. HandshakeFirst' /\ StartupAfterHandshake' /\ WritesPackets'
    BY <1>2, OrderFrame DEF Subscribe
  <2>. QED  BY <2>1, <2>2, <2>3, <2>4
<1>3. CASE StartNotifyReturns
  <2>1. TypeOK'  BY <1>3 DEF StartNotifyReturns, TypeOK
  <2>2. Phases'  BY <1>3 DEF StartNotifyReturns, Phases
  <2>3. StopJoins'  BY <1>3 DEF StartNotifyReturns, StopJoins, WriterEnded
  <2>4. HandshakeFirst' /\ StartupAfterHandshake' /\ WritesPackets'
    BY <1>3, OrderFrame DEF StartNotifyReturns
  <2>. QED  BY <2>1, <2>2, <2>3, <2>4
<1>4. CASE StartNotifyRaises
  <2>a. subscribed' \in BOOLEAN  BY <1>4 DEF StartNotifyRaises
  <2>1. TypeOK'  BY <1>4, <2>a DEF StartNotifyRaises, TypeOK
  <2>2. Phases'  BY <1>4 DEF StartNotifyRaises, Phases
  <2>3. StopJoins'  BY <1>4 DEF StartNotifyRaises, StopJoins, WriterEnded
  <2>4. HandshakeFirst' /\ StartupAfterHandshake' /\ WritesPackets'
    BY <1>4, OrderFrame DEF StartNotifyRaises
  <2>. QED  BY <2>1, <2>2, <2>3, <2>4
<1>5. CASE HandshakeTimeout
  <2>1. TypeOK'  BY <1>5 DEF HandshakeTimeout, TypeOK
  <2>2. Phases'  BY <1>5 DEF HandshakeTimeout, Phases
  <2>3. StopJoins'  BY <1>5 DEF HandshakeTimeout, StopJoins, WriterEnded
  <2>4. HandshakeFirst' /\ StartupAfterHandshake' /\ WritesPackets'
    BY <1>5, OrderFrame DEF HandshakeTimeout
  <2>. QED  BY <2>1, <2>2, <2>3, <2>4
<1>6. CASE HoldEnds
  <2>1. TypeOK'  BY <1>6 DEF HoldEnds, TypeOK
  <2>2. Phases'  BY <1>6 DEF HoldEnds, Phases
  <2>3. StopJoins'  BY <1>6 DEF HoldEnds, StopJoins, WriterEnded
  <2>4. HandshakeFirst' /\ StartupAfterHandshake' /\ WritesPackets'
    BY <1>6, OrderFrame DEF HoldEnds
  <2>. QED  BY <2>1, <2>2, <2>3, <2>4
<1>7. CASE StopNotifyReturns
  <2>a. subscribed' \in BOOLEAN  BY <1>7 DEF StopNotifyReturns
  <2>1. TypeOK'  BY <1>7, <2>a DEF StopNotifyReturns, TypeOK
  <2>2. Phases'  BY <1>7 DEF StopNotifyReturns, Phases
  <2>3. StopJoins'  BY <1>7 DEF StopNotifyReturns, StopJoins, WriterEnded
  <2>4. HandshakeFirst' /\ StartupAfterHandshake' /\ WritesPackets'
    BY <1>7, OrderFrame DEF StopNotifyReturns
  <2>. QED  BY <2>1, <2>2, <2>3, <2>4
<1>8. CASE StopNotifyRaises
  <2>1. TypeOK'  BY <1>8 DEF StopNotifyRaises, TypeOK
  <2>2. Phases'  BY <1>8 DEF StopNotifyRaises, Phases
  <2>3. StopJoins'  BY <1>8 DEF StopNotifyRaises, StopJoins, WriterEnded
  <2>4. HandshakeFirst' /\ StartupAfterHandshake' /\ WritesPackets'
    BY <1>8, OrderFrame DEF StopNotifyRaises
  <2>. QED  BY <2>1, <2>2, <2>3, <2>4
<1>9. CASE JoinStarts
  <2>1. TypeOK'  BY <1>9 DEF JoinStarts, TypeOK
  <2>2. Phases'  BY <1>9 DEF JoinStarts, Phases
  <2>3. StopJoins'  BY <1>9 DEF JoinStarts, StopJoins, WriterEnded
  <2>4. HandshakeFirst' /\ StartupAfterHandshake' /\ WritesPackets'
    BY <1>9, OrderFrame DEF JoinStarts
  <2>. QED  BY <2>1, <2>2, <2>3, <2>4
<1>10. CASE CloseReturns
  <2>1. TypeOK'  BY <1>10 DEF CloseReturns, TypeOK, Finish, WriterEnded
  <2>2. Phases'  BY <1>10 DEF CloseReturns, Phases, Finish, WriterEnded
  <2>3. StopJoins'  BY <1>10 DEF CloseReturns, StopJoins, WriterEnded, Finish
  <2>4. HandshakeFirst' /\ StartupAfterHandshake' /\ WritesPackets'
    BY <1>10, OrderFrame DEF CloseReturns, Finish, WriterEnded
  <2>. QED  BY <2>1, <2>2, <2>3, <2>4
<1>11. CASE RunCancels
  <2>1. TypeOK'  BY <1>11 DEF RunCancels, TypeOK, WriterEnded
  <2>2. Phases'  BY <1>11 DEF RunCancels, Phases, WriterEnded
  <2>3. StopJoins'  BY <1>11 DEF RunCancels, StopJoins, WriterEnded
  <2>4. HandshakeFirst' /\ StartupAfterHandshake' /\ WritesPackets'
    BY <1>11, OrderFrame DEF RunCancels, WriterEnded
  <2>. QED  BY <2>1, <2>2, <2>3, <2>4
<1>12. CASE Signal
  <2>1. TypeOK'  BY <1>12 DEF Signal, TypeOK
  <2>2. Phases'  BY <1>12 DEF Signal, Phases
  <2>3. StopJoins'  BY <1>12 DEF Signal, StopJoins, WriterEnded
  <2>4. HandshakeFirst' /\ StartupAfterHandshake' /\ WritesPackets'
    BY <1>12, OrderFrame DEF Signal
  <2>. QED  BY <2>1, <2>2, <2>3, <2>4
<1>13. CASE Disconnect
  <2>a. link' \in BOOLEAN  BY <1>13 DEF Disconnect
  <2>1. TypeOK'  BY <1>13, <2>a DEF Disconnect, TypeOK
  <2>2. Phases'  BY <1>13 DEF Disconnect, Phases
  <2>3. StopJoins'  BY <1>13 DEF Disconnect, StopJoins, WriterEnded
  <2>4. HandshakeFirst' /\ StartupAfterHandshake' /\ WritesPackets'
    BY <1>13, OrderFrame DEF Disconnect
  <2>. QED  BY <2>1, <2>2, <2>3, <2>4
<1>14. CASE NotifyMalformed
  <2>a. notified' \in 0..MaxNotifications
    BY <1>14, SessionAssumption DEF NotifyMalformed, TypeOK
  <2>1. TypeOK'  BY <1>14, <2>a DEF NotifyMalformed, TypeOK
  <2>2. Phases'  BY <1>14 DEF NotifyMalformed, Phases
  <2>3. StopJoins'  BY <1>14 DEF NotifyMalformed, StopJoins, WriterEnded
  <2>4. HandshakeFirst' /\ StartupAfterHandshake' /\ WritesPackets'
    BY <1>14, OrderFrame DEF NotifyMalformed
  <2>. QED  BY <2>1, <2>2, <2>3, <2>4
<1>. QED  BY <1>1, <1>2, <1>3, <1>4, <1>5, <1>6, <1>7, <1>8, <1>9, <1>10, <1>11, <1>12, <1>13, <1>14

(***************************************************************************)
(* The writer.                                                             *)
(***************************************************************************)
\* A write that raises drops its packet and leaves the order of the others.
LEMMA WriteRaisesStep == IInv /\ WriteRaises => IInv'
<1>. SUFFICES ASSUME IInv, WriteRaises PROVE IInv'
  OBVIOUS
<1>. USE DEF IInv, writerFrame, startupVars, detectVars, clientVars, otherVars
<1>1. TypeOK'
  <2>1. unfinished' = Len(queue') + (IF wpc' = "writing" THEN 1 ELSE 0)
    <3>1. Len(queue) \in Nat  BY LenProperties DEF TypeOK
    <3>. QED  BY <3>1 DEF WriteRaises, TypeOK
  <2>2. join' \in {"none", "created", "waiting", "done", "cancelled"}
    BY DEF WriteRaises, ReleaseJoin, TypeOK
  <2>. QED  BY <2>1, <2>2 DEF WriteRaises, TypeOK
<1>2. Phases'  BY DEF WriteRaises, Phases
<1>3. StopJoins'  BY DEF WriteRaises, Phases, StopJoins, WriterEnded
<1>4. HandshakeFirst' /\ StartupAfterHandshake' /\ WritesPackets'
  BY OrderFrame DEF WriteRaises
<1>. QED  BY <1>1, <1>2, <1>3, <1>4

\* A turn of the writer's loop, after a wait or after a write: what was at the head
\* of the queue is now being written, and what was being written is written.
LEMMA TurnStep ==
  ASSUME IInv, NEW done \in {0, 1}, WriterLoop(done), ReleaseJoin, UNCHANGED writerFrame,
         \/ done = 0 /\ wpc = "get" /\ queue # <<>> /\ UNCHANGED sent
         \/ done = 1 /\ wpc = "writing" /\ sent' = Append(sent, inflight)
  PROVE  IInv'
<1>. USE DEF IInv, writerFrame, startupVars, detectVars, clientVars, otherVars
<1>1. queue \in Seq(Packet \cup {CloseMarker}) /\ sent \in Seq(Packet)
  BY DEF TypeOK
<1>2. wpc = "writing" => inflight \in Packet
  BY DEF WritesPackets
<1>3. /\ sent' \in Seq(Packet) /\ Len(sent) \in Nat
      /\ \/ sent' = sent
         \/ /\ wpc = "writing" /\ Len(sent') = Len(sent) + 1
            /\ sent'[Len(sent) + 1] = inflight
            /\ \A i \in 1..Len(sent) : sent'[i] = sent[i]
  <2>1. Len(sent) \in Nat  BY <1>1, LenProperties
  <2>2. CASE done = 0
    <3>1. sent' = sent  BY <2>2
    <3>. QED  BY <1>1, <2>1, <3>1, Zenon
  <2>3. CASE done = 1
    <3>1. wpc = "writing" /\ sent' = Append(sent, inflight)  BY <2>3
    <3>2. inflight \in Packet  BY <1>2, <3>1, Zenon
    <3>. HIDE DEF IInv
    <3>. QED  BY <1>1, <2>1, <3>1, <3>2, AppendProperties
  <2>. QED  BY <2>2, <2>3
<1>4. /\ Len(queue) \in Nat
      /\ queue # <<>> =>
           /\ Head(queue) \in Packet \cup {CloseMarker} /\ Head(queue) = queue[1]
           /\ 1 \in 1..Len(queue)
           /\ Tail(queue) \in Seq(Packet \cup {CloseMarker})
           /\ Len(Tail(queue)) = Len(queue) - 1
           /\ \A i \in 1..Len(Tail(queue)) :
                Tail(queue)[i] = queue[i + 1] /\ i + 1 \in 1..Len(queue)
  BY <1>1, QueueParts, LenProperties
<1>5. \/ /\ queue = <<>> /\ wpc' = "get" /\ queue' = queue
         /\ inflight' = Nothing /\ unfinished' = unfinished - done
      \/ /\ queue # <<>> /\ Head(queue) \in Packet /\ wpc' = "writing"
         /\ inflight' = Head(queue) /\ queue' = Tail(queue)
         /\ unfinished' = unfinished - done
      \/ /\ queue # <<>> /\ Head(queue) = CloseMarker /\ wpc' = "returned"
         /\ inflight' = Nothing /\ queue' = Tail(queue)
         /\ unfinished' = unfinished - done - 1
  BY <1>4 DEF WriterLoop
<1>6. TypeOK'
  <2>1. queue' \in Seq(Packet \cup {CloseMarker}) /\ inflight' \in Packet \cup {Nothing}
    BY <1>1, <1>4, <1>5
  <2>2. Len(queue') = IF queue = <<>> THEN 0 ELSE Len(queue) - 1
    BY <1>4, <1>5
  <2>3. unfinished = Len(queue) + done
    BY DEF TypeOK
  <2>4. unfinished' = Len(queue') + (IF wpc' = "writing" THEN 1 ELSE 0)
    <3>1. CASE queue = <<>>
      BY <1>5, <2>2, <2>3, <3>1, EmptySeq
    <3>2. CASE queue # <<>>
      BY <1>4, <1>5, <2>2, <2>3, <3>2
    <3>. QED  BY <3>1, <3>2
  <2>5. join' \in {"none", "created", "waiting", "done", "cancelled"}
    BY DEF ReleaseJoin, TypeOK
  <2>6. wpc' \in {"get", "writing", "returned"}
    BY <1>5
  <2>. QED  BY <1>3, <2>1, <2>4, <2>5, <2>6 DEF TypeOK
<1>7. WritesPackets'
  BY <1>5 DEF WritesPackets
<1>8. Phases'
  <2>1. ~startupReady => done = 0 /\ queue # <<>> /\ Head(queue) = CloseMarker
    BY <1>4 DEF Phases
  <2>2. ~startupReady => sent' = <<>> /\ wpc' = "returned"
    BY <1>5, <2>1, CloseMarkerIsNoPacket DEF Phases
  <2>3. ~startupReady => \A i \in 1..Len(queue') : queue'[i] = CloseMarker
    BY <1>4, <1>5, <2>1 DEF Phases
  <2>4. queue = <<>> => queue' = <<>>
    BY <1>5
  <2>. QED  BY <2>2, <2>3, <2>4 DEF Phases
<1>9. StopJoins'
  BY <1>5 DEF StopJoins, WriterEnded
<1>10. HandshakeFirst'
  <2>. DEFINE hs(p) == p.kind = "handshake"
  <2>1. /\ \A i, j \in 1..Len(queue) : i < j /\ hs(queue[j]) => hs(queue[i])
        /\ \A j \in 1..Len(queue) : hs(queue[j]) =>
             /\ wpc = "writing" => hs(inflight)
             /\ \A i \in 1..Len(sent) : hs(sent[i])
        /\ wpc = "writing" /\ hs(inflight) => \A i \in 1..Len(sent) : hs(sent[i])
    BY DEF HandshakeFirst
  <2>2. \A j \in 1..Len(queue) : hs(queue[j]) => \A i \in 1..Len(sent') : hs(sent'[i])
    BY <1>3, <2>1
  <2>3. CASE queue = <<>>
    <3>1. queue' = <<>> /\ wpc' = "get"  BY <1>5, <2>3
    <3>. QED  BY <3>1 DEF HandshakeFirst
  <2>4. CASE queue # <<>>
    <3>1. queue' = Tail(queue) /\ (wpc' = "writing" => inflight' = queue[1])
      BY <1>4, <1>5, <2>4
    <3>2. Len(queue') = Len(queue) - 1 /\ 1 \in 1..Len(queue)
      BY <1>4, <2>4, <3>1
    <3>3. \A i \in 1..Len(queue') : queue'[i] = queue[i + 1] /\ i + 1 \in 1..Len(queue)
      BY <1>4, <2>4, <3>1
    <3>a. \A j \in 1..Len(queue') : j \in Int /\ 1 < j + 1
      BY <1>4, <3>2
    <3>4. \A i, j \in 1..Len(queue') : i < j /\ hs(queue'[j]) => hs(queue'[i])
      <4>. SUFFICES ASSUME NEW i \in 1..Len(queue'), NEW j \in 1..Len(queue'), i < j,
                           hs(queue'[j])
                    PROVE  hs(queue'[i])
        OBVIOUS
      <4>1. /\ i + 1 \in 1..Len(queue) /\ queue'[i] = queue[i + 1]
            /\ j + 1 \in 1..Len(queue) /\ queue'[j] = queue[j + 1]
            /\ i + 1 < j + 1
        BY <3>3, <3>a
      <4>. QED  BY <2>1, <4>1
    <3>5. \A j \in 1..Len(queue') : hs(queue'[j]) => hs(queue[1])
      <4>. SUFFICES ASSUME NEW j \in 1..Len(queue'), hs(queue'[j]) PROVE hs(queue[1])
        OBVIOUS
      <4>1. j + 1 \in 1..Len(queue) /\ queue'[j] = queue[j + 1] /\ 1 < j + 1
        BY <3>3, <3>a
      <4>2. hs(queue[j + 1])
        BY <4>1
      <4>. HIDE DEF hs
      <4>. QED  BY <2>1, <3>2, <4>1, <4>2
    <3>6. \A j \in 1..Len(queue') : hs(queue'[j]) =>
            /\ wpc' = "writing" => hs(inflight')
            /\ \A i \in 1..Len(sent') : hs(sent'[i])
      BY <2>2, <3>1, <3>3, <3>5
    <3>7. wpc' = "writing" /\ hs(inflight') => \A i \in 1..Len(sent') : hs(sent'[i])
      BY <2>2, <3>1, <3>2
    <3>. QED  BY <3>4, <3>6, <3>7 DEF HandshakeFirst
  <2>. QED  BY <2>3, <2>4
<1>11. StartupAfterHandshake'
  BY <1>3 DEF StartupAfterHandshake, HandshakeFirst
<1>. QED  BY <1>6, <1>7, <1>8, <1>9, <1>10, <1>11

(***************************************************************************)
(* What is put in the queue.                                               *)
(***************************************************************************)
\* Packets that are not handshake packets may join the queue at any time.
LEMMA PutStep ==
  ASSUME TypeOK, HandshakeFirst, StartupAfterHandshake, WritesPackets,
         NEW packets \in Seq(Packet \cup {CloseMarker}), Put(packets),
         \A i \in 1..Len(packets) : packets[i].kind # "handshake",
         UNCHANGED <<pending, sent, wpc, inflight>>
  PROVE  /\ queue' \in Seq(Packet \cup {CloseMarker})
         /\ unfinished' = Len(queue') + (IF wpc' = "writing" THEN 1 ELSE 0)
         /\ \A i \in 1..Len(queue') :
              \/ i \in 1..Len(queue) /\ queue'[i] = queue[i]
              \/ \E k \in 1..Len(packets) : queue'[i] = packets[k]
         /\ HandshakeFirst' /\ StartupAfterHandshake' /\ WritesPackets'
<1>1. queue \in Seq(Packet \cup {CloseMarker})
  BY DEF TypeOK
<1>2. Len(queue) \in Nat /\ Len(packets) \in Nat
  BY <1>1, LenProperties
<1>3. /\ queue' \in Seq(Packet \cup {CloseMarker})
      /\ Len(queue') = Len(queue) + Len(packets)
      /\ \A i \in 1..(Len(queue) + Len(packets)) :
           queue'[i] = IF i <= Len(queue) THEN queue[i] ELSE packets[i - Len(queue)]
  BY <1>1, ConcatProperties DEF Put
<1>4. unfinished' = Len(queue') + (IF wpc' = "writing" THEN 1 ELSE 0)
  <2>1. unfinished = Len(queue) + (IF wpc = "writing" THEN 1 ELSE 0)
    BY DEF TypeOK
  <2>2. unfinished' = unfinished + Len(packets)
    BY DEF Put
  <2>3. wpc' = wpc /\ Len(queue') = Len(queue) + Len(packets)
    BY <1>3
  <2>. QED
    <3>1. CASE wpc = "writing"
      <4>1. unfinished' = (Len(queue) + 1) + Len(packets)  BY <2>1, <2>2, <3>1
      <4>. QED  BY <1>2, <2>3, <3>1, <4>1
    <3>2. CASE wpc # "writing"
      <4>1. unfinished' = (Len(queue) + 0) + Len(packets)  BY <2>1, <2>2, <3>2
      <4>. QED  BY <1>2, <2>3, <3>2, <4>1
    <3>. QED  BY <3>1, <3>2
<1>5. \A i \in 1..Len(queue') :
        \/ i \in 1..Len(queue) /\ queue'[i] = queue[i]
        \/ /\ i > Len(queue) /\ i - Len(queue) \in 1..Len(packets)
           /\ queue'[i] = packets[i - Len(queue)]
  BY <1>1, ConcatElement DEF Put
<1>6. \A j \in 1..Len(queue') : queue'[j].kind = "handshake" =>
        j \in 1..Len(queue) /\ queue'[j] = queue[j]
  BY <1>5
<1>7. HandshakeFirst'
  <2>1. \A i, j \in 1..Len(queue') :
          i < j /\ queue'[j].kind = "handshake" => queue'[i].kind = "handshake"
    BY <1>2, <1>3, <1>5, <1>6 DEF HandshakeFirst
  <2>2. \A j \in 1..Len(queue') : queue'[j].kind = "handshake" =>
          /\ wpc' = "writing" => inflight'.kind = "handshake"
          /\ \A i \in 1..Len(sent') : sent'[i].kind = "handshake"
    BY <1>6 DEF HandshakeFirst
  <2>. QED  BY <2>1, <2>2 DEF HandshakeFirst
<1>8. StartupAfterHandshake' /\ WritesPackets'
  BY DEF StartupAfterHandshake, WritesPackets
<1>. QED  BY <1>3, <1>4, <1>5, <1>7, <1>8

\* stop() finishes, or puts the close marker behind what is queued.
LEMMA JoinReturnsStep == IInv /\ JoinReturns => IInv'
<1>. SUFFICES ASSUME IInv, JoinReturns PROVE IInv'
  OBVIOUS
<1>. USE DEF IInv, JoinReturns, startupVars, detectVars, writerVars, otherVars, clientVars
<1>1. CASE WriterEnded
  <2>1. TypeOK'  BY <1>1 DEF TypeOK, Finish, queueVars
  <2>2. Phases'  BY <1>1 DEF Phases, Finish, queueVars
  <2>3. StopJoins'  BY <1>1 DEF StopJoins, WriterEnded, Finish
  <2>4. HandshakeFirst' /\ StartupAfterHandshake' /\ WritesPackets'
    BY <1>1, OrderFrame DEF Finish, queueVars
  <2>. QED  BY <2>1, <2>2, <2>3, <2>4
<1>2. CASE ~WriterEnded
  <2>1. Put(<<CloseMarker>>) /\ pc' = "closing" /\ UNCHANGED <<raised, join>>
    BY <1>2
  <2>2. /\ <<CloseMarker>> \in Seq(Packet \cup {CloseMarker})
        /\ \A i \in 1..Len(<<CloseMarker>>) :
             <<CloseMarker>>[i] = CloseMarker /\ <<CloseMarker>>[i].kind # "handshake"
    BY DEF CloseMarker
  <2>3. /\ queue' \in Seq(Packet \cup {CloseMarker})
        /\ unfinished' = Len(queue') + (IF wpc' = "writing" THEN 1 ELSE 0)
        /\ \A i \in 1..Len(queue') :
             (i \in 1..Len(queue) /\ queue'[i] = queue[i]) \/ queue'[i] = CloseMarker
        /\ HandshakeFirst' /\ StartupAfterHandshake' /\ WritesPackets'
    BY <2>1, <2>2, PutStep
  <2>4. TypeOK'  BY <2>1, <2>3 DEF TypeOK
  <2>5. Phases'  BY <2>1, <2>3 DEF Phases
  <2>6. StopJoins'  BY <2>1 DEF StopJoins
  <2>. QED  BY <2>3, <2>4, <2>5, <2>6
<1>. QED  BY <1>1, <1>2

\* The response goes first, then the replies that waited for it.
LEMMA QueueHandshakeResponseStep == IInv /\ QueueHandshakeResponse => IInv'
<1>. SUFFICES ASSUME IInv, QueueHandshakeResponse PROVE IInv'
  OBVIOUS
<1>. USE DEF IInv, QueueHandshakeResponse, detectVars, writerVars, otherVars, clientVars
<1>. DEFINE batch == HandshakeResponse \o pending
            L == HandshakeLength
<1>1. pending \in Seq(Packet) /\ Len(pending) \in Nat
  BY LenProperties DEF TypeOK
<1>2. queue = <<>> /\ sent = <<>> /\ wpc # "writing"
  BY DEF Phases
<1>3. /\ batch \in Seq(Packet) /\ Len(batch) = L + Len(pending) /\ L \in Nat
      /\ \A i \in 1..(L + Len(pending)) :
           batch[i] = IF i <= L THEN HandshakeResponse[i] ELSE pending[i - L]
  BY <1>1, ResponseType, ConcatProperties
<1>. HIDE DEF batch, L
<1>4. queue' = batch
  BY <1>2, <1>3, ConcatEmptySeq DEF Put, batch
<1>5. unfinished' = Len(batch)
  BY <1>1, <1>2, <1>3, EmptySeq DEF Put, TypeOK, batch
<1>6. batch \in Seq(Packet \cup {CloseMarker})
  BY <1>3, SeqMonotonic
<1>7. \A i \in 1..Len(batch) : batch[i].kind = "handshake" <=> i <= L
  <2>1. \A i \in 1..L : HandshakeResponse[i].kind = "handshake"
    BY ResponseType DEF L
  <2>2. \A i \in 1..Len(pending) : pending[i].kind = "startup"
    BY DEF HandshakeFirst
  <2>3. \A i \in 1..Len(batch) :
          \/ i \in 1..L /\ batch[i] = HandshakeResponse[i]
          \/ /\ i > L /\ i - L \in 1..Len(pending)
             /\ batch[i] = pending[i - L]
    <3>1. HandshakeResponse \in Seq(Packet) /\ Len(HandshakeResponse) = L
      BY ResponseType DEF L
    <3>. QED  BY <1>1, <3>1, ConcatElement DEF batch
  <2>. SUFFICES ASSUME NEW i \in 1..Len(batch)
                PROVE  batch[i].kind = "handshake" <=> i <= L
    OBVIOUS
  <2>4. CASE i \in 1..L /\ batch[i] = HandshakeResponse[i]
    BY <1>3, <2>1, <2>4
  <2>5. CASE i > L /\ i - L \in 1..Len(pending) /\ batch[i] = pending[i - L]
    <3>1. batch[i].kind = "startup"  BY <2>2, <2>5
    <3>2. ~(i <= L)  BY <1>1, <1>3, <2>5
    <3>. QED  BY <3>1, <3>2
  <2>. QED  BY <2>3, <2>4, <2>5
<1>8. TypeOK'
  <2>1. unfinished' = Len(queue') + (IF wpc' = "writing" THEN 1 ELSE 0)
    BY <1>1, <1>2, <1>3, <1>4, <1>5
  <2>. QED  BY <1>4, <1>6, <2>1 DEF TypeOK
<1>9. Phases'  BY DEF Phases
<1>10. StopJoins'  BY DEF StopJoins
<1>11. HandshakeFirst'
  <2>1. \A i \in 1..Len(pending') : pending'[i].kind = "startup"
    OBVIOUS
  <2>2. \A i, j \in 1..Len(queue') :
          i < j /\ queue'[j].kind = "handshake" => queue'[i].kind = "handshake"
    BY <1>1, <1>3, <1>4, <1>7
  <2>3. wpc' # "writing" /\ \A i \in 1..Len(sent') : sent'[i].kind = "handshake"
    BY <1>2
  <2>. QED  BY <2>1, <2>2, <2>3 DEF HandshakeFirst
<1>12. StartupAfterHandshake' /\ WritesPackets'
  BY <1>2 DEF StartupAfterHandshake, WritesPackets
<1>. QED  BY <1>8, <1>9, <1>10, <1>11, <1>12

\* A notification queues or defers startup replies, and may settle the future.
LEMMA NotifyStep ==
  ASSUME IInv, NEW frames \in Notifications, Notify(frames)
  PROVE  IInv'
<1>. USE DEF IInv, Notify, writerVars, mainVars, clientVars
<1>. DEFINE count == ReplyCount(frames)
            batch == StartupReplies(replies + 1, replies + count)
<1>1. frames \in Seq(Frame) /\ replies \in Nat /\ count \in Nat
  BY SessionAssumption, ReplyCountType DEF TypeOK
<1>. HIDE DEF count
<1>2. /\ batch \in Seq(Packet) /\ Len(batch) = count
      /\ \A i \in 1..count : batch[i].kind = "startup"
  BY <1>1, RepliesType
<1>3. Answer(batch)
  BY DEF count
<1>. HIDE DEF batch
<1>4. /\ commands' \in SUBSET Command /\ skipped' \in BOOLEAN
      /\ future' \in {future, "set"} /\ (future = "set" => future' = "set")
  <2>1. commands' \in SUBSET Command
    BY <1>1, DecodedType DEF TypeOK, DetectHandshake
  <2>2. skipped' \in BOOLEAN
    BY DEF DetectHandshake, Completes
  <2>3. future' \in {future, "set"} /\ (future = "set" => future' = "set")
    BY DEF DetectHandshake
  <2>. QED  BY <2>1, <2>2, <2>3
<1>5. replies' \in Nat /\ notified' \in 0..MaxNotifications
  BY <1>1, SessionAssumption DEF TypeOK, count
<1>6. CASE startupReady
  <2>1. Put(batch) /\ UNCHANGED pending
    BY <1>3, <1>6 DEF Answer
  <2>2. batch \in Seq(Packet \cup {CloseMarker})
    BY <1>2, SeqMonotonic
  <2>3. /\ queue' \in Seq(Packet \cup {CloseMarker})
        /\ unfinished' = Len(queue') + (IF wpc' = "writing" THEN 1 ELSE 0)
        /\ HandshakeFirst' /\ StartupAfterHandshake' /\ WritesPackets'
    BY <1>2, <2>1, <2>2, PutStep
  <2>4. TypeOK'  BY <1>4, <1>5, <2>1, <2>3 DEF TypeOK
  <2>5. Phases'  BY <1>4, <1>6 DEF Phases
  <2>6. StopJoins'  BY DEF StopJoins, WriterEnded
  <2>. QED  BY <2>3, <2>4, <2>5, <2>6
<1>7. CASE ~startupReady
  <2>1. pending' = pending \o batch /\ UNCHANGED queueVars
    BY <1>3, <1>7 DEF Answer
  <2>2. /\ pending' \in Seq(Packet)
        /\ \A i \in 1..Len(pending') : pending'[i].kind = "startup"
    <3>1. pending \in Seq(Packet) /\ Len(pending) \in Nat /\ Len(batch) \in Nat
      BY <1>1, <1>2, LenProperties DEF TypeOK
    <3>2. /\ pending' \in Seq(Packet)
          /\ \A i \in 1..Len(pending') :
               \/ i \in 1..Len(pending) /\ pending'[i] = pending[i]
               \/ i - Len(pending) \in 1..Len(batch) /\ pending'[i] = batch[i - Len(pending)]
      BY <1>2, <2>1, <3>1, ConcatProperties, ConcatElement
    <3>. QED  BY <1>2, <3>2 DEF HandshakeFirst
  <2>3. TypeOK'  BY <1>4, <1>5, <2>1, <2>2 DEF TypeOK, queueVars
  <2>4. Phases'  BY <1>7, <2>1 DEF Phases, queueVars
  <2>5. StopJoins'  BY DEF StopJoins, WriterEnded
  <2>6. HandshakeFirst' /\ StartupAfterHandshake' /\ WritesPackets'
    BY <2>1, <2>2
       DEF HandshakeFirst, StartupAfterHandshake, WritesPackets, queueVars
  <2>. QED  BY <2>3, <2>4, <2>5, <2>6
<1>. QED  BY <1>6, <1>7

(***************************************************************************)
(* The theorems.                                                           *)
(***************************************************************************)
\* Every step preserves the invariant.
LEMMA StepIInv == IInv /\ [Next]_vars => IInv'
<1>. SUFFICES ASSUME IInv, [Next]_vars PROVE IInv'
  OBVIOUS
<1>1. CASE WriterWakes
  <2>1. WriterLoop(0) /\ ReleaseJoin /\ UNCHANGED <<sent, writerFrame>>
    BY <1>1 DEF WriterWakes
  <2>. QED  BY <1>1, <2>1, TurnStep DEF WriterWakes
<1>2. CASE WriteReturns
  <2>1. WriterLoop(1) /\ ReleaseJoin /\ UNCHANGED writerFrame
    BY <1>2 DEF WriteReturns
  <2>. QED  BY <1>2, <2>1, TurnStep DEF WriteReturns
<1>3. CASE WriteRaises
  BY <1>3, WriteRaisesStep
<1>4. CASE \E frames \in Notifications : Notify(frames)
  BY <1>4, NotifyStep
<1>5. CASE QueueHandshakeResponse
  BY <1>5, QueueHandshakeResponseStep
<1>6. CASE JoinReturns
  BY <1>6, JoinReturnsStep
<1>7. CASE \/ Start \/ Subscribe \/ StartNotifyReturns \/ StartNotifyRaises
           \/ HandshakeTimeout \/ HoldEnds \/ StopNotifyReturns \/ StopNotifyRaises
           \/ JoinStarts \/ CloseReturns \/ RunCancels \/ Signal \/ Disconnect
           \/ NotifyMalformed
  BY <1>7, QuietMainStep
<1>8. CASE UNCHANGED vars
  BY <1>8 DEF IInv, TypeOK, WritesPackets, Phases, StopJoins, WriterEnded,
              HandshakeFirst, StartupAfterHandshake, vars, queueVars, startupVars,
              detectVars, writerVars, mainVars, clientVars, otherVars
<1>. QED
  BY <1>1, <1>2, <1>3, <1>4, <1>5, <1>6, <1>7, <1>8
     DEF Next, Writer, Main, Bike, Terminated

\* The invariant holds throughout every session.
THEOREM Invariance == Spec => []IInv
BY InitIInv, StepIInv, PTL DEF Spec

\* Every variable keeps its type and join() counts what is queued or being written.
THEOREM TypeCorrectness == Spec => []TypeOK
<1>1. IInv => TypeOK
  BY DEF IInv
<1>. QED  BY <1>1, Invariance, PTL

\* No startup reply is written before a handshake packet.
THEOREM HandshakeGoesFirst == Spec => []StartupAfterHandshake
<1>1. IInv => StartupAfterHandshake
  BY DEF IInv
<1>. QED  BY <1>1, Invariance, PTL

\* Nothing is written unless the handshake was detected in time.
THEOREM SilenceWithoutHandshake == Spec => []SilentWithoutHandshake
<1>1. IInv => SilentWithoutHandshake
  BY DEF IInv, Phases, SilentWithoutHandshake
<1>. QED  BY <1>1, Invariance, PTL

\* A writer that failed is what the session reports when it ends.
THEOREM WriterFailureIsReported == Spec => []WriterFailureSurfaces
<1>1. IInv => WriterFailureSurfaces
  BY DEF IInv, Phases, StopJoins, WriterFailureSurfaces
<1>. QED  BY <1>1, Invariance, PTL

\* Only a notification and the timeout touch what the handshake check looks at.
LEMMA DetectionFrame ==
  ASSUME [Next]_vars
  PROVE  \/ \E frames \in Notifications :
              DetectHandshake(DecodedCommands(frames), Completes(frames))
         \/ /\ UNCHANGED <<commands, skipped>>
            /\ future' = IF future = "pending" THEN "cancelled" ELSE future
         \/ UNCHANGED <<commands, skipped, future>>
BY DEF Next, Writer, Main, Bike, Terminated, vars, queueVars, startupVars, detectVars,
       writerVars, mainVars, clientVars, otherVars, mainFrame, writerFrame,
       Start, Subscribe, StartNotifyReturns, StartNotifyRaises, HandshakeTimeout,
       QueueHandshakeResponse, HoldEnds, StopNotifyReturns, StopNotifyRaises,
       JoinStarts, JoinReturns, CloseReturns, RunCancels, Signal, Disconnect,
       Notify, NotifyMalformed, WriterWakes, WriteReturns, WriteRaises

\* A handshake whose last command arrived in a callback that ran to its end has
\* settled the future.
THEOREM HandshakeIsNotMissed == Spec => []HandshakeNotMissed
<1>1. Init => HandshakeNotMissed
  BY DEF Init, HandshakeNotMissed, IsBikeHandshake
<1>2. HandshakeNotMissed /\ [Next]_vars => HandshakeNotMissed'
  <2>. SUFFICES ASSUME HandshakeNotMissed, [Next]_vars PROVE HandshakeNotMissed'
    OBVIOUS
  <2>1. CASE \E frames \in Notifications :
               DetectHandshake(DecodedCommands(frames), Completes(frames))
    BY <2>1 DEF DetectHandshake, HandshakeNotMissed
  <2>2. CASE /\ UNCHANGED <<commands, skipped>>
             /\ future' = IF future = "pending" THEN "cancelled" ELSE future
    BY <2>2 DEF HandshakeNotMissed, IsBikeHandshake
  <2>3. CASE UNCHANGED <<commands, skipped, future>>
    BY <2>3 DEF HandshakeNotMissed, IsBikeHandshake
  <2>. QED  BY <2>1, <2>2, <2>3, DetectionFrame
<1>. QED  BY <1>1, <1>2, PTL DEF Spec

\* The future is settled once.
THEOREM FutureIsSettledOnce == Spec => SettledOnce
<1>1. [Next]_vars => [future # "pending" => future' = future]_vars
  BY DetectionFrame DEF DetectHandshake
<1>. QED  BY <1>1, PTL DEF Spec, SettledOnce

\* Once the session has stopped nothing is written.
THEOREM NoWriteAfterStop == Spec => QuietAfterStop
<1>1. IInv /\ [Next]_vars => [pc = "finished" => sent' = sent]_vars
  <2>. SUFFICES ASSUME IInv, [Next]_vars, pc = "finished" PROVE sent' = sent
    OBVIOUS
  <2>1. wpc # "writing"
    BY DEF IInv, StopJoins, WriterEnded, Phases
  <2>. QED
    BY <2>1 DEF Next, Writer, Main, Bike, Terminated, vars, writerVars, mainFrame,
       Start, Subscribe, StartNotifyReturns, StartNotifyRaises, HandshakeTimeout,
       QueueHandshakeResponse, HoldEnds, StopNotifyReturns, StopNotifyRaises,
       JoinStarts, JoinReturns, CloseReturns, RunCancels, Signal, Disconnect,
       Notify, NotifyMalformed, WriterWakes, WriteReturns, WriteRaises
<1>. QED  BY <1>1, Invariance, PTL DEF Spec, QuietAfterStop

(***************************************************************************)
(* The stream: nothing owed to the bike is lost, doubled or reordered      *)
(* between the callbacks, the two queues and the writer.                   *)
(***************************************************************************)
\* What is owed, and what is written or being written.
Owed == HandshakeResponse \o StartupReplies(1, replies)
OnTheWay == IF wpc = "writing" THEN Append(sent, inflight) ELSE sent

\* stop() has queued the close marker and the writer has not reached it.
Marked == pc = "closing" /\ wpc \in {"get", "writing"}

\* The replies wait in `pending' until the response is queued.
Deferred == pending = IF startupReady THEN <<>> ELSE StartupReplies(1, replies)

\* From then on what is on the way and what is queued make up what is owed.
Straight ==
  startupReady /\ wpc # "failed" /\ ~Marked =>
    queue \in Seq(Packet) /\ OnTheWay \o queue = Owed

\* So they do around the close marker, which replies may follow.
Around ==
  startupReady /\ wpc # "failed" /\ Marked =>
    \E a, b \in Seq(Packet) :
      queue = a \o (<<CloseMarker>> \o b) /\ OnTheWay \o (a \o b) = Owed

Whole == Deferred /\ Straight /\ Around

\* The writer lives from start() to the end of stop(), if it does not fail, and the close
\* marker is queued at the end.
Alive ==
  /\ wpc = "none" => pc = "init"
  /\ wpc = "cancelled" => pc = "finished"
  /\ wpc = "returned" => pc \in {"closing", "finished"}
  /\ ~startupReady /\ pc \notin {"closing", "finished"} => queue = <<>>

\* Unless stop_notify failed, no notification comes once it returned; and a session that
\* has no error to raise has answered the handshake.
Withdrawn ==
  /\ pc \in {"joining", "closing", "finished"} /\ ~stopError => ~subscribed
  /\ pc \in {"holding", "unsubscribing", "joining", "closing", "finished"} /\ raised = "none" =>
       startupReady
  /\ pc = "finished" /\ raised = "none" => ~stopError

\* So that what join() waited for is all there is, and the marker is alone in the queue.
Drained ==
  /\ pc = "joining" /\ join = "done" /\ ~stopError => unfinished = 0
  /\ pc \in {"closing", "finished"} /\ ~stopError /\ wpc # "failed" =>
       unfinished = IF Marked THEN 1 ELSE 0

StreamInv == IInv /\ Whole /\ Alive /\ Withdrawn /\ Drained
-----------------------------------------------------------------------------
\* An appended element stands before what is concatenated.
LEMMA AppendThenConcat ==
  ASSUME NEW S, NEW s \in Seq(S), NEW e \in S, NEW t \in Seq(S)
  PROVE  Append(s, e) \in Seq(S) /\ Append(s, e) \o t = s \o (<<e>> \o t)
<1>1. <<e>> \in Seq(S) /\ Append(s, e) = s \o <<e>> /\ Append(s, e) \in Seq(S)
  BY AppendIsConcat, AppendProperties
<1>. QED  BY <1>1, ConcatAssociative

\* A queue is its head and its tail.
LEMMA HeadThenTail ==
  ASSUME NEW S, NEW q \in Seq(S), q # <<>>
  PROVE  q = <<Head(q)>> \o Tail(q) /\ Head(q) \in S /\ Tail(q) \in Seq(S)
<1>1. Head(q) \in S /\ Tail(q) \in Seq(S)
  BY HeadTailProperties
<1>. QED  BY <1>1, QueueParts

\* The head of a concatenation is that of its first part, if there is one.
LEMMA ConsParts ==
  ASSUME NEW S, NEW e \in S, NEW t \in Seq(S)
  PROVE  /\ <<e>> \o t \in Seq(S) /\ <<e>> \o t # <<>>
         /\ Head(<<e>> \o t) = e /\ Tail(<<e>> \o t) = t
OBVIOUS

\* The i-th of some replies has the i-th rank after the ones before it.
LEMMA ReplyRank ==
  ASSUME NEW first \in Nat, NEW count \in Nat, NEW i \in 1..count
  PROVE  StartupReplies(first + 1, first + count)[i] = StartupReply(first + i)
<1>1. first + count - (first + 1) + 1 = count /\ first + 1 + i - 1 = first + i
  OBVIOUS
<1>2. StartupReplies(first + 1, first + count)[i] = StartupReply(first + 1 + i - 1)
  BY <1>1 DEF StartupReplies
<1>. QED  BY <1>1, <1>2

\* Replies asked for later follow those asked for before.
LEMMA RepliesJoin ==
  ASSUME NEW first \in Nat, NEW count \in Nat
  PROVE  /\ StartupReplies(1, first) \in Seq(Packet)
         /\ StartupReplies(1, first) \o StartupReplies(first + 1, first + count)
              = StartupReplies(1, first + count)
<1>. DEFINE s == StartupReplies(1, first)
            t == StartupReplies(first + 1, first + count)
            u == StartupReplies(1, first + count)
<1>1. s \in Seq(Packet) /\ Len(s) = first /\ \A i \in 1..first : s[i] = StartupReply(i)
  <2>1. 0 + 1 = 1 /\ 0 + first = first /\ \A i \in 1..first : 0 + i = i
    OBVIOUS
  <2>2. StartupReplies(0 + 1, 0 + first) \in Seq(Packet)
        /\ Len(StartupReplies(0 + 1, 0 + first)) = first
    BY RepliesType
  <2>3. \A i \in 1..first : StartupReplies(0 + 1, 0 + first)[i] = StartupReply(0 + i)
    BY ReplyRank
  <2>. QED  BY <2>1, <2>2, <2>3
<1>2. t \in Seq(Packet) /\ Len(t) = count /\ \A i \in 1..count : t[i] = StartupReply(first + i)
  BY RepliesType, ReplyRank
<1>3. /\ u \in Seq(Packet) /\ Len(u) = first + count
      /\ \A i \in 1..(first + count) : u[i] = StartupReply(i)
  <2>. DEFINE n == first + count
  <2>1. n \in Nat /\ 0 + 1 = 1 /\ 0 + n = n /\ \A i \in 1..n : 0 + i = i
    OBVIOUS
  <2>. HIDE DEF n
  <2>2. StartupReplies(0 + 1, 0 + n) \in Seq(Packet) /\ Len(StartupReplies(0 + 1, 0 + n)) = n
    BY <2>1, RepliesType
  <2>3. \A i \in 1..n : StartupReplies(0 + 1, 0 + n)[i] = StartupReply(0 + i)
    BY <2>1, ReplyRank
  <2>4. /\ StartupReplies(1, n) \in Seq(Packet) /\ Len(StartupReplies(1, n)) = n
        /\ \A i \in 1..n : StartupReplies(1, n)[i] = StartupReply(i)
    BY <2>1, <2>2, <2>3
  <2>. QED  BY <2>4 DEF n
<1>. HIDE DEF s, t, u
<1>4. /\ s \o t \in Seq(Packet) /\ Len(s \o t) = first + count
      /\ \A i \in 1..(first + count) : (s \o t)[i] = IF i <= first THEN s[i] ELSE t[i - first]
  BY <1>1, <1>2, ConcatProperties
<1>5. \A i \in 1..(first + count) : (s \o t)[i] = u[i]
  <2>. SUFFICES ASSUME NEW i \in 1..(first + count) PROVE (s \o t)[i] = u[i]
    OBVIOUS
  <2>1. CASE i <= first
    <3>1. i \in 1..first  BY <2>1
    <3>. QED  BY <1>1, <1>3, <1>4, <2>1, <3>1
  <2>2. CASE ~(i <= first)
    <3>1. i - first \in 1..count /\ first + (i - first) = i  BY <2>2
    <3>. QED  BY <1>2, <1>3, <1>4, <2>2, <3>1
  <2>. QED  BY <2>1, <2>2
<1>6. s \o t = u
  BY <1>3, <1>4, <1>5, SeqEqual
<1>. QED  BY <1>1, <1>6 DEF s, t, u

\* Concatenations may be regrouped.
LEMMA RegroupAny ==
  ASSUME NEW S
  PROVE  \A s, t, u \in Seq(S) : (s \o t) \o u = s \o (t \o u)
BY ConcatAssociative

\* The same of packets.
LEMMA Regroup == \A s, t, u \in Seq(Packet) : (s \o t) \o u = s \o (t \o u)
BY ConcatAssociative

\* The types of what the invariant is about.
LEMMA OwedType ==
  ASSUME TypeOK, WritesPackets
  PROVE  /\ Owed \in Seq(Packet) /\ OnTheWay \in Seq(Packet)
         /\ StartupReplies(1, replies) \in Seq(Packet) /\ HandshakeResponse \in Seq(Packet)
<1>1. replies \in Nat /\ 0 \in Nat /\ sent \in Seq(Packet)
  BY DEF TypeOK
<1>2. StartupReplies(1, replies) \in Seq(Packet)
  BY <1>1, RepliesJoin
<1>3. HandshakeResponse \in Seq(Packet)
  BY ResponseType
<1>4. Owed \in Seq(Packet)
  BY <1>2, <1>3, ConcatProperties DEF Owed
<1>5. OnTheWay \in Seq(Packet)
  BY <1>1, AppendProperties DEF OnTheWay, WritesPackets
<1>. QED  BY <1>2, <1>3, <1>4, <1>5

(***************************************************************************)
(* The stream stays whole.                                                 *)
(***************************************************************************)
\* A step that leaves the packets where they are.
LEMMA WholeFrame ==
  ASSUME Whole, UNCHANGED <<queue, pending, sent, inflight, replies, startupReady>>,
         wpc' = "writing" <=> wpc = "writing", wpc' = "failed" <=> wpc = "failed",
         startupReady => (Marked' <=> Marked)
  PROVE  Whole'
<1>1. Owed' = Owed
  BY DEF Owed, HandshakeResponse, HandshakeLength, NonCommandChannels
<1>2. OnTheWay' = OnTheWay
  BY DEF OnTheWay
<1>3. Deferred'
  BY DEF Whole, Deferred
<1>4. Straight'
  BY <1>1, <1>2 DEF Whole, Straight
<1>5. Around'
  BY <1>1, <1>2 DEF Whole, Around
<1>. QED  BY <1>3, <1>4, <1>5 DEF Whole

\* A turn of the writer's loop moves the head of the queue on the way.
LEMMA WholeTurn ==
  ASSUME IInv, Whole, NEW done \in {0, 1}, WriterLoop(done), UNCHANGED writerFrame,
         \/ done = 0 /\ wpc = "get" /\ UNCHANGED sent
         \/ done = 1 /\ wpc = "writing" /\ sent' = Append(sent, inflight)
  PROVE  Whole'
<1>. USE DEF IInv, writerFrame, startupVars, detectVars, clientVars, otherVars
<1>. SUFFICES ASSUME startupReady PROVE Whole'
  BY DEF Whole, Deferred, Straight, Around
<1>1. /\ Owed' = Owed /\ Owed \in Seq(Packet) /\ OnTheWay \in Seq(Packet)
      /\ sent' = OnTheWay /\ wpc \in {"get", "writing"}
  BY OwedType DEF Owed, HandshakeResponse, HandshakeLength, NonCommandChannels, OnTheWay
<1>2. /\ pending' = pending /\ replies' = replies /\ startupReady' = startupReady /\ pc' = pc
      /\ pending = <<>> /\ Deferred'
  BY DEF Whole, Deferred
<1>3. CloseMarker \notin Packet
  BY CloseMarkerIsNoPacket
<1>4. CASE ~Marked
  <2>1. pc # "closing" /\ ~Marked'
    BY <1>1, <1>2, <1>4 DEF Marked
  <2>2. queue \in Seq(Packet) /\ OnTheWay \o queue = Owed
    BY <1>1, <1>4 DEF Whole, Straight
  <2>3. CASE queue = <<>>
    <3>1. OnTheWay' = sent' /\ queue' = queue
      BY <2>3 DEF WriterLoop, OnTheWay
    <3>2. OnTheWay' \o queue' = Owed'
      BY <1>1, <2>2, <3>1
    <3>3. Straight' /\ Around'
      BY <2>1, <2>2, <3>1, <3>2 DEF Straight, Around
    <3>. QED  BY <1>2, <3>3 DEF Whole
  <2>4. CASE queue # <<>>
    <3>1. queue = <<Head(queue)>> \o Tail(queue) /\ Head(queue) \in Packet
          /\ Tail(queue) \in Seq(Packet)
      BY <2>2, <2>4, HeadThenTail
    <3>2. wpc' = "writing" /\ inflight' = Head(queue) /\ queue' = Tail(queue)
      BY <1>3, <2>4, <3>1 DEF WriterLoop
    <3>3. OnTheWay' = Append(OnTheWay, Head(queue))
      BY <1>1, <3>2 DEF OnTheWay
    <3>4. OnTheWay' \o queue' = OnTheWay \o queue
      <4>1. \A q, t \in Seq(Packet) : \A x \in Packet : Append(q, x) \o t = q \o (<<x>> \o t)
        BY AppendThenConcat
      <4>2. Append(OnTheWay, Head(queue)) \o Tail(queue)
              = OnTheWay \o (<<Head(queue)>> \o Tail(queue))
        BY <1>1, <3>1, <4>1, Zenon
      <4>. QED  BY <3>1, <3>2, <3>3, <4>2, Zenon
    <3>5. OnTheWay' \o queue' = Owed'
      BY <1>1, <2>2, <3>4
    <3>6. Straight' /\ Around'
      BY <2>1, <3>1, <3>2, <3>5 DEF Straight, Around
    <3>. QED  BY <1>2, <3>6 DEF Whole
  <2>. QED  BY <2>3, <2>4
<1>5. CASE Marked
  <2>1. PICK a \in Seq(Packet), b \in Seq(Packet) :
          queue = a \o (<<CloseMarker>> \o b) /\ OnTheWay \o (a \o b) = Owed
    BY <1>1, <1>5 DEF Whole, Around
  <2>. DEFINE All == Packet \cup {CloseMarker}
              rest == <<CloseMarker>> \o b
  <2>2. /\ rest \in Seq(All) /\ rest # <<>> /\ Head(rest) = CloseMarker /\ Tail(rest) = b
        /\ a \in Seq(All) /\ CloseMarker \in All
    <3>1. a \in Seq(All) /\ b \in Seq(All) /\ CloseMarker \in All
      BY SeqMonotonic
    <3>. QED  BY <3>1, ConsParts
  <2>. HIDE DEF rest, All
  <2>3. CASE a = <<>>
    <3>1. queue = rest /\ a \o b = b
      BY <2>1, <2>2, <2>3, ConcatEmptySeq DEF rest
    <3>2. wpc' = "returned" /\ queue' = b
      BY <1>3, <2>2, <3>1 DEF WriterLoop
    <3>3. OnTheWay' = sent' /\ ~Marked'
      BY <3>2 DEF OnTheWay, Marked
    <3>4. OnTheWay' \o queue' = Owed'
      BY <1>1, <2>1, <3>1, <3>2, <3>3
    <3>5. Straight' /\ Around'
      BY <3>2, <3>3, <3>4 DEF Straight, Around
    <3>. QED  BY <1>2, <3>5 DEF Whole
  <2>4. CASE a # <<>>
    <3>. DEFINE e == Head(a)
                c == Tail(a)
    <3>1. a = <<e>> \o c /\ e \in Packet /\ c \in Seq(Packet) /\ e \in All /\ c \in Seq(All)
      BY <2>4, HeadThenTail, SeqMonotonic DEF All
    <3>. HIDE DEF e, c
    <3>2. queue = <<e>> \o (c \o rest) /\ c \o rest \in Seq(All)
      <4>1. <<e>> \in Seq(All)
        BY <3>1
      <4>2. (<<e>> \o c) \o rest = <<e>> \o (c \o rest)
        BY <2>2, <3>1, <4>1, ConcatAssociative
      <4>. QED  BY <2>1, <2>2, <3>1, <4>2, ConcatProperties DEF rest
    <3>3. queue # <<>> /\ Head(queue) = e /\ Tail(queue) = c \o rest
      BY <3>1, <3>2, ConsParts
    <3>4. wpc' = "writing" /\ inflight' = e /\ queue' = c \o rest /\ Marked'
      BY <1>2, <1>3, <1>5, <3>1, <3>3 DEF WriterLoop, Marked
    <3>5. OnTheWay' = Append(OnTheWay, e)
      BY <1>1, <3>4 DEF OnTheWay
    <3>6. OnTheWay' \o (c \o b) = OnTheWay \o (<<e>> \o (c \o b))
      <4>1. c \o b \in Seq(Packet)
        BY <3>1, ConcatProperties
      <4>2. \A q, t \in Seq(Packet) : \A x \in Packet : Append(q, x) \o t = q \o (<<x>> \o t)
        BY AppendThenConcat
      <4>3. Append(OnTheWay, e) \o (c \o b) = OnTheWay \o (<<e>> \o (c \o b))
        BY <1>1, <3>1, <4>1, <4>2, Zenon
      <4>. QED  BY <3>5, <4>3, Zenon
    <3>7. <<e>> \o (c \o b) = a \o b
      <4>1. <<e>> \in Seq(Packet)
        BY <3>1
      <4>2. (<<e>> \o c) \o b = <<e>> \o (c \o b)
        BY <2>1, <3>1, <4>1, Regroup, Zenon
      <4>. QED  BY <3>1, <4>2, Zenon
    <3>8. OnTheWay' \o (c \o b) = Owed
      BY <2>1, <3>6, <3>7
    <3>9. queue' = c \o (<<CloseMarker>> \o b)
      BY <3>4 DEF rest
    <3>10. OnTheWay' \o (c \o b) = Owed'
      BY <1>1, <3>8
    <3>11. Straight' /\ Around'
      BY <3>1, <3>4, <3>9, <3>10 DEF Straight, Around
    <3>. QED  BY <1>2, <3>11 DEF Whole
  <2>. QED  BY <2>3, <2>4
<1>. QED  BY <1>4, <1>5

\* What a callback asks for while the stream flows is queued at its end, behind the
\* close marker if that is queued.
LEMMA WholePut ==
  ASSUME IInv, Whole, startupReady, NEW count \in Nat, replies' = replies + count,
         queue' = queue \o StartupReplies(replies + 1, replies + count),
         UNCHANGED <<pending, startupReady, sent, inflight, wpc, pc>>
  PROVE  Whole'
<1>. DEFINE batch == StartupReplies(replies + 1, replies + count)
<1>1. /\ Owed \in Seq(Packet) /\ OnTheWay \in Seq(Packet) /\ HandshakeResponse \in Seq(Packet)
      /\ StartupReplies(1, replies) \in Seq(Packet) /\ replies \in Nat
  BY OwedType DEF IInv, TypeOK
<1>2. batch \in Seq(Packet)
  BY <1>1, RepliesType
<1>3. StartupReplies(1, replies') = StartupReplies(1, replies) \o batch
  BY <1>1, RepliesJoin
<1>4. OnTheWay' = OnTheWay /\ (Marked' <=> Marked) /\ queue' = queue \o batch
  BY DEF OnTheWay, Marked
<1>5. HandshakeResponse' = HandshakeResponse
  BY DEF HandshakeResponse, HandshakeLength, NonCommandChannels
<1>. HIDE DEF batch
<1>6. Owed' = Owed \o batch
  <2>1. Owed' = HandshakeResponse \o (StartupReplies(1, replies) \o batch)
    BY <1>3, <1>5 DEF Owed
  <2>2. Owed \o batch = HandshakeResponse \o (StartupReplies(1, replies) \o batch)
    <3>1. HandshakeResponse \in Seq(Packet) /\ StartupReplies(1, replies) \in Seq(Packet)
      BY <1>1
    <3>2. (HandshakeResponse \o StartupReplies(1, replies)) \o batch
            = HandshakeResponse \o (StartupReplies(1, replies) \o batch)
      BY <1>2, <3>1, Regroup, Zenon
    <3>. QED  BY <3>2, Zenon DEF Owed
  <2>. QED  BY <2>1, <2>2
<1>7. Deferred'
  BY DEF Whole, Deferred
<1>8. Straight'
  <2>. SUFFICES ASSUME wpc # "failed", ~Marked
                PROVE  queue' \in Seq(Packet) /\ OnTheWay' \o queue' = Owed'
    BY <1>4 DEF Straight
  <2>1. queue \in Seq(Packet) /\ OnTheWay \o queue = Owed
    BY DEF Whole, Straight
  <2>2. OnTheWay \o (queue \o batch) = Owed \o batch
    <3>1. OnTheWay \in Seq(Packet) /\ queue \in Seq(Packet)
      BY <1>1, <2>1
    <3>2. (OnTheWay \o queue) \o batch = OnTheWay \o (queue \o batch)
      BY <1>2, <3>1, Regroup, Zenon
    <3>. QED  BY <2>1, <3>2, Zenon
  <2>. QED  BY <1>2, <1>4, <1>6, <2>1, <2>2, ConcatProperties
<1>9. Around'
  <2>. SUFFICES ASSUME wpc # "failed", Marked
                PROVE  \E a, b \in Seq(Packet) :
                         queue' = a \o (<<CloseMarker>> \o b) /\ OnTheWay' \o (a \o b) = Owed'
    BY <1>4 DEF Around
  <2>1. PICK a \in Seq(Packet), b \in Seq(Packet) :
          queue = a \o (<<CloseMarker>> \o b) /\ OnTheWay \o (a \o b) = Owed
    BY DEF Whole, Around
  <2>. DEFINE All == Packet \cup {CloseMarker}
              c == b \o batch
  <2>2. /\ a \in Seq(All) /\ b \in Seq(All) /\ batch \in Seq(All) /\ <<CloseMarker>> \in Seq(All)
    <3>1. CloseMarker \in All
      OBVIOUS
    <3>. QED  BY <1>2, <3>1, SeqMonotonic
  <2>. HIDE DEF All
  <2>3. queue' = a \o (<<CloseMarker>> \o c)
    <3>1. (a \o (<<CloseMarker>> \o b)) \o batch = a \o ((<<CloseMarker>> \o b) \o batch)
      <4>. DEFINE m == <<CloseMarker>> \o b
      <4>1. m \in Seq(All)
        BY <2>2, ConcatProperties
      <4>. HIDE DEF m
      <4>2. (a \o m) \o batch = a \o (m \o batch)
        BY <2>2, <4>1, RegroupAny, SMTT(20)
      <4>. QED  BY <4>2, Zenon DEF m
    <3>2. (<<CloseMarker>> \o b) \o batch = <<CloseMarker>> \o (b \o batch)
      <4>. DEFINE m == <<CloseMarker>>
      <4>1. m \in Seq(All)
        BY <2>2
      <4>. HIDE DEF m
      <4>2. (m \o b) \o batch = m \o (b \o batch)
        BY <2>2, <4>1, RegroupAny, SMTT(20)
      <4>. QED  BY <4>2, Zenon DEF m
    <3>. QED  BY <1>4, <2>1, <3>1, <3>2
  <2>4. c \in Seq(Packet)
    BY <1>2, <2>1, ConcatProperties
  <2>5. OnTheWay' \o (a \o c) = Owed'
    <3>1. a \o (b \o batch) = (a \o b) \o batch
      BY <1>2, <2>1, Regroup, Zenon
    <3>2. (OnTheWay \o (a \o b)) \o batch = OnTheWay \o ((a \o b) \o batch)
      <4>. DEFINE ab == a \o b
      <4>1. ab \in Seq(Packet) /\ OnTheWay \in Seq(Packet)
        BY <1>1, <2>1, ConcatProperties
      <4>. HIDE DEF ab
      <4>2. (OnTheWay \o ab) \o batch = OnTheWay \o (ab \o batch)
        BY <1>2, <4>1, Regroup, Zenon
      <4>. QED  BY <4>2, Zenon DEF ab
    <3>. QED  BY <1>4, <1>6, <2>1, <3>1, <3>2
  <2>. HIDE DEF c
  <2>. QED  BY <2>1, <2>3, <2>4, <2>5
<1>. QED  BY <1>7, <1>8, <1>9 DEF Whole

\* A notification adds its replies to what is owed, and to one of the two queues.
LEMMA WholeNotify ==
  ASSUME IInv, Whole, NEW frames \in Notifications, Notify(frames)
  PROVE  Whole'
<1>. DEFINE count == ReplyCount(frames)
            batch == StartupReplies(replies + 1, replies + count)
<1>1. frames \in Seq(Frame) /\ replies \in Nat /\ count \in Nat
  BY SessionAssumption, ReplyCountType DEF IInv, TypeOK
<1>2. replies' = replies + count /\ Answer(batch)
  BY DEF Notify
<1>. HIDE DEF count
<1>3. UNCHANGED <<startupReady, sent, inflight, wpc, pc>>
  BY DEF Notify, writerVars, mainVars
<1>4. CASE startupReady
  <2>1. queue' = queue \o batch /\ pending' = pending
    BY <1>2, <1>4 DEF Answer, Put
  <2>. QED  BY <1>1, <1>2, <1>3, <1>4, <2>1, WholePut
<1>5. CASE ~startupReady
  <2>1. pending' = pending \o batch /\ pending = StartupReplies(1, replies)
    BY <1>2, <1>5 DEF Answer, Whole, Deferred
  <2>2. pending' = StartupReplies(1, replies')
    BY <1>1, <1>2, <2>1, RepliesJoin
  <2>. QED  BY <1>3, <1>5, <2>2 DEF Whole, Deferred, Straight, Around
<1>. QED  BY <1>4, <1>5

\* The response and the replies that waited for it are what is owed at that moment.
LEMMA WholeResponse ==
  ASSUME IInv, Whole, QueueHandshakeResponse
  PROVE  Whole'
<1>1. /\ ~startupReady /\ queue = <<>> /\ sent = <<>> /\ wpc # "writing"
      /\ pending = StartupReplies(1, replies)
  BY DEF IInv, Phases, Whole, Deferred, QueueHandshakeResponse
<1>2. /\ Owed \in Seq(Packet) /\ StartupReplies(1, replies) \in Seq(Packet)
      /\ HandshakeResponse \in Seq(Packet)
  BY OwedType DEF IInv
<1>3. queue' = <<>> \o (HandshakeResponse \o pending)
  BY <1>1 DEF QueueHandshakeResponse, Put
<1>4. queue' = Owed
  BY <1>1, <1>2, <1>3, ConcatEmptySeq DEF Owed
<1>5. Owed' = Owed
  BY DEF QueueHandshakeResponse, otherVars, Owed, HandshakeResponse, HandshakeLength,
     NonCommandChannels
<1>6. OnTheWay' = <<>> /\ ~Marked'
  BY <1>1 DEF QueueHandshakeResponse, writerVars, OnTheWay, Marked
<1>7. OnTheWay' \o queue' = Owed'
  BY <1>2, <1>4, <1>5, <1>6, ConcatEmptySeq
<1>8. Deferred'
  BY DEF QueueHandshakeResponse, Deferred
<1>9. Straight' /\ Around'
  BY <1>2, <1>4, <1>6, <1>7 DEF Straight, Around
<1>. QED  BY <1>8, <1>9 DEF Whole

\* stop() finishes, or puts the close marker behind all that is queued.
LEMMA WholeJoin ==
  ASSUME IInv, Whole, Alive, JoinReturns
  PROVE  Whole'
<1>1. UNCHANGED <<pending, startupReady, sent, inflight, wpc, replies>> /\ pc = "joining"
  BY DEF JoinReturns, startupVars, writerVars, otherVars
<1>2. CASE WriterEnded
  <2>1. queue' = queue /\ pc' = "finished"
    BY <1>2 DEF JoinReturns, Finish, queueVars
  <2>. QED  BY <1>1, <2>1, WholeFrame DEF Marked
<1>3. CASE ~WriterEnded
  <2>1. queue' = queue \o <<CloseMarker>> /\ pc' = "closing"
    BY <1>3 DEF JoinReturns, Put
  <2>2. wpc \in {"get", "writing"}
    BY <1>1, <1>3 DEF IInv, TypeOK, Alive, WriterEnded
  <2>3. Marked' /\ ~Marked /\ OnTheWay' = OnTheWay /\ Owed' = Owed
    BY <1>1, <2>1, <2>2 DEF Marked, OnTheWay, Owed, HandshakeResponse, HandshakeLength,
       NonCommandChannels
  <2>4. startupReady => queue \in Seq(Packet) /\ OnTheWay \o queue = Owed
    BY <2>2, <2>3 DEF Whole, Straight
  <2>5. startupReady => \E a, b \in Seq(Packet) :
          queue' = a \o (<<CloseMarker>> \o b) /\ OnTheWay' \o (a \o b) = Owed'
    <3>. SUFFICES ASSUME startupReady
                  PROVE  \E a, b \in Seq(Packet) :
                           /\ queue' = a \o (<<CloseMarker>> \o b)
                           /\ OnTheWay' \o (a \o b) = Owed'
      OBVIOUS
    <3>1. <<>> \in Seq(Packet) /\ queue \o <<>> = queue
      BY <2>4, ConcatEmptySeq
    <3>2. <<CloseMarker>> \o <<>> = <<CloseMarker>>
      <4>1. <<CloseMarker>> \in Seq({CloseMarker})
        OBVIOUS
      <4>. QED  BY <4>1, ConcatEmptySeq
    <3>3. queue' = queue \o (<<CloseMarker>> \o <<>>) /\ OnTheWay' \o (queue \o <<>>) = Owed'
      BY <2>1, <2>3, <2>4, <3>1, <3>2
    <3>. QED  BY <2>4, <3>1, <3>3
  <2>6. Deferred'
    BY <1>1 DEF Whole, Deferred
  <2>7. Straight' /\ Around'
    BY <1>1, <2>3, <2>5 DEF Straight, Around
  <2>. QED  BY <2>6, <2>7 DEF Whole
<1>. QED  BY <1>2, <1>3

\* Every step keeps the stream whole.
LEMMA WholeStep == IInv /\ Whole /\ Alive /\ [Next]_vars => Whole'
<1>. SUFFICES ASSUME IInv, Whole, Alive, [Next]_vars PROVE Whole'
  OBVIOUS
<1>1. CASE WriterWakes
  <2>1. WriterLoop(0) /\ UNCHANGED <<sent, writerFrame>> /\ wpc = "get"
    BY <1>1 DEF WriterWakes
  <2>. QED  BY <2>1, WholeTurn
<1>2. CASE WriteReturns
  <2>1. WriterLoop(1) /\ UNCHANGED writerFrame
    BY <1>2 DEF WriteReturns
  <2>. QED  BY <1>2, <2>1, WholeTurn DEF WriteReturns
<1>3. CASE WriteRaises
  <2>1. wpc' = "failed" /\ UNCHANGED <<pending, startupReady, replies>>
    BY <1>3 DEF WriteRaises, writerFrame, startupVars, otherVars
  <2>. QED  BY <2>1 DEF Whole, Deferred, Straight, Around
<1>4. CASE \E frames \in Notifications : Notify(frames)
  BY <1>4, WholeNotify
<1>5. CASE QueueHandshakeResponse
  BY <1>5, WholeResponse
<1>6. CASE JoinReturns
  BY <1>6, WholeJoin
<1>7. CASE \/ Start \/ Subscribe \/ StartNotifyReturns \/ StartNotifyRaises
           \/ HandshakeTimeout \/ HoldEnds \/ StopNotifyReturns \/ StopNotifyRaises
           \/ JoinStarts \/ CloseReturns \/ RunCancels \/ Signal \/ Disconnect
           \/ NotifyMalformed \/ UNCHANGED vars
  <2>. USE DEF queueVars, startupVars, detectVars, writerVars, mainVars, clientVars,
               otherVars, mainFrame, Finish, vars
  <2>1. UNCHANGED <<queue, pending, sent, inflight, replies, startupReady>>
    BY <1>7 DEF Start, Subscribe, StartNotifyReturns, StartNotifyRaises, HandshakeTimeout,
       HoldEnds, StopNotifyReturns, StopNotifyRaises, JoinStarts, CloseReturns, RunCancels,
       Signal, Disconnect, NotifyMalformed
  <2>2. \/ wpc' = wpc
        \/ wpc' = "get" /\ pc = "init"
        \/ wpc = "get" /\ wpc' = "cancelled" /\ pc = "finished" /\ pc' = "finished"
    BY <1>7 DEF Start, Subscribe, StartNotifyReturns, StartNotifyRaises, HandshakeTimeout,
       HoldEnds, StopNotifyReturns, StopNotifyRaises, JoinStarts, CloseReturns, RunCancels,
       Signal, Disconnect, NotifyMalformed
  <2>3. \/ pc' = pc
        \/ pc # "closing" /\ pc' # "closing"
        \/ wpc \in {"returned", "failed"} /\ wpc' = wpc
    BY <1>7 DEF Start, Subscribe, StartNotifyReturns, StartNotifyRaises, HandshakeTimeout,
       HoldEnds, StopNotifyReturns, StopNotifyRaises, JoinStarts, CloseReturns, RunCancels,
       Signal, Disconnect, NotifyMalformed, WriterEnded
  <2>4. wpc' = "get" /\ pc = "init" => wpc \notin {"writing", "failed"} /\ ~startupReady
    BY DEF IInv, Phases
  <2>5. wpc' = "writing" <=> wpc = "writing"
    BY <2>2, <2>4
  <2>6. wpc' = "failed" <=> wpc = "failed"
    BY <2>2, <2>4
  <2>7. startupReady => (Marked' <=> Marked)
    BY <2>2, <2>3, <2>4 DEF Marked
  <2>. QED  BY <2>1, <2>5, <2>6, <2>7, WholeFrame
<1>. QED
  BY <1>1, <1>2, <1>3, <1>4, <1>5, <1>6, <1>7 DEF Next, Writer, Main, Bike, Terminated

(***************************************************************************)
(* The other parts of the invariant.                                       *)
(***************************************************************************)
\* A turn of the writer's loop ends the task only at the close marker, which is there only
\* once stop() has queued it.
LEMMA AliveTurn ==
  ASSUME IInv, Whole, Alive, NEW done \in {0, 1}, WriterLoop(done),
         wpc \in {"get", "writing"}, UNCHANGED <<pc, startupReady>>
  PROVE  Alive'
<1>1. /\ wpc' \in {"get", "writing", "returned"}
      /\ wpc' = "returned" => queue # <<>> /\ Head(queue) = CloseMarker
      /\ queue = <<>> => queue' = <<>>
  BY DEF WriterLoop
<1>2. ASSUME queue # <<>>, Head(queue) = CloseMarker, pc \notin {"closing", "finished"}
      PROVE  FALSE
  <2>1. queue \in Seq(Packet)
    BY <1>2 DEF Alive, Whole, Straight, Marked
  <2>. QED  BY <1>2, <2>1, HeadTailProperties, CloseMarkerIsNoPacket
<1>. QED  BY <1>1, <1>2 DEF Alive

\* No step of the session ends the writer early or loses the close marker.
LEMMA AliveStep == IInv /\ Whole /\ Alive /\ [Next]_vars => Alive'
<1>. SUFFICES ASSUME IInv, Whole, Alive, [Next]_vars PROVE Alive'
  OBVIOUS
<1>. USE DEF queueVars, startupVars, detectVars, writerVars, mainVars, clientVars, otherVars,
             mainFrame, writerFrame, vars
<1>1. CASE WriterWakes \/ WriteReturns
  <2>1. PICK done \in {0, 1} : WriterLoop(done)
    BY <1>1 DEF WriterWakes, WriteReturns
  <2>2. wpc \in {"get", "writing"} /\ UNCHANGED <<pc, startupReady>>
    BY <1>1 DEF WriterWakes, WriteReturns
  <2>. QED  BY <2>1, <2>2, AliveTurn
<1>2. CASE WriteRaises
  BY <1>2 DEF WriteRaises, Alive
<1>3. CASE \E frames \in Notifications : Notify(frames)
  BY <1>3 DEF Notify, Answer, Alive
<1>4. CASE QueueHandshakeResponse
  BY <1>4 DEF QueueHandshakeResponse, Alive
<1>5. CASE JoinReturns
  BY <1>5 DEF JoinReturns, Finish, Alive
<1>6. CASE \/ Start \/ Subscribe \/ StartNotifyReturns \/ StartNotifyRaises
           \/ HandshakeTimeout \/ HoldEnds \/ StopNotifyReturns \/ StopNotifyRaises
           \/ JoinStarts \/ CloseReturns \/ RunCancels \/ Signal \/ Disconnect
           \/ NotifyMalformed \/ UNCHANGED vars
  BY <1>6 DEF Start, Subscribe, StartNotifyReturns, StartNotifyRaises, HandshakeTimeout,
     HoldEnds, StopNotifyReturns, StopNotifyRaises, JoinStarts, CloseReturns, Finish,
     RunCancels, Signal, Disconnect, NotifyMalformed, Alive
<1>. QED
  BY <1>1, <1>2, <1>3, <1>4, <1>5, <1>6 DEF Next, Writer, Main, Bike, Terminated

\* Nor does one let a notification come after stop_notify has returned.
LEMMA WithdrawnStep == Alive /\ Withdrawn /\ [Next]_vars => Withdrawn'
<1>. SUFFICES ASSUME Alive, Withdrawn, [Next]_vars PROVE Withdrawn'
  OBVIOUS
<1>. USE DEF queueVars, startupVars, detectVars, writerVars, mainVars, clientVars, otherVars,
             mainFrame, writerFrame, vars, Withdrawn
<1>1. CASE Writer \/ Bike
  BY <1>1 DEF Writer, WriterWakes, WriteReturns, WriteRaises, Bike, Notify, NotifyMalformed,
     Disconnect
<1>2. CASE Start \/ Subscribe \/ StartNotifyReturns \/ StartNotifyRaises \/ HandshakeTimeout
  BY <1>2 DEF Start, Subscribe, StartNotifyReturns, StartNotifyRaises, HandshakeTimeout
<1>3. CASE QueueHandshakeResponse \/ HoldEnds \/ StopNotifyReturns \/ StopNotifyRaises
  BY <1>3 DEF QueueHandshakeResponse, HoldEnds, StopNotifyReturns, StopNotifyRaises
<1>4. CASE JoinReturns \/ CloseReturns
  BY <1>4 DEF JoinReturns, CloseReturns, Finish
<1>5. CASE JoinStarts \/ RunCancels \/ Signal \/ UNCHANGED vars
  BY <1>5 DEF JoinStarts, RunCancels, Signal
<1>. QED  BY <1>1, <1>2, <1>3, <1>4, <1>5 DEF Next, Main, Terminated

\* A turn of the writer's loop while nothing is left but, perhaps, the marker.
LEMMA DrainedTurn ==
  ASSUME IInv, Whole, Alive, Drained, NEW done \in {0, 1}, WriterLoop(done), ReleaseJoin,
         UNCHANGED <<pc, stopError>>,
         \/ done = 0 /\ wpc = "get" /\ queue # <<>>
         \/ done = 1 /\ wpc = "writing"
  PROVE  Drained'
<1>1. /\ queue \in Seq(Packet \cup {CloseMarker}) /\ Len(queue) \in Nat
      /\ unfinished = Len(queue) + done
      /\ queue # <<>> => Len(queue) > 0
  BY LenProperties, EmptySeq DEF IInv, TypeOK
<1>2. unfinished \in Nat /\ unfinished > 0
  BY <1>1
<1>3. unfinished' \in Int
  BY <1>2 DEF WriterLoop
<1>4. ASSUME pc = "joining", ~stopError, join' = "done" PROVE unfinished' = 0
  BY <1>2, <1>4 DEF Drained, ReleaseJoin
<1>5. ASSUME pc \in {"closing", "finished"}, ~stopError
      PROVE  unfinished' = (IF Marked' THEN 1 ELSE 0)
  <2>1. Marked /\ unfinished = 1
    BY <1>2, <1>5 DEF Drained
  <2>2. done = 0 /\ queue # <<>> /\ Head(queue) = CloseMarker
    <3>1. CASE startupReady
      <4>1. PICK a \in Seq(Packet), b \in Seq(Packet) : queue = a \o (<<CloseMarker>> \o b)
        BY <2>1, <3>1 DEF Whole, Around
      <4>2. Len(a) \in Nat /\ Len(b) \in Nat /\ (a # <<>> => Len(a) > 0)
        BY LenProperties, EmptySeq
      <4>3. Len(queue) = Len(a) + (1 + Len(b)) /\ (a = <<>> => Head(queue) = CloseMarker)
        <5>. DEFINE All == Packet \cup {CloseMarker}
                    rest == <<CloseMarker>> \o b
        <5>1. a \in Seq(All) /\ b \in Seq(All) /\ CloseMarker \in All
          BY SeqMonotonic
        <5>. HIDE DEF All
        <5>2. rest \in Seq(All) /\ Head(rest) = CloseMarker /\ Len(rest) = 1 + Len(b)
          BY <5>1
        <5>3. Len(a \o rest) = Len(a) + Len(rest) /\ (a = <<>> => a \o rest = rest)
          BY <5>1, <5>2, ConcatProperties, ConcatEmptySeq
        <5>. QED  BY <4>1, <5>2, <5>3
      <4>. QED  BY <1>1, <2>1, <4>2, <4>3
    <3>2. CASE ~startupReady
      <4>1. wpc # "writing" /\ \A i \in 1..Len(queue) : queue[i] = CloseMarker
        BY <3>2 DEF IInv, Phases
      <4>. QED  BY <1>1, <4>1, QueueParts
    <3>. QED  BY <3>1, <3>2
  <2>3. wpc' = "returned" /\ unfinished' = unfinished - done - 1
    BY <2>2 DEF WriterLoop
  <2>. QED  BY <2>1, <2>2, <2>3 DEF Marked
<1>. QED  BY <1>4, <1>5 DEF Drained

\* Nor is the count of unfinished packets wrong after one.
LEMMA DrainedStep ==
  IInv /\ Whole /\ Alive /\ Withdrawn /\ Drained /\ [Next]_vars => Drained'
<1>. SUFFICES ASSUME IInv, Whole, Alive, Withdrawn, Drained, [Next]_vars PROVE Drained'
  OBVIOUS
<1>. USE DEF queueVars, startupVars, detectVars, writerVars, mainVars, clientVars, otherVars,
             mainFrame, writerFrame, vars
<1>1. CASE WriterWakes \/ WriteReturns
  <2>1. PICK done \in {0, 1} :
          /\ WriterLoop(done) /\ ReleaseJoin /\ UNCHANGED <<pc, stopError>>
          /\ \/ done = 0 /\ wpc = "get" /\ queue # <<>>
             \/ done = 1 /\ wpc = "writing"
    BY <1>1 DEF WriterWakes, WriteReturns
  <2>. QED  BY <2>1, DrainedTurn
<1>2. CASE WriteRaises
  <2>1. Len(queue) \in Nat /\ unfinished = Len(queue) + 1
    BY <1>2, LenProperties DEF WriteRaises, IInv, TypeOK
  <2>2. unfinished # 0
    BY <2>1
  <2>. QED  BY <1>2, <2>2 DEF WriteRaises, ReleaseJoin, Drained
<1>3. CASE \E frames \in Notifications : Notify(frames)
  BY <1>3 DEF Notify, Withdrawn, Drained
<1>4. CASE JoinReturns
  <2>1. CASE WriterEnded
    <3>1. wpc = "failed" /\ wpc' = "failed" /\ pc' = "finished"
      BY <1>4, <2>1 DEF JoinReturns, WriterEnded, Alive, Finish
    <3>. QED  BY <3>1 DEF Drained
  <2>2. CASE ~WriterEnded
    <3>1. pc = "joining" /\ join = "done" /\ wpc \in {"get", "writing"}
      BY <1>4, <2>2 DEF JoinReturns, WriterEnded, IInv, TypeOK, Alive
    <3>2. ~stopError => unfinished = 0
      BY <3>1 DEF Drained
    <3>3. Len(<<CloseMarker>>) = 1
      OBVIOUS
    <3>4. unfinished' = unfinished + 1 /\ pc' = "closing" /\ Marked'
      BY <1>4, <2>2, <3>1, <3>3 DEF JoinReturns, Put, Marked
    <3>5. stopError' = stopError
      BY <1>4 DEF JoinReturns
    <3>. QED  BY <3>2, <3>4, <3>5 DEF Drained
  <2>. QED  BY <2>1, <2>2
<1>5. CASE StartNotifyRaises
  <2>1. Len(queue) = 0 /\ wpc # "writing" /\ unfinished = Len(queue) + 0
    BY <1>5 DEF StartNotifyRaises, IInv, TypeOK, Phases
  <2>. QED  BY <1>5, <2>1 DEF StartNotifyRaises, Drained, Marked
<1>6. CASE CloseReturns
  BY <1>6 DEF CloseReturns, Finish, WriterEnded, Drained, Marked
<1>7. CASE Start \/ Subscribe \/ StartNotifyReturns \/ HandshakeTimeout \/ QueueHandshakeResponse
           \/ HoldEnds \/ StopNotifyReturns \/ StopNotifyRaises
  BY <1>7 DEF Start, Subscribe, StartNotifyReturns, HandshakeTimeout, QueueHandshakeResponse,
     HoldEnds, StopNotifyReturns, StopNotifyRaises, Drained
<1>8. CASE JoinStarts \/ RunCancels \/ Signal \/ Disconnect \/ NotifyMalformed \/ UNCHANGED vars
  BY <1>8 DEF JoinStarts, RunCancels, Signal, Disconnect, NotifyMalformed, Drained, Marked
<1>. QED  BY <1>1, <1>2, <1>3, <1>4, <1>5, <1>6, <1>7, <1>8
          DEF Next, Writer, Main, Bike, Terminated

(***************************************************************************)
(* What follows.                                                           *)
(***************************************************************************)
\* The stream stays whole and the stop drains it, throughout every session.
THEOREM StreamInvariance == Spec => []StreamInv
<1>1. Init => StreamInv
  <2>. SUFFICES ASSUME Init PROVE StreamInv
    OBVIOUS
  <2>1. pending = StartupReplies(1, replies)
    <3>1. StartupReplies(0 + 1, 0 + 0) \in Seq(Packet) /\ Len(StartupReplies(0 + 1, 0 + 0)) = 0
      BY RepliesType
    <3>2. 0 + 1 = 1 /\ 0 + 0 = 0
      OBVIOUS
    <3>. QED  BY <3>1, <3>2, EmptySeq DEF Init
  <2>2. Whole
    BY <2>1 DEF Init, Whole, Deferred, Straight, Around
  <2>3. Alive /\ Withdrawn /\ Drained
    BY DEF Init, Alive, Withdrawn, Drained
  <2>. QED  BY <2>2, <2>3, InitIInv DEF StreamInv
<1>2. StreamInv /\ [Next]_vars => StreamInv'
  BY StepIInv, WholeStep, AliveStep, WithdrawnStep, DrainedStep DEF StreamInv
<1>. QED  BY <1>1, <1>2, PTL DEF Spec

\* A stop without error has written the response and every reply, and left nothing queued.
LEMMA CleanStop == StreamInv => HealthyStopFlushes
<1>. SUFFICES ASSUME StreamInv, pc = "finished", raised = "none"
              PROVE  sent = Owed /\ queue = <<>>
  BY DEF HealthyStopFlushes, Owed
<1>1. startupReady /\ ~stopError /\ wpc = "returned"
  BY DEF StreamInv, Withdrawn, IInv, StopJoins, WriterEnded
<1>2. ~Marked /\ unfinished = 0 /\ OnTheWay = sent
  BY <1>1 DEF StreamInv, Drained, Marked, OnTheWay
<1>3. queue \in Seq(Packet) /\ sent \o queue = Owed /\ sent \in Seq(Packet)
  BY <1>1, <1>2 DEF StreamInv, Whole, Straight, IInv, TypeOK
<1>4. Len(queue) = 0
  <2>1. unfinished = Len(queue) + 0 /\ Len(queue) \in Nat
    BY <1>1, <1>3, LenProperties DEF StreamInv, IInv, TypeOK
  <2>. QED  BY <1>2, <2>1
<1>5. queue = <<>>
  BY <1>3, <1>4, EmptySeq
<1>. QED  BY <1>3, <1>5, ConcatEmptySeq

\* A session that stops without an error has flushed: the handshake response and every
\* reply produced were written, in order, whatever raced the end.
THEOREM HealthyStopHasFlushed == Spec => []HealthyStopFlushes
BY CleanStop, StreamInvariance, PTL

\* What is being written is the next packet of the stream.
LEMMA NextOfStream ==
  ASSUME StreamInv, wpc = "writing"
  PROVE  /\ startupReady /\ pc # "finished"
         /\ Len(sent) < Len(Owed) /\ inflight = Owed[Len(sent) + 1]
<1>1. /\ startupReady /\ pc # "finished" /\ sent \in Seq(Packet) /\ inflight \in Packet
      /\ OnTheWay = Append(sent, inflight)
  BY DEF StreamInv, IInv, Phases, StopJoins, WriterEnded, TypeOK, WritesPackets, OnTheWay
<1>2. PICK rest \in Seq(Packet) : Append(sent, inflight) \o rest = Owed
  <2>1. CASE ~Marked
    BY <1>1, <2>1 DEF StreamInv, Whole, Straight
  <2>2. CASE Marked
    <3>1. PICK a \in Seq(Packet), b \in Seq(Packet) : OnTheWay \o (a \o b) = Owed
      BY <1>1, <2>2 DEF StreamInv, Whole, Around
    <3>2. a \o b \in Seq(Packet)
      BY <3>1, ConcatProperties
    <3>. QED  BY <1>1, <3>1, <3>2
  <2>. QED  BY <2>1, <2>2
<1>3. /\ Len(sent) \in Nat /\ Len(rest) \in Nat
      /\ Append(sent, inflight) \in Seq(Packet) /\ Len(Append(sent, inflight)) = Len(sent) + 1
      /\ Append(sent, inflight)[Len(sent) + 1] = inflight
  BY <1>1, LenProperties, AppendProperties
<1>. DEFINE s == Append(sent, inflight)
            n == Len(sent)
            m == Len(rest)
<1>. HIDE DEF s, n, m
<1>4. /\ n \in Nat /\ m \in Nat /\ Len(s) = n + 1 /\ s[n + 1] = inflight
      /\ s \in Seq(Packet) /\ s \o rest = Owed
  BY <1>2, <1>3 DEF s, n, m
<1>5. /\ Len(Owed) = (n + 1) + m
      /\ \A i \in 1..((n + 1) + m) : i <= n + 1 => Owed[i] = s[i]
  BY <1>4, ConcatProperties DEF m
<1>6. n + 1 \in 1..((n + 1) + m) /\ n < (n + 1) + m
  BY <1>4
<1>7. Owed[n + 1] = inflight /\ n < Len(Owed)
  BY <1>4, <1>5, <1>6
<1>. QED  BY <1>1, <1>7 DEF n

(***************************************************************************)
(* The session implements StartupStream, fairness apart.                   *)
(***************************************************************************)
\* The status of the stream that a session stands for.
Status ==
  IF wpc = "failed" THEN "broken"
  ELSE IF pc = "finished" THEN IF raised = "none" THEN "flushed" ELSE "broken"
  ELSE IF startupReady THEN "open" ELSE "closed"

\* A step that leaves the packets, the requests and the status alone is no step of the
\* stream.
LEMMA StreamStutters ==
  ASSUME UNCHANGED <<sent, replies>>, Status' = Status
  PROVE  UNCHANGED Stream!svars
BY DEF Stream!svars, Status

\* What the stream is to deliver is what the session owes.
LEMMA StreamIsOwed == Stream!Stream = Owed
BY DEF Stream!Stream, Stream!StartupReplies, Stream!StartupReply, Owed, StartupReplies,
   StartupReply

\* The writer: a write that returns delivers, one that raises breaks the stream.
LEMMA WriterStreams ==
  ASSUME StreamInv, Writer
  PROVE  [Stream!Next]_(Stream!svars)
<1>. USE DEF writerFrame, startupVars, detectVars, clientVars, otherVars, StreamInv
<1>1. CASE WriterWakes
  <2>1. wpc = "get" /\ wpc' # "failed"
    BY <1>1 DEF WriterWakes, WriterLoop
  <2>. QED  BY <1>1, <2>1, StreamStutters DEF WriterWakes, Status
<1>2. CASE WriteReturns
  <2>1. wpc = "writing" /\ wpc' # "failed" /\ UNCHANGED <<pc, raised, startupReady, replies>>
    BY <1>2 DEF WriteReturns, WriterLoop
  <2>2. Status = "open" /\ Status' = "open"
    BY <2>1, NextOfStream DEF Status
  <2>3. sent' = Append(sent, Owed[Len(sent) + 1]) /\ Len(sent) < Len(Owed)
    BY <1>2, <2>1, NextOfStream DEF WriteReturns
  <2>4. Stream!Deliver
    BY <2>1, <2>2, <2>3, StreamIsOwed DEF Stream!Deliver, Status
  <2>. QED  BY <2>4 DEF Stream!Next
<1>3. CASE WriteRaises
  <2>1. Status = "open" /\ Status' = "broken"
    BY <1>3, NextOfStream DEF WriteRaises, Status
  <2>2. Stream!Break
    BY <1>3, <2>1 DEF WriteRaises, Stream!Break, Status
  <2>. QED  BY <2>2 DEF Stream!Next
<1>. QED  BY <1>1, <1>2, <1>3 DEF Writer

\* A notification asks for replies, or for none.
LEMMA NotifyStreams ==
  ASSUME StreamInv, NEW frames \in Notifications, Notify(frames)
  PROVE  [Stream!Next]_(Stream!svars)
<1>1. /\ replies \in Nat /\ ReplyCount(frames) \in Nat
      /\ replies' = replies + ReplyCount(frames)
  BY SessionAssumption, ReplyCountType DEF StreamInv, IInv, TypeOK, Notify
<1>2. Status' = Status /\ sent' = sent
  BY DEF Notify, writerVars, mainVars, Status
<1>3. Status # "flushed"
  BY DEF Notify, StreamInv, Withdrawn, Status
<1>4. CASE replies' = replies
  BY <1>2, <1>4, StreamStutters
<1>5. CASE replies' # replies
  <2>1. replies' \in Nat /\ replies' > replies
    BY <1>1, <1>5
  <2>2. Stream!Ask
    BY <1>2, <1>3, <2>1 DEF Stream!Ask, Status
  <2>. QED  BY <2>2 DEF Stream!Next
<1>. QED  BY <1>4, <1>5

\* The main task opens the stream, flushes it or gives it up.
LEMMA MainStreams ==
  ASSUME StreamInv, StreamInv', HealthyStopFlushes', Main \/ Signal
  PROVE  [Stream!Next]_(Stream!svars)
<1>. USE DEF queueVars, startupVars, detectVars, writerVars, mainVars, clientVars, otherVars,
             mainFrame
<1>0. UNCHANGED <<sent, replies>>
  BY DEF Main, Signal, Start, Subscribe, StartNotifyReturns, StartNotifyRaises,
     HandshakeTimeout, QueueHandshakeResponse, HoldEnds, StopNotifyReturns, StopNotifyRaises,
     JoinStarts, JoinReturns, CloseReturns, RunCancels, Finish
<1>1. CASE QueueHandshakeResponse
  <2>1. Status = "closed" /\ Status' = "open"
    BY <1>1 DEF QueueHandshakeResponse, Status, StreamInv, IInv, Phases
  <2>2. Stream!Open
    BY <1>0, <2>1 DEF Stream!Open, Status
  <2>. QED  BY <2>2 DEF Stream!Next
<1>2. CASE StartNotifyRaises
  <2>1. Status = "closed" /\ Status' = "broken"
    BY <1>2 DEF StartNotifyRaises, Status, StreamInv, IInv, Phases
  <2>2. Stream!Break
    BY <1>0, <2>1 DEF Stream!Break, Status
  <2>. QED  BY <2>2 DEF Stream!Next
<1>3. CASE JoinReturns \/ CloseReturns
  <2>1. CASE wpc = "failed"
    <3>1. Status = "broken" /\ Status' = "broken"
      BY <1>3, <2>1 DEF JoinReturns, CloseReturns, Finish, Status
    <3>. QED  BY <1>0, <3>1, StreamStutters
  <2>2. CASE JoinReturns /\ wpc # "failed"
    <3>1. ~WriterEnded
      BY <2>2 DEF JoinReturns, WriterEnded, StreamInv, Alive
    <3>2. Status' = Status
      BY <2>2, <3>1 DEF JoinReturns, Status
    <3>. QED  BY <1>0, <3>2, StreamStutters
  <2>3. CASE CloseReturns /\ wpc # "failed"
    <3>1. /\ Status \in {"open", "closed"} /\ (startupReady => Status = "open")
          /\ Status' = IF raised' = "none" THEN "flushed" ELSE "broken"
      BY <2>3 DEF CloseReturns, Finish, Status
    <3>2. CASE raised' = "none"
      <4>1. startupReady'
        BY <2>3, <3>2 DEF CloseReturns, Finish, StreamInv, Withdrawn
      <4>2. startupReady /\ sent' = Owed'
        BY <2>3, <3>2, <4>1 DEF CloseReturns, Finish, HealthyStopFlushes, Owed
      <4>3. sent = Owed
        BY <1>0, <4>2 DEF Owed, HandshakeResponse, HandshakeLength, NonCommandChannels
      <4>4. Stream!Flush
        BY <1>0, <3>1, <3>2, <4>2, <4>3, StreamIsOwed DEF Stream!Flush, Status
      <4>. QED  BY <4>4 DEF Stream!Next
    <3>3. CASE raised' # "none"
      <4>1. Stream!Break
        BY <1>0, <3>1, <3>3 DEF Stream!Break, Status
      <4>. QED  BY <4>1 DEF Stream!Next
    <3>. QED  BY <3>2, <3>3
  <2>. QED  BY <1>3, <2>1, <2>2, <2>3
<1>4. CASE \/ Start \/ Subscribe \/ StartNotifyReturns \/ HandshakeTimeout \/ HoldEnds
           \/ StopNotifyReturns \/ StopNotifyRaises \/ JoinStarts \/ RunCancels \/ Signal
  <2>1. /\ UNCHANGED startupReady
        /\ wpc' = wpc \/ (wpc # "failed" /\ wpc' # "failed")
        /\ (pc' # "finished" /\ pc # "finished") \/ UNCHANGED <<pc, raised>>
    BY <1>4 DEF Start, Subscribe, StartNotifyReturns, HandshakeTimeout, HoldEnds,
       StopNotifyReturns, StopNotifyRaises, JoinStarts, RunCancels, Signal, StreamInv, IInv, Phases
  <2>2. Status' = Status
    BY <2>1 DEF Status
  <2>. QED  BY <1>0, <2>2, StreamStutters
<1>. QED  BY <1>1, <1>2, <1>3, <1>4 DEF Main

\* Every behaviour of a session is one of the stream: the writes are a prefix of the
\* handshake response and the replies in the order they were asked for, and a clean stop
\* has written them all.
THEOREM SessionStreams == Spec => Stream!Init /\ [][Stream!Next]_(Stream!svars)
<1>1. Init => Stream!Init
  BY DEF Init, Stream!Init
<1>2. StreamInv /\ StreamInv' /\ HealthyStopFlushes' /\ [Next]_vars
        => [Stream!Next]_(Stream!svars)
  <2>. SUFFICES ASSUME StreamInv, StreamInv', HealthyStopFlushes', [Next]_vars
                PROVE  [Stream!Next]_(Stream!svars)
    OBVIOUS
  <2>1. CASE Writer
    BY <2>1, WriterStreams
  <2>2. CASE \E frames \in Notifications : Notify(frames)
    BY <2>2, NotifyStreams
  <2>3. CASE Main \/ Signal
    BY <2>3, MainStreams
  <2>4. CASE NotifyMalformed \/ Disconnect \/ UNCHANGED vars
    <3>1. UNCHANGED <<sent, replies>> /\ Status' = Status
      BY <2>4 DEF NotifyMalformed, Disconnect, mainFrame, queueVars, startupVars, detectVars,
         writerVars, mainVars, clientVars, otherVars, vars, Status
    <3>. QED  BY <3>1, StreamStutters
  <2>. QED  BY <2>1, <2>2, <2>3, <2>4 DEF Next, Bike, Terminated
<1>. QED  BY <1>1, <1>2, StreamInvariance, HealthyStopHasFlushed, PTL DEF Spec

(***************************************************************************)
(* The dashboard is a session like any other, and its last screen is true. *)
(***************************************************************************)
\* A step of either tool, its display left out, is a step of the session or none.
LEMMA StepIsSessionStep == [DNext]_dvars => [Next]_vars
BY DEF DNext, DWriter, DMain, DNotify, DQueueHandshakeResponse, Refresh, Next, Main, Bike, dvars

\* What is proved of a session holds of a session with a display.
THEOREM DashboardRunsSession == DSpec => Init /\ [][Next]_vars
BY StepIsSessionStep, PTL DEF DSpec, DInit

\* The inductive invariant of the session is one of the composition.
THEOREM DashboardInvariance == DSpec => []IInv
BY InitIInv, StepIInv, DashboardRunsSession, PTL

\* The main steps after which main has not ended, or had already.
LEMMA MainGoesOn ==
  ASSUME DMain, pc' = "finished"
  PROVE  \/ (JoinReturns \/ CloseReturns) /\ Closing
         \/ StartNotifyRaises
         \/ pc = "finished" /\ UNCHANGED <<raised, tool, screen>>
BY DEF DMain, DQueueHandshakeResponse, QueueHandshakeResponse, Start, Subscribe,
       StartNotifyReturns, HandshakeTimeout, HoldEnds, StopNotifyReturns, StopNotifyRaises,
       JoinStarts, RunCancels, mainVars, mainFrame, otherVars, dashVars

\* The last screen of a dashboard whose session stopped without an error says so.
THEOREM ScreenIsFinal == DSpec => []FinalScreen
<1>1. DInit => FinalScreen
  BY DEF DInit, Init, FinalScreen
<1>2. FinalScreen /\ [DNext]_dvars => FinalScreen'
  <2>. SUFFICES ASSUME FinalScreen, [DNext]_dvars,
                       tool' = "dashboard", pc' = "finished", raised' \in {"none", "timeout"}
                PROVE  screen'.status = "disconnected"
    BY DEF FinalScreen
  <2>1. CASE (JoinReturns \/ CloseReturns) /\ Closing
    <3>1. tool = "dashboard"
      BY <2>1 DEF JoinReturns, CloseReturns, mainFrame, otherVars
    <3>. QED  BY <2>1, <3>1 DEF Closing
  <2>2. CASE StartNotifyRaises
    BY <2>2 DEF StartNotifyRaises
  <2>3. CASE screen' = screen /\ tool' = tool /\ pc' = pc /\ raised' = raised
    BY <2>3 DEF FinalScreen
  <2>4. CASE DMain
    BY <2>1, <2>2, <2>3, <2>4, MainGoesOn
  <2>5. CASE DWriter \/ DNotify
    BY <2>5, <2>3 DEF DWriter, Writer, WriterWakes, WriteReturns, WriteRaises, writerFrame,
       DNotify, Notify, otherVars, mainVars, dashVars
  <2>6. CASE Refresh
    BY <2>6 DEF Refresh, vars, mainVars
  <2>7. CASE (NotifyMalformed \/ Disconnect \/ Signal \/ Terminated) /\ UNCHANGED dashVars
    BY <2>7, <2>3 DEF NotifyMalformed, Disconnect, Signal, Terminated, mainFrame, mainVars,
       otherVars, dashVars, vars
  <2>8. CASE UNCHANGED dvars
    BY <2>8, <2>3 DEF dvars, dashVars, vars, mainVars, otherVars
  <2>. QED  BY <2>4, <2>5, <2>6, <2>7, <2>8 DEF DNext
<1>. QED  BY <1>1, <1>2, PTL DEF DSpec

(***************************************************************************)
(* A report of the bike is read back as it was written: the digits of a    *)
(* varint, the varint among other bytes, the fields of a payload.          *)
(***************************************************************************)
\* The number that a sequence of digits stands for, as ParseVarint computes it.
Number(s) == FoldRight(LAMBDA b, high : (b % 128) + 128 * high, s, 0)

\* The fold behind it.
DigitFold(f, s) ==
  f = [t \in SUBSET DOMAIN s |->
         IF t = {} THEN 0 ELSE (s[Min(t)] % 128) + 128 * f[t \ {Min(t)}]]

\* The number is the value of that fold on all the digits.
LEMMA NumberUnfolded ==
  ASSUME NEW s
  PROVE  Number(s) = (CHOOSE f : DigitFold(f, s))[DOMAIN s]
BY DEF Number, FoldRight, MapThenFoldSet, DigitFold

\* Min is the least element.
LEMMA LeastOfSet ==
  ASSUME NEW T \in SUBSET Nat, T # {}
  PROVE  Min(T) \in T /\ \A y \in T : Min(T) <= y
BY LeastNumber DEF Min

\* The least element of an interval is its first, and the rest is an interval.
LEMMA MinOfInterval ==
  ASSUME NEW n \in Nat, NEW i \in 1..n
  PROVE  /\ i..n \in SUBSET (1..n) /\ i..n # {}
         /\ Min(i..n) = i /\ (i..n) \ {i} = (i + 1)..n
<1>. DEFINE T == i..n
<1>1. i \in T /\ \A x \in T : x \in 1..n /\ i <= x
  OBVIOUS
<1>2. T \ {i} = (i + 1)..n
  OBVIOUS
<1>3. T \subseteq 1..n /\ T # {} /\ T \in SUBSET Nat
  BY <1>1
<1>. HIDE DEF T
<1>4. Min(T) \in T /\ Min(T) <= i
  BY <1>1, <1>3, LeastOfSet
<1>5. \A m \in T : m <= i => m = i
  BY <1>1
<1>6. Min(T) = i
  BY <1>4, <1>5
<1>. QED  BY <1>2, <1>3, <1>6 DEF T

\* There is such a fold.
LEMMA DigitFoldExists ==
  ASSUME NEW s \in Seq(Nat)
  PROVE  \E f : DigitFold(f, s)
<1>. DEFINE n == Len(s)
            pick == [t \in SUBSET (1..n) |-> Min(t)]
            op == [p \in (1..n) \X Nat |-> (s[p[1]] % 128) + 128 * p[2]]
<1>1. \A t \in SUBSET (1..n) : t # {} => pick[t] \in t
  <2>1. 1..n \subseteq Nat
    OBVIOUS
  <2>. QED  BY <2>1, LeastOfSet
<1>2. op \in [(1..n) \X Nat -> Nat]
  <2>1. \A p \in (1..n) \X Nat : s[p[1]] \in Nat /\ p[2] \in Nat
    OBVIOUS
  <2>. QED  BY <2>1
<1>3. \A i \in 1..n, m \in Nat : op[<<i, m>>] = (s[i] % 128) + 128 * m
  OBVIOUS
<1>6. DOMAIN s = 1..n /\ n \in Nat
  OBVIOUS
<1>. HIDE DEF op, pick, n
<1>4. PICK f \in [SUBSET (1..n) -> Nat] : IsFold(f, n, op, 0, pick)
  BY <1>1, <1>2, <1>6, FoldExists
<1>5. \A t \in SUBSET (1..n) :
        f[t] = IF t = {} THEN 0 ELSE (s[Min(t)] % 128) + 128 * f[t \ {Min(t)}]
  <2>. SUFFICES ASSUME NEW t \in SUBSET (1..n)
                PROVE f[t] = IF t = {} THEN 0 ELSE (s[Min(t)] % 128) + 128 * f[t \ {Min(t)}]
    OBVIOUS
  <2>1. f[t] = IF t = {} THEN 0 ELSE op[<<pick[t], f[t \ {pick[t]}]>>]
    BY <1>4 DEF IsFold
  <2>2. pick[t] = Min(t)
    BY DEF pick
  <2>3. ASSUME t # {}
        PROVE  op[<<pick[t], f[t \ {pick[t]}]>>] = (s[Min(t)] % 128) + 128 * f[t \ {Min(t)}]
    <3>1. Min(t) \in 1..n /\ f[t \ {Min(t)}] \in Nat
      BY <1>1, <2>2, <2>3
    <3>2. op[<<Min(t), f[t \ {Min(t)}]>>] = (s[Min(t)] % 128) + 128 * f[t \ {Min(t)}]
      BY <3>1, <1>3, Zenon
    <3>. QED  BY <3>2, <2>2, Zenon
  <2>. QED  BY <2>1, <2>3
<1>7. f = [t \in SUBSET (1..n) |->
             IF t = {} THEN 0 ELSE (s[Min(t)] % 128) + 128 * f[t \ {Min(t)}]]
  <2>1. f = [t \in SUBSET (1..n) |-> f[t]]
    OBVIOUS
  <2>2. [t \in SUBSET (1..n) |-> f[t]] = [t \in SUBSET (1..n) |->
             IF t = {} THEN 0 ELSE (s[Min(t)] % 128) + 128 * f[t \ {Min(t)}]]
    BY <1>5, Zenon
  <2>. QED  BY <2>1, <2>2
<1>. QED  BY <1>6, <1>7, ZenonT(40) DEF DigitFold

\* The digits are taken from the left, each adding to 128 times what follows it.
LEMMA NumberSteps ==
  ASSUME NEW s \in Seq(Nat)
  PROVE  \E g : /\ Number(s) = g[1..Len(s)] /\ g[(Len(s) + 1)..Len(s)] = 0
                /\ \A i \in 1..Len(s) : g[i..Len(s)] = (s[i] % 128) + 128 * g[(i + 1)..Len(s)]
<1>. DEFINE n == Len(s)
            g == CHOOSE f : DigitFold(f, s)
<1>1. DigitFold(g, s)
  BY DigitFoldExists
<1>2. DOMAIN s = 1..n /\ n \in Nat
  OBVIOUS
<1>3. Number(s) = g[1..n]
  BY <1>2, NumberUnfolded
<1>. HIDE DEF n, g
<1>4. \A t \in SUBSET (1..n) :
        g[t] = IF t = {} THEN 0 ELSE (s[Min(t)] % 128) + 128 * g[t \ {Min(t)}]
  BY <1>1, <1>2 DEF DigitFold
<1>5. g[(n + 1)..n] = 0
  <2>1. (n + 1)..n = {}
    BY <1>2
  <2>. QED  BY <1>4, <2>1
<1>6. ASSUME NEW i \in 1..n PROVE g[i..n] = (s[i] % 128) + 128 * g[(i + 1)..n]
  <2>1. /\ i..n \in SUBSET (1..n) /\ i..n # {}
        /\ Min(i..n) = i /\ (i..n) \ {i} = (i + 1)..n
    BY <1>2, MinOfInterval
  <2>. DEFINE t == i..n
  <2>2. t \in SUBSET (1..n) /\ t # {} /\ Min(t) = i /\ t \ {i} = (i + 1)..n
    BY <2>1, Zenon
  <2>. HIDE DEF t
  <2>3. g[t] = (s[Min(t)] % 128) + 128 * g[t \ {Min(t)}]
    BY <1>4, <2>2, Zenon
  <2>4. g[t] = (s[i] % 128) + 128 * g[(i + 1)..n]
    BY <2>2, <2>3, Zenon
  <2>. QED  BY <2>4 DEF t
<1>. QED  BY <1>3, <1>5, <1>6 DEF n

\* It is a natural number, the first of any sequence of numbers that the digits build up.
LEMMA NumberOf ==
  ASSUME NEW s \in Seq(Nat)
  PROVE  /\ Number(s) \in Nat
         /\ \A q \in Seq(Nat) :
              /\ Len(q) = Len(s) + 1 /\ q[Len(s) + 1] = 0
              /\ \A i \in 1..Len(s) : q[i] = (s[i] % 128) + 128 * q[i + 1]
              => Number(s) = q[1]
<1>. DEFINE n == Len(s)
<1>1. n \in Nat
  OBVIOUS
<1>2. PICK g : /\ Number(s) = g[1..n] /\ g[(n + 1)..n] = 0
               /\ \A i \in 1..n : g[i..n] = (s[i] % 128) + 128 * g[(i + 1)..n]
  BY NumberSteps
<1>3. \A i \in 1..n : s[i] \in Nat
  OBVIOUS
<1>. HIDE DEF n
<1>4. Number(s) \in Nat
  <2>. DEFINE T == {k \in Nat : k <= n => g[(n + 1 - k)..n] \in Nat}
  <2>1. 0 \in T
    BY <1>1, <1>2
  <2>2. ASSUME NEW k \in Nat, k \in T PROVE k + 1 \in T
    <3>. SUFFICES ASSUME k + 1 <= n PROVE g[(n + 1 - (k + 1))..n] \in Nat
      OBVIOUS
    <3>. DEFINE i == n - k
    <3>1. i \in 1..n /\ i = n + 1 - (k + 1) /\ i + 1 = n + 1 - k
      BY <1>1
    <3>2. g[(i + 1)..n] \in Nat
      BY <1>1, <2>2, <3>1
    <3>. HIDE DEF i
    <3>3. \A m \in Nat : (s[i] % 128) + 128 * m \in Nat
      BY <1>3, <3>1
    <3>4. g[i..n] \in Nat
      BY <1>2, <3>1, <3>2, <3>3
    <3>. QED  BY <3>1, <3>4
  <2>. HIDE DEF T
  <2>3. n \in T
    BY <1>1, <2>1, <2>2, SetInduction
  <2>4. g[(n + 1 - n)..n] \in Nat
    BY <1>1, <2>3 DEF T
  <2>5. n + 1 - n = 1
    BY <1>1
  <2>. QED  BY <1>2, <2>4, <2>5
<1>5. ASSUME NEW q \in Seq(Nat), Len(q) = n + 1, q[n + 1] = 0,
             \A i \in 1..n : q[i] = (s[i] % 128) + 128 * q[i + 1]
      PROVE  Number(s) = q[1]
  <2>. DEFINE T == {k \in Nat : k <= n => g[(n + 1 - k)..n] = q[n + 1 - k]}
  <2>1. 0 \in T
    BY <1>1, <1>2, <1>5
  <2>2. ASSUME NEW k \in Nat, k \in T PROVE k + 1 \in T
    <3>. SUFFICES ASSUME k + 1 <= n PROVE g[(n + 1 - (k + 1))..n] = q[n + 1 - (k + 1)]
      OBVIOUS
    <3>. DEFINE i == n - k
    <3>1. i \in 1..n /\ i = n + 1 - (k + 1) /\ i + 1 = n + 1 - k
      BY <1>1
    <3>2. g[(i + 1)..n] = q[i + 1]
      BY <1>1, <2>2, <3>1
    <3>. HIDE DEF i
    <3>3. g[i..n] = q[i]
      BY <1>2, <1>5, <3>1, <3>2
    <3>. QED  BY <3>1, <3>3
  <2>. HIDE DEF T
  <2>3. n \in T
    BY <1>1, <2>1, <2>2, SetInduction
  <2>4. g[(n + 1 - n)..n] = q[n + 1 - n]
    BY <1>1, <2>3 DEF T
  <2>5. n + 1 - n = 1
    BY <1>1
  <2>. QED  BY <1>2, <2>4, <2>5
<1>. QED  BY <1>4, <1>5 DEF n

-----------------------------------------------------------------------------
(***************************************************************************)
(* Varints.                                                                *)
(***************************************************************************)
\* The bike's encoding is defined for every number.
LEMMA VarintDefined ==
  \A n \in Nat :
    Varint[n] = IF n < 128 THEN <<n>> ELSE <<128 + (n % 128)>> \o Varint[n \div 128]
<1>. DEFINE S == Seq(Nat)
            rank == [n \in Nat |-> n]
            step == [p \in Nat \X [Nat -> S] |->
                       IF p[1] < 128 THEN <<p[1]>>
                       ELSE <<128 + (p[1] % 128)>> \o p[2][p[1] \div 128]]
<1>1. \A n \in Nat : /\ n \div 128 \in Nat /\ n % 128 \in 0..127
                     /\ n >= 128 => n \div 128 < n
  OBVIOUS
<1>2. S # {} /\ rank \in [Nat -> Nat]
  <2>1. <<>> \in S
    OBVIOUS
  <2>. QED  BY <2>1
<1>3. ASSUME NEW n \in Nat, NEW f \in [Nat -> S]
      PROVE  /\ step[<<n, f>>] = IF n < 128 THEN <<n>> ELSE <<128 + (n % 128)>> \o f[n \div 128]
             /\ step[<<n, f>>] \in S
  <2>1. <<n, f>> \in Nat \X [Nat -> S] /\ <<n, f>>[1] = n /\ <<n, f>>[2] = f
    OBVIOUS
  <2>2. step[<<n, f>>] = IF n < 128 THEN <<n>> ELSE <<128 + (n % 128)>> \o f[n \div 128]
    BY <2>1
  <2>3. <<n>> \in S /\ <<128 + (n % 128)>> \o f[n \div 128] \in S
    <3>1. f[n \div 128] \in S /\ 128 + (n % 128) \in Nat
      BY <1>1
    <3>. QED  BY <3>1
  <2>. HIDE DEF step, S
  <2>. QED  BY <2>2, <2>3
<1>4. step \in [Nat \X [Nat -> S] -> S]
  <2>1. \A p \in Nat \X [Nat -> S] : p = <<p[1], p[2]>> /\ p[1] \in Nat /\ p[2] \in [Nat -> S]
    OBVIOUS
  <2>2. \A p \in Nat \X [Nat -> S] : step[p] \in S
    <3>. HIDE DEF step
    <3>. SUFFICES ASSUME NEW p \in Nat \X [Nat -> S] PROVE step[p] \in S
      OBVIOUS
    <3>1. step[<<p[1], p[2]>>] \in S
      BY <1>3, <2>1
    <3>. QED  BY <2>1, <3>1
  <2>3. step = [p \in Nat \X [Nat -> S] |-> step[p]]
    OBVIOUS
  <2>. HIDE DEF step
  <2>. QED  BY <2>2, <2>3
<1>5. Descends(step, rank, Nat, S)
  <2>. SUFFICES ASSUME NEW n \in Nat, NEW f \in [Nat -> S], NEW g \in [Nat -> S],
                       \A m \in Nat : rank[m] < rank[n] => f[m] = g[m]
                PROVE  step[<<n, f>>] = step[<<n, g>>]
    BY DEF Descends
  <2>1. n >= 128 => f[n \div 128] = g[n \div 128]
    <3>1. n >= 128 => n \div 128 \in Nat /\ n \div 128 < n
      <4>. HIDE DEF step, rank, S
      <4>. QED  OBVIOUS
    <3>2. \A m \in Nat : m < n => f[m] = g[m]
      OBVIOUS
    <3>. HIDE DEF step, rank, S
    <3>. QED  BY <3>1, <3>2, Zenon
  <2>2. /\ step[<<n, f>>] = IF n < 128 THEN <<n>> ELSE <<128 + (n % 128)>> \o f[n \div 128]
        /\ step[<<n, g>>] = IF n < 128 THEN <<n>> ELSE <<128 + (n % 128)>> \o g[n \div 128]
    <3>. HIDE DEF step, rank, S
    <3>. QED  BY <1>3
  <2>. HIDE DEF step, rank
  <2>. QED  BY <2>1, <2>2
<1>. HIDE DEF step, rank, S
<1>6. PICK f \in [Nat -> S] : Solves(f, step, Nat)
  BY <1>2, <1>4, <1>5, RecursionExists
<1>7. f = [n \in Nat |-> IF n < 128 THEN <<n>> ELSE <<128 + (n % 128)>> \o f[n \div 128]]
  <2>1. f = [n \in Nat |-> step[<<n, f>>]]
    BY <1>6 DEF Solves
  <2>2. \A n \in Nat : step[<<n, f>>] =
          IF n < 128 THEN <<n>> ELSE <<128 + (n % 128)>> \o f[n \div 128]
    BY <1>3
  <2>3. [n \in Nat |-> step[<<n, f>>]] =
          [n \in Nat |-> IF n < 128 THEN <<n>> ELSE <<128 + (n % 128)>> \o f[n \div 128]]
    BY <2>2, Zenon
  <2>. QED  BY <2>1, <2>3
<1>8. Varint = [n \in Nat |->
                  IF n < 128 THEN <<n>> ELSE <<128 + (n % 128)>> \o Varint[n \div 128]]
  BY <1>7, Zenon DEF Varint
<1>. QED  BY <1>8

\* w is v, in digits of seven bits: q is what remains of v before each of them.
Digits(w, v) ==
  /\ w \in Seq(Nat) /\ Len(w) >= 1
  /\ \A i \in 1..Len(w) : w[i] < 128 <=> i = Len(w)
  /\ \E q \in Seq(Nat) :
       /\ Len(q) = Len(w) + 1 /\ q[1] = v /\ q[Len(w) + 1] = 0
       /\ \A i \in 1..Len(w) : q[i] = (w[i] % 128) + 128 * q[i + 1]

\* A number below 128 is one digit.
LEMMA OneDigit ==
  ASSUME NEW v \in Nat, v < 128
  PROVE  Digits(<<v>>, v)
<1>. DEFINE q == <<v, 0>>
<1>1. q \in Seq(Nat) /\ Len(q) = 2 /\ q[1] = v /\ q[2] = 0
  OBVIOUS
<1>2. <<v>> \in Seq(Nat) /\ Len(<<v>>) = 1 /\ <<v>>[1] = v
  OBVIOUS
<1>3. v % 128 = v
  OBVIOUS
<1>. HIDE DEF q
<1>. QED  BY <1>1, <1>2, <1>3 DEF Digits

\* A larger one is a digit, and then those of what is left.
LEMMA MoreDigits ==
  ASSUME NEW v \in Nat, v >= 128, NEW w, Digits(w, v \div 128)
  PROVE  Digits(<<128 + (v % 128)>> \o w, v)
<1>. DEFINE b == 128 + (v % 128)
            u == <<b>> \o w
            n == Len(w)
<1>1. PICK r \in Seq(Nat) : /\ Len(r) = n + 1 /\ r[1] = v \div 128 /\ r[n + 1] = 0
                           /\ \A i \in 1..n : r[i] = (w[i] % 128) + 128 * r[i + 1]
  BY DEF Digits
<1>. DEFINE q == <<v>> \o r
<1>2. w \in Seq(Nat) /\ n \in Nat /\ n >= 1 /\ \A i \in 1..n : w[i] < 128 <=> i = n
  BY DEF Digits
<1>3. /\ b \in Nat /\ b >= 128 /\ v \div 128 \in Nat
      /\ v = (b % 128) + 128 * (v \div 128)
  OBVIOUS
<1>. HIDE DEF n, b
<1>4. u \in Seq(Nat) /\ Len(u) = n + 1 /\ u[1] = b /\ \A i \in 2..(n + 1) : u[i] = w[i - 1]
  BY <1>2, <1>3 DEF n
<1>5. q \in Seq(Nat) /\ Len(q) = n + 2 /\ q[1] = v /\ \A i \in 2..(n + 2) : q[i] = r[i - 1]
  BY <1>1, <1>2
<1>. HIDE DEF u, q
<1>6. ASSUME NEW i \in 1..(n + 1) PROVE u[i] < 128 <=> i = n + 1
  <2>1. CASE i = 1
    BY <1>2, <1>3, <1>4, <2>1
  <2>2. CASE i # 1
    <3>1. i \in 2..(n + 1) /\ i - 1 \in 1..n /\ (i - 1 = n <=> i = n + 1)
      BY <1>2, <2>2
    <3>. QED  BY <1>2, <1>4, <3>1
  <2>. QED  BY <2>1, <2>2
<1>7. ASSUME NEW i \in 1..(n + 1) PROVE q[i] = (u[i] % 128) + 128 * q[i + 1]
  <2>1. CASE i = 1
    BY <1>1, <1>2, <1>3, <1>4, <1>5, <2>1
  <2>2. CASE i # 1
    <3>1. i \in 2..(n + 1) /\ i \in 2..(n + 2) /\ i - 1 \in 1..n /\ i + 1 \in 2..(n + 2)
      BY <1>2, <2>2
    <3>2. q[i] = r[i - 1] /\ u[i] = w[i - 1]
      BY <1>4, <1>5, <3>1
    <3>3. q[i + 1] = r[i]
      <4>1. (i + 1) - 1 = i
        OBVIOUS
      <4>. QED  BY <1>5, <3>1, <4>1
    <3>4. r[i - 1] = (w[i - 1] % 128) + 128 * r[(i - 1) + 1] /\ (i - 1) + 1 = i
      BY <1>1, <3>1
    <3>. QED  BY <3>2, <3>3, <3>4
  <2>. QED  BY <2>1, <2>2
<1>8. q[n + 2] = 0
  <2>1. n + 2 \in 2..(n + 2) /\ (n + 2) - 1 = n + 1
    BY <1>2
  <2>. QED  BY <1>1, <1>5, <2>1
<1>9. (n + 1) + 1 = n + 2 /\ n + 1 >= 1
  BY <1>2
<1>10. /\ Len(u) >= 1 /\ Len(q) = Len(u) + 1 /\ q[Len(u) + 1] = 0
       /\ \A i \in 1..Len(u) : u[i] < 128 <=> i = Len(u)
       /\ \A i \in 1..Len(u) : q[i] = (u[i] % 128) + 128 * q[i + 1]
  BY <1>4, <1>5, <1>6, <1>7, <1>8, <1>9
<1>11. Digits(u, v)
  BY <1>4, <1>5, <1>10 DEF Digits
<1>. QED  BY <1>11 DEF u, b

\* The bike's varint is the digits of its number, however large.
LEMMA VarintDigits == \A v \in Nat : Digits(Varint[v], v)
<1>. DEFINE Bad == {v \in Nat : ~Digits(Varint[v], v)}
<1>. SUFFICES ASSUME Bad # {} PROVE FALSE
  OBVIOUS
<1>1. Bad \in SUBSET Nat
  OBVIOUS
<1>2. PICK v \in Bad : \A u \in Bad : v <= u
  BY <1>1, LeastNumber
<1>3. CASE v < 128
  <2>1. Varint[v] = <<v>>
    BY <1>3, VarintDefined
  <2>. QED  BY <1>3, <2>1, OneDigit
<1>4. CASE ~ (v < 128)
  <2>1. v \in Nat /\ v \div 128 \in Nat /\ v \div 128 < v /\ v >= 128
    BY <1>4
  <2>2. Digits(Varint[v \div 128], v \div 128)
    BY <1>2, <2>1
  <2>3. Varint[v] = <<128 + (v % 128)>> \o Varint[v \div 128]
    BY <1>4, <2>1, VarintDefined
  <2>. QED  BY <2>1, <2>2, <2>3, MoreDigits
<1>. QED  BY <1>3, <1>4

\* It has at least one byte.
LEMMA VarintLength ==
  ASSUME NEW v \in Nat
  PROVE  Varint[v] \in Seq(Nat) /\ Len(Varint[v]) \in Nat /\ Len(Varint[v]) >= 1
<1>1. Digits(Varint[v], v)
  BY VarintDigits
<1>. QED  BY <1>1 DEF Digits

\* The digits of a varint make up the number it was written from.
LEMMA VarintNumber ==
  ASSUME NEW v \in Nat
  PROVE  Number(Varint[v]) = v
<1>1. Digits(Varint[v], v)
  BY VarintDigits
<1>. QED  BY <1>1, NumberOf DEF Digits

\* Where the varints that begin after an offset may end.
Ends(data, offset) == {i \in (offset + 1)..Len(data) : data[i] < 128}

\* A varint ends at the first byte below 128, or is truncated.
LEMMA ParseVarintUnfolded ==
  ASSUME NEW data, NEW offset
  PROVE  ParseVarint(data, offset) =
           IF Ends(data, offset) = {} THEN Truncated
           ELSE [ok |-> TRUE,
                 value |-> Number(SubSeq(data, offset + 1, Min(Ends(data, offset)))),
                 next |-> Min(Ends(data, offset))]
BY DEF ParseVarint, Number, Ends

\* What is read ends after the offset and within the bytes.
LEMMA ParseVarintType ==
  ASSUME NEW data \in Seq(Nat), NEW offset \in 0..Len(data)
  PROVE  LET read == ParseVarint(data, offset) IN
         \/ read = Truncated
         \/ /\ read.ok = TRUE /\ read.value \in Nat
            /\ read.next \in (offset + 1)..Len(data)
<1>. DEFINE E == Ends(data, offset)
<1>. SUFFICES ASSUME E # {} PROVE LET read == ParseVarint(data, offset) IN
            /\ read.ok = TRUE /\ read.value \in Nat
            /\ read.next \in (offset + 1)..Len(data)
  BY ParseVarintUnfolded
<1>1. E \in SUBSET Nat /\ \A i \in E : i \in (offset + 1)..Len(data)
  BY DEF Ends
<1>2. Min(E) \in (offset + 1)..Len(data)
  <2>. HIDE DEF E
  <2>. QED  BY <1>1, LeastOfSet
<1>3. SubSeq(data, offset + 1, Min(E)) \in Seq(Nat)
  <2>. HIDE DEF E
  <2>. QED  BY <1>2
<1>4. Number(SubSeq(data, offset + 1, Min(E))) \in Nat
  <2>. HIDE DEF E
  <2>. QED  BY <1>3, NumberOf
<1>. QED  BY <1>2, <1>4, ParseVarintUnfolded

\* The bytes c are in data, after an offset.
Found(c, data, offset) ==
  offset + Len(c) <= Len(data) /\ \A i \in 1..Len(c) : data[offset + i] = c[i]

\* What the reader makes of a varint that the bike wrote.
LEMMA ParseVarintReads ==
  ASSUME NEW data \in Seq(Nat), NEW offset \in 0..Len(data), NEW v \in Nat,
         Found(Varint[v], data, offset)
  PROVE  ParseVarint(data, offset) =
           [ok |-> TRUE, value |-> v, next |-> offset + Len(Varint[v])]
<1>. DEFINE w == Varint[v]
            n == Len(w)
            E == Ends(data, offset)
<1>2. Number(w) = v /\ Digits(w, v)
  BY VarintNumber, VarintDigits
<1>3. offset + n <= Len(data) /\ \A i \in 1..n : data[offset + i] = w[i]
  BY DEF Found
<1>. HIDE DEF w
<1>1. /\ w \in Seq(Nat) /\ n \in Nat /\ n >= 1
      /\ \A i \in 1..n : w[i] < 128 <=> i = n
  BY <1>2 DEF Digits
<1>. HIDE DEF n
<1>4. offset + n \in E
  <2>1. n \in 1..n /\ offset + n \in (offset + 1)..Len(data)
    BY <1>1, <1>3
  <2>2. data[offset + n] < 128
    BY <1>1, <1>3, <2>1
  <2>. QED  BY <2>1, <2>2 DEF Ends
<1>5. ASSUME NEW i \in E PROVE offset + n <= i
  <2>. SUFFICES ASSUME i < offset + n PROVE FALSE
    BY <1>1 DEF Ends
  <2>1. i - offset \in 1..n /\ i - offset # n /\ offset + (i - offset) = i
    BY <1>1 DEF Ends
  <2>2. data[i] < 128
    BY DEF Ends
  <2>. QED  BY <1>1, <1>3, <2>1, <2>2
<1>6. E \in SUBSET Nat /\ E # {}
  BY <1>4 DEF Ends
<1>7. Min(E) = offset + n
  <2>. HIDE DEF E
  <2>1. Min(E) \in E /\ Min(E) <= offset + n
    BY <1>4, <1>6, LeastOfSet
  <2>2. \A i \in E : i <= offset + n => i = offset + n
    BY <1>1, <1>5, <1>6
  <2>. QED  BY <2>1, <2>2
<1>8. SubSeq(data, offset + 1, offset + n) = w
  <2>1. /\ SubSeq(data, offset + 1, offset + n) \in Seq(Nat)
        /\ Len(SubSeq(data, offset + 1, offset + n)) = n
        /\ \A i \in 1..n : SubSeq(data, offset + 1, offset + n)[i] = data[offset + i]
    BY <1>1, <1>3
  <2>2. \A i \in 1..n : SubSeq(data, offset + 1, offset + n)[i] = w[i]
    BY <1>3, <2>1
  <2>. QED  BY <1>1, <2>1, <2>2, SeqEqual DEF n
<1>9. ParseVarint(data, offset) = [ok |-> TRUE, value |-> Number(w), next |-> offset + n]
  BY <1>6, <1>7, <1>8, ParseVarintUnfolded
<1>. QED  BY <1>2, <1>9 DEF n, w

-----------------------------------------------------------------------------
(***************************************************************************)
(* The fields of a payload.                                                *)
(***************************************************************************)
\* What a reader may return: a number for each of some fields.
Fields == UNION {[E -> Nat] : E \in SUBSET Nat}
Parsed == [ok : BOOLEAN, values : Fields]

\* A payload may have no field.
LEMMA NoFields == <<>> \in Fields /\ DOMAIN <<>> = {}
<1>1. DOMAIN <<>> = {}
  OBVIOUS
<1>2. <<>> \in [{} -> Nat]
  OBVIOUS
<1>. QED  BY <1>1, <1>2 DEF Fields

\* One more field is among the fields that there may be.
LEMMA AnotherField ==
  ASSUME NEW f \in Fields, NEW k \in Nat, NEW v \in Nat
  PROVE  WithField(f, k, v) \in Fields
<1>1. PICK E \in SUBSET Nat : f \in [E -> Nat]
  BY DEF Fields
<1>2. WithField(f, k, v) \in [E \cup {k} -> Nat]
  BY <1>1 DEF WithField
<1>. QED  BY <1>1, <1>2 DEF Fields

\* What is read at an offset, when f says what is read at the later ones.
FieldsAt(p, offset, f) ==
  LET key == ParseVarint(p, offset)
      value == ParseVarint(p, key.next)
      later == f[value.next]
  IN IF offset = Len(p) THEN [ok |-> TRUE, values |-> <<>>]
     ELSE IF ~key.ok \/ key.value % 8 # 0 \/ ~value.ok \/ ~later.ok THEN Malformed
     ELSE [ok |-> TRUE, values |-> WithField(later.values, key.value \div 8, value.value)]

\* The reader is a recursion on the offset.
LEMMA ParseFieldsUnfolded ==
  ASSUME NEW p
  PROVE  ParseFields(p) =
           (CHOOSE f : f = [offset \in 0..Len(p) |-> FieldsAt(p, offset, f)])[0]
BY DEF ParseFields, FieldsAt

\* It returns fields, or that the payload is malformed.
LEMMA FieldsAtType ==
  ASSUME NEW p \in Seq(Nat), NEW offset \in 0..Len(p), NEW f \in [0..Len(p) -> Parsed]
  PROVE  FieldsAt(p, offset, f) \in Parsed
<1>. DEFINE key == ParseVarint(p, offset)
            value == ParseVarint(p, key.next)
            later == f[value.next]
<1>1. /\ [ok |-> TRUE, values |-> <<>>] \in Parsed
      /\ Malformed \in Parsed
  BY NoFields DEF Parsed, Malformed
<1>2. key = Truncated \/ (key.ok = TRUE /\ key.value \in Nat /\ key.next \in (offset + 1)..Len(p))
  BY ParseVarintType
<1>3. CASE offset = Len(p) \/ ~key.ok
  BY <1>1, <1>3 DEF FieldsAt
<1>4. CASE key.ok
  <2>1. key.value \in Nat /\ key.next \in 0..Len(p)
    BY <1>2, <1>4 DEF Truncated
  <2>2. \/ value = Truncated
        \/ value.ok = TRUE /\ value.value \in Nat /\ value.next \in (key.next + 1)..Len(p)
    BY <2>1, ParseVarintType
  <2>3. CASE ~value.ok
    BY <1>1, <2>3 DEF FieldsAt
  <2>4. CASE value.ok
    <3>1. value.value \in Nat /\ value.next \in 0..Len(p)
      BY <2>1, <2>2, <2>4 DEF Truncated
    <3>2. later \in Parsed
      BY <3>1
    <3>. HIDE DEF key, value, later
    <3>5. later.values \in Fields /\ key.value \div 8 \in Nat
      BY <2>1, <3>2 DEF Parsed
    <3>3. WithField(later.values, key.value \div 8, value.value) \in Fields
      BY <3>1, <3>5, AnotherField
    <3>4. [ok |-> TRUE, values |-> WithField(later.values, key.value \div 8, value.value)] \in Parsed
      BY <3>3 DEF Parsed
    <3>. QED  BY <1>1, <3>4 DEF FieldsAt, key, value, later
  <2>. QED  BY <2>3, <2>4
<1>. QED  BY <1>3, <1>4

\* Only what is read further on matters.
LEMMA FieldsAtDescends ==
  ASSUME NEW p \in Seq(Nat), NEW offset \in 0..Len(p), NEW f, NEW g,
         \A later \in (offset + 1)..Len(p) : f[later] = g[later]
  PROVE  FieldsAt(p, offset, f) = FieldsAt(p, offset, g)
<1>. DEFINE key == ParseVarint(p, offset)
            value == ParseVarint(p, key.next)
<1>2. key = Truncated \/ (key.ok = TRUE /\ key.value \in Nat /\ key.next \in (offset + 1)..Len(p))
  BY ParseVarintType
<1>3. CASE ~key.ok
  BY <1>3 DEF FieldsAt
<1>4. CASE key.ok
  <2>1. key.next \in (offset + 1)..Len(p) /\ key.next \in 0..Len(p)
    BY <1>2, <1>4 DEF Truncated
  <2>2. \/ value = Truncated
        \/ value.ok = TRUE /\ value.next \in (key.next + 1)..Len(p)
    BY <2>1, ParseVarintType
  <2>3. CASE ~value.ok
    BY <2>3 DEF FieldsAt
  <2>4. CASE value.ok
    <3>1. value.next \in (offset + 1)..Len(p)
      BY <2>1, <2>2, <2>4 DEF Truncated
    <3>2. f[value.next] = g[value.next]
      BY <3>1
    <3>. QED  BY <3>2 DEF FieldsAt
  <2>. QED  BY <2>3, <2>4
<1>. QED  BY <1>3, <1>4

\* The reader reads some fields, or raises, at every offset.
LEMMA FieldsAreRead ==
  ASSUME NEW p \in Seq(Nat)
  PROVE  \E f : /\ ParseFields(p) = f[0]
                /\ \A offset \in 0..Len(p) : f[offset] = FieldsAt(p, offset, f)
<1>. DEFINE D == 0..Len(p)
            rank == [offset \in D |-> Len(p) - offset]
            step == [q \in D \X [D -> Parsed] |-> FieldsAt(p, q[1], q[2])]
<1>1. rank \in [D -> Nat] /\ Parsed # {}
  <2>1. Malformed \in Parsed
    BY NoFields DEF Parsed, Malformed
  <2>. QED  BY <2>1
<1>2. ASSUME NEW offset \in D, NEW f \in [D -> Parsed]
      PROVE  step[<<offset, f>>] = FieldsAt(p, offset, f) /\ step[<<offset, f>>] \in Parsed
  <2>1. /\ <<offset, f>> \in D \X [D -> Parsed]
        /\ <<offset, f>>[1] = offset /\ <<offset, f>>[2] = f
    OBVIOUS
  <2>2. step[<<offset, f>>] = FieldsAt(p, offset, f)
    BY <2>1
  <2>. QED  BY <2>2, FieldsAtType
<1>3. step \in [D \X [D -> Parsed] -> Parsed]
  <2>1. \A q \in D \X [D -> Parsed] : q[1] \in D /\ q[2] \in [D -> Parsed]
    OBVIOUS
  <2>2. \A q \in D \X [D -> Parsed] : FieldsAt(p, q[1], q[2]) \in Parsed
    BY <2>1, FieldsAtType
  <2>. QED  BY <2>2
<1>4. Descends(step, rank, D, Parsed)
  <2>. SUFFICES ASSUME NEW offset \in D, NEW f \in [D -> Parsed], NEW g \in [D -> Parsed],
                       \A later \in D : rank[later] < rank[offset] => f[later] = g[later]
                PROVE  step[<<offset, f>>] = step[<<offset, g>>]
    BY DEF Descends
  <2>1. \A later \in (offset + 1)..Len(p) : f[later] = g[later]
    <3>1. \A later \in (offset + 1)..Len(p) : later \in D /\ rank[later] < rank[offset]
      OBVIOUS
    <3>. QED  BY <3>1
  <2>2. FieldsAt(p, offset, f) = FieldsAt(p, offset, g)
    BY <2>1, FieldsAtDescends
  <2>. QED  BY <1>2, <2>2
<1>. HIDE DEF step, rank, D
<1>5. PICK f \in [D -> Parsed] : Solves(f, step, D)
  BY <1>1, <1>3, <1>4, RecursionExists
<1>6. f = [offset \in D |-> FieldsAt(p, offset, f)]
  <2>1. f = [offset \in D |-> step[<<offset, f>>]]
    BY <1>5 DEF Solves
  <2>2. \A offset \in D : step[<<offset, f>>] = FieldsAt(p, offset, f)
    BY <1>2
  <2>3. [offset \in D |-> step[<<offset, f>>]] = [offset \in D |-> FieldsAt(p, offset, f)]
    BY <2>2, Zenon
  <2>. QED  BY <2>1, <2>3
<1>. DEFINE h == CHOOSE g : g = [offset \in 0..Len(p) |-> FieldsAt(p, offset, g)]
<1>7. h = [offset \in 0..Len(p) |-> FieldsAt(p, offset, h)]
  BY <1>6, Zenon DEF D
<1>8. ParseFields(p) = h[0]
  BY ParseFieldsUnfolded
<1>. HIDE DEF h
<1>. QED  BY <1>7, <1>8

\* With a readable rest in `f' behind it, the number v of the field k is read at the offset.
ReadsNumber(p, offset, f, k, v) ==
  /\ p[offset + 1] = k * 8 /\ Found(Varint[v], p, offset + 1)
  /\ f[offset + 1 + Len(Varint[v])].ok = TRUE
  => FieldsAt(p, offset, f) =
       [ok |-> TRUE, values |-> WithField(f[offset + 1 + Len(Varint[v])].values, k, v)]

\* A field that the bike wrote is read back, with what follows it.
LEMMA FieldIsRead ==
  ASSUME NEW p \in Seq(Nat), NEW offset \in 0..Len(p), NEW k \in {1, 2}, NEW v \in Nat, NEW f
  PROVE  ReadsNumber(p, offset, f, k, v)
<1>. SUFFICES ASSUME p[offset + 1] = k * 8, Found(Varint[v], p, offset + 1),
                     f[offset + 1 + Len(Varint[v])].ok = TRUE
              PROVE  FieldsAt(p, offset, f) =
                       [ok |-> TRUE, values |-> WithField(f[offset + 1 + Len(Varint[v])].values, k, v)]
  BY DEF ReadsNumber
<1>. DEFINE n == Len(Varint[v])
            key == ParseVarint(p, offset)
            value == ParseVarint(p, key.next)
<1>1. n \in Nat /\ n >= 1
  BY VarintLength
<1>0. offset + 1 + n <= Len(p)
  BY DEF Found
<1>. HIDE DEF n
<1>2. key = [ok |-> TRUE, value |-> k * 8, next |-> offset + 1]
  <2>1. k * 8 \in Nat /\ k * 8 < 128 /\ offset + 1 <= Len(p)
    BY <1>0, <1>1
  <2>2. Varint[k * 8] = <<k * 8>>
    <3>1. \A d \in Nat : d < 128 => Varint[d] = <<d>>
      BY VarintDefined
    <3>. QED  BY <2>1, <3>1
  <2>3. Len(Varint[k * 8]) = 1 /\ Varint[k * 8][1] = k * 8
    BY <2>2
  <2>4. Found(Varint[k * 8], p, offset)
    BY <2>1, <2>3 DEF Found
  <2>5. ParseVarint(p, offset) =
          [ok |-> TRUE, value |-> k * 8, next |-> offset + Len(Varint[k * 8])]
    BY <2>1, <2>4, ParseVarintReads
  <2>. QED  BY <2>3, <2>5
<1>3. value = [ok |-> TRUE, value |-> v, next |-> offset + 1 + n]
  <2>1. offset + 1 \in 0..Len(p)
    BY <1>0, <1>1
  <2>2. ParseVarint(p, offset + 1) = [ok |-> TRUE, value |-> v, next |-> offset + 1 + n]
    BY <2>1, ParseVarintReads DEF n
  <2>. QED  BY <1>2, <2>2
<1>4. (k * 8) % 8 = 0 /\ (k * 8) \div 8 = k /\ offset # Len(p)
  BY <1>0, <1>1
<1>. HIDE DEF key, value
<1>5. /\ key.ok = TRUE /\ key.value % 8 = 0 /\ value.ok = TRUE /\ f[value.next].ok = TRUE
      /\ key.value \div 8 = k /\ value.value = v /\ value.next = offset + 1 + n
  BY <1>2, <1>3, <1>4 DEF n
<1>6. FieldsAt(p, offset, f) =
        [ok |-> TRUE, values |-> WithField(f[value.next].values, key.value \div 8, value.value)]
  BY <1>4, <1>5 DEF FieldsAt, key, value
<1>. QED  BY <1>5, <1>6 DEF n

\* The bytes of a field.
LEMMA FieldBytes ==
  ASSUME NEW k \in {1, 2}, NEW v \in Nat
  PROVE  /\ Field(k, v) \in Seq(Nat) /\ Len(Field(k, v)) = 1 + Len(Varint[v])
         /\ Field(k, v)[1] = k * 8
         /\ \A i \in 1..Len(Varint[v]) : Field(k, v)[1 + i] = Varint[v][i]
<1>1. Varint[v] \in Seq(Nat)
  BY VarintLength
<1>2. Field(k, v) = <<k * 8>> \o Varint[v]
  BY DEF Field, Null
<1>. QED  BY <1>1, <1>2

\* With a readable rest in `f' behind it, the field k is read at the offset with value v.
ReadsOn(p, offset, f, k, v) ==
  Found(Field(k, v), p, offset) /\ f[offset + Len(Field(k, v))].ok = TRUE =>
    FieldsAt(p, offset, f) =
      [ok |-> TRUE, values |-> WithField(f[offset + Len(Field(k, v))].values, k, v)]

\* The same for the bytes of the field as they are written.
LEMMA FieldIsReadAt ==
  ASSUME NEW p \in Seq(Nat), NEW offset \in Nat, NEW k \in {1, 2}, NEW v \in Nat, NEW f
  PROVE  ReadsOn(p, offset, f, k, v)
<1>. SUFFICES ASSUME Found(Field(k, v), p, offset), f[offset + Len(Field(k, v))].ok = TRUE
              PROVE  FieldsAt(p, offset, f) =
                       [ok |-> TRUE, values |-> WithField(f[offset + Len(Field(k, v))].values, k, v)]
  BY DEF ReadsOn
<1>. DEFINE n == Len(Varint[v])
            c == Field(k, v)
<1>1. n \in Nat /\ n >= 1
  BY VarintLength
<1>2. /\ Len(c) = 1 + n /\ c[1] = k * 8
      /\ \A i \in 1..n : c[1 + i] = Varint[v][i]
  BY FieldBytes
<1>3. offset + Len(c) <= Len(p) /\ \A i \in 1..Len(c) : p[offset + i] = c[i]
  BY DEF Found
<1>4. f[offset + Len(c)].ok = TRUE
  OBVIOUS
<1>. HIDE DEF n, c
<1>10. Len(c) = 1 + n /\ offset + Len(c) <= Len(p) /\ Len(p) \in Nat
  BY <1>2, <1>3
<1>5. /\ offset \in 0..Len(p) /\ offset + 1 \in 0..Len(p)
      /\ offset + 1 + n <= Len(p) /\ offset + 1 + n = offset + Len(c)
  BY <1>1, <1>10
<1>6. p[offset + 1] = k * 8
  <2>1. 1 \in 1..Len(c)
    BY <1>1, <1>10
  <2>. QED  BY <1>2, <1>3, <2>1, Zenon
<1>7. Found(Varint[v], p, offset + 1)
  <2>1. ASSUME NEW i \in 1..n PROVE p[offset + 1 + i] = Varint[v][i]
    <3>1. 1 + i \in 1..Len(c) /\ offset + (1 + i) = offset + 1 + i
      BY <1>1, <1>2
    <3>. QED  BY <1>2, <1>3, <3>1
  <2>. QED  BY <1>5, <2>1 DEF Found, n
<1>8. f[offset + 1 + n].ok = TRUE
  BY <1>4, <1>5
<1>9. FieldsAt(p, offset, f) = [ok |-> TRUE, values |-> WithField(f[offset + 1 + n].values, k, v)]
  <2>1. ReadsNumber(p, offset, f, k, v)
    BY <1>5, FieldIsRead
  <2>. QED  BY <1>6, <1>7, <1>8, <2>1 DEF ReadsNumber, n
<1>. QED  BY <1>5, <1>9 DEF c

\* The fields of a report that is not garbled.
THEOREM ReportIsRead ==
  ASSUME NEW r \in Report, ~r.garbled
  PROVE  /\ ParseFields(Payload(r)).ok = TRUE
         /\ FieldOf(Payload(r), 1) = r.value /\ FieldOf(Payload(r), 2) = r.valid
<1>. DEFINE a == Field(1, r.value)
            b == Field(2, r.valid)
            p == a \o b
<1>1. /\ r.value \in Nat \cup {Null} /\ r.valid \in {Null, 0, 1} /\ Payload(r) = p
      /\ r.value = Null => a = <<>>
      /\ r.valid = Null => b = <<>>
  <2>1. r.value \in Nat \cup {Null} /\ r.valid \in {Null, 0, 1}
    BY DEF Report
  <2>2. Payload(r) = p
    BY DEF Payload
  <2>3. /\ r.value = Null => a = <<>>
        /\ r.valid = Null => b = <<>>
    BY DEF Field
  <2>. QED  BY <2>1, <2>2, <2>3
<1>2. /\ r.value # Null => r.value \in Nat /\ a \in Seq(Nat)
      /\ r.valid # Null => r.valid \in Nat /\ b \in Seq(Nat)
  <2>1. \A v \in Nat : Field(1, v) \in Seq(Nat) /\ Field(2, v) \in Seq(Nat)
    BY FieldBytes
  <2>2. /\ r.value # Null => r.value \in Nat
        /\ r.valid # Null => r.valid \in Nat
    BY <1>1
  <2>. QED  BY <2>1, <2>2
<1>0. a = Field(1, r.value) /\ b = Field(2, r.valid)
  OBVIOUS
<1>. HIDE DEF a, b
<1>3. a \in Seq(Nat) /\ b \in Seq(Nat)
  <2>1. <<>> \in Seq(Nat)
    OBVIOUS
  <2>. QED  BY <1>1, <1>2, <2>1
<1>4. /\ p \in Seq(Nat) /\ Len(p) = Len(a) + Len(b)
      /\ Len(a) \in Nat /\ Len(b) \in Nat
      /\ Found(a, p, 0) /\ Found(b, p, Len(a))
  BY <1>3 DEF Found
<1>. HIDE DEF p
<1>5. PICK f : /\ ParseFields(p) = f[0]
               /\ \A offset \in 0..Len(p) : f[offset] = FieldsAt(p, offset, f)
  BY <1>4, FieldsAreRead
<1>6. f[Len(p)] = [ok |-> TRUE, values |-> <<>>]
  <2>1. Len(p) \in 0..Len(p)
    BY <1>4
  <2>. QED  BY <1>5, <2>1 DEF FieldsAt
<1>. DEFINE vs == f[Len(a)].values
<1>7. /\ f[Len(a)].ok = TRUE
      /\ r.valid = Null => vs = <<>>
      /\ r.valid # Null => vs = WithField(<<>>, 2, r.valid)
  <2>1. CASE r.valid = Null
    <3>1. Len(a) = Len(p)
      BY <1>1, <1>3, <1>4, <2>1
    <3>. QED  BY <1>6, <2>1, <3>1
  <2>2. CASE r.valid # Null
    <3>1. r.valid \in Nat /\ 2 \in {1, 2} /\ Len(a) \in Nat /\ Len(a) + Len(b) = Len(p)
      BY <1>2, <1>3, <1>4, <2>2
    <3>2. f[Len(a) + Len(b)].ok = TRUE /\ f[Len(a) + Len(b)].values = <<>>
      BY <1>6, <3>1
    <3>3. Len(a) + Len(b) <= Len(p) /\ Len(a) \in 0..Len(p)
      BY <1>3, <3>1
    <3>6. Found(Field(2, r.valid), p, Len(a)) /\ f[Len(a) + Len(Field(2, r.valid))].ok = TRUE
      BY <1>0, <1>4, <3>2
    <3>8. ReadsOn(p, Len(a), f, 2, r.valid)
      BY <1>4, <3>1, FieldIsReadAt
    <3>7. FieldsAt(p, Len(a), f) =
            [ok |-> TRUE,
             values |-> WithField(f[Len(a) + Len(Field(2, r.valid))].values, 2, r.valid)]
      BY <3>6, <3>8 DEF ReadsOn
    <3>4. FieldsAt(p, Len(a), f) =
            [ok |-> TRUE, values |-> WithField(f[Len(a) + Len(b)].values, 2, r.valid)]
      BY <1>0, <3>7
    <3>5. f[Len(a)] = [ok |-> TRUE, values |-> WithField(<<>>, 2, r.valid)]
      BY <1>5, <3>2, <3>3, <3>4
    <3>. QED  BY <2>2, <3>5
  <2>. QED  BY <2>1, <2>2
<1>8. /\ f[0].ok = TRUE
      /\ r.value = Null => f[0].values = vs
      /\ r.value # Null => f[0].values = WithField(vs, 1, r.value)
  <2>1. CASE r.value = Null
    <3>1. Len(a) = 0
      BY <1>1, <2>1
    <3>. QED  BY <1>7, <2>1, <3>1
  <2>2. CASE r.value # Null
    <3>1. r.value \in Nat /\ 1 \in {1, 2} /\ 0 + Len(a) = Len(a) /\ Len(a) <= Len(p)
      BY <1>2, <1>3, <1>4, <2>2
    <3>3. f[0 + Len(a)].ok = TRUE /\ f[0 + Len(a)].values = vs
      BY <1>7, <3>1
    <3>4. 0 \in Nat /\ 0 \in 0..Len(p) /\ 0 + Len(a) <= Len(p)
      BY <1>4, <3>1
    <3>. HIDE DEF vs
    <3>2. Found(Field(1, r.value), p, 0) /\ f[0 + Len(Field(1, r.value))].ok = TRUE
      BY <1>0, <1>4, <3>3
    <3>8. ReadsOn(p, 0, f, 1, r.value)
      BY <1>4, <3>1, <3>4, FieldIsReadAt
    <3>7. FieldsAt(p, 0, f) =
            [ok |-> TRUE, values |-> WithField(f[0 + Len(Field(1, r.value))].values, 1, r.value)]
      BY <3>2, <3>8 DEF ReadsOn
    <3>5. FieldsAt(p, 0, f) = [ok |-> TRUE, values |-> WithField(f[0 + Len(a)].values, 1, r.value)]
      BY <1>0, <3>7
    <3>6. f[0] = [ok |-> TRUE, values |-> WithField(vs, 1, r.value)]
      BY <1>5, <3>3, <3>4, <3>5
    <3>. QED  BY <2>2, <3>6
  <2>. QED  BY <2>1, <2>2
<1>. HIDE DEF vs
<1>11. /\ 1 \notin DOMAIN vs
       /\ 2 \in DOMAIN vs <=> r.valid # Null
       /\ r.valid # Null => vs[2] = r.valid
  BY <1>7, NoFields DEF WithField
<1>10. /\ 1 \in DOMAIN f[0].values <=> r.value # Null
       /\ r.value # Null => f[0].values[1] = r.value
       /\ 2 \in DOMAIN f[0].values <=> r.valid # Null
       /\ r.valid # Null => f[0].values[2] = r.valid
  BY <1>8, <1>11 DEF WithField
<1>. QED  BY <1>1, <1>5, <1>8, <1>10 DEF FieldOf

\* A garbled one raises.
LEMMA GarbledRaises ==
  ASSUME NEW r \in Report, r.garbled
  PROVE  ParseFields(Payload(r)).ok = FALSE
<1>. DEFINE p == <<8>>
<1>1. Payload(r) = p
  BY DEF Payload
<1>2. p \in Seq(Nat) /\ Len(p) = 1 /\ p[1] = 8
  OBVIOUS
<1>3. Varint[8] = <<8>>
  <2>1. 8 \in Nat /\ 8 < 128
    OBVIOUS
  <2>. QED  BY <2>1, VarintDefined
<1>4. Len(Varint[8]) = 1 /\ Varint[8][1] = 8
  BY <1>3
<1>. HIDE DEF p
<1>5. ParseVarint(p, 0) = [ok |-> TRUE, value |-> 8, next |-> 1]
  <2>1. 0 \in 0..Len(p) /\ 8 \in Nat /\ 0 + Len(Varint[8]) = 1
    BY <1>2, <1>4
  <2>2. Found(Varint[8], p, 0)
    BY <1>2, <1>4 DEF Found
  <2>3. ParseVarint(p, 0) = [ok |-> TRUE, value |-> 8, next |-> 0 + Len(Varint[8])]
    BY <1>2, <2>1, <2>2, ParseVarintReads
  <2>. QED  BY <2>1, <2>3
<1>6. ParseVarint(p, 1) = Truncated
  <2>1. Ends(p, 1) = {}
    BY <1>2 DEF Ends
  <2>. QED  BY <2>1, ParseVarintUnfolded
<1>7. PICK f : /\ ParseFields(p) = f[0]
               /\ \A offset \in 0..Len(p) : f[offset] = FieldsAt(p, offset, f)
  BY <1>2, FieldsAreRead
<1>8. FieldsAt(p, 0, f) = Malformed
  BY <1>2, <1>5, <1>6 DEF FieldsAt, Truncated
<1>. QED  BY <1>1, <1>2, <1>7, <1>8 DEF Malformed

(***************************************************************************)
(* What the reports say after one more of them, and the display with it.   *)
(***************************************************************************)
\* A set of the numbers up to n has a greatest element.
LEMMA GreatestOfSet ==
  ASSUME NEW n \in Nat, NEW T \in SUBSET (1..n), T # {}
  PROVE  Max(T) \in T /\ \A y \in T : y <= Max(T)
<1>. DEFINE R == {n - x : x \in T}
<1>1. R \in SUBSET Nat /\ R # {}
  OBVIOUS
<1>2. PICK r \in R : \A s \in R : r <= s
  BY <1>1, LeastNumber
<1>3. PICK x \in T : r = n - x
  BY <1>2
<1>4. \A y \in T : x >= y
  <2>1. \A y \in T : n - y \in R /\ y \in Int
    OBVIOUS
  <2>. HIDE DEF R
  <2>. QED  BY <1>2, <1>3, <2>1
<1>. DEFINE m == CHOOSE m \in T : \A y \in T : m >= y
<1>5. m \in T /\ \A y \in T : m >= y
  BY <1>4
<1>6. \A y \in T : y \in Int
  OBVIOUS
<1>7. Max(T) = m
  BY DEF Max
<1>. HIDE DEF m
<1>. QED  BY <1>5, <1>6, <1>7

\* If the last number is among them, it is the greatest.
LEMMA LastIsGreatest ==
  ASSUME NEW n \in Nat, NEW T \in SUBSET (1..n), n \in T
  PROVE  Max(T) = n
<1>1. Max(T) \in 1..n /\ n <= Max(T)
  BY GreatestOfSet
<1>. QED  BY <1>1

\* The reports among the first n that belong to a set.
Heard(reports, n, G) == {i \in 1..n : reports[i] \in G}

\* One more report is the last of them, or leaves them as they were.
LEMMA HeardAfter ==
  ASSUME NEW rs \in Seq(Report), NEW r \in Report, NEW G
  PROVE  LET as == Append(rs, r) IN
         /\ \A n \in 0..Len(rs) :
              /\ Heard(as, n, G) = Heard(rs, n, G)
              /\ Heard(rs, n, G) # {} =>
                   Max(Heard(rs, n, G)) \in 1..n /\ as[Max(Heard(rs, n, G))] = rs[Max(Heard(rs, n, G))]
         /\ r \in G => /\ Heard(as, Len(rs) + 1, G) # {} /\ Max(Heard(as, Len(rs) + 1, G)) = Len(rs) + 1
                       /\ as[Len(rs) + 1] = r
         /\ r \notin G => Heard(as, Len(rs) + 1, G) = Heard(rs, Len(rs), G)
<1>. DEFINE as == Append(rs, r)
            l == Len(rs)
<1>1. l \in Nat /\ as[l + 1] = r /\ \A i \in 1..l : as[i] = rs[i]
  OBVIOUS
<1>. HIDE DEF as, l
<1>2. ASSUME NEW n \in 0..l
      PROVE  /\ Heard(as, n, G) = Heard(rs, n, G)
             /\ Heard(rs, n, G) # {} =>
                  Max(Heard(rs, n, G)) \in 1..n /\ as[Max(Heard(rs, n, G))] = rs[Max(Heard(rs, n, G))]
  <2>1. \A i \in 1..n : as[i] = rs[i]
    <3>1. 1..n \subseteq 1..l
      BY <1>1
    <3>. QED  BY <1>1, <3>1
  <2>2. Heard(as, n, G) = Heard(rs, n, G)
    BY <2>1 DEF Heard
  <2>3. n \in Nat /\ Heard(rs, n, G) \in SUBSET (1..n)
    BY <1>1 DEF Heard
  <2>4. Heard(rs, n, G) # {} => Max(Heard(rs, n, G)) \in 1..n
    BY <2>3, GreatestOfSet
  <2>. QED  BY <2>1, <2>2, <2>4
<1>3. ASSUME r \in G PROVE Heard(as, l + 1, G) # {} /\ Max(Heard(as, l + 1, G)) = l + 1
  <2>1. l + 1 \in Nat /\ l + 1 \in 1..(l + 1) /\ as[l + 1] \in G
    BY <1>1, <1>3
  <2>2. Heard(as, l + 1, G) \in SUBSET (1..(l + 1)) /\ l + 1 \in Heard(as, l + 1, G)
    BY <2>1 DEF Heard
  <2>. QED  BY <2>1, <2>2, LastIsGreatest
<1>4. ASSUME r \notin G PROVE Heard(as, l + 1, G) = Heard(rs, l, G)
  <2>1. 1..(l + 1) = 1..l \cup {l + 1}
    BY <1>1
  <2>2. \A i \in 1..l : as[i] \in G <=> rs[i] \in G
    BY <1>1
  <2>3. as[l + 1] \notin G
    BY <1>1, <1>4
  <2>4. {i \in 1..(l + 1) : as[i] \in G} = {i \in 1..l : rs[i] \in G}
    BY <2>1, <2>2, <2>3, Zenon
  <2>. QED  BY <2>4 DEF Heard
<1>. QED  BY <1>1, <1>2, <1>3, <1>4 DEF as, l

\* What is said after a report r: r itself if it counts, or what was said before.
LEMMA LatestAfter ==
  ASSUME NEW rs \in Seq(Report), NEW r \in Report, NEW source
  PROVE  /\ \A n \in 0..Len(rs) : Latest(Append(rs, r), n, source) = Latest(rs, n, source)
         /\ Latest(Append(rs, r), Len(rs) + 1, source) =
              IF r.source = source /\ ~r.garbled THEN r.value ELSE Latest(rs, Len(rs), source)
<1>. DEFINE as == Append(rs, r)
            G == {x \in Report : x.source = source /\ ~x.garbled}
<1>1. /\ as \in Seq(Report) /\ Len(as) = Len(rs) + 1 /\ Len(rs) \in Nat
      /\ r \in G <=> r.source = source /\ ~r.garbled
  OBVIOUS
<1>2. ASSUME NEW reports \in Seq(Report), NEW n \in 0..Len(reports)
      PROVE  Latest(reports, n, source) = IF Heard(reports, n, G) = {} THEN Null
                                          ELSE reports[Max(Heard(reports, n, G))].value
  <2>1. \A i \in 1..n : reports[i] \in Report
    OBVIOUS
  <2>2. {i \in 1..n : reports[i].source = source /\ ~reports[i].garbled} = Heard(reports, n, G)
    BY <2>1 DEF Heard
  <2>. HIDE DEF G
  <2>. QED  BY <2>2 DEF Latest
<1>. HIDE DEF as, G
<1>3. /\ \A n \in 0..Len(rs) : n \in 0..Len(as)
      /\ Len(rs) + 1 \in 0..Len(as) /\ Len(rs) \in 0..Len(rs)
  BY <1>1
<1>4. /\ \A n \in 0..Len(rs) :
           /\ Heard(as, n, G) = Heard(rs, n, G)
           /\ Heard(rs, n, G) # {} => as[Max(Heard(rs, n, G))] = rs[Max(Heard(rs, n, G))]
      /\ r \in G => /\ Heard(as, Len(rs) + 1, G) # {} /\ Max(Heard(as, Len(rs) + 1, G)) = Len(rs) + 1
                    /\ as[Len(rs) + 1] = r
      /\ r \notin G => Heard(as, Len(rs) + 1, G) = Heard(rs, Len(rs), G)
  BY HeardAfter DEF as
<1>5. ASSUME NEW n \in 0..Len(rs) PROVE Latest(as, n, source) = Latest(rs, n, source)
  <2>1. /\ Latest(as, n, source) = IF Heard(as, n, G) = {} THEN Null
                                   ELSE as[Max(Heard(as, n, G))].value
        /\ Latest(rs, n, source) = IF Heard(rs, n, G) = {} THEN Null
                                   ELSE rs[Max(Heard(rs, n, G))].value
    BY <1>1, <1>2, <1>3
  <2>2. /\ Heard(as, n, G) = Heard(rs, n, G)
        /\ Heard(rs, n, G) # {} => as[Max(Heard(rs, n, G))] = rs[Max(Heard(rs, n, G))]
    BY <1>4
  <2>3. CASE Heard(rs, n, G) = {}
    BY <2>1, <2>2, <2>3
  <2>4. CASE Heard(rs, n, G) # {}
    BY <2>1, <2>2, <2>4
  <2>. QED  BY <2>3, <2>4
<1>6. Latest(as, Len(rs) + 1, source) = IF r \in G THEN r.value ELSE Latest(rs, Len(rs), source)
  <2>1. /\ Latest(as, Len(rs) + 1, source) =
             IF Heard(as, Len(rs) + 1, G) = {} THEN Null ELSE as[Max(Heard(as, Len(rs) + 1, G))].value
        /\ Latest(as, Len(rs), source) =
             IF Heard(as, Len(rs), G) = {} THEN Null ELSE as[Max(Heard(as, Len(rs), G))].value
        /\ Latest(rs, Len(rs), source) =
             IF Heard(rs, Len(rs), G) = {} THEN Null ELSE rs[Max(Heard(rs, Len(rs), G))].value
    BY <1>1, <1>2, <1>3
  <2>2. CASE r \in G
    BY <1>4, <2>1, <2>2, Zenon
  <2>3. CASE r \notin G
    <3>1. Heard(as, Len(rs) + 1, G) = Heard(rs, Len(rs), G)
      BY <1>4, <2>3, Zenon
    <3>2. Heard(rs, Len(rs), G) # {} =>
            as[Max(Heard(rs, Len(rs), G))] = rs[Max(Heard(rs, Len(rs), G))]
      <4>1. Len(rs) \in 0..Len(rs)
        BY <1>1
      <4>. QED  BY <1>4, <4>1
    <3>3. CASE Heard(rs, Len(rs), G) = {}
      BY <2>1, <2>3, <3>1, <3>3, Zenon
    <3>4. CASE Heard(rs, Len(rs), G) # {}
      BY <2>1, <2>3, <3>1, <3>2, <3>4, Zenon
    <3>. QED  BY <3>3, <3>4
  <2>. QED  BY <2>2, <2>3
<1>. QED  BY <1>1, <1>5, <1>6 DEF as

\* The same, for the reports that give a value.
LEMMA LatestKnownAfter ==
  ASSUME NEW rs \in Seq(Report), NEW r \in Report, NEW source
  PROVE  LatestKnown(Append(rs, r), source) =
           IF r.source = source /\ ~r.garbled /\ r.value # Null
           THEN r.value ELSE LatestKnown(rs, source)
<1>. DEFINE as == Append(rs, r)
            G == {x \in Report : x.source = source /\ ~x.garbled /\ x.value # Null}
<1>1. /\ as \in Seq(Report) /\ Len(as) = Len(rs) + 1 /\ Len(rs) \in 0..Len(rs)
      /\ r \in G <=> r.source = source /\ ~r.garbled /\ r.value # Null
  OBVIOUS
<1>2. ASSUME NEW reports \in Seq(Report)
      PROVE  LatestKnown(reports, source) =
               IF Heard(reports, Len(reports), G) = {} THEN Null
               ELSE reports[Max(Heard(reports, Len(reports), G))].value
  <2>1. \A i \in 1..Len(reports) : reports[i] \in Report
    OBVIOUS
  <2>2. {i \in 1..Len(reports) : /\ reports[i].source = source
                                 /\ ~reports[i].garbled /\ reports[i].value # Null} =
          Heard(reports, Len(reports), G)
    BY <2>1 DEF Heard
  <2>. HIDE DEF G
  <2>. QED  BY <2>2 DEF LatestKnown
<1>. HIDE DEF as, G
<1>4. /\ Heard(rs, Len(rs), G) # {} =>
           as[Max(Heard(rs, Len(rs), G))] = rs[Max(Heard(rs, Len(rs), G))]
      /\ r \in G => /\ Heard(as, Len(rs) + 1, G) # {} /\ Max(Heard(as, Len(rs) + 1, G)) = Len(rs) + 1
                    /\ as[Len(rs) + 1] = r
      /\ r \notin G => Heard(as, Len(rs) + 1, G) = Heard(rs, Len(rs), G)
  BY <1>1, HeardAfter DEF as
<1>5. LatestKnown(as, source) = IF r \in G THEN r.value ELSE LatestKnown(rs, source)
  BY <1>1, <1>2, <1>4
<1>. QED  BY <1>1, <1>5 DEF as

\* A report that says whether there is a speed, and which.
TellsSpeed(r) ==
  /\ r.source = SPEED /\ ~r.garbled
  /\ r.valid = 0 \/ (r.valid = 1 /\ r.value # Null)

\* The same, for the reports on the speed.
LEMMA LatestSpeedAfter ==
  ASSUME NEW rs \in Seq(Report), NEW r \in Report
  PROVE  LatestSpeed(Append(rs, r)) =
           IF TellsSpeed(r) THEN (IF r.valid = 0 THEN Null ELSE r.value) ELSE LatestSpeed(rs)
<1>. DEFINE as == Append(rs, r)
            G == {x \in Report : TellsSpeed(x)}
<1>1. /\ as \in Seq(Report) /\ Len(as) = Len(rs) + 1 /\ Len(rs) \in 0..Len(rs)
      /\ r \in G <=> TellsSpeed(r)
  OBVIOUS
<1>2. ASSUME NEW reports \in Seq(Report)
      PROVE  LatestSpeed(reports) =
               IF \/ Heard(reports, Len(reports), G) = {}
                  \/ reports[Max(Heard(reports, Len(reports), G))].valid = 0
               THEN Null ELSE reports[Max(Heard(reports, Len(reports), G))].value
  <2>1. \A i \in 1..Len(reports) : reports[i] \in Report
    OBVIOUS
  <2>2. {i \in 1..Len(reports) :
           /\ reports[i].source = SPEED /\ ~reports[i].garbled
           /\ reports[i].valid = 0 \/ (reports[i].valid = 1 /\ reports[i].value # Null)} =
          Heard(reports, Len(reports), G)
    BY <2>1 DEF Heard, TellsSpeed
  <2>. HIDE DEF G
  <2>. QED  BY <2>2 DEF LatestSpeed
<1>. HIDE DEF as, G
<1>4. /\ Heard(rs, Len(rs), G) # {} =>
           as[Max(Heard(rs, Len(rs), G))] = rs[Max(Heard(rs, Len(rs), G))]
      /\ r \in G => /\ Heard(as, Len(rs) + 1, G) # {} /\ Max(Heard(as, Len(rs) + 1, G)) = Len(rs) + 1
                    /\ as[Len(rs) + 1] = r
      /\ r \notin G => Heard(as, Len(rs) + 1, G) = Heard(rs, Len(rs), G)
  BY <1>1, HeardAfter DEF as
<1>5. LatestSpeed(as) =
        IF r \in G THEN (IF r.valid = 0 THEN Null ELSE r.value) ELSE LatestSpeed(rs)
  BY <1>1, <1>2, <1>4
<1>. QED  BY <1>1, <1>5 DEF as

\* What the values of the charging reports say of the charger.
ChargerOf(charges) == IF charges \subseteq {0} THEN "unplugged" ELSE "charging"

\* While one of the two charging reports says something, the charger is what they say.
LEMMA ChargerNow ==
  ASSUME NEW rs \in Seq(Report), Charges(rs, Len(rs)) # {}
  PROVE  LatestCharger(rs) = ChargerOf(Charges(rs, Len(rs)))
<1>. DEFINE n == Len(rs)
            T == {i \in 1..n : Charges(rs, i) # {}}
<1>1. n \in Nat
  OBVIOUS
<1>2. n # 0
  <2>1. ASSUME n = 0 PROVE \A source : Latest(rs, n, source) = Null
    BY <2>1 DEF Latest
  <2>. QED  BY <2>1 DEF Charges
<1>. HIDE DEF n
<1>3. n \in T /\ T \in SUBSET (1..n)
  BY <1>1, <1>2 DEF n
<1>4. T # {} /\ Max(T) = n
  <2>. HIDE DEF T
  <2>. QED  BY <1>1, <1>3, LastIsGreatest
<1>. QED  BY <1>4 DEF LatestCharger, ChargerOf, n

\* Otherwise it stays as it was.
LEMMA ChargerAfter ==
  ASSUME NEW rs \in Seq(Report), NEW r \in Report,
         Charges(Append(rs, r), Len(rs) + 1) = {}
  PROVE  LatestCharger(Append(rs, r)) = LatestCharger(rs)
<1>. DEFINE as == Append(rs, r)
            informed(reports) == {n \in 1..Len(reports) : Charges(reports, n) # {}}
<1>1. Len(rs) \in Nat /\ Len(as) = Len(rs) + 1
  OBVIOUS
<1>2. \A n \in 0..Len(rs) : Charges(as, n) = Charges(rs, n)
  <2>1. \A source : \A n \in 0..Len(rs) : Latest(as, n, source) = Latest(rs, n, source)
    BY LatestAfter
  <2>. HIDE DEF as
  <2>. QED  BY <2>1 DEF Charges
<1>3. Charges(as, Len(rs) + 1) = {}
  OBVIOUS
<1>. HIDE DEF as
<1>4. informed(as) = informed(rs)
  <2>1. 1..Len(as) = 1..Len(rs) \cup {Len(rs) + 1} /\ 1..Len(rs) \subseteq 0..Len(rs)
    BY <1>1
  <2>. QED  BY <1>2, <1>3, <2>1, Zenon
<1>5. informed(rs) # {} => Max(informed(rs)) \in 1..Len(rs)
  <2>. SUFFICES ASSUME informed(rs) # {} PROVE Max(informed(rs)) \in 1..Len(rs)
    OBVIOUS
  <2>1. informed(rs) \in SUBSET (1..Len(rs))
    OBVIOUS
  <2>. HIDE DEF informed
  <2>. QED  BY <1>1, <2>1, GreatestOfSet
<1>6. informed(rs) # {} => Charges(as, Max(informed(rs))) = Charges(rs, Max(informed(rs)))
  <2>1. \A m \in 1..Len(rs) : m \in 0..Len(rs)
    BY <1>1
  <2>. HIDE DEF informed
  <2>. QED  BY <1>2, <1>5, <2>1
<1>7. LatestCharger(as) = LatestCharger(rs)
  BY <1>4, <1>6 DEF LatestCharger
<1>. QED  BY <1>7 DEF as

\* The displays that there may be.
Level == Nat \cup {Null}
Shown == [stage : Level, assist : Level, battery : Level, speed : Level, charger : Charger,
          system : Level, pack : Level, charging : {Null, 0, 1}, instance : {Null, 0, 1}]

\* decode_boolean of a value.
Truth(v) == IF v = Null THEN Null ELSE IF v = 0 THEN 0 ELSE 1

\* The display says what the reports say, the four fields it is computed from among them.
Faithful(d, rs) ==
  /\ d \in Shown
  /\ d.system = Latest(rs, Len(rs), SYSTEM) /\ d.pack = Latest(rs, Len(rs), PACK)
  /\ d.charging = Truth(Latest(rs, Len(rs), CHARGING))
  /\ d.instance = Truth(Latest(rs, Len(rs), INSTANCE_CHARGING))
  /\ d.battery = IF d.system # Null THEN d.system ELSE d.pack
  /\ d.charger = LatestCharger(rs)
  /\ d.speed = LatestSpeed(rs)
  /\ d.stage = LatestKnown(rs, STAGE) /\ d.assist = LatestKnown(rs, ASSIST)

\* What a message says to apply_message.
LEMMA MessageIsRead ==
  ASSUME NEW r \in Report
  PROVE  /\ Message(r).source = r.source
         /\ Raises(Message(r)) <=> r.source \in Interpreted /\ r.garbled
         /\ ~r.garbled => /\ FieldOf(Message(r).payload, 1) = r.value
                          /\ BooleanOf(Message(r).payload, 1) = Truth(r.value)
                          /\ BooleanOf(Message(r).payload, 2) = r.valid
<1>1. Message(r).source = r.source /\ Message(r).payload = Payload(r)
  BY DEF Message
<1>2. /\ r.garbled \in BOOLEAN /\ r.valid \in {Null, 0, 1}
      /\ r.garbled => ParseFields(Payload(r)).ok = FALSE
      /\ ~r.garbled => ParseFields(Payload(r)).ok = TRUE
  BY ReportIsRead, GarbledRaises DEF Report
<1>3. ~r.garbled => FieldOf(Payload(r), 1) = r.value /\ FieldOf(Payload(r), 2) = r.valid
  BY ReportIsRead
<1>4. ~r.garbled => /\ BooleanOf(Payload(r), 1) = Truth(r.value)
                    /\ BooleanOf(Payload(r), 2) = r.valid
  BY <1>2, <1>3 DEF BooleanOf, Truth, Null
<1>. QED  BY <1>1, <1>2, <1>3, <1>4 DEF Raises

\* What the reports have said of a charging address and of the battery, in every case.
LEMMA LatestType ==
  ASSUME NEW rs \in Seq(Report), NEW source
  PROVE  Latest(rs, Len(rs), source) \in Level
<1>. DEFINE T == {i \in 1..Len(rs) : rs[i].source = source /\ ~rs[i].garbled}
<1>1. T \in SUBSET (1..Len(rs)) /\ Len(rs) \in Nat
  OBVIOUS
<1>2. CASE T = {}
  BY <1>2 DEF Latest, Level
<1>3. CASE T # {}
  <2>1. Max(T) \in T
    <3>. HIDE DEF T
    <3>. QED  BY <1>1, <1>3, GreatestOfSet
  <2>2. rs[Max(T)] \in Report
    BY <2>1
  <2>3. rs[Max(T)].value \in Level
    BY <2>2 DEF Report, Level
  <2>4. Latest(rs, Len(rs), source) = rs[Max(T)].value
    BY <1>3 DEF Latest
  <2>. QED  BY <2>3, <2>4
<1>. QED  BY <1>2, <1>3

\* The charger that the two charging reports tell of.
LEMMA ChargerFromFields ==
  ASSUME NEW d \in Shown, NEW rs \in Seq(Report), NEW before,
         d.charging = Truth(Latest(rs, Len(rs), CHARGING)),
         d.instance = Truth(Latest(rs, Len(rs), INSTANCE_CHARGING)),
         d.charger = before, Charges(rs, Len(rs)) = {} => LatestCharger(rs) = before
  PROVE  WithCharger(d) = [d EXCEPT !.charger = LatestCharger(rs)]
<1>. DEFINE c == Latest(rs, Len(rs), CHARGING)
            i == Latest(rs, Len(rs), INSTANCE_CHARGING)
<1>1. c \in Level /\ i \in Level
  BY LatestType
<1>2. Charges(rs, Len(rs)) = {c, i} \ {Null}
  BY DEF Charges
<1>3. Charges(rs, Len(rs)) # {} => LatestCharger(rs) = ChargerOf(Charges(rs, Len(rs)))
  BY ChargerNow
<1>4. d.charging = Truth(c) /\ d.instance = Truth(i)
  OBVIOUS
<1>. HIDE DEF c, i
<1>5. CASE c = Null /\ i = Null
  <2>1. LatestCharger(rs) = d.charger
    BY <1>2, <1>5
  <2>2. d.charging = Null /\ d.instance = Null /\ [d EXCEPT !.charger = d.charger] = d
    BY <1>4, <1>5 DEF Truth, Shown
  <2>3. WithCharger(d) = d
    BY <2>2 DEF WithCharger, Null
  <2>. QED  BY <2>1, <2>2, <2>3
<1>6. CASE (c = Null \/ c = 0) /\ (i = Null \/ i = 0) /\ ~(c = Null /\ i = Null)
  <2>1. LatestCharger(rs) = "unplugged"
    <3>1. {c, i} \ {Null} # {} /\ {c, i} \ {Null} \subseteq {0}
      BY <1>6 DEF Null
    <3>. QED  BY <1>2, <1>3, <3>1 DEF ChargerOf
  <2>2. 1 \notin {d.charging, d.instance} /\ 0 \in {d.charging, d.instance}
    BY <1>4, <1>6 DEF Truth, Null
  <2>3. WithCharger(d) = [d EXCEPT !.charger = "unplugged"]
    BY <2>2 DEF WithCharger, Null
  <2>. QED  BY <2>1, <2>3
<1>7. CASE ~(c = Null \/ c = 0) \/ ~(i = Null \/ i = 0)
  <2>1. LatestCharger(rs) = "charging"
    <3>1. {c, i} \ {Null} # {} /\ ~ ({c, i} \ {Null} \subseteq {0})
      BY <1>7
    <3>. QED  BY <1>2, <1>3, <3>1 DEF ChargerOf
  <2>2. 1 \in {d.charging, d.instance}
    BY <1>4, <1>7 DEF Truth, Null
  <2>3. WithCharger(d) = [d EXCEPT !.charger = "charging"]
    BY <2>2 DEF WithCharger, Null
  <2>. QED  BY <2>1, <2>3
<1>. QED  BY <1>5, <1>6, <1>7

\* What apply_message does with a message, by the address it is about.
LEMMA ByAddress ==
  ASSUME NEW d, NEW m
  PROVE  /\ m.source = SYSTEM =>
              Interpret(d, m) = WithBattery([d EXCEPT !.system = FieldOf(m.payload, 1)])
         /\ m.source = PACK => Interpret(d, m) = WithBattery([d EXCEPT !.pack = FieldOf(m.payload, 1)])
         /\ m.source = CHARGING =>
              Interpret(d, m) = WithCharger([d EXCEPT !.charging = BooleanOf(m.payload, 1)])
         /\ m.source = INSTANCE_CHARGING =>
              Interpret(d, m) = WithCharger([d EXCEPT !.instance = BooleanOf(m.payload, 1)])
         /\ m.source = STAGE =>
              Interpret(d, m) = [d EXCEPT !.stage = IF FieldOf(m.payload, 1) # Null
                                                    THEN FieldOf(m.payload, 1) ELSE d.stage]
         /\ m.source = ASSIST =>
              Interpret(d, m) = [d EXCEPT !.assist = IF FieldOf(m.payload, 1) # Null
                                                     THEN FieldOf(m.payload, 1) ELSE d.assist]
         /\ m.source = SPEED =>
              Interpret(d, m) = [d EXCEPT !.speed =
                IF BooleanOf(m.payload, 2) = 1 /\ FieldOf(m.payload, 1) # Null
                THEN FieldOf(m.payload, 1) ELSE IF BooleanOf(m.payload, 2) = 0 THEN Null ELSE d.speed]
         /\ m.source \notin Interpreted => Interpret(d, m) = d
<1>. DEFINE value == FieldOf(m.payload, 1)
            flag == BooleanOf(m.payload, 1)
            valid == BooleanOf(m.payload, 2)
            I == Interpret(d, m)
            source == m.source
<1>1. I = CASE source = SYSTEM   -> WithBattery([d EXCEPT !.system = value])
            [] source = PACK     -> WithBattery([d EXCEPT !.pack = value])
            [] source = CHARGING -> WithCharger([d EXCEPT !.charging = flag])
            [] source = INSTANCE_CHARGING -> WithCharger([d EXCEPT !.instance = flag])
            [] source = STAGE    -> [d EXCEPT !.stage = IF value # Null THEN value ELSE @]
            [] source = ASSIST   -> [d EXCEPT !.assist = IF value # Null THEN value ELSE @]
            [] source = SPEED    -> [d EXCEPT !.speed = IF valid = 1 /\ value # Null THEN value
                                                       ELSE IF valid = 0 THEN Null ELSE @]
            [] source \notin Interpreted -> d
  BY DEF Interpret
<1>. HIDE DEF value, flag, valid, I, source
<1>2. /\ source = SYSTEM => I = WithBattery([d EXCEPT !.system = value])
      /\ source = PACK => I = WithBattery([d EXCEPT !.pack = value])
      /\ source = CHARGING => I = WithCharger([d EXCEPT !.charging = flag])
      /\ source = INSTANCE_CHARGING => I = WithCharger([d EXCEPT !.instance = flag])
  BY <1>1 DEF Interpreted, SYSTEM, PACK, CHARGING, INSTANCE_CHARGING, STAGE, ASSIST, SPEED
<1>3. /\ source = STAGE => I = [d EXCEPT !.stage = IF value # Null THEN value ELSE d.stage]
      /\ source = ASSIST => I = [d EXCEPT !.assist = IF value # Null THEN value ELSE d.assist]
      /\ source = SPEED => I = [d EXCEPT !.speed = IF valid = 1 /\ value # Null THEN value
                                                       ELSE IF valid = 0 THEN Null ELSE d.speed]
      /\ source \notin Interpreted => I = d
  BY <1>1 DEF Interpreted, SYSTEM, PACK, CHARGING, INSTANCE_CHARGING, STAGE, ASSIST, SPEED
<1>. QED  BY <1>2, <1>3 DEF value, flag, valid, I, source

\* The report says what its source says now.
Counts(r, source) == r.source = source /\ ~r.garbled

\* What the reports `as' say, which are the reports rs and then r.
SaidNow(as, rs, r) ==
  /\ as \in Seq(Report)
  /\ Latest(as, Len(as), SYSTEM) =
       IF Counts(r, SYSTEM) THEN r.value ELSE Latest(rs, Len(rs), SYSTEM)
  /\ Latest(as, Len(as), PACK) =
       IF Counts(r, PACK) THEN r.value ELSE Latest(rs, Len(rs), PACK)
  /\ Latest(as, Len(as), CHARGING) =
       IF Counts(r, CHARGING) THEN r.value ELSE Latest(rs, Len(rs), CHARGING)
  /\ Latest(as, Len(as), INSTANCE_CHARGING) =
       IF Counts(r, INSTANCE_CHARGING) THEN r.value ELSE Latest(rs, Len(rs), INSTANCE_CHARGING)
  /\ LatestKnown(as, STAGE) =
       IF Counts(r, STAGE) /\ r.value # Null THEN r.value ELSE LatestKnown(rs, STAGE)
  /\ LatestKnown(as, ASSIST) =
       IF Counts(r, ASSIST) /\ r.value # Null THEN r.value ELSE LatestKnown(rs, ASSIST)
  /\ LatestSpeed(as) =
       IF TellsSpeed(r) THEN (IF r.valid = 0 THEN Null ELSE r.value) ELSE LatestSpeed(rs)
  /\ Charges(as, Len(as)) = {} => LatestCharger(as) = LatestCharger(rs)
  /\ ~Counts(r, CHARGING) /\ ~Counts(r, INSTANCE_CHARGING) =>
       LatestCharger(as) = LatestCharger(rs)

\* They say it.
LEMMA SaidAfter ==
  ASSUME NEW rs \in Seq(Report), NEW r \in Report
  PROVE  SaidNow(Append(rs, r), rs, r)
<1>. DEFINE as == Append(rs, r)
<1>1. as \in Seq(Report) /\ Len(as) = Len(rs) + 1
  OBVIOUS
<1>2. ASSUME NEW source
      PROVE  Latest(as, Len(as), source) =
               IF Counts(r, source) THEN r.value ELSE Latest(rs, Len(rs), source)
  <2>1. Latest(as, Len(rs) + 1, source) =
          IF r.source = source /\ ~r.garbled THEN r.value ELSE Latest(rs, Len(rs), source)
    BY LatestAfter
  <2>. QED  BY <1>1, <2>1 DEF Counts
<1>3. \A source : LatestKnown(as, source) =
        IF Counts(r, source) /\ r.value # Null THEN r.value ELSE LatestKnown(rs, source)
  BY LatestKnownAfter DEF Counts
<1>4. LatestSpeed(as) =
        IF TellsSpeed(r) THEN (IF r.valid = 0 THEN Null ELSE r.value) ELSE LatestSpeed(rs)
  BY LatestSpeedAfter
<1>5. Charges(as, Len(as)) = {} => LatestCharger(as) = LatestCharger(rs)
  BY <1>1, ChargerAfter
<1>6. ASSUME ~Counts(r, CHARGING), ~Counts(r, INSTANCE_CHARGING)
      PROVE  LatestCharger(as) = LatestCharger(rs)
  <2>1. /\ Latest(as, Len(as), CHARGING) = Latest(rs, Len(rs), CHARGING)
        /\ Latest(as, Len(as), INSTANCE_CHARGING) = Latest(rs, Len(rs), INSTANCE_CHARGING)
    BY <1>2, <1>6
  <2>2. Charges(as, Len(as)) = Charges(rs, Len(rs))
    BY <2>1 DEF Charges
  <2>3. Charges(as, Len(as)) # {} => LatestCharger(as) = ChargerOf(Charges(as, Len(as)))
    BY <1>1, ChargerNow
  <2>4. Charges(rs, Len(rs)) # {} => LatestCharger(rs) = ChargerOf(Charges(rs, Len(rs)))
    BY ChargerNow
  <2>. QED  BY <1>5, <2>2, <2>3, <2>4
<1>. HIDE DEF as
<1>7. SaidNow(as, rs, r)
  BY <1>1, <1>2, <1>3, <1>4, <1>5, <1>6 DEF SaidNow
<1>. QED  BY <1>7 DEF as

\* The seven addresses differ.
LEMMA AddressesDiffer ==
  /\ Interpreted = {STAGE, SYSTEM, PACK, CHARGING, INSTANCE_CHARGING, ASSIST, SPEED}
  /\ STAGE \notin {SYSTEM, PACK, CHARGING, INSTANCE_CHARGING, ASSIST, SPEED}
  /\ SYSTEM \notin {PACK, CHARGING, INSTANCE_CHARGING, ASSIST, SPEED}
  /\ PACK \notin {CHARGING, INSTANCE_CHARGING, ASSIST, SPEED}
  /\ CHARGING \notin {INSTANCE_CHARGING, ASSIST, SPEED}
  /\ INSTANCE_CHARGING \notin {ASSIST, SPEED} /\ ASSIST # SPEED
BY DEF Interpreted, SYSTEM, PACK, CHARGING, INSTANCE_CHARGING, STAGE, ASSIST, SPEED

\* One more report, which is unreadable or not about the display.
LEMMA FaithfulSkip ==
  ASSUME NEW d, NEW rs \in Seq(Report), NEW r \in Report, Faithful(d, rs),
         r.garbled \/ r.source \notin Interpreted
  PROVE  Faithful(Apply(d, Message(r)), Append(rs, r))
<1>. DEFINE as == Append(rs, r)
            m == Message(r)
<1>1. m.source = r.source
  BY MessageIsRead
<1>2. Raises(m) <=> r.source \in Interpreted /\ r.garbled
  BY MessageIsRead
<1>. HIDE DEF m
<1>3. Apply(d, m) = d
  BY <1>1, <1>2, ByAddress DEF Apply
<1>4. \A source \in Interpreted : ~Counts(r, source)
  BY DEF Counts, Report
<1>5. /\ ~Counts(r, SYSTEM) /\ ~Counts(r, PACK) /\ ~Counts(r, CHARGING)
      /\ ~Counts(r, INSTANCE_CHARGING) /\ ~Counts(r, STAGE) /\ ~Counts(r, ASSIST)
      /\ ~Counts(r, SPEED)
  BY <1>4, AddressesDiffer
<1>6. ~TellsSpeed(r)
  BY <1>5 DEF TellsSpeed, Counts
<1>0. SaidNow(as, rs, r)
  BY SaidAfter
<1>. HIDE DEF as
<1>7. /\ Latest(as, Len(as), SYSTEM) = Latest(rs, Len(rs), SYSTEM)
      /\ Latest(as, Len(as), PACK) = Latest(rs, Len(rs), PACK)
      /\ Latest(as, Len(as), CHARGING) = Latest(rs, Len(rs), CHARGING)
      /\ Latest(as, Len(as), INSTANCE_CHARGING) = Latest(rs, Len(rs), INSTANCE_CHARGING)
      /\ LatestKnown(as, STAGE) = LatestKnown(rs, STAGE)
      /\ LatestKnown(as, ASSIST) = LatestKnown(rs, ASSIST)
      /\ LatestSpeed(as) = LatestSpeed(rs) /\ LatestCharger(as) = LatestCharger(rs)
  BY <1>0, <1>5, <1>6 DEF SaidNow
<1>. QED  BY <1>3, <1>5, <1>7 DEF Faithful, as, m

\* One more report on the charge of the battery.
LEMMA FaithfulBattery ==
  ASSUME NEW d, NEW rs \in Seq(Report), NEW r \in Report, Faithful(d, rs),
         ~r.garbled, r.source \in {SYSTEM, PACK}
  PROVE  Faithful(Apply(d, Message(r)), Append(rs, r))
<1>. DEFINE as == Append(rs, r)
            m == Message(r)
            e == Apply(d, m)
<1>1. m.source = r.source /\ FieldOf(m.payload, 1) = r.value
  BY MessageIsRead
<1>2. Raises(m) <=> r.source \in Interpreted /\ r.garbled
  BY MessageIsRead
<1>. HIDE DEF m
<1>3. e = IF r.source = SYSTEM THEN WithBattery([d EXCEPT !.system = r.value])
          ELSE WithBattery([d EXCEPT !.pack = r.value])
  <2>1. e = Interpret(d, m)
    BY <1>2 DEF Apply
  <2>2. /\ m.source = SYSTEM =>
             Interpret(d, m) = WithBattery([d EXCEPT !.system = FieldOf(m.payload, 1)])
        /\ m.source = PACK => Interpret(d, m) = WithBattery([d EXCEPT !.pack = FieldOf(m.payload, 1)])
    BY ByAddress
  <2>3. CASE r.source = SYSTEM
    BY <1>1, <2>1, <2>2, <2>3, AddressesDiffer
  <2>4. CASE r.source = PACK
    BY <1>1, <2>1, <2>2, <2>4, AddressesDiffer
  <2>. QED  BY <2>3, <2>4
<1>4. d \in Shown /\ r.value \in Level
  BY DEF Faithful, Report, Level
<1>5. /\ e \in Shown
      /\ e.system = IF r.source = SYSTEM THEN r.value ELSE d.system
      /\ e.pack = IF r.source = PACK THEN r.value ELSE d.pack
      /\ e.battery = IF e.system # Null THEN e.system ELSE e.pack
      /\ e.charging = d.charging /\ e.instance = d.instance /\ e.charger = d.charger
      /\ e.speed = d.speed /\ e.stage = d.stage /\ e.assist = d.assist
  <2>. DEFINE w == IF r.source = SYSTEM THEN [d EXCEPT !.system = r.value]
                   ELSE [d EXCEPT !.pack = r.value]
  <2>1. r.source = PACK => r.source # SYSTEM
    BY AddressesDiffer
  <2>2. /\ w \in Shown
        /\ w.system = IF r.source = SYSTEM THEN r.value ELSE d.system
        /\ w.pack = IF r.source = PACK THEN r.value ELSE d.pack
        /\ w.charging = d.charging /\ w.instance = d.instance /\ w.charger = d.charger
        /\ w.speed = d.speed /\ w.stage = d.stage /\ w.assist = d.assist
    <3>1. CASE r.source = SYSTEM
      BY <1>4, <2>1, <3>1 DEF Shown
    <3>2. CASE r.source = PACK
      BY <1>4, <2>1, <3>2 DEF Shown
    <3>. QED  BY <3>1, <3>2
  <2>3. e = WithBattery(w)
    BY <1>3
  <2>. HIDE DEF w
  <2>4. /\ e \in Shown
        /\ e.system = w.system /\ e.pack = w.pack
        /\ e.battery = IF w.system # Null THEN w.system ELSE w.pack
        /\ e.charging = w.charging /\ e.instance = w.instance /\ e.charger = w.charger
        /\ e.speed = w.speed /\ e.stage = w.stage /\ e.assist = w.assist
    BY <2>2, <2>3 DEF WithBattery, Shown
  <2>. QED  BY <2>2, <2>4
<1>6. /\ ~Counts(r, CHARGING) /\ ~Counts(r, INSTANCE_CHARGING) /\ ~Counts(r, STAGE)
      /\ ~Counts(r, ASSIST) /\ ~TellsSpeed(r)
      /\ Counts(r, SYSTEM) <=> r.source = SYSTEM
      /\ Counts(r, PACK) <=> r.source = PACK
  BY AddressesDiffer DEF Counts, TellsSpeed
<1>0. SaidNow(as, rs, r)
  BY SaidAfter
<1>. HIDE DEF as, e
<1>7. /\ Latest(as, Len(as), SYSTEM) =
           IF r.source = SYSTEM THEN r.value ELSE Latest(rs, Len(rs), SYSTEM)
      /\ Latest(as, Len(as), PACK) =
           IF r.source = PACK THEN r.value ELSE Latest(rs, Len(rs), PACK)
      /\ Latest(as, Len(as), CHARGING) = Latest(rs, Len(rs), CHARGING)
      /\ Latest(as, Len(as), INSTANCE_CHARGING) = Latest(rs, Len(rs), INSTANCE_CHARGING)
      /\ LatestKnown(as, STAGE) = LatestKnown(rs, STAGE)
      /\ LatestKnown(as, ASSIST) = LatestKnown(rs, ASSIST)
      /\ LatestSpeed(as) = LatestSpeed(rs) /\ LatestCharger(as) = LatestCharger(rs)
  BY <1>0, <1>6 DEF SaidNow
<1>8. Faithful(e, as)
  BY <1>5, <1>7 DEF Faithful
<1>. QED  BY <1>8 DEF as, e, m

\* One more report on the charger.
LEMMA FaithfulCharger ==
  ASSUME NEW d, NEW rs \in Seq(Report), NEW r \in Report, Faithful(d, rs),
         ~r.garbled, r.source \in {CHARGING, INSTANCE_CHARGING}
  PROVE  Faithful(Apply(d, Message(r)), Append(rs, r))
<1>. DEFINE as == Append(rs, r)
            m == Message(r)
            e == Apply(d, m)
            c == IF r.source = CHARGING THEN [d EXCEPT !.charging = Truth(r.value)]
                 ELSE [d EXCEPT !.instance = Truth(r.value)]
<1>1. m.source = r.source /\ BooleanOf(m.payload, 1) = Truth(r.value)
  BY MessageIsRead
<1>2. Raises(m) <=> r.source \in Interpreted /\ r.garbled
  BY MessageIsRead
<1>. HIDE DEF m
<1>3. e = WithCharger(c)
  <2>1. e = Interpret(d, m)
    BY <1>2 DEF Apply
  <2>2. /\ m.source = CHARGING =>
             Interpret(d, m) = WithCharger([d EXCEPT !.charging = BooleanOf(m.payload, 1)])
        /\ m.source = INSTANCE_CHARGING =>
             Interpret(d, m) = WithCharger([d EXCEPT !.instance = BooleanOf(m.payload, 1)])
    BY ByAddress
  <2>3. CASE r.source = CHARGING
    BY <1>1, <2>1, <2>2, <2>3, AddressesDiffer
  <2>4. CASE r.source = INSTANCE_CHARGING
    BY <1>1, <2>1, <2>2, <2>4, AddressesDiffer
  <2>. QED  BY <2>3, <2>4
<1>4. d \in Shown /\ Truth(r.value) \in {Null, 0, 1}
  BY DEF Faithful, Truth
<1>5. /\ c \in Shown
      /\ c.charging = IF r.source = CHARGING THEN Truth(r.value) ELSE d.charging
      /\ c.instance = IF r.source = INSTANCE_CHARGING THEN Truth(r.value) ELSE d.instance
      /\ c.system = d.system /\ c.pack = d.pack /\ c.battery = d.battery /\ c.charger = d.charger
      /\ c.speed = d.speed /\ c.stage = d.stage /\ c.assist = d.assist
  <2>1. CASE r.source = CHARGING
    BY <1>4, <2>1, AddressesDiffer DEF Shown
  <2>2. CASE r.source = INSTANCE_CHARGING
    BY <1>4, <2>2, AddressesDiffer DEF Shown
  <2>. QED  BY <2>1, <2>2
<1>6. /\ ~Counts(r, SYSTEM) /\ ~Counts(r, PACK) /\ ~Counts(r, STAGE)
      /\ ~Counts(r, ASSIST) /\ ~TellsSpeed(r)
      /\ Counts(r, CHARGING) <=> r.source = CHARGING
      /\ Counts(r, INSTANCE_CHARGING) <=> r.source = INSTANCE_CHARGING
  BY AddressesDiffer DEF Counts, TellsSpeed
<1>0. SaidNow(as, rs, r)
  BY SaidAfter
<1>. HIDE DEF as, e, c
<1>7. /\ Latest(as, Len(as), CHARGING) =
           IF r.source = CHARGING THEN r.value ELSE Latest(rs, Len(rs), CHARGING)
      /\ Latest(as, Len(as), INSTANCE_CHARGING) =
           IF r.source = INSTANCE_CHARGING THEN r.value ELSE Latest(rs, Len(rs), INSTANCE_CHARGING)
      /\ Latest(as, Len(as), SYSTEM) = Latest(rs, Len(rs), SYSTEM)
      /\ Latest(as, Len(as), PACK) = Latest(rs, Len(rs), PACK)
      /\ LatestKnown(as, STAGE) = LatestKnown(rs, STAGE)
      /\ LatestKnown(as, ASSIST) = LatestKnown(rs, ASSIST)
      /\ LatestSpeed(as) = LatestSpeed(rs)
      /\ Charges(as, Len(as)) = {} => LatestCharger(as) = LatestCharger(rs)
      /\ as \in Seq(Report)
  BY <1>0, <1>6 DEF SaidNow
<1>8. /\ c.charging = Truth(Latest(as, Len(as), CHARGING))
      /\ c.instance = Truth(Latest(as, Len(as), INSTANCE_CHARGING))
      /\ c.charger = LatestCharger(rs)
  BY <1>5, <1>7 DEF Faithful
<1>9. e = [c EXCEPT !.charger = LatestCharger(as)]
  BY <1>3, <1>5, <1>7, <1>8, ChargerFromFields
<1>10. LatestCharger(as) \in Charger
  BY DEF LatestCharger, Charger
<1>11. /\ e \in Shown
       /\ e.charging = c.charging /\ e.instance = c.instance /\ e.charger = LatestCharger(as)
       /\ e.system = c.system /\ e.pack = c.pack /\ e.battery = c.battery
       /\ e.speed = c.speed /\ e.stage = c.stage /\ e.assist = c.assist
  BY <1>5, <1>9, <1>10 DEF Shown
<1>12. Faithful(e, as)
  BY <1>5, <1>7, <1>8, <1>11 DEF Faithful
<1>. QED  BY <1>12 DEF as, e, m

\* One more report on the stage of the start-up, the assistance or the speed.
LEMMA FaithfulRide ==
  ASSUME NEW d, NEW rs \in Seq(Report), NEW r \in Report, Faithful(d, rs),
         ~r.garbled, r.source \in {STAGE, ASSIST, SPEED}
  PROVE  Faithful(Apply(d, Message(r)), Append(rs, r))
<1>. DEFINE as == Append(rs, r)
            m == Message(r)
            e == Apply(d, m)
<1>1. /\ m.source = r.source /\ FieldOf(m.payload, 1) = r.value
      /\ BooleanOf(m.payload, 2) = r.valid
  BY MessageIsRead
<1>2. Raises(m) <=> r.source \in Interpreted /\ r.garbled
  BY MessageIsRead
<1>. HIDE DEF m
<1>3. /\ r.source = STAGE => e = [d EXCEPT !.stage = IF r.value # Null THEN r.value ELSE d.stage]
      /\ r.source = ASSIST => e = [d EXCEPT !.assist = IF r.value # Null THEN r.value ELSE d.assist]
      /\ r.source = SPEED =>
           e = [d EXCEPT !.speed = IF r.valid = 1 /\ r.value # Null THEN r.value
                                   ELSE IF r.valid = 0 THEN Null ELSE d.speed]
  <2>1. e = Interpret(d, m)
    BY <1>2 DEF Apply
  <2>2. /\ m.source = STAGE =>
             Interpret(d, m) = [d EXCEPT !.stage = IF FieldOf(m.payload, 1) # Null
                                                   THEN FieldOf(m.payload, 1) ELSE d.stage]
        /\ m.source = ASSIST =>
             Interpret(d, m) = [d EXCEPT !.assist = IF FieldOf(m.payload, 1) # Null
                                                    THEN FieldOf(m.payload, 1) ELSE d.assist]
        /\ m.source = SPEED =>
             Interpret(d, m) = [d EXCEPT !.speed =
               IF BooleanOf(m.payload, 2) = 1 /\ FieldOf(m.payload, 1) # Null
               THEN FieldOf(m.payload, 1) ELSE IF BooleanOf(m.payload, 2) = 0 THEN Null ELSE d.speed]
    BY ByAddress
  <2>3. CASE r.source = STAGE
    BY <1>1, <2>1, <2>2, <2>3, AddressesDiffer
  <2>4. CASE r.source = ASSIST
    BY <1>1, <2>1, <2>2, <2>4, AddressesDiffer
  <2>5. CASE r.source = SPEED
    BY <1>1, <2>1, <2>2, <2>5, AddressesDiffer
  <2>. QED  BY <2>3, <2>4, <2>5
<1>4. d \in Shown /\ r.value \in Level /\ Null \in Level /\ r.valid \in {Null, 0, 1}
  BY DEF Faithful, Report, Level
<1>5. /\ e \in Shown
      /\ e.system = d.system /\ e.pack = d.pack /\ e.battery = d.battery
      /\ e.charging = d.charging /\ e.instance = d.instance /\ e.charger = d.charger
      /\ e.stage = IF r.source = STAGE /\ r.value # Null THEN r.value ELSE d.stage
      /\ e.assist = IF r.source = ASSIST /\ r.value # Null THEN r.value ELSE d.assist
      /\ e.speed = IF r.source # SPEED THEN d.speed
                   ELSE IF r.valid = 1 /\ r.value # Null THEN r.value
                   ELSE IF r.valid = 0 THEN Null ELSE d.speed
  <2>1. CASE r.source = STAGE
    BY <1>3, <1>4, <2>1, AddressesDiffer DEF Shown
  <2>2. CASE r.source = ASSIST
    BY <1>3, <1>4, <2>2, AddressesDiffer DEF Shown
  <2>3. CASE r.source = SPEED
    BY <1>3, <1>4, <2>3, AddressesDiffer DEF Shown
  <2>. QED  BY <2>1, <2>2, <2>3
<1>6. /\ ~Counts(r, CHARGING) /\ ~Counts(r, INSTANCE_CHARGING) /\ ~Counts(r, SYSTEM)
      /\ ~Counts(r, PACK)
      /\ Counts(r, STAGE) <=> r.source = STAGE
      /\ Counts(r, ASSIST) <=> r.source = ASSIST
      /\ TellsSpeed(r) <=> r.source = SPEED /\ (r.valid = 0 \/ (r.valid = 1 /\ r.value # Null))
  BY AddressesDiffer DEF Counts, TellsSpeed
<1>0. SaidNow(as, rs, r)
  BY SaidAfter
<1>. HIDE DEF as, e
<1>7. /\ Latest(as, Len(as), SYSTEM) = Latest(rs, Len(rs), SYSTEM)
      /\ Latest(as, Len(as), PACK) = Latest(rs, Len(rs), PACK)
      /\ Latest(as, Len(as), CHARGING) = Latest(rs, Len(rs), CHARGING)
      /\ Latest(as, Len(as), INSTANCE_CHARGING) = Latest(rs, Len(rs), INSTANCE_CHARGING)
      /\ LatestCharger(as) = LatestCharger(rs)
  BY <1>0, <1>6 DEF SaidNow
<1>8. /\ LatestKnown(as, STAGE) =
           IF r.source = STAGE /\ r.value # Null THEN r.value ELSE LatestKnown(rs, STAGE)
      /\ LatestKnown(as, ASSIST) =
           IF r.source = ASSIST /\ r.value # Null THEN r.value ELSE LatestKnown(rs, ASSIST)
      /\ LatestSpeed(as) =
           IF r.source = SPEED /\ (r.valid = 0 \/ (r.valid = 1 /\ r.value # Null))
           THEN (IF r.valid = 0 THEN Null ELSE r.value) ELSE LatestSpeed(rs)
  BY <1>0, <1>6 DEF SaidNow
<1>9. Faithful(e, as)
  BY <1>5, <1>7, <1>8 DEF Faithful
<1>. QED  BY <1>9 DEF as, e, m

\* One more report keeps the display faithful.
LEMMA FaithfulStep ==
  ASSUME NEW d, NEW rs \in Seq(Report), NEW r \in Report, Faithful(d, rs)
  PROVE  Faithful(Apply(d, Message(r)), Append(rs, r))
<1>1. r.garbled \in BOOLEAN
  BY DEF Report
<1>. QED  BY <1>1, FaithfulSkip, FaithfulBattery, FaithfulCharger, FaithfulRide, AddressesDiffer

(***************************************************************************)
(* The fold over the reports of a notification, and the display at every   *)
(* moment of the session.                                                  *)
(***************************************************************************)
\* Whatever the display was, a report leaves one that there may be.
LEMMA ApplyType ==
  ASSUME NEW d \in Shown, NEW r \in Report
  PROVE  Apply(d, Message(r)) \in Shown
<1>. DEFINE m == Message(r)
            value == FieldOf(m.payload, 1)
            flag == BooleanOf(m.payload, 1)
            valid == BooleanOf(m.payload, 2)
<1>1. m.source = r.source
  BY MessageIsRead
<1>2. Raises(m) <=> r.source \in Interpreted /\ r.garbled
  BY MessageIsRead
<1>3. ~r.garbled => value = r.value /\ flag = Truth(r.value)
  BY MessageIsRead
<1>4. ~r.garbled => value \in Level /\ flag \in {Null, 0, 1}
  BY <1>3 DEF Report, Level, Truth
<1>5. Null \in Level /\ {"charging", "unplugged"} \subseteq Charger
  BY DEF Level, Charger
<1>6. /\ m.source = SYSTEM => Interpret(d, m) = WithBattery([d EXCEPT !.system = value])
      /\ m.source = PACK => Interpret(d, m) = WithBattery([d EXCEPT !.pack = value])
      /\ m.source = CHARGING => Interpret(d, m) = WithCharger([d EXCEPT !.charging = flag])
      /\ m.source = INSTANCE_CHARGING => Interpret(d, m) = WithCharger([d EXCEPT !.instance = flag])
      /\ m.source = STAGE =>
           Interpret(d, m) = [d EXCEPT !.stage = IF value # Null THEN value ELSE d.stage]
      /\ m.source = ASSIST =>
           Interpret(d, m) = [d EXCEPT !.assist = IF value # Null THEN value ELSE d.assist]
      /\ m.source = SPEED =>
           Interpret(d, m) = [d EXCEPT !.speed = IF valid = 1 /\ value # Null THEN value
                                                 ELSE IF valid = 0 THEN Null ELSE d.speed]
      /\ m.source \notin Interpreted => Interpret(d, m) = d
  BY ByAddress
<1>7. ASSUME NEW c \in Shown PROVE WithCharger(c) \in Shown
  <2>1. c.charging \in {Null, 0, 1} /\ c.instance \in {Null, 0, 1}
    BY DEF Shown
  <2>2. CASE 1 \in {c.charging, c.instance}
    <3>1. WithCharger(c) = [c EXCEPT !.charger = "charging"]
      BY <2>2 DEF WithCharger, Null
    <3>. QED  BY <1>5, <3>1 DEF Shown
  <2>3. CASE 1 \notin {c.charging, c.instance} /\ 0 \in {c.charging, c.instance}
    <3>1. WithCharger(c) = [c EXCEPT !.charger = "unplugged"]
      BY <2>3 DEF WithCharger, Null
    <3>. QED  BY <1>5, <3>1 DEF Shown
  <2>4. CASE c.charging = Null /\ c.instance = Null
    <3>1. WithCharger(c) = c
      BY <2>4 DEF WithCharger, Null
    <3>. QED  BY <3>1
  <2>. QED  BY <2>1, <2>2, <2>3, <2>4
<1>. HIDE DEF m, value, flag, valid
<1>8. CASE Raises(m)
  BY <1>8 DEF Apply, m
<1>9. CASE ~Raises(m)
  <2>1. Apply(d, m) = Interpret(d, m)
    BY <1>9 DEF Apply
  <2>2. CASE m.source \notin Interpreted
    BY <1>6, <2>1, <2>2 DEF m
  <2>3. CASE m.source \in Interpreted
    <3>1. value \in Level /\ flag \in {Null, 0, 1}
      <4>1. r.garbled \in BOOLEAN
        BY DEF Report
      <4>. QED  BY <1>1, <1>2, <1>4, <1>9, <2>3, <4>1
    <3>2. CASE m.source \in {SYSTEM, PACK}
      <4>1. /\ [d EXCEPT !.system = value] \in Shown /\ [d EXCEPT !.pack = value] \in Shown
        BY <3>1 DEF Shown
      <4>2. \A c \in Shown : WithBattery(c) \in Shown
        BY DEF WithBattery, Shown
      <4>. QED  BY <1>6, <2>1, <3>2, <4>1, <4>2 DEF m
    <3>3. CASE m.source \in {CHARGING, INSTANCE_CHARGING}
      <4>1. /\ [d EXCEPT !.charging = flag] \in Shown /\ [d EXCEPT !.instance = flag] \in Shown
        BY <3>1 DEF Shown
      <4>. QED  BY <1>6, <1>7, <2>1, <3>3, <4>1 DEF m
    <3>4. CASE m.source \in {STAGE, ASSIST, SPEED}
      <4>1. /\ [d EXCEPT !.stage = IF value # Null THEN value ELSE d.stage] \in Shown
            /\ [d EXCEPT !.assist = IF value # Null THEN value ELSE d.assist] \in Shown
            /\ [d EXCEPT !.speed = IF valid = 1 /\ value # Null THEN value
                                   ELSE IF valid = 0 THEN Null ELSE d.speed] \in Shown
        BY <1>5, <3>1 DEF Shown
      <4>. QED  BY <1>6, <2>1, <3>4, <4>1 DEF m
    <3>. QED  BY <2>3, <3>2, <3>3, <3>4, AddressesDiffer
  <2>. QED  BY <2>2, <2>3
<1>. QED  BY <1>8, <1>9

\* The display after the reports of one notification.
Displayed(d, cs) == FoldLeft(LAMBDA e, r : Apply(e, Message(r)), d, cs)

\* The fold behind it.
ReportFold(f, d, cs) ==
  f = [s \in SUBSET DOMAIN cs |->
         IF s = {} THEN d ELSE Apply(f[s \ {Max(s)}], Message(cs[Max(s)]))]

\* It applies the last report to what the fold of the others gives.
LEMMA DisplayedUnfolded ==
  ASSUME NEW d, NEW cs
  PROVE  Displayed(d, cs) = (CHOOSE f : ReportFold(f, d, cs))[DOMAIN cs]
BY DEF Displayed, FoldLeft, MapThenFoldSet, ReportFold

\* There is such a fold.
LEMMA ReportFoldExists ==
  ASSUME NEW d \in Shown, NEW cs \in Seq(Report)
  PROVE  \E f : ReportFold(f, d, cs)
<1>. DEFINE n == Len(cs)
            pick == [t \in SUBSET (1..n) |-> Max(t)]
            op == [p \in (1..n) \X Shown |-> Apply(p[2], Message(cs[p[1]]))]
<1>1. \A t \in SUBSET (1..n) : t # {} => pick[t] \in t
  <2>1. n \in Nat
    OBVIOUS
  <2>. HIDE DEF n
  <2>. QED  BY <2>1, GreatestOfSet
<1>2. op \in [(1..n) \X Shown -> Shown]
  <2>1. \A p \in (1..n) \X Shown : cs[p[1]] \in Report /\ p[2] \in Shown
    OBVIOUS
  <2>. QED  BY <2>1, ApplyType
<1>3. \A i \in 1..n, e \in Shown : op[<<i, e>>] = Apply(e, Message(cs[i]))
  OBVIOUS
<1>6. DOMAIN cs = 1..n /\ n \in Nat
  OBVIOUS
<1>. HIDE DEF op, pick, n
<1>4. PICK f \in [SUBSET (1..n) -> Shown] : IsFold(f, n, op, d, pick)
  BY <1>1, <1>2, <1>6, FoldExists
<1>5. \A t \in SUBSET (1..n) :
        f[t] = IF t = {} THEN d ELSE Apply(f[t \ {Max(t)}], Message(cs[Max(t)]))
  <2>. SUFFICES ASSUME NEW t \in SUBSET (1..n)
                PROVE f[t] = IF t = {} THEN d ELSE Apply(f[t \ {Max(t)}], Message(cs[Max(t)]))
    OBVIOUS
  <2>1. f[t] = IF t = {} THEN d ELSE op[<<pick[t], f[t \ {pick[t]}]>>]
    BY <1>4 DEF IsFold
  <2>2. pick[t] = Max(t)
    BY DEF pick
  <2>3. ASSUME t # {}
        PROVE  op[<<pick[t], f[t \ {pick[t]}]>>] = Apply(f[t \ {Max(t)}], Message(cs[Max(t)]))
    <3>1. Max(t) \in 1..n /\ f[t \ {Max(t)}] \in Shown
      BY <1>1, <2>2, <2>3
    <3>2. op[<<Max(t), f[t \ {Max(t)}]>>] = Apply(f[t \ {Max(t)}], Message(cs[Max(t)]))
      BY <3>1, <1>3, Zenon
    <3>. QED  BY <3>2, <2>2, Zenon
  <2>. QED  BY <2>1, <2>3
<1>7. f = [t \in SUBSET (1..n) |->
             IF t = {} THEN d ELSE Apply(f[t \ {Max(t)}], Message(cs[Max(t)]))]
  <2>1. f = [t \in SUBSET (1..n) |-> f[t]]
    OBVIOUS
  <2>2. [t \in SUBSET (1..n) |-> f[t]] = [t \in SUBSET (1..n) |->
             IF t = {} THEN d ELSE Apply(f[t \ {Max(t)}], Message(cs[Max(t)]))]
    BY <1>5, Zenon
  <2>. QED  BY <2>1, <2>2
<1>. QED  BY <1>6, <1>7 DEF ReportFold

\* A notification's reports keep the display faithful.
LEMMA FaithfulFold ==
  ASSUME NEW d, NEW rs \in Seq(Report), NEW cs \in Seq(Report), Faithful(d, rs)
  PROVE  Faithful(Displayed(d, cs), rs \o cs)
<1>. DEFINE n == Len(cs)
            f == CHOOSE f : ReportFold(f, d, cs)
            so(i) == rs \o SubSeq(cs, 1, i)
            T == {i \in Nat : i <= n => Faithful(f[1..i], so(i))}
<1>1. d \in Shown
  BY DEF Faithful
<1>2. ReportFold(f, d, cs)
  BY <1>1, ReportFoldExists
<1>3. DOMAIN cs = 1..n /\ n \in Nat
  OBVIOUS
<1>4. Displayed(d, cs) = f[1..n]
  BY <1>3, DisplayedUnfolded
<1>. HIDE DEF f
<1>5. \A t \in SUBSET (1..n) :
        f[t] = IF t = {} THEN d ELSE Apply(f[t \ {Max(t)}], Message(cs[Max(t)]))
  <2>. HIDE DEF n
  <2>. QED  BY <1>2, <1>3 DEF ReportFold
<1>6. 0 \in T
  <2>1. 1..0 = {} /\ so(0) = rs
    OBVIOUS
  <2>2. f[1..0] = d
    <3>. HIDE DEF n
    <3>. QED  BY <1>5, <2>1
  <2>. HIDE DEF so
  <2>. QED  BY <2>1, <2>2
<1>7. ASSUME NEW i \in Nat, i \in T PROVE i + 1 \in T
  <2>. SUFFICES ASSUME i + 1 <= n PROVE Faithful(f[1..(i + 1)], so(i + 1))
    OBVIOUS
  <2>1. Faithful(f[1..i], so(i))
    <3>. HIDE DEF so, n
    <3>. QED  BY <1>3, <1>7
  <2>2. so(i) \in Seq(Report) /\ cs[i + 1] \in Report /\ so(i + 1) = Append(so(i), cs[i + 1])
    OBVIOUS
  <2>3. /\ 1..(i + 1) \in SUBSET (1..n) /\ 1..(i + 1) # {} /\ i + 1 \in Nat
        /\ (1..(i + 1)) \ {i + 1} = 1..i /\ i + 1 \in 1..(i + 1)
    <3>1. i + 1 \in 1..(i + 1) /\ i + 1 \in Nat
      OBVIOUS
    <3>2. (1..(i + 1)) \ {i + 1} = 1..i
      OBVIOUS
    <3>3. 1..(i + 1) \subseteq 1..n
      OBVIOUS
    <3>. HIDE DEF n
    <3>. QED  BY <3>1, <3>2, <3>3
  <2>4. Max(1..(i + 1)) = i + 1
    BY <2>3, LastIsGreatest
  <2>. HIDE DEF so, n
  <2>5. f[1..(i + 1)] = Apply(f[1..i], Message(cs[i + 1]))
    BY <1>5, <2>3, <2>4
  <2>. QED  BY <2>1, <2>2, <2>5, FaithfulStep
<1>8. n \in T
  <2>. HIDE DEF T
  <2>1. \A i \in Nat : i \in T => i + 1 \in T
    BY <1>7
  <2>. QED  BY <1>3, <1>6, <2>1, SetInduction
<1>9. so(n) = rs \o cs
  OBVIOUS
<1>. HIDE DEF so, n
<1>10. Faithful(f[1..n], so(n))
  BY <1>3, <1>8
<1>. HIDE DEF T
<1>. QED  BY <1>4, <1>9, <1>10

\* The display is what the reports received so far say, with what it is computed from.
DisplayInv == received \in Seq(Report) /\ Faithful(display, received)

\* A display without reports.
LEMMA InitDisplay == DInit => DisplayInv
<1>. SUFFICES ASSUME DInit PROVE DisplayInv
  OBVIOUS
<1>1. received = <<>> /\ display = EmptyDisplay
  BY DEF DInit
<1>2. <<>> \in Seq(Report) /\ Len(<<>>) = 0
  OBVIOUS
<1>3. \A source : Latest(<<>>, 0, source) = Null
  BY DEF Latest
<1>4. /\ \A source : LatestKnown(<<>>, source) = Null
      /\ LatestSpeed(<<>>) = Null /\ LatestCharger(<<>>) = "unknown"
  BY DEF LatestKnown, LatestSpeed, LatestCharger
<1>5. EmptyDisplay \in Shown
  BY DEF EmptyDisplay, Shown, Level, Charger
<1>6. Faithful(EmptyDisplay, <<>>)
  BY <1>2, <1>3, <1>4, <1>5 DEF Faithful, EmptyDisplay, Truth
<1>. QED  BY <1>1, <1>2, <1>6 DEF DisplayInv

\* Only a notification changes it.
LEMMA DisplayStep == DisplayInv /\ [DNext]_dvars => DisplayInv'
<1>. SUFFICES ASSUME DisplayInv, [DNext]_dvars PROVE DisplayInv'
  OBVIOUS
<1>1. CASE DNotify
  <2>1. PICK frames \in Notifications :
          IF tool = "dashboard"
          THEN /\ display' = FoldLeft(LAMBDA d, r : Apply(d, Message(r)), display, Contents[frames])
               /\ received' = received \o Contents[frames]
          ELSE UNCHANGED <<display, received>>
    BY <1>1 DEF DNotify
  <2>2. CASE tool = "dashboard"
    <3>1. display' = Displayed(display, Contents[frames]) /\ received' = received \o Contents[frames]
      BY <2>1, <2>2 DEF Displayed
    <3>2. Contents[frames] \in Seq(Report) /\ received \in Seq(Report)
      BY DashboardAssumption DEF DisplayInv
    <3>3. Faithful(Displayed(display, Contents[frames]), received \o Contents[frames])
      BY <3>2, FaithfulFold DEF DisplayInv
    <3>4. received \o Contents[frames] \in Seq(Report)
      BY <3>2
    <3>. QED  BY <3>1, <3>3, <3>4 DEF DisplayInv
  <2>3. CASE tool # "dashboard"
    BY <2>1, <2>3 DEF DisplayInv
  <2>. QED  BY <2>2, <2>3
<1>2. CASE UNCHANGED <<display, received>>
  BY <1>2 DEF DisplayInv
<1>3. [DNext]_dvars => DNotify \/ UNCHANGED <<display, received>>
  BY DEF DNext, DWriter, DMain, DQueueHandshakeResponse, Refresh, Show, Closing, dashVars, dvars
<1>. QED  BY <1>1, <1>2, <1>3

\* The display is what the reports received so far say.
THEOREM DisplayIsTrue == DSpec => []DisplayIsLatest
<1>1. DisplayInv => DisplayIsLatest
  BY DEF DisplayInv, Faithful, DisplayIsLatest
<1>. QED  BY <1>1, InitDisplay, DisplayStep, PTL DEF DSpec
=============================================================================
