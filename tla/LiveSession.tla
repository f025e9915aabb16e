---------------------------- MODULE LiveSession ----------------------------
(***************************************************************************)
(* One live MCSP session: McspLiveSession of src/bosch_ble/live.py, driven *)
(* by the main coroutine that handshake.py and dashboard.py share.         *)
(*                                                                         *)
(* Three activities interleave on one asyncio loop: the main task (start,  *)
(* wait_for_handshake, queue_handshake_response, stop), the writer task    *)
(* and the notification callbacks that Bleak delivers.  An action is the   *)
(* code that runs between two awaits that can suspend.  The bike and the   *)
(* BLE link are the environment: they send notifications, fail a write or  *)
(* a (un)subscription, or drop the connection at any time.                 *)
(***************************************************************************)
EXTENDS Integers, FiniteSets, Packets

CONSTANTS
  Channels,          \* the MCSP channels of McspChannel
  CommandChannel,    \* McspChannel.COMMAND, one of them
  Notifications,     \* the well-formed notifications the bike may send
  MaxNotifications,  \* bound: how many notifications the bike sends
  Tools              \* the tools whose main coroutine may drive the session

NonCommandChannels == Channels \ {CommandChannel}

\* An MCSP command: its type and the one argument the session looks at.
Command == [type : {"version", "max_packet", "advance", "flow_control"}, arg : Nat]
NoCommand == [type |-> "none", arg |-> 0]

\* What one frame of a notification does to the session: it is a command frame
\* that decodes, a message frame that the startup responder answers with `replies'
\* packets, or neither (undecodable, or not answered).  `raises': a callback
\* (on_notify, on_frame or on_message) raises before the frame has any effect.
MaxReplies == 2
Frame == [command : Command \cup {NoCommand}, replies : 0..MaxReplies, raises : BOOLEAN]

ASSUME SessionAssumption ==
  /\ IsFiniteSet(Channels) /\ Channels \subseteq Nat
  /\ CommandChannel \in Channels
  /\ Notifications \subseteq Seq(Frame)
  /\ MaxNotifications \in Nat
  /\ Tools \subseteq {"handshake", "dashboard"}

VARIABLES
  queue, unfinished,               \* _send_queue: its items and its unfinished-task count
  pending, startupReady,           \* _startup_packets_pending, _startup_ready
  commands, future,                \* _handshake_commands as a set, _handshake_future
  wpc, inflight,                   \* writer task, the packet it is writing
  pc, join, stopError, raised,     \* main task, join_task, stop_error, what main raises
  stopRequested,                   \* the Event that SIGINT and SIGTERM set
  tool,                            \* which main coroutine runs
  link, subscribed,                \* connection up, notifications enabled
  sent, replies,                   \* history: packets written, startup replies produced
  notified, skipped                \* bound; last callback left before the handshake check

queueVars   == <<queue, unfinished>>
startupVars == <<pending, startupReady>>
detectVars  == <<commands, future, skipped>>
writerVars  == <<wpc, inflight, sent>>
mainVars    == <<pc, join, stopError, raised, stopRequested>>
clientVars  == <<link, subscribed>>
otherVars   == <<replies, notified, tool>>
vars == <<queueVars, startupVars, detectVars, writerVars, mainVars, clientVars, otherVars>>

Nothing == [kind |-> "nothing", n |-> 0]   \* no packet is being written

Init ==
  /\ queue = <<>> /\ unfinished = 0
  /\ pending = <<>> /\ startupReady = FALSE
  /\ commands = {} /\ future = "pending" /\ skipped = FALSE
  /\ wpc = "none" /\ inflight = Nothing /\ sent = <<>>
  /\ pc = "init" /\ join = "none" /\ stopError = FALSE /\ raised = "none"
  /\ stopRequested = FALSE
  /\ link = TRUE /\ subscribed = FALSE
  /\ replies = 0 /\ notified = 0
  /\ tool \in Tools
----------------------------------------------------------------------------
(***************************************************************************)
(* The handshake rules.                                                    *)
(***************************************************************************)
AdvancedChannels(cs) == {c.arg : c \in {d \in cs : d.type = "advance"}}

IsBikeHandshake(cs) ==
  /\ [type |-> "version", arg |-> 3] \in cs
  /\ \E c \in cs : c.type = "max_packet"
  /\ AdvancedChannels(cs) = NonCommandChannels

\* Version, segmentation size, then one DisableFlowControl per channel.
HandshakeLength == 2 + Cardinality(NonCommandChannels)
HandshakeResponse == [i \in 1..HandshakeLength |-> HandshakePacket(i)]

(***************************************************************************)
(* The send queue: put_nowait for each packet; and join(), which a         *)
(* task_done that brings the count to zero releases for good.              *)
(***************************************************************************)
Put(packets) ==
  /\ queue' = queue \o packets
  /\ unfinished' = unfinished + Len(packets)

ReleaseJoin == join' = IF unfinished' = 0 /\ join = "waiting" THEN "done" ELSE join
----------------------------------------------------------------------------
(***************************************************************************)
(* The writer task.  WriterLoop(done) is one turn of its loop after `done' *)
(* calls of task_done: get() blocks on an empty queue, returns at once on  *)
(* another one, and the turn ends in the await of the next write.          *)
(***************************************************************************)
WriterLoop(done) ==
  \/ /\ queue = <<>>
     /\ wpc' = "get" /\ inflight' = Nothing
     /\ queue' = queue /\ unfinished' = unfinished - done
  \/ /\ queue # <<>> /\ Head(queue) # CloseMarker
     /\ wpc' = "writing" /\ inflight' = Head(queue)
     /\ queue' = Tail(queue) /\ unfinished' = unfinished - done
  \/ /\ queue # <<>> /\ Head(queue) = CloseMarker
     /\ wpc' = "returned" /\ inflight' = Nothing
     /\ queue' = Tail(queue) /\ unfinished' = unfinished - done - 1

writerFrame == <<startupVars, detectVars, pc, stopError, raised, stopRequested,
                 clientVars, otherVars>>

WriterWakes ==
  /\ wpc = "get" /\ queue # <<>>
  /\ WriterLoop(0) /\ ReleaseJoin
  /\ UNCHANGED <<sent, writerFrame>>

\* Mutant: task_done is called twice for a packet.
WriteReturnsDoneTwice ==
  /\ wpc = "writing" /\ link
  /\ sent' = Append(sent, inflight)
  /\ WriterLoop(2) /\ ReleaseJoin
  /\ UNCHANGED writerFrame

\* write_gatt_char succeeds: only while the link is up.
WriteReturns ==
  /\ wpc = "writing" /\ link
  /\ sent' = Append(sent, inflight)
  /\ WriterLoop(1) /\ ReleaseJoin
  /\ UNCHANGED writerFrame

\* write_gatt_char (or on_send) raises: task_done runs in the finally, the
\* exception ends the task, and the packet is lost.
WriteRaises ==
  /\ wpc = "writing"
  /\ wpc' = "failed"
  /\ unfinished' = unfinished - 1 /\ ReleaseJoin
  /\ UNCHANGED <<queue, inflight, sent, writerFrame>>
----------------------------------------------------------------------------
(***************************************************************************)
(* A notification callback.  It handles its frames in order up to the      *)
(* first callback that raises, and looks for the handshake only if none    *)
(* did.                                                                    *)
(***************************************************************************)
Handled(frames) == {i \in 1..Len(frames) : \A j \in 1..i : ~frames[j].raises}

Completes(frames) == Handled(frames) = 1..Len(frames)

DecodedCommands(frames) == {frames[i].command : i \in Handled(frames)} \ {NoCommand}

ReplyCount(frames) ==
  Cardinality({r \in Handled(frames) \X (1..MaxReplies) : r[2] <= frames[r[1]].replies})

\* Mutant: replies are queued whether or not the handshake response was.
AnswerAtOnce(packets) == Put(packets) /\ UNCHANGED pending

\* Mutant: the newest pending replies go first.
AnswerNewestFirst(packets) ==
  \/ startupReady /\ Put(packets) /\ UNCHANGED pending
  \/ ~startupReady /\ pending' = packets \o pending /\ UNCHANGED queueVars

\* Replies wait in `pending' until the handshake response is queued.
Answer(packets) ==
  \/ startupReady /\ Put(packets) /\ UNCHANGED pending
  \/ ~startupReady /\ pending' = pending \o packets /\ UNCHANGED queueVars

\* Mutant: each callback looks at its own commands alone.
DetectInOneCallback(new, complete) ==
  /\ commands' = commands \cup new
  /\ skipped' = ~complete
  /\ future' = IF complete /\ future = "pending" /\ IsBikeHandshake(new)
               THEN "set" ELSE future

DetectHandshake(new, complete) ==
  /\ commands' = commands \cup new
  /\ skipped' = ~complete
  /\ future' = IF complete /\ future = "pending" /\ IsBikeHandshake(commands')
               THEN "set" ELSE future

Notify(frames) ==
  /\ link /\ subscribed /\ notified < MaxNotifications
  /\ notified' = notified + 1
  /\ replies' = replies + ReplyCount(frames)
  /\ Answer(StartupReplies(replies + 1, replies + ReplyCount(frames)))
  /\ DetectHandshake(DecodedCommands(frames), Completes(frames))
  /\ UNCHANGED <<startupReady, writerVars, mainVars, clientVars, tool>>

\* split_frames raises: the callback reports it and returns, without the check.
NotifyMalformed ==
  /\ link /\ subscribed /\ notified < MaxNotifications
  /\ notified' = notified + 1
  /\ UNCHANGED <<queueVars, startupVars, detectVars, writerVars, mainVars, clientVars, replies, tool>>
----------------------------------------------------------------------------
(***************************************************************************)
(* The main task: session.start(), outside the try of the caller.          *)
(***************************************************************************)
mainFrame == <<queueVars, startupVars, detectVars, writerVars, otherVars>>

\* The writer task is created and start_notify is called.
Start ==
  /\ pc = "init" /\ pc' = "starting" /\ wpc' = "get"
  /\ UNCHANGED <<queueVars, startupVars, detectVars, inflight, sent, join, stopError,
                 raised, stopRequested, clientVars, otherVars>>

\* BlueZ enables notifications before the reply to start_notify arrives.
Subscribe ==
  /\ pc = "starting" /\ link /\ ~subscribed /\ subscribed' = TRUE
  /\ UNCHANGED <<mainFrame, mainVars, link>>

StartNotifyReturns ==
  /\ pc = "starting" /\ subscribed /\ link /\ pc' = "waiting"
  /\ UNCHANGED <<mainFrame, join, stopError, raised, stopRequested, clientVars>>

\* No stop() follows: the writer task is left behind.
StartNotifyRaises ==
  /\ pc = "starting" /\ pc' = "finished" /\ raised' = "start" /\ subscribed' = FALSE
  /\ UNCHANGED <<mainFrame, join, stopError, stopRequested, link>>

(***************************************************************************)
(* wait_for_handshake, queue_handshake_response and the time the session   *)
(* stays open: a second (handshake.py), or until a signal (dashboard.py).  *)
(***************************************************************************)
\* The timer cancels the future; if it was set already, the result is dropped.
HandshakeTimeout ==
  /\ pc = "waiting" /\ pc' = "unsubscribing" /\ raised' = "timeout"
  /\ future' = IF future = "pending" THEN "cancelled" ELSE future
  /\ UNCHANGED <<queueVars, startupVars, commands, skipped, writerVars, otherVars,
                 join, stopError, stopRequested, clientVars>>

\* Mutant: the pending replies are flushed before the response is queued.
QueuePendingFirst ==
  /\ pc = "waiting" /\ future = "set" /\ pc' = "holding"
  /\ Put(pending \o HandshakeResponse)
  /\ pending' = <<>> /\ startupReady' = TRUE
  /\ UNCHANGED <<detectVars, writerVars, otherVars, join, stopError, raised,
                 stopRequested, clientVars>>

QueueHandshakeResponse ==
  /\ pc = "waiting" /\ future = "set" /\ pc' = "holding"
  /\ Put(HandshakeResponse \o pending)
  /\ pending' = <<>> /\ startupReady' = TRUE
  /\ UNCHANGED <<detectVars, writerVars, otherVars, join, stopError, raised,
                 stopRequested, clientVars>>

Signal ==
  /\ ~stopRequested /\ pc # "finished" /\ stopRequested' = TRUE
  /\ UNCHANGED <<mainFrame, pc, join, stopError, raised, clientVars>>

HoldEnds ==
  /\ pc = "holding" /\ (tool = "dashboard" => stopRequested)
  /\ pc' = "unsubscribing"
  /\ UNCHANGED <<mainFrame, join, stopError, raised, stopRequested, clientVars>>
----------------------------------------------------------------------------
(***************************************************************************)
(* stop(): stop_notify, then a race between join() and the writer task.    *)
(***************************************************************************)
\* Mutant: stop() does not withdraw the subscription.
StopKeepsSubscription ==
  /\ pc = "unsubscribing" /\ link
  /\ pc' = "joining" /\ join' = "created"
  /\ UNCHANGED <<mainFrame, stopError, raised, stopRequested, clientVars>>

StopNotifyReturns ==
  /\ pc = "unsubscribing" /\ link
  /\ pc' = "joining" /\ join' = "created" /\ subscribed' = FALSE
  /\ UNCHANGED <<mainFrame, stopError, raised, stopRequested, link>>

\* The bike can still notify: the subscription was not withdrawn.
StopNotifyRaises ==
  /\ pc = "unsubscribing"
  /\ pc' = "joining" /\ join' = "created" /\ stopError' = TRUE
  /\ UNCHANGED <<mainFrame, raised, stopRequested, clientVars>>

\* First step of join_task.
JoinStarts ==
  /\ join = "created" /\ join' = IF unfinished = 0 THEN "done" ELSE "waiting"
  /\ UNCHANGED <<mainFrame, pc, stopError, raised, stopRequested, clientVars>>

WriterEnded == wpc \in {"returned", "failed"}

\* Mutant: the error of stop_notify is raised first.
FinishStopErrorFirst ==
  /\ pc' = "finished"
  /\ raised' = IF stopError THEN "stop_notify"
               ELSE IF wpc = "failed" THEN "writer" ELSE raised
  /\ join' = IF join = "done" THEN "done" ELSE "cancelled"

\* The error of the writer replaces that of stop_notify, which replaces the
\* TimeoutError of the body.
Finish ==
  /\ pc' = "finished"
  /\ raised' = IF wpc = "failed" THEN "writer"
               ELSE IF stopError THEN "stop_notify" ELSE raised
  /\ join' = IF join = "done" THEN "done" ELSE "cancelled"

\* Mutant: stop() waits for join() alone, not for the writer task beside it.
JoinAwaitedAlone ==
  /\ pc = "joining" /\ join = "done"
  /\ IF WriterEnded
     THEN Finish /\ UNCHANGED queueVars
     ELSE Put(<<CloseMarker>>) /\ pc' = "closing" /\ UNCHANGED <<raised, join>>
  /\ UNCHANGED <<startupVars, detectVars, writerVars, otherVars, stopError, stopRequested,
                 clientVars>>

JoinReturns ==
  /\ pc = "joining" /\ (join = "done" \/ WriterEnded)
  /\ IF WriterEnded
     THEN Finish /\ UNCHANGED queueVars
     ELSE Put(<<CloseMarker>>) /\ pc' = "closing" /\ UNCHANGED <<raised, join>>
  /\ UNCHANGED <<startupVars, detectVars, writerVars, otherVars, stopError, stopRequested,
                 clientVars>>

\* Mutant: stop() returns without awaiting the writer it told to return.
CloseWithoutWaiting ==
  /\ pc = "closing"
  /\ Finish
  /\ UNCHANGED <<mainFrame, stopError, stopRequested, clientVars>>

CloseReturns ==
  /\ pc = "closing" /\ WriterEnded
  /\ Finish
  /\ UNCHANGED <<mainFrame, stopError, stopRequested, clientVars>>

\* asyncio.run cancels the tasks that are left when main ends.
RunCancels ==
  /\ pc = "finished" /\ wpc = "get" /\ wpc' = "cancelled"
  /\ UNCHANGED <<queueVars, startupVars, detectVars, inflight, sent, mainVars, clientVars,
                 otherVars>>
----------------------------------------------------------------------------
\* The connection drops.  Nothing in the session watches for it.
Disconnect ==
  /\ link /\ link' = FALSE
  /\ UNCHANGED <<mainFrame, mainVars, subscribed>>

\* The program has ended.
Terminated == pc = "finished" /\ wpc # "get" /\ UNCHANGED vars

Writer == WriterWakes \/ WriteReturns \/ WriteRaises
Bike == (\E frames \in Notifications : Notify(frames)) \/ NotifyMalformed \/ Disconnect
Main == \/ Start \/ Subscribe \/ StartNotifyReturns \/ StartNotifyRaises
        \/ HandshakeTimeout \/ QueueHandshakeResponse \/ HoldEnds
        \/ StopNotifyReturns \/ StopNotifyRaises \/ JoinStarts
        \/ JoinReturns \/ CloseReturns \/ RunCancels

Next == Writer \/ Main \/ Bike \/ Signal \/ Terminated

\* The loop runs what is ready, timers fire, and each Bleak call returns or raises.
Fairness == WF_vars(Writer) /\ WF_vars(Main)

Spec == Init /\ [][Next]_vars /\ Fairness
----------------------------------------------------------------------------
(***************************************************************************)
(* Properties.                                                             *)
(***************************************************************************)
\* Every variable keeps its type; the queue's unfinished count stays the number of
\* packets queued or being written, which is what join() relies on.
TypeOK ==
  /\ queue \in Seq(Packet \cup {CloseMarker})
  /\ unfinished = Len(queue) + (IF wpc = "writing" THEN 1 ELSE 0)
  /\ pending \in Seq(Packet) /\ startupReady \in BOOLEAN
  /\ commands \in SUBSET Command /\ future \in {"pending", "set", "cancelled"}
  /\ skipped \in BOOLEAN
  /\ wpc \in {"none", "get", "writing", "returned", "failed", "cancelled"}
  /\ inflight \in Packet \cup {Nothing}
  /\ pc \in {"init", "starting", "waiting", "holding", "unsubscribing", "joining",
             "closing", "finished"}
  /\ join \in {"none", "created", "waiting", "done", "cancelled"}
  /\ stopError \in BOOLEAN /\ stopRequested \in BOOLEAN
  /\ raised \in {"none", "start", "timeout", "stop_notify", "writer"}
  /\ link \in BOOLEAN /\ subscribed \in BOOLEAN
  /\ sent \in Seq(Packet) /\ replies \in Nat /\ notified \in 0..MaxNotifications
  /\ tool \in Tools

\* Startup packets are sent after the handshake response (docs/current-design.md):
\* no write of a startup reply precedes the write of a handshake packet, however the
\* callbacks that produce replies interleave with the handshake.
StartupAfterHandshake ==
  \A i, j \in 1..Len(sent) :
    i < j /\ sent[j].kind = "handshake" => sent[i].kind = "handshake"

\* Nothing is written to the bike unless its handshake was detected and the main
\* task took the result: a session that timed out stays silent, even when the
\* timeout races a handshake that completed.
SilentWithoutHandshake ==
  wpc = "writing" \/ sent # <<>> => future = "set" /\ startupReady /\ raised # "timeout"

\* Commands accumulate over callbacks: when the last callback reached the check and
\* the accumulated commands are a bike handshake, the future has been settled.
HandshakeNotMissed ==
  IsBikeHandshake(commands) /\ ~skipped => future # "pending"

\* A session whose writer died never ends as if all was well: the writer's error is
\* what stop() raises, whatever stop_notify did and whichever task ended first.
WriterFailureSurfaces ==
  pc = "finished" /\ wpc = "failed" => raised = "writer"

\* A stop that reports no error has written the handshake response and every reply
\* produced up to then, and nothing is left in the queue.
HealthyStopFlushes ==
  pc = "finished" /\ raised = "none" =>
    sent = HandshakeResponse \o StartupReplies(1, replies) /\ queue = <<>>

\* A future that was set or cancelled is never settled again (set_result on a settled
\* future raises in the middle of a notification callback).
SettledOnce == [][future # "pending" => future' = future]_vars

\* stop() leaves no writer behind: after it, nothing more is written.
QuietAfterStop == [][pc = "finished" => sent' = sent]_vars

\* handshake.py always ends, and dashboard.py ends once it is told to: no order of
\* writer failure, disconnection and queued packets makes stop() wait for ever.
ToolEnds == (tool = "handshake" \/ stopRequested) ~> (pc = "finished" /\ wpc # "get")

\* What the session promises the bike.
Stream == INSTANCE StartupStream WITH
  Response <- HandshakeResponse, wire <- sent, asked <- replies,
  status <- IF wpc = "failed" THEN "broken"
            ELSE IF pc = "finished" THEN IF raised = "none" THEN "flushed" ELSE "broken"
            ELSE IF startupReady THEN "open" ELSE "closed"

\* The session implements the stream: the writes are a prefix of the stream in its
\* order, a clean stop has written all of it, and owed packets are written.
ImplementsStream == Stream!Spec

\* A disconnect is surfaced rather than left to the cleanup (docs/current-design.md,
\* line 50): a tool does not go on holding a session whose link has dropped.
DisconnectSurfaces == (~link /\ pc = "holding") ~> pc # "holding"
----------------------------------------------------------------------------
(***************************************************************************)
(* The inductive invariant behind the safety properties.                   *)
(***************************************************************************)
\* The writer writes packets only, never the close marker.
WritesPackets == wpc = "writing" => inflight \in Packet

\* Before the handshake is answered nothing is queued but the close marker, and a
\* session that ended without an answer never answers.
Phases ==
  /\ pc \in {"init", "starting", "waiting"} =>
       ~startupReady /\ raised = "none" /\ queue = <<>>
  /\ raised \in {"timeout", "start"} => ~startupReady
  /\ startupReady => future = "set"
  /\ ~startupReady =>
       /\ sent = <<>> /\ wpc \notin {"writing", "failed"}
       /\ \A i \in 1..Len(queue) : queue[i] = CloseMarker

\* The writer has ended when stop() has, with its error in `raised'.
StopJoins ==
  pc = "finished" /\ raised # "start" => WriterEnded /\ (wpc = "failed" => raised = "writer")

\* Along the packets written, the one being written and the queue, no handshake
\* packet follows another packet; what is pending is startup replies.
HandshakeFirst ==
  /\ \A i \in 1..Len(pending) : pending[i].kind = "startup"
  /\ \A i, j \in 1..Len(queue) :
       i < j /\ queue[j].kind = "handshake" => queue[i].kind = "handshake"
  /\ \A j \in 1..Len(queue) : queue[j].kind = "handshake" =>
       /\ wpc = "writing" => inflight.kind = "handshake"
       /\ \A i \in 1..Len(sent) : sent[i].kind = "handshake"
  /\ wpc = "writing" /\ inflight.kind = "handshake" =>
       \A i \in 1..Len(sent) : sent[i].kind = "handshake"

IInv == TypeOK /\ WritesPackets /\ Phases /\ StopJoins /\ HandshakeFirst /\ StartupAfterHandshake
=============================================================================
