-------------------------- MODULE GattTools_proofs --------------------------
(***************************************************************************)
(* What log_chars, probe and the listing may rely on when they run through *)
(* the proxy: no scanner is lost however often the proxy drops, SIGINT is  *)
(* obeyed within one round of reads, no notification finds the output file *)
(* closed, and probe reports every value that changed between two reads.   *)
(***************************************************************************)
EXTENDS GattTools, FiniteSetTheorems, TLAPS

\* The part of the types that is the reconnect logic's own, and the rest of EsphomeClient's.
LinkTypeOK ==
  /\ link \in {"down", "calling", "up", "stopped"} /\ calls \in 0..MaxCalls
  /\ announced \in BOOLEAN /\ unsetup \in BOOLEAN /\ unregister \in BOOLEAN

FlowTypeOK ==
  /\ tool \in Tools
  /\ pc \in {"attempt", "wait", "stop", "open", "stage", "pair", "rewrite", "body", "sleep",
             "closed"}
  /\ attempt \in 1..MaxAttempts /\ cleanup \in BOOLEAN
  /\ raised \in {"none", "proxy_timeout", "bleak", "body", "second_yield"} \cup Retryable
  /\ bodyError \in {"none", "body", "body_retry", "exit"}

\* on_connect and on_disconnect take turns: whenever on_connect may run, there is nothing
\* that it could overwrite.
Alternating ==
  /\ NoScannerLost
  /\ link \in {"down", "calling"} => ~unsetup /\ ~unregister

LinkInv == LinkTypeOK /\ Alternating

\* An attempt that sleeps has another one to sleep for.
EsphomeInv == LinkInv /\ FlowTypeOK /\ (pc = "sleep" => attempt < MaxAttempts)

\* The body runs once for log_chars and probe, whose generator cannot yield twice, and not
\* after its exit raised; the listing, which may run again, neither subscribes nor looks at
\* STOP.
Placed ==
  /\ phase # "idle" => pc = "body"
  /\ pc = "body" /\ phase # "closing" /\ tool # "dump" => bodyError = "none"
  /\ pc = "body" \/ tool = "dump" => bodyError # "exit"
  /\ tool = "dump" =>
       /\ phase \in {"idle", "read", "closing"} /\ ~stop
       /\ subscribed = {} /\ late = {}
  /\ tool = "log" => phase \notin {"baseline", "write"}

\* What remains to be read in this round, with what was read since STOP, is one round at
\* most, and a round that begins begins from nothing.
Prompt ==
  /\ StopIsPrompt
  /\ ~stop => after = 0
  /\ phase \in {"idle", "subscribe"} /\ pc # "closed" /\ bodyError = "none" => after = 0
  /\ phase = "pause" /\ tool = "probe" => after = 0
  /\ phase \in {"read", "baseline"} =>
       todo \subseteq Readable /\ after + Cardinality(todo) <= Cardinality(Readable)

\* Nobody is subscribed while the file is closed, but those the bike refused to stop.
Filed ==
  /\ NoLateNotification
  /\ phase = "idle" => subscribed = {}
  /\ tool # "dump" => (fileOpen <=> phase \notin {"idle", "closing"})
  /\ phase \in {"subscribe", "unsubscribe"} => todo \subseteq Notifying
  /\ phase = "unsubscribe" => subscribed \subseteq todo \cup stubborn
  /\ phase = "closing" /\ bodyError = "none" => subscribed \subseteq stubborn

\* A value of the baseline is the one last read.
Latest == \A c \in Readable : baseline[c] \in {NoValue, lastGood[c]}

\* The part of TypeOK that is the body's own.
BodyTypeOK ==
  /\ phase \in {"idle", "subscribe", "baseline", "write", "pause", "read", "poll",
                "unsubscribe", "closing"}
  /\ todo \subseteq Notifying \cup Readable /\ fileOpen \in BOOLEAN /\ stop \in BOOLEAN
  /\ subscribed \subseteq Notifying /\ stubborn \subseteq Notifying
  /\ device \in [Readable -> Values] /\ left \in 0..Writes
  /\ baseline \in [Readable -> Values \cup {NoValue}]
  /\ current \in [Readable -> Values \cup {NoValue}]
  /\ lastGood \in [Readable -> Values \cup {NoValue}]
  /\ after \in Nat /\ late \subseteq Notifying

ToolInv == EsphomeInv /\ BodyTypeOK /\ Placed /\ Prompt /\ Filed /\ Latest

-----------------------------------------------------------------------------
(***************************************************************************)
(* The proxy.                                                              *)
(***************************************************************************)
\* What the calls of the reconnect logic, and a new one, do to a scanner.
LEMMA LinkSteps ==
  ASSUME LinkInv,
         \/ FreshLink \/ StopLogic \/ CallOnConnect \/ OnConnect \/ OnConnectRaises
         \/ OnDisconnect \/ UNCHANGED linkVars
  PROVE  LinkInv'
<1>1. LinkTypeOK'
  <2>1. /\ 0 \in 0..MaxCalls
        /\ calls < MaxCalls /\ calls \in 0..MaxCalls => calls + 1 \in 0..MaxCalls
    BY EsphomeAssumption
  <2>. QED  BY <2>1 DEF LinkInv, LinkTypeOK, linkVars, FreshLink, StopLogic, Undo,
               CallOnConnect, OnConnect, OnConnectRaises, OnDisconnect
<1>2. /\ ~unsetup' => setUps' = 0
      /\ unsetup' => setUps' = 1
      /\ ~unregister' => registered' = 0
      /\ unregister' => registered' = 1
  <2>1. /\ ~unsetup => setUps = 0
        /\ unsetup => setUps = 1
        /\ ~unregister => registered = 0
        /\ unregister => registered = 1
        /\ link \in {"down", "calling"} => ~unsetup /\ ~unregister
    BY DEF LinkInv, Alternating, NoScannerLost
  <2>. QED  BY <2>1 DEF linkVars, FreshLink, StopLogic, Undo, CallOnConnect, OnConnect,
               OnConnectRaises, OnDisconnect
<1>3. NoScannerLost'
  BY <1>1, <1>2 DEF NoScannerLost, LinkTypeOK
<1>4. link' \in {"down", "calling"} => ~unsetup' /\ ~unregister'
  BY DEF LinkInv, Alternating, linkVars, FreshLink, StopLogic, Undo, CallOnConnect, OnConnect,
     OnConnectRaises, OnDisconnect
<1>. QED  BY <1>1, <1>3, <1>4 DEF LinkInv, Alternating

\* The except clause goes to the next attempt or to the caller.
LEMMA FailMoves ==
  ASSUME FlowTypeOK, NEW e \in {"proxy_timeout", "bleak", "body"} \cup Retryable, Fail(e),
         cleanup' \in BOOLEAN, bodyError' \in {"none", "body", "body_retry", "exit"}
  PROVE  /\ FlowTypeOK' /\ pc' \in {"sleep", "closed"} /\ UNCHANGED tool
         /\ pc' = "sleep" => attempt' < MaxAttempts
BY EsphomeAssumption DEF FlowTypeOK, Fail

\* The attempts and the callbacks, and where they lead: nothing but Yield starts a body.
LEMMA FlowSteps ==
  ASSUME EsphomeInv, Flow \/ Callbacks \/ CleanupTask
  PROVE  /\ EsphomeInv' /\ UNCHANGED <<tool, bodyError>>
         /\ pc \in {"body", "closed"} => UNCHANGED pc
         /\ pc # "body" /\ pc' = "body" => bodyError = "none" \/ tool = "dump"
<1>. USE DEF EsphomeInv
<1>1. CASE Callbacks \/ CleanupTask
  <2>1. LinkInv'
    BY <1>1, LinkSteps DEF Callbacks, CleanupTask
  <2>2. FlowTypeOK' /\ UNCHANGED <<flowVars, pc>>
    BY <1>1 DEF Callbacks, CleanupTask, flowVars, FlowTypeOK
  <2>. QED  BY <2>1, <2>2 DEF flowVars
<1>2. CASE SetupStopped \/ BleakRaises
  <2>1. LinkInv'
    BY <1>2, LinkSteps DEF SetupStopped, BleakRaises, Teardown
  <2>2. PICK e \in {"proxy_timeout", "bleak"} \cup Retryable : Fail(e)
    BY <1>2 DEF SetupStopped, BleakRaises, Retryable
  <2>3. cleanup' \in BOOLEAN /\ UNCHANGED bodyError /\ pc \notin {"body", "closed"}
    BY <1>2 DEF SetupStopped, BleakRaises, Teardown, FlowTypeOK
  <2>. QED  BY <2>1, <2>2, <2>3, FailMoves DEF FlowTypeOK
<1>3. CASE Flow /\ ~SetupStopped /\ ~BleakRaises
  <2>1. LinkInv'
    BY <1>3, LinkSteps DEF Flow, Start, Connected, SetupTimesOut, Open, StageDirect, StagePair,
       Paired, Rewrite, Sleep, Yield, Goto, Teardown
  <2>2. CASE Start \/ Connected \/ SetupTimesOut \/ Open \/ StagePair
    BY <2>1, <2>2 DEF Start, Connected, SetupTimesOut, Open, StagePair, Goto, flowVars,
       FlowTypeOK
  <2>3. CASE Yield /\ pc \in {"stage", "pair", "rewrite"}
    BY <2>1, <2>3 DEF Yield, Teardown, flowVars, FlowTypeOK
  <2>4. CASE pc = "pair" /\ Goto("rewrite") /\ UNCHANGED cleanup
    BY <2>1, <2>4 DEF Goto, flowVars, FlowTypeOK
  <2>5. CASE Sleep
    BY <2>1, <2>5, EsphomeAssumption DEF Sleep, FlowTypeOK
  <2>. QED  BY <1>3, <2>2, <2>3, <2>4, <2>5 DEF Flow, StageDirect, Paired, Rewrite
<1>. QED  BY <1>1, <1>2, <1>3

LEMMA EsphomeStarts == EsphomeInit => EsphomeInv
<1>1. EsphomeInit => FlowTypeOK /\ LinkTypeOK /\ pc = "attempt"
  <2>1. 0 \in 0..MaxCalls /\ 1 \in 1..MaxAttempts
    BY EsphomeAssumption
  <2>. QED  BY <2>1 DEF EsphomeInit, FlowTypeOK, LinkTypeOK
<1>2. EsphomeInit => NoScannerLost
  BY DEF EsphomeInit, NoScannerLost
<1>3. EsphomeInit => Alternating
  BY <1>2 DEF EsphomeInit, Alternating
<1>. QED  BY <1>1, <1>3 DEF EsphomeInv, LinkInv
-----------------------------------------------------------------------------
(***************************************************************************)
(* The body.                                                               *)
(***************************************************************************)
\* How many characteristics are left of a round.
LEMMA RoundsAreFinite ==
  /\ Cardinality({}) = 0 /\ Cardinality(Readable) \in Nat
  /\ \A cs \in SUBSET Readable : Cardinality(cs) \in Nat
  /\ \A cs \in SUBSET Readable : \A c \in cs : Cardinality(cs \ {c}) = Cardinality(cs) - 1
<1>1. IsFiniteSet(Readable)
  BY ToolsAssumption
<1>2. ASSUME NEW cs \in SUBSET Readable PROVE IsFiniteSet(cs) /\ Cardinality(cs) \in Nat
  BY <1>1, FS_Subset, FS_CardinalityType
<1>3. ASSUME NEW cs \in SUBSET Readable, NEW c \in cs
      PROVE  Cardinality(cs \ {c}) = Cardinality(cs) - 1
  BY <1>2, FS_RemoveElement
<1>. QED  BY <1>1, <1>2, <1>3, FS_EmptySet

\* A step of the proxy or of the attempts, around the body.
LEMMA AroundTheBody ==
  ASSUME ToolInv, Flow \/ Callbacks \/ CleanupTask, UNCHANGED bodyVars
  PROVE  ToolInv'
<1>1. EsphomeInv' /\ UNCHANGED <<tool, bodyError>>
  BY FlowSteps DEF ToolInv
<1>2. BodyTypeOK' /\ Filed' /\ Latest'
  BY <1>1 DEF ToolInv, bodyVars, notifyVars, probeVars, BodyTypeOK, Filed, NoLateNotification, Latest
<1>3. Placed' /\ Prompt'
  BY <1>1, FlowSteps DEF ToolInv, bodyVars, notifyVars, probeVars, Placed, Prompt, StopIsPrompt
<1>. QED  BY <1>1, <1>2, <1>3 DEF ToolInv

\* SIGINT, a change of what the bike holds, a notification.
LEMMA Environment ==
  ASSUME ToolInv, Signal \/ BikeChanges \/ Notification
  PROVE  ToolInv'
<1>. USE DEF ToolInv
<1>1. EsphomeInv' /\ UNCHANGED <<esphomeVars, flowVars, pc>>
  BY DEF Signal, BikeChanges, Notification, esphomeVars, linkVars, flowVars, EsphomeInv, LinkInv,
     LinkTypeOK, Alternating, NoScannerLost, FlowTypeOK
<1>2. BodyTypeOK'
  BY DEF Signal, BikeChanges, Notification, notifyVars, probeVars, BodyTypeOK
<1>3. Placed'
  BY <1>1 DEF Signal, BikeChanges, Notification, flowVars, notifyVars, Placed
<1>4. Prompt'
  BY <1>1 DEF Signal, BikeChanges, Notification, flowVars, Prompt, StopIsPrompt
<1>5. Filed'
  BY <1>1 DEF Signal, BikeChanges, Notification, flowVars, notifyVars, Filed, Placed,
     NoLateNotification, BodyTypeOK
<1>6. Latest'
  BY DEF Signal, BikeChanges, Notification, probeVars, Latest
<1>. QED  BY <1>1, <1>2, <1>3, <1>4, <1>5, <1>6

\* The steps of the body that neither end it nor make a snapshot of what was read.
BodyMoves ==
  \/ Begin \/ Subscribe \/ Subscribed \/ ReadOne \/ Write \/ Written \/ Wake \/ Poll \/ EndRound
  \/ Unsubscribe \/ Close

\* What every one of them leaves alone.
LEMMA BodyFrame ==
  ASSUME ToolInv, BodyMoves \/ EndSnapshot
  PROVE  /\ EsphomeInv' /\ UNCHANGED <<tool, pc, bodyError, stop, late>>
         /\ pc = "body" /\ phase' # "idle"
BY DEF ToolInv, BodyMoves, EndSnapshot, Begin, Subscribe, Subscribed, ReadOne, Write, Written,
   Wake, Poll, EndRound, Unsubscribe, Close, In, GotoPhase, esphomeVars, linkVars, flowVars,
   EsphomeInv, LinkInv, LinkTypeOK, Alternating, NoScannerLost, FlowTypeOK

\* The types of the body's variables.
LEMMA BodyTypes ==
  ASSUME ToolInv, BodyMoves \/ EndSnapshot
  PROVE  BodyTypeOK'
<1>. USE DEF ToolInv, BodyTypeOK, In, GotoPhase, notifyVars, probeVars
<1>1. CASE ReadOne
  <2>1. PICK c \in todo : current' \in {current, [current EXCEPT ![c] = device[c]]}
                          /\ todo' = todo \ {c}
    BY <1>1 DEF ReadOne
  <2>2. c \in Readable
    BY <1>1, <2>1 DEF ReadOne, Prompt
  <2>3. current' \in [Readable -> Values \cup {NoValue}]
    BY <2>1, <2>2
  <2>4. after' \in Nat
    BY <1>1 DEF ReadOne
  <2>. QED  BY <1>1, <2>1, <2>3, <2>4 DEF ReadOne
<1>2. CASE EndSnapshot
  <2>1. lastGood' \in [Readable -> Values \cup {NoValue}]
    BY <1>2 DEF EndSnapshot
  <2>2. current' \in [Readable -> Values \cup {NoValue}]
    BY <1>2 DEF EndSnapshot, Nothing
  <2>. QED  BY <1>2, <2>1, <2>2 DEF EndSnapshot
<1>3. CASE Write
  BY <1>3, ToolsAssumption DEF Write
<1>4. CASE Subscribe \/ Unsubscribe
  BY <1>4 DEF Subscribe, Unsubscribe, Filed
<1>5. CASE Begin \/ Subscribed \/ Written \/ Wake \/ Poll \/ EndRound \/ Close
  BY <1>5 DEF Begin, Subscribed, Written, Wake, Poll, EndRound, Close
<1>. QED  BY <1>1, <1>2, <1>3, <1>4, <1>5 DEF BodyMoves

\* Where the body goes, and what each tool does there.
LEMMA BodyPlaces ==
  ASSUME ToolInv, BodyMoves \/ EndSnapshot
  PROVE  Placed'
<1>1. /\ UNCHANGED <<tool, pc, bodyError, stop, late>> /\ pc = "body"
      /\ tool \in {"log", "probe", "dump"}
  BY BodyFrame, EsphomeAssumption DEF ToolInv, EsphomeInv, FlowTypeOK
<1>2. phase # "closing" /\ (tool = "dump" => subscribed' = {})
  BY DEF ToolInv, Placed, BodyMoves, EndSnapshot, Begin, Subscribe, Subscribed, ReadOne, Write,
     Written, Wake, Poll, EndRound, Unsubscribe, Close, In, notifyVars
<1>3. CASE tool = "dump"
  BY <1>1, <1>2, <1>3 DEF ToolInv, Placed, BodyMoves, EndSnapshot, Begin, Subscribe, Subscribed,
     ReadOne, Write, Written, Wake, Poll, EndRound, Unsubscribe, Close, In, GotoPhase
<1>4. CASE tool = "log"
  BY <1>1, <1>2, <1>4 DEF ToolInv, Placed, BodyMoves, EndSnapshot, Begin, Subscribe, Subscribed,
     ReadOne, Write, Written, Wake, Poll, EndRound, Unsubscribe, Close, In, GotoPhase
<1>5. CASE tool = "probe"
  BY <1>1, <1>2, <1>5 DEF ToolInv, Placed
<1>. QED  BY <1>1, <1>3, <1>4, <1>5

\* The rounds: one is begun only by a body that has read nothing since STOP.
LEMMA BodyIsPrompt ==
  ASSUME ToolInv, BodyMoves \/ EndSnapshot
  PROVE  Prompt'
<1>. USE DEF ToolInv, Prompt, StopIsPrompt, In, GotoPhase
<1>1. /\ UNCHANGED <<tool, pc, bodyError, stop>> /\ pc = "body"
      /\ phase # "closing" /\ (tool = "dump" => ~stop) /\ after \in Nat
  BY BodyFrame DEF Placed, BodyTypeOK, BodyMoves, EndSnapshot, Begin, Subscribe, Subscribed,
     ReadOne, Write, Written, Wake, Poll, EndRound, Unsubscribe, Close
<1>2. CASE ReadOne
  <2>1. PICK c \in todo : todo' = todo \ {c} /\ phase' = phase
    BY <1>2 DEF ReadOne
  <2>2. Cardinality(todo') = Cardinality(todo) - 1 /\ todo' \subseteq Readable
        /\ Cardinality(todo) \in Nat /\ Cardinality(todo') \in Nat
    BY <1>2, <2>1, RoundsAreFinite DEF ReadOne
  <2>. QED  BY <1>1, <1>2, <2>1, <2>2, RoundsAreFinite DEF ReadOne
<1>3. CASE ~ReadOne
  <2>1. UNCHANGED after
    BY <1>3 DEF BodyMoves, EndSnapshot, Begin, Subscribe, Subscribed, Write, Written, Wake, Poll,
       EndRound, Unsubscribe, Close
  <2>2. phase' = "subscribe" => phase \in {"idle", "subscribe"}
    BY <1>3 DEF BodyMoves, EndSnapshot, Begin, Subscribe, Subscribed, Write, Written, Wake, Poll,
       EndRound, Unsubscribe, Close
  <2>3. phase' = "pause" /\ tool = "probe" => ~stop
    BY <1>3 DEF BodyMoves, EndSnapshot, Begin, Subscribe, Subscribed, Write, Written, Wake, Poll,
       EndRound, Unsubscribe, Close
  <2>4. phase' \in {"read", "baseline"} => todo' = Readable /\ after = 0
    <3>1. tool \in {"log", "probe", "dump"}
      BY EsphomeAssumption DEF EsphomeInv, FlowTypeOK
    <3>2. CASE Begin \/ Subscribed
      BY <1>1, <3>1, <3>2 DEF Begin, Subscribed, Placed
    <3>3. CASE Wake \/ Poll
      BY <1>1, <3>1, <3>3 DEF Wake, Poll, Placed
    <3>4. CASE ~Begin /\ ~Subscribed /\ ~Wake /\ ~Poll
      BY <1>3, <3>4 DEF BodyMoves, EndSnapshot, Subscribe, Write, Written, EndRound, Unsubscribe,
         Close
    <3>. QED  BY <3>2, <3>3, <3>4
  <2>5. phase' # "idle"
    BY BodyFrame
  <2>. QED  BY <1>1, <2>1, <2>2, <2>3, <2>4, <2>5, RoundsAreFinite
<1>. QED  BY <1>2, <1>3

\* The file, and who may still be notified.
LEMMA BodyFiles ==
  ASSUME ToolInv, BodyMoves \/ EndSnapshot
  PROVE  Filed' /\ Latest'
<1>1. /\ UNCHANGED <<tool, pc, bodyError, stop, late>> /\ pc = "body"
      /\ phase' # "idle"
  BY BodyFrame
<1>2. Latest'
  BY DEF ToolInv, Latest, BodyTypeOK, BodyMoves, EndSnapshot, Begin, Subscribe, Subscribed, ReadOne,
     Write, Written, Wake, Poll, EndRound, Unsubscribe, Close, probeVars, Good
<1>3. NoLateNotification'
  BY <1>1 DEF ToolInv, Filed, NoLateNotification, BodyMoves, EndSnapshot, Begin, Subscribe,
     Subscribed, ReadOne, Write, Written, Wake, Poll, EndRound, Unsubscribe, Close, notifyVars
<1>4. tool # "dump" => (fileOpen' <=> phase' \notin {"idle", "closing"})
  BY <1>1 DEF ToolInv, Filed, Placed, BodyMoves, EndSnapshot, Begin, Subscribe,
     Subscribed, ReadOne, Write, Written, Wake, Poll, EndRound, Unsubscribe, Close, In, GotoPhase
<1>5. /\ phase' \in {"subscribe", "unsubscribe"} => todo' \subseteq Notifying
      /\ phase' = "unsubscribe" => subscribed' \subseteq todo' \cup stubborn'
  BY DEF ToolInv, Filed, BodyTypeOK, BodyMoves, EndSnapshot, Begin, Subscribe,
     Subscribed, ReadOne, Write, Written, Wake, Poll, EndRound, Unsubscribe, Close, In, GotoPhase,
     notifyVars
<1>6. phase' = "closing" /\ bodyError = "none" => subscribed' \subseteq stubborn'
  BY DEF ToolInv, Filed, Placed, BodyMoves, EndSnapshot, Begin, Subscribe,
     Subscribed, ReadOne, Write, Written, Wake, Poll, EndRound, Unsubscribe, Close, In, GotoPhase,
     notifyVars
<1>. QED  BY <1>1, <1>2, <1>3, <1>4, <1>5, <1>6 DEF Filed

\* The body is left, by an exception or by its end, and the proxy after it.
LEMMA BodyLeft ==
  ASSUME ToolInv, BodyRaises \/ Leave \/ ExitRaises
  PROVE  ToolInv'
<1>. USE DEF ToolInv
<1>1. CASE BodyRaises
  <2>1. EsphomeInv' /\ UNCHANGED <<tool, pc, stop, after, late, subscribed, stubborn>>
        /\ pc = "body" /\ phase' = "closing" /\ bodyError' \notin {"none", "exit"}
        /\ fileOpen' = FALSE
    BY <1>1 DEF BodyRaises, GotoPhase, notifyVars, linkVars, EsphomeInv, LinkInv, LinkTypeOK,
       Alternating, NoScannerLost, FlowTypeOK
  <2>2. BodyTypeOK' /\ Latest'
    BY <1>1 DEF BodyRaises, GotoPhase, notifyVars, probeVars, BodyTypeOK, Latest
  <2>3. Placed' /\ Prompt' /\ Filed'
    BY <2>1 DEF Placed, Prompt, StopIsPrompt, Filed, NoLateNotification
  <2>. QED  BY <2>1, <2>2, <2>3
<1>2. CASE Leave \/ ExitRaises
  <2>1. EsphomeInv' /\ pc = "body" /\ phase = "closing"
    <3>1. /\ LinkInv' /\ cleanup' \in BOOLEAN
          /\ bodyError' \in {"none", "body", "body_retry", "exit"}
      BY <1>2, LinkSteps DEF Leave, ExitRaises, LeaveContexts, Teardown, EsphomeInv, FlowTypeOK
    <3>2. /\ pc = "body" /\ phase = "closing" /\ bodyError # "exit"
      BY <1>2 DEF Leave, ExitRaises, LeaveContexts, In, Placed
    <3>3. CASE Leave /\ bodyError = "none"
      BY <3>1, <3>2, <3>3 DEF Leave, EsphomeInv, FlowTypeOK
    <3>4. CASE (Leave /\ bodyError # "none") \/ ExitRaises
      <4>1. PICK e \in {"proxy_timeout", "bleak", "body"} \cup Retryable : Fail(e)
        BY <3>2, <3>4 DEF Leave, ExitRaises, EsphomeInv, FlowTypeOK, Retryable
      <4>. QED  BY <3>1, <3>2, <4>1, FailMoves DEF EsphomeInv
    <3>. QED  BY <1>2, <3>3, <3>4
  <2>2. /\ UNCHANGED <<tool, stop, after, late, stubborn, fileOpen>> /\ phase' = "idle"
        /\ subscribed' = {} /\ pc' # "body"
        /\ bodyError = "none" /\ bodyError' = "none" => pc' = "closed" \/ tool = "dump"
        /\ IF tool = "dump" THEN bodyError' = "none" ELSE bodyError' \in {bodyError, "exit"}
    BY <1>2 DEF Leave, ExitRaises, LeaveContexts, GotoPhase, Fail
  <2>3. BodyTypeOK' /\ Latest'
    BY <1>2, <2>2 DEF Leave, ExitRaises, LeaveContexts, GotoPhase, probeVars, BodyTypeOK, Latest
  <2>4. Placed' /\ Prompt' /\ Filed'
    BY <2>1, <2>2 DEF Placed, Prompt, StopIsPrompt, Filed, NoLateNotification
  <2>. QED  BY <2>1, <2>3, <2>4
<1>. QED  BY <1>1, <1>2

\* The inductive invariant of a tool behind the proxy.
THEOREM ToolInvariant == Spec => []ToolInv
<1>1. Init => ToolInv
  <2>. SUFFICES ASSUME Init PROVE ToolInv
    OBVIOUS
  <2>1. EsphomeInv /\ bodyError = "none" /\ pc = "attempt"
    BY EsphomeStarts DEF Init, EsphomeInit
  <2>2. BodyTypeOK /\ Latest
    <3>1. Nothing \in [Readable -> Values \cup {NoValue}]
      BY DEF Nothing
    <3>2. Writes \in 0..Writes
      BY ToolsAssumption
    <3>. QED  BY <3>1, <3>2 DEF Init, BodyTypeOK, Latest
  <2>3. Placed /\ Prompt /\ Filed
    BY <2>1, RoundsAreFinite DEF Init, Placed, Prompt, StopIsPrompt, Filed, NoLateNotification
  <2>. QED  BY <2>1, <2>2, <2>3 DEF ToolInv
<1>2. ToolInv /\ [Next]_vars => ToolInv'
  <2>. SUFFICES ASSUME ToolInv, [Next]_vars PROVE ToolInv'
    OBVIOUS
  <2>1. CASE (Flow \/ Callbacks \/ CleanupTask) /\ UNCHANGED bodyVars
    BY <2>1, AroundTheBody
  <2>2. CASE BodyMoves \/ EndSnapshot
    BY <2>2, BodyFrame, BodyTypes, BodyPlaces, BodyIsPrompt, BodyFiles DEF ToolInv
  <2>3. CASE BodyRaises \/ Leave \/ ExitRaises
    BY <2>3, BodyLeft
  <2>4. CASE Signal \/ BikeChanges \/ Notification
    BY <2>4, Environment
  <2>5. CASE UNCHANGED vars
    <3>1. EsphomeInv' /\ UNCHANGED <<esphomeVars, flowVars, pc, bodyVars>>
      BY <2>5 DEF vars, esphomeVars, linkVars, flowVars, ToolInv, EsphomeInv, LinkInv,
         LinkTypeOK, Alternating, NoScannerLost, FlowTypeOK
    <3>. QED  BY <3>1 DEF flowVars, bodyVars, notifyVars, probeVars, ToolInv, BodyTypeOK, Placed,
                 Prompt, StopIsPrompt, Filed, NoLateNotification, Latest
  <2>. QED  BY <2>1, <2>2, <2>3, <2>4, <2>5 DEF Next, Body, BodyMoves, Terminated
<1>. QED  BY <1>1, <1>2, PTL DEF Spec

\* Every variable keeps its type: the attempts stay within their bound, and no more is
\* written than there is to write.
THEOREM ToolsTyped == Spec => []TypeOK
<1>1. ToolInv => TypeOK
  <2>1. NoScannerLost => setUps \in Nat /\ registered \in Nat
    BY DEF NoScannerLost
  <2>. QED  BY <2>1 DEF ToolInv, EsphomeInv, LinkInv, LinkTypeOK, Alternating, FlowTypeOK,
               BodyTypeOK, TypeOK, EsphomeTypeOK
<1>. QED  BY <1>1, ToolInvariant, PTL

\* A scanner that on_connect set up or registered can always be undone, however often the
\* proxy drops and wherever on_connect fails.
THEOREM ScannersAreKept == Spec => []NoScannerLost
<1>1. ToolInv => NoScannerLost
  BY DEF ToolInv, EsphomeInv, LinkInv, Alternating
<1>. QED  BY <1>1, ToolInvariant, PTL

\* No tool reads more than one round of characteristics after SIGINT, however many there are.
THEOREM StopsArePrompt == Spec => []StopIsPrompt
<1>1. ToolInv => StopIsPrompt
  BY DEF ToolInv, Prompt
<1>. QED  BY <1>1, ToolInvariant, PTL

\* A body that ends by itself closes its file when nothing can write to it any more, but
\* for the notifications that the bike refused to stop.
THEOREM NotificationsAreStopped == Spec => []NoLateNotification
<1>1. ToolInv => NoLateNotification
  BY DEF ToolInv, Filed
<1>. QED  BY <1>1, ToolInvariant, PTL

\* A step that ends a snapshot reports each value that is not the one last read.
THEOREM ChangesAreReported == Spec => NoChangeMissed
<1>1. ToolInv /\ [Next]_vars =>
        [In("read") /\ tool = "probe" /\ phase' = "write" => Changed \subseteq Reported]_vars
  BY DEF ToolInv, Latest, Changed, Reported, Good
<1>. QED  BY <1>1, ToolInvariant, PTL DEF Spec, NoChangeMissed
=============================================================================
