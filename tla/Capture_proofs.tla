--------------------------- MODULE Capture_proofs ---------------------------
(***************************************************************************)
(* What a reported experiment or a summary may rest on: the capture has    *)
(* traced before the body begins, has ended when the body's result is      *)
(* used, and its trace is whole.  CaptureInv is what every step of the     *)
(* context manager, the pump and the processes keeps; TraceConnect and     *)
(* PairDiagnostic each add what they know of their own.                    *)
(***************************************************************************)
EXTENDS TraceConnect, PairDiagnostic, TLAPS

\* A capture that has not begun has no process, and none of an earlier one is left.
Fresh ==
  cap \in {"idle", "spawning"} => proc = "none" /\ ~script /\ pump = "none"

\* The clean-up has sent a signal, or seen the process end, wherever it stands.
Stopping ==
  /\ cap \in {"terminating", "killing"} => signalled # "none"
  /\ cap = "draining" => proc = "reaped"
  /\ CaptureStopped

\* The Event is set only by a banner that is in the trace, and the body waits for it.
Announced ==
  /\ ready => Contains(Text, "banner")
  /\ cap = "body" => ready

\* After the end of file there is nothing left to file, nor anybody to write more.
AtEndOfFile == pump = "ended" => ~script /\ filed = Len(written)

\* A context manager that is left, or about to be, without an error has run a body under
\* a capture that outlived it, and has drained the pipe.
Witnessed ==
  cap \in {"terminating", "killing", "draining", "left"} /\ error = "none" =>
    /\ ~lost /\ ready
    /\ cap = "left" => pump = "ended"

CaptureInv == CaptureTypeOK /\ Fresh /\ Stopping /\ Announced /\ AtEndOfFile /\ Witnessed

\* What may leave a body, or end a capture.
Errors == {"none", "cancelled", "spawn", "capture", "pump", "bike_state", "setup", "other"}

CaptureStep == ProcessStep \/ PumpStep \/ ManagerStep \/ Interrupt
-----------------------------------------------------------------------------
\* A line that btmon adds leaves the part that was filed as it is.
LEMMA FiledIsKept ==
  ASSUME CaptureTypeOK, NEW line \in Lines
  PROVE  /\ Append(written, line) \in Seq(Lines)
         /\ Len(Append(written, line)) = Len(written) + 1
         /\ \A i \in 1..filed : Append(written, line)[i] = written[i]
BY DEF CaptureTypeOK

\* What the first lines of a trace contain.
LEMMA FirstLines ==
  ASSUME NEW s \in Seq(Lines), NEW n \in 0..Len(s)
  PROVE  /\ n = Len(s) => SubSeq(s, 1, n) = s
         /\ \A line : Contains(SubSeq(s, 1, n), line) <=> \E i \in 1..n : s[i] = line
<1>1. Len(SubSeq(s, 1, n)) = n /\ \A i \in 1..n : SubSeq(s, 1, n)[i] = s[i]
  OBVIOUS
<1>2. n = Len(s) => SubSeq(s, 1, n) = s
  OBVIOUS
<1>. QED  BY <1>1, <1>2 DEF Contains

\* The banner stays in a trace that only grows.
LEMMA AnnouncedGrows ==
  ASSUME CaptureTypeOK, CaptureTypeOK', Announced, ready' = ready,
         filed <= filed', \A i \in 1..filed : written'[i] = written[i],
         cap' = "body" => cap = "body" \/ ready
  PROVE  Announced'
<1>1. ASSUME ready PROVE Contains(Text', "banner")
  <2>1. PICK i \in 1..filed : written[i] = "banner"
    BY <1>1, FirstLines DEF Announced, CaptureTypeOK, Text
  <2>2. i \in 1..filed' /\ written'[i] = "banner"
    BY <2>1 DEF CaptureTypeOK
  <2>. QED  BY <2>2, FirstLines DEF CaptureTypeOK, Text
<1>. QED  BY <1>1 DEF Announced, Contains
-----------------------------------------------------------------------------
\* The processes and the pump.
LEMMA ProcessKeeps ==
  ASSUME CaptureInv, ProcessStep \/ PumpStep
  PROVE  CaptureInv'
<1>. USE DEF CaptureInv
<1>1. ASSUME NEW line \in Lines, ScriptWrites(line) PROVE CaptureInv'
  <2>1. CaptureTypeOK'
    BY <1>1, FiledIsKept, LinesAssumption DEF ScriptWrites, CaptureTypeOK, mainFrame
  <2>2. \A i \in 1..filed : written'[i] = written[i]
    BY <1>1, FiledIsKept DEF ScriptWrites
  <2>3. Announced'
    BY <1>1, <2>1, <2>2, AnnouncedGrows DEF ScriptWrites, mainFrame, CaptureTypeOK
  <2>. QED  BY <1>1, <2>1, <2>3 DEF ScriptWrites, mainFrame, Fresh, Stopping, CaptureStopped,
               AtEndOfFile, Witnessed
<1>2. CASE ScriptEnds \/ TimeoutExits \/ Reap \/ PumpEnds \/ PumpFails
  <2>1. CaptureTypeOK'
    BY <1>2, ZenonT(60) DEF ScriptEnds, TimeoutExits, Reap, PumpEnds, PumpFails, CaptureTypeOK, mainFrame
  <2>2. Announced'
    BY <1>2, <2>1, AnnouncedGrows DEF ScriptEnds, TimeoutExits, Reap, PumpEnds, PumpFails,
       mainFrame, CaptureTypeOK
  <2>3. Fresh' /\ Stopping' /\ AtEndOfFile' /\ Witnessed'
    BY <1>2 DEF ScriptEnds, TimeoutExits, Reap, PumpEnds, PumpFails, mainFrame, Fresh,
       Stopping, CaptureStopped, AtEndOfFile, Witnessed
  <2>. QED  BY <2>1, <2>2, <2>3
<1>3. CASE PumpFiles
  <2>1. CaptureTypeOK' /\ filed' = filed + 1 /\ UNCHANGED <<written, cap>>
    BY <1>3 DEF PumpFiles, CaptureTypeOK, mainFrame
  <2>2. Announced'
    <3>1. CASE written[filed + 1] = "banner"
      <4>1. filed' \in 1..filed' /\ written'[filed'] = "banner"
        BY <2>1, <3>1 DEF CaptureTypeOK
      <4>2. Contains(Text', "banner")
        BY <2>1, <4>1, FirstLines DEF CaptureTypeOK, Text
      <4>. QED  BY <1>3, <2>1, <3>1, <4>2 DEF PumpFiles, Announced, Contains
    <3>2. CASE written[filed + 1] # "banner"
      BY <1>3, <2>1, <3>2, AnnouncedGrows DEF PumpFiles, CaptureTypeOK, Announced
    <3>. QED  BY <3>1, <3>2
  <2>. QED  BY <1>3, <2>1, <2>2 DEF PumpFiles, mainFrame, Fresh, Stopping,
               CaptureStopped, AtEndOfFile, Witnessed
<1>. QED  BY <1>1, <1>2, <1>3 DEF ProcessStep, PumpStep

\* The clean-up begins, whatever error it carries; an error is carried by every clean-up
\* that does not follow a body.
LEMMA CleanupKeeps ==
  ASSUME CaptureInv, NEW e \in Errors, cap \in {"ready_wait", "body"}, Cleanup(e),
         UNCHANGED <<processFrame, proc, pump>>, interrupted' \in BOOLEAN, lost' \in BOOLEAN,
         e = "none" => ~lost' /\ ready
  PROVE  CaptureInv'
<1>. USE DEF CaptureInv, Cleanup, processFrame, Errors
<1>1. CaptureTypeOK'
  BY DEF CaptureTypeOK
<1>2. Announced'
  BY <1>1, AnnouncedGrows DEF CaptureTypeOK
<1>. QED  BY <1>1, <1>2 DEF Fresh, Stopping, CaptureStopped, AtEndOfFile, Witnessed

\* The body ends.  One that returns has run under a capture that is alive.
LEMMA BodyEndsKeeps ==
  ASSUME CaptureInv, NEW e \in Errors, BodyEnds(e), interrupted' \in BOOLEAN
  PROVE  /\ CaptureInv' /\ cap = "body" /\ cap' \in {"draining", "terminating"}
         /\ error' = "none" => e = "none"
<1>. DEFINE r == IF e = "none" /\ proc = "reaped" THEN "capture" ELSE e
<1>1. r \in Errors /\ Cleanup(r) /\ cap = "body" /\ lost' = (proc = "reaped")
  BY DEF BodyEnds, Errors
<1>2. r = "none" => ~lost' /\ ready /\ e = "none"
  BY <1>1 DEF CaptureInv, Announced
<1>. HIDE DEF r
<1>3. CaptureInv'
  BY <1>1, <1>2, CleanupKeeps DEF BodyEnds
<1>. QED  BY <1>1, <1>2, <1>3 DEF Cleanup

\* The context manager, and a SIGINT at its awaits.
LEMMA ManagerKeeps ==
  ASSUME CaptureInv, ManagerStep \/ Interrupt
  PROVE  CaptureInv'
<1>. USE DEF CaptureInv, processFrame
<1>1. CASE Spawn \/ SpawnFails
  <2>1. CaptureTypeOK'
    BY <1>1 DEF Spawn, SpawnFails, CaptureTypeOK
  <2>2. Announced'
    BY <1>1, <2>1, AnnouncedGrows DEF Spawn, SpawnFails, CaptureTypeOK
  <2>. QED  BY <1>1, <2>1, <2>2 DEF Spawn, SpawnFails, Fresh, Stopping, CaptureStopped,
               AtEndOfFile, Witnessed
<1>2. CASE ReadySeen \/ WaitReturns \/ TermTimesOut \/ Drained
  <2>1. CaptureTypeOK'
    BY <1>2 DEF ReadySeen, WaitReturns, TermTimesOut, Drained, CaptureTypeOK
  <2>2. Announced'
    BY <1>2, <2>1, AnnouncedGrows DEF ReadySeen, WaitReturns, TermTimesOut, Drained, CaptureTypeOK
  <2>. QED  BY <1>2, <2>1, <2>2 DEF ReadySeen, WaitReturns, TermTimesOut, Drained, Fresh,
               Stopping, CaptureStopped, AtEndOfFile, Witnessed
<1>3. CASE ReadyTimesOut
  BY <1>3, CleanupKeeps DEF ReadyTimesOut, Errors, CaptureTypeOK
<1>4. CASE Interrupt
  <2>1. CASE cap = "ready_wait"
    BY <1>4, <2>1, CleanupKeeps DEF Interrupt, Errors, CaptureTypeOK
  <2>2. CASE cap # "ready_wait"
    <3>1. CaptureTypeOK'
      BY <1>4, <2>2 DEF Interrupt, CaptureTypeOK
    <3>2. Announced'
      BY <1>4, <2>2, <3>1, AnnouncedGrows DEF Interrupt, CaptureTypeOK
    <3>. QED  BY <1>4, <2>2, <3>1, <3>2 DEF Interrupt, Fresh, Stopping, CaptureStopped,
                 AtEndOfFile, Witnessed
  <2>. QED  BY <2>1, <2>2
<1>. QED  BY <1>1, <1>2, <1>3, <1>4 DEF ManagerStep

\* Where the steps of the capture may take the context manager.
LEMMA CaptureMoves ==
  ASSUME CaptureInv, CaptureStep
  PROVE  /\ cap' = "body" => cap \in {"ready_wait", "body"}
         /\ cap' = "ready_wait" => cap \in {"spawning", "ready_wait"}
         /\ (cap' = "spawning") => (cap = "spawning")
         /\ (cap' = "idle") <=> (cap = "idle")
         /\ cap = "left" => UNCHANGED <<cap, error, lost>>
BY DEF CaptureStep, ProcessStep, PumpStep, ManagerStep, ScriptWrites, ScriptEnds, TimeoutExits,
   Reap, PumpFiles, PumpEnds, PumpFails, Spawn, SpawnFails, ReadySeen, ReadyTimesOut,
   WaitReturns, TermTimesOut, Drained, Interrupt, Cleanup, mainFrame, processFrame

\* A trace that was drained does not change any more.
LEMMA TraceIsClosed ==
  ASSUME CaptureInv, CaptureStep, pump = "ended"
  PROVE  UNCHANGED <<written, filed, pump>>
BY DEF CaptureInv, AtEndOfFile, Fresh, CaptureStep, ProcessStep, PumpStep, ManagerStep,
   ScriptWrites, ScriptEnds, TimeoutExits, Reap, PumpFiles, PumpEnds, PumpFails, Spawn,
   SpawnFails, ReadySeen, ReadyTimesOut, WaitReturns, TermTimesOut, Drained, Interrupt, Cleanup,
   mainFrame, processFrame

\* The types of a trace and of how much of it is filed, which an empty trace has.
TraceTypes(lines, n) == lines \in Seq(Lines) /\ Len(lines) <= MaxLines /\ n \in 0..Len(lines)

LEMMA EmptyTrace == TraceTypes(<<>>, 0)
BY LinesAssumption DEF TraceTypes

\* A capture starts out with nothing.
LEMMA CaptureStarts == CaptureInit => CaptureInv
<1>. SUFFICES ASSUME CaptureInit PROVE CaptureInv
  OBVIOUS
<1>1. TraceTypes(written, filed)
  BY EmptyTrace DEF CaptureInit
<1>2. CaptureTypeOK
  BY <1>1 DEF CaptureInit, CaptureTypeOK, TraceTypes
<1>3. Fresh /\ Stopping /\ Witnessed
  BY DEF CaptureInit, Fresh, Stopping, CaptureStopped, Witnessed
<1>4. AtEndOfFile
  BY DEF CaptureInit, AtEndOfFile
<1>5. Announced
  BY DEF CaptureInit, Announced
<1>. QED  BY <1>2, <1>3, <1>4, <1>5 DEF CaptureInv
-----------------------------------------------------------------------------
(***************************************************************************)
(* The connection experiment of TraceConnect.                              *)
(***************************************************************************)
\* The experiment is in its body as long as the capture is, and the preflight found the
\* bike ready whenever it goes on.
Experiment ==
  /\ pc = "controller" => cap = "idle"
  /\ cap \in {"spawning", "ready_wait"} => pc = "preflight"
  /\ pc \in {"connect", "state_wait", "settle", "recheck"} => preflight = "ready"
  /\ outcome = "baseline_reached" => preflight = "ready" /\ pc \in {"leaving", "done"}
  /\ pc = "done" => cap = "left"

TraceInv == CaptureInv /\ TypeOK /\ Experiment /\ BaselineEvidence

\* The steps of the capture, around the experiment.
LEMMA ExperimentUnderCapture ==
  ASSUME TraceInv, Capture(CaptureStep)
  PROVE  TraceInv'
<1>1. CaptureInv'
  BY ProcessKeeps, ManagerKeeps DEF TraceInv, Capture, CaptureStep
<1>2. TypeOK'
  BY <1>1, CaptureMoves DEF TraceInv, Capture, CaptureInv, experimentVars, TypeOK, Experiment, Body
<1>3. Experiment'
  BY <1>1, CaptureMoves DEF TraceInv, Capture, experimentVars, Experiment
<1>4. BaselineEvidence'
  <2>1. SUFFICES ASSUME pc = "done", outcome = "baseline_reached", error' = "none"
        PROVE  BaselineEvidence'
    BY DEF Capture, experimentVars, BaselineEvidence
  <2>2. cap = "left" /\ error = "none" /\ UNCHANGED lost
    BY <2>1, CaptureMoves DEF TraceInv, Experiment, Capture
  <2>3. UNCHANGED <<written, filed>>
    BY <2>2, TraceIsClosed DEF TraceInv, CaptureInv, Witnessed, Capture
  <2>. QED  BY <2>1, <2>2, <2>3 DEF TraceInv, BaselineEvidence, Capture, experimentVars, Text
<1>. QED  BY <1>1, <1>2, <1>3, <1>4 DEF TraceInv

\* The body ends, with a result or with an error.
LEMMA ExperimentLeaves ==
  ASSUME TraceInv, NEW e \in Errors, BodyEnds(e), pc' = "leaving", interrupted' \in BOOLEAN,
         link' \in {"down", "up", "resolved"},
         preflight' \in {"none", "ready", "invisible", "not_pairing"},
         outcome' \in Outcomes \cup {"none"},
         outcome' = "baseline_reached" => preflight' = "ready"
  PROVE  TraceInv'
<1>1. CaptureInv' /\ cap' \in {"draining", "terminating"}
  BY BodyEndsKeeps DEF TraceInv
<1>. QED  BY <1>1 DEF TraceInv, CaptureInv, TypeOK, Experiment, BaselineEvidence, Body

\* What the trace says of a connection that was held.
LEMMA GradedBaseline ==
  \A text : /\ Graded(text) \in Outcomes
            /\ Graded(text) = "baseline_reached" =>
                 /\ Contains(text, "phone_parameters") /\ Contains(text, "att")
                 /\ ~Contains(text, "other_parameters")
BY DEF Graded, Outcomes

\* The outcome is reported when the context manager is left: an error-free one has
\* drained a trace that nobody writes any more.
LEMMA ReportKeeps ==
  ASSUME TraceInv, Report
  PROVE  TraceInv'
<1>1. CaptureInv'
  BY DEF TraceInv, Report, captureVars, CaptureInv, CaptureTypeOK, Fresh, Stopping,
     CaptureStopped, Announced, AtEndOfFile, Witnessed, Text, Contains
<1>2. TypeOK'
  BY <1>1, GradedBaseline DEF Report, captureVars, TraceInv, CaptureInv, TypeOK, OutcomeOf,
     Outcomes, Body
<1>3. ASSUME outcome' = "baseline_reached" PROVE
        outcome = "baseline_reached" /\ Graded(Text) = "baseline_reached"
  BY <1>3 DEF Report, OutcomeOf
<1>4. Experiment'
  BY <1>3 DEF TraceInv, Experiment, Report, captureVars
<1>5. BaselineEvidence'
  <2>1. SUFFICES ASSUME outcome' = "baseline_reached", error = "none"
        PROVE  BaselineEvidence'
    BY DEF Report, captureVars, BaselineEvidence
  <2>2. ~lost /\ filed = Len(written) /\ preflight = "ready"
    BY <1>3, <2>1 DEF TraceInv, Experiment, CaptureInv, Witnessed, AtEndOfFile, Report
  <2>3. Text = written
    BY <2>2, FirstLines DEF TraceInv, CaptureInv, CaptureTypeOK, Text
  <2>4. UNCHANGED <<Text, written, lost, preflight>>
    BY DEF Report, captureVars, Text
  <2>. QED  BY <1>3, <2>1, <2>2, <2>3, <2>4, GradedBaseline DEF BaselineEvidence
<1>. QED  BY <1>1, <1>2, <1>4, <1>5 DEF TraceInv

LEMMA ExperimentKeeps ==
  ASSUME TraceInv, [Next]_vars
  PROVE  TraceInv'
<1>. USE DEF TraceInv
<1>1. CASE ControllerFree \/ ControllerBusy
  <2>1. CaptureInv'
    <3>1. CaptureTypeOK'
      BY <1>1 DEF ControllerFree, ControllerBusy, processFrame, CaptureInv, CaptureTypeOK
    <3>2. Announced'
      BY <1>1, <3>1, AnnouncedGrows DEF ControllerFree, ControllerBusy, processFrame,
         CaptureInv, CaptureTypeOK
    <3>. QED  BY <1>1, <3>1, <3>2 DEF ControllerFree, ControllerBusy, processFrame, CaptureInv,
                 Experiment, Fresh, Stopping, CaptureStopped, AtEndOfFile, Witnessed
  <2>. QED  BY <1>1, <2>1 DEF ControllerFree, ControllerBusy, CaptureInv, TypeOK, Experiment,
               BaselineEvidence, Body
<1>2. CASE ConnectDevice \/ StateReached \/ Settled \/ Services \/ LinkDrops
  <2>1. CaptureInv' /\ UNCHANGED captureVars
    BY <1>2 DEF ConnectDevice, StateReached, Settled, Services, LinkDrops, captureVars,
       CaptureInv, CaptureTypeOK, Fresh, Stopping, CaptureStopped, Announced, AtEndOfFile,
       Witnessed, Text, Contains
  <2>2. TypeOK' /\ Experiment'
    BY <1>2, <2>1 DEF ConnectDevice, StateReached, Settled, Services, LinkDrops, captureVars,
       CaptureInv, TypeOK, Experiment, Body
  <2>3. BaselineEvidence'
    BY <1>2, <2>1 DEF ConnectDevice, StateReached, Settled, Services, LinkDrops, captureVars,
       BaselineEvidence, Text, Contains
  <2>. QED  BY <2>1, <2>2, <2>3
<1>3. CASE Preflight
  <2>1. CASE preflight' = "ready"
    <3>1. CaptureInv' /\ UNCHANGED captureVars
      BY <1>3, <2>1 DEF Preflight, captureVars, CaptureInv, CaptureTypeOK, Fresh, Stopping,
         CaptureStopped, Announced, AtEndOfFile, Witnessed, Text, Contains
    <3>. QED  BY <1>3, <2>1, <3>1 DEF Preflight, captureVars, CaptureInv, TypeOK, Experiment,
                 BaselineEvidence, Body
  <2>2. CASE preflight' # "ready"
    <3>1. outcome' # "baseline_reached"
      BY <1>3 DEF Preflight, Experiment
    <3>. QED  BY <1>3, <2>2, <3>1, ExperimentLeaves DEF Preflight, Leave, TypeOK, Errors,
                 CaptureTypeOK
  <2>. QED  BY <2>1, <2>2
<1>4. ASSUME NEW e \in {"bike_state", "setup", "other"}, Raises(e) PROVE TraceInv'
  BY <1>4, ExperimentLeaves DEF Raises, Leave, TypeOK, Errors, CaptureTypeOK, Experiment
<1>5. CASE Recheck
  BY <1>5, ExperimentLeaves DEF Recheck, Leave, TypeOK, Errors, CaptureTypeOK, Experiment, Outcomes
<1>6. CASE InterruptBody
  BY <1>6, ExperimentLeaves DEF InterruptBody, TypeOK, Errors, CaptureTypeOK, Experiment
<1>7. CASE Report
  BY <1>7, ReportKeeps
<1>8. CASE Capture(CaptureStep)
  BY <1>8, ExperimentUnderCapture
<1>9. CASE UNCHANGED vars
  BY <1>9 DEF vars, captureVars, experimentVars, CaptureInv, CaptureTypeOK, Fresh, Stopping,
     CaptureStopped, Announced, AtEndOfFile, Witnessed, Text, Contains, TypeOK, Experiment,
     BaselineEvidence
<1>. QED  BY <1>1, <1>2, <1>3, <1>4, <1>5, <1>6, <1>7, <1>8, <1>9
     DEF Next, BodyStep, Capture, CaptureStep

\* The inductive invariant of an experiment under its capture.
THEOREM ExperimentInvariant == Spec => []TraceInv
<1>1. Init => TraceInv
  BY CaptureStarts DEF Init, CaptureInit, TraceInv, CaptureInv, TypeOK, Experiment,
     BaselineEvidence, Outcomes
<1>2. TraceInv /\ [Next]_vars => TraceInv'
  BY ExperimentKeeps
<1>. QED  BY <1>1, <1>2, PTL DEF Spec

\* Every variable of the capture and of the experiment has its type.
THEOREM TraceTyped == Spec => []TypeOK
<1>1. TraceInv => TypeOK
  BY DEF TraceInv
<1>. QED  BY <1>1, ExperimentInvariant, PTL

\* The experiment runs only under a capture whose banner is in the trace file: the Event
\* that starts it is set by nothing else.
THEOREM TracedFromTheStart == Spec => []CaptureBeforeScan
<1>1. TraceInv => CaptureBeforeScan
  BY DEF TraceInv, CaptureInv, Announced, CaptureBeforeScan
<1>. QED  BY <1>1, ExperimentInvariant, PTL

\* Whatever raises, times out or is interrupted, the capture's processes have ended, or
\* were told to, when the context manager is left.
THEOREM CaptureIsStopped == Spec => []CaptureStopped
<1>1. TraceInv => CaptureStopped
  BY DEF TraceInv, CaptureInv, Stopping
<1>. QED  BY <1>1, ExperimentInvariant, PTL

\* A reported baseline without an error rests on the whole trace of a capture that
\* outlived the experiment.
THEOREM BaselineIsEvidenced == Spec => []BaselineEvidence
<1>1. TraceInv => BaselineEvidence
  BY DEF TraceInv
<1>. QED  BY <1>1, ExperimentInvariant, PTL
-----------------------------------------------------------------------------
(***************************************************************************)
(* The pairing diagnostic of PairDiagnostic.                               *)
(***************************************************************************)
\* A list entry begins with no capture; what is summed up as a trace was left without an
\* error.
Listed ==
  /\ stage = "preflight" => cap = "idle" /\ summary = "none"
  /\ stage = "next" /\ cap # "idle" => summary = "trace"
  /\ summary = "trace" => cap = "left" /\ error = "none"
  /\ stage \in {"preflight", "assist", "settle", "leaving", "next", "done"}
  /\ cap \in {"spawning", "ready_wait"} => stage = "assist"
  /\ summary \in {"none", "refused", "trace"} /\ attempt \in 1..Attempts

DiagnosticInv == CaptureInv /\ Listed

\* The steps of the capture, around the list.
LEMMA ListUnderCapture ==
  ASSUME DiagnosticInv, CaptureOf(CaptureStep)
  PROVE  DiagnosticInv'
<1>1. CaptureInv'
  BY ProcessKeeps, ManagerKeeps DEF DiagnosticInv, CaptureOf, CaptureStep
<1>2. Listed'
  BY CaptureMoves DEF DiagnosticInv, CaptureOf, attemptVars, Listed
<1>. QED  BY <1>1, <1>2 DEF DiagnosticInv

\* An attempt ends with nothing left of its capture, if it ends the capture at all: the
\* next one starts with a trace and an Event of its own.
LEMMA NextAttemptKeeps ==
  ASSUME DiagnosticInv, NextAttempt
  PROVE  DiagnosticInv'
<1>. USE DEF DiagnosticInv, Listed
<1>1. CASE attempt = Attempts
  BY <1>1 DEF NextAttempt, captureVars, CaptureInv, CaptureTypeOK, Fresh, Stopping,
     CaptureStopped, Announced, AtEndOfFile, Witnessed, Text, Contains
<1>2. CASE attempt # Attempts
  <2>1. ~script
    BY <1>2 DEF NextAttempt, CaptureInv, Fresh, Witnessed, AtEndOfFile
  <2>2. TraceTypes(written', filed')
    BY <1>2, EmptyTrace DEF NextAttempt, CaptureAgain
  <2>3. CaptureTypeOK'
    BY <1>2, <2>2 DEF NextAttempt, CaptureAgain, CaptureInv, CaptureTypeOK, TraceTypes
  <2>4. Fresh' /\ Stopping' /\ Witnessed' /\ AtEndOfFile'
    BY <1>2, <2>1 DEF NextAttempt, CaptureAgain, Fresh, Stopping, CaptureStopped, Witnessed,
       AtEndOfFile
  <2>5. Announced'
    BY <1>2 DEF NextAttempt, CaptureAgain, Announced
  <2>. QED  BY <1>2, <2>3, <2>4, <2>5, AttemptsAssumption DEF NextAttempt, CaptureAgain,
               CaptureInv
<1>. QED  BY <1>1, <1>2

LEMMA DiagnosticKeeps ==
  ASSUME DiagnosticInv, [DiagnosticNext]_diagnosticVars
  PROVE  DiagnosticInv'
<1>. USE DEF DiagnosticInv, Listed
<1>1. CASE PreflightReady \/ PreflightRaises
  <2>1. interrupted' \in BOOLEAN
    BY <1>1 DEF PreflightReady, PreflightRaises, CaptureInv, CaptureTypeOK
  <2>2. CaptureTypeOK'
    BY <1>1, <2>1 DEF PreflightReady, PreflightRaises, processFrame, CaptureInv, CaptureTypeOK
  <2>3. Announced'
    BY <1>1, <2>2, AnnouncedGrows DEF PreflightReady, PreflightRaises, processFrame,
       CaptureInv, CaptureTypeOK
  <2>4. Fresh' /\ Stopping' /\ AtEndOfFile' /\ Witnessed'
    BY <1>1 DEF PreflightReady, PreflightRaises, processFrame, CaptureInv, Fresh, Stopping,
       CaptureStopped, AtEndOfFile, Witnessed
  <2>. QED  BY <1>1, <2>2, <2>3, <2>4 DEF PreflightReady, PreflightRaises, CaptureInv
<1>2. CASE PreflightRefuses \/ Assist \/ Summarise \/ UNCHANGED diagnosticVars
  BY <1>2 DEF PreflightRefuses, Assist, Summarise, diagnosticVars, attemptVars, captureVars,
     CaptureInv, CaptureTypeOK, Fresh, Stopping, CaptureStopped, Announced, AtEndOfFile,
     Witnessed, Text, Contains
<1>3. CASE AssistSettled
  BY <1>3, BodyEndsKeeps DEF AssistSettled, Errors, CaptureInv, CaptureTypeOK
<1>4. CASE InterruptAttempt
  BY <1>4, BodyEndsKeeps DEF InterruptAttempt, Errors
<1>5. CASE NextAttempt
  BY <1>5, NextAttemptKeeps
<1>6. CASE CaptureOf(CaptureStep)
  BY <1>6, ListUnderCapture
<1>. QED  BY <1>1, <1>2, <1>3, <1>4, <1>5, <1>6
     DEF DiagnosticNext, MainStep, CaptureOf, CaptureStep

\* The inductive invariant of the list of attempts.
THEOREM DiagnosticInvariant == DiagnosticSpec => []DiagnosticInv
<1>1. DiagnosticInit => DiagnosticInv
  BY CaptureStarts, AttemptsAssumption DEF DiagnosticInit, CaptureInit, DiagnosticInv, Listed
<1>2. DiagnosticInv /\ [DiagnosticNext]_diagnosticVars => DiagnosticInv'
  BY DiagnosticKeeps
<1>. QED  BY <1>1, <1>2, PTL DEF DiagnosticSpec

\* A summary that is read from a trace is read from the whole trace, from its banner on.
THEOREM SummariesAreWhole == DiagnosticSpec => []SummaryIsWhole
<1>1. DiagnosticInv => SummaryIsWhole
  <2>1. SUFFICES ASSUME DiagnosticInv, summary = "trace"
        PROVE  ~lost /\ Text = written /\ Contains(Text, "banner")
    BY DEF SummaryIsWhole
  <2>2. ~lost /\ ready /\ filed = Len(written)
    BY <2>1 DEF DiagnosticInv, Listed, CaptureInv, Witnessed, AtEndOfFile
  <2>. QED  BY <2>1, <2>2, FirstLines DEF DiagnosticInv, CaptureInv, Announced, CaptureTypeOK,
               Text
<1>. QED  BY <1>1, DiagnosticInvariant, PTL

\* Two monitors never run side by side: a capture that begins finds the pipe of the last
\* one closed.
THEOREM OneCaptureAtATime == DiagnosticSpec => []OneCapture
<1>1. DiagnosticInv => OneCapture
  BY DEF DiagnosticInv, CaptureInv, Fresh, OneCapture
<1>. QED  BY <1>1, DiagnosticInvariant, PTL
=============================================================================
