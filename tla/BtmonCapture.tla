---------------------------- MODULE BtmonCapture ----------------------------
(***************************************************************************)
(* btmon_text_capture of src/bosch_ble/bluez.py: an async context manager  *)
(* around a chain of processes, `timeout' > `script' > `sudo btmon', whose *)
(* output a pump task copies from a pipe to the trace file.  TraceConnect  *)
(* and PairDiagnostic run their experiments in its body.                   *)
(*                                                                         *)
(* The processes, the pump and the main coroutine interleave; one SIGINT   *)
(* may cancel the main coroutine at any of its awaits (asyncio.run).       *)
(***************************************************************************)
EXTENDS Naturals, Sequences, SequencesExt

CONSTANT MaxLines   \* bound: how many lines a capture writes

ASSUME LinesAssumption == MaxLines \in Nat

VARIABLES
  proc,         \* the subprocess, `timeout': "none", "running", "exited", "reaped" (returncode set)
  script,       \* `script' and what it runs are alive: the pipe is held open
  written,      \* the lines written to the pipe
  filed,        \* how many of them the pump has put in the trace file
  pump,         \* the pump task
  ready,        \* the Event that the banner sets
  signalled,    \* the strongest signal sent to `timeout'
  cap,          \* where the context manager stands
  lost,         \* the capture had ended when the body did
  error,        \* the exception in flight
  interrupted   \* the SIGINT was delivered

captureVars == <<proc, script, written, filed, pump, ready, signalled, cap, lost, error,
                 interrupted>>

\* What a line of the trace may say: btmon's banner, sudo's refusal, the connection
\* parameters of an LE Create Connection (those of the phone, or others), ATT traffic.
Lines == {"banner", "refusal", "phone_parameters", "other_parameters", "att"}

Text == SubSeq(written, 1, filed)

CaptureInit ==
  /\ proc = "none" /\ script = FALSE /\ written = <<>> /\ filed = 0
  /\ pump = "none" /\ ready = FALSE /\ signalled = "none"
  /\ cap = "idle" /\ lost = FALSE /\ error = "none" /\ interrupted = FALSE

CaptureTypeOK ==
  /\ proc \in {"none", "running", "exited", "reaped"} /\ script \in BOOLEAN
  /\ written \in Seq(Lines) /\ Len(written) <= MaxLines /\ filed \in 0..Len(written)
  /\ pump \in {"none", "reading", "ended", "failed", "cancelled"} /\ ready \in BOOLEAN
  /\ signalled \in {"none", "term", "kill"}
  /\ cap \in {"idle", "spawning", "ready_wait", "body", "terminating", "killing",
              "draining", "left"}
  /\ lost \in BOOLEAN /\ interrupted \in BOOLEAN
  /\ error \in {"none", "cancelled", "spawn", "capture", "pump", "bike_state", "setup", "other"}
----------------------------------------------------------------------------
(***************************************************************************)
(* The processes.                                                          *)
(***************************************************************************)
mainFrame == <<cap, lost, error, interrupted, signalled>>

\* The banner comes before what btmon traces; sudo may refuse instead.
ScriptWrites(line) ==
  /\ script /\ Len(written) < MaxLines
  /\ IF written = <<>> THEN line \in {"banner", "refusal"}
     ELSE written[1] = "banner" /\ line \in Lines \ {"banner", "refusal"}
  /\ written' = Append(written, line)
  /\ UNCHANGED <<proc, script, filed, pump, ready, mainFrame>>

\* sudo refused, btmon failed, the 180 seconds are over, or `timeout' passed on the
\* signal it got.
ScriptEnds ==
  /\ script /\ script' = FALSE
  /\ UNCHANGED <<proc, written, filed, pump, ready, mainFrame>>

\* `timeout' outlives `script', unless it is killed: SIGKILL is not passed on.
TimeoutExits ==
  /\ proc = "running" /\ (~script \/ signalled = "kill")
  /\ proc' = "exited"
  /\ UNCHANGED <<script, written, filed, pump, ready, mainFrame>>

Reap ==
  /\ proc = "exited" /\ proc' = "reaped"
  /\ UNCHANGED <<script, written, filed, pump, ready, mainFrame>>

(***************************************************************************)
(* The pump task.                                                          *)
(***************************************************************************)
\* Mutant: whatever the capture says first makes it ready.
PumpFilesAnyLine ==
  /\ pump = "reading" /\ filed < Len(written)
  /\ filed' = filed + 1
  /\ ready' = TRUE
  /\ UNCHANGED <<proc, script, written, pump, mainFrame>>

\* Mutant: an empty read is filed like a line.
PumpFilesEmptyReads ==
  /\ pump = "reading"
  /\ filed' = filed + 1
  /\ ready' = (ready \/ (filed < Len(written) /\ written[filed + 1] = "banner"))
  /\ UNCHANGED <<proc, script, written, pump, mainFrame>>

PumpFiles ==
  /\ pump = "reading" /\ filed < Len(written)
  /\ filed' = filed + 1
  /\ ready' = (ready \/ written[filed'] = "banner")
  /\ UNCHANGED <<proc, script, written, pump, mainFrame>>

\* End of file: every process that holds the pipe has ended.
PumpEnds ==
  /\ pump = "reading" /\ filed = Len(written) /\ ~script /\ proc # "running"
  /\ pump' = "ended"
  /\ UNCHANGED <<proc, script, written, filed, ready, mainFrame>>

\* The trace file cannot be opened or written.
PumpFails ==
  /\ pump = "reading" /\ pump' = "failed"
  /\ UNCHANGED <<proc, script, written, filed, ready, mainFrame>>
----------------------------------------------------------------------------
(***************************************************************************)
(* The context manager, in the main coroutine.                             *)
(***************************************************************************)
processFrame == <<script, written, filed, ready>>

Spawn ==
  /\ cap = "spawning" /\ cap' = "ready_wait"
  /\ proc' = "running" /\ script' = TRUE /\ pump' = "reading"
  /\ UNCHANGED <<written, filed, ready, signalled, lost, error, interrupted>>

SpawnFails ==
  /\ cap = "spawning" /\ cap' = "left" /\ error' = "spawn"
  /\ UNCHANGED <<processFrame, proc, pump, signalled, lost, interrupted>>

\* Mutant: only an experiment that failed stops the capture.
CleanupOnError(e) ==
  /\ error' = e
  /\ IF proc = "reaped" \/ e = "none" THEN cap' = "draining" /\ UNCHANGED signalled
     ELSE cap' = "terminating" /\ signalled' = "term"

\* The `finally' up to its first await.
Cleanup(e) ==
  /\ error' = e
  /\ IF proc = "reaped" THEN cap' = "draining" /\ UNCHANGED signalled
     ELSE cap' = "terminating" /\ signalled' = "term"

ReadySeen ==
  /\ cap = "ready_wait" /\ ready /\ cap' = "body"
  /\ UNCHANGED <<processFrame, proc, pump, signalled, lost, error, interrupted>>

ReadyTimesOut ==
  /\ cap = "ready_wait" /\ Cleanup("capture")
  /\ UNCHANGED <<processFrame, proc, pump, lost, interrupted>>

\* Mutant: nobody asks whether the capture outlived the body.
BodyEndsUnchecked(e) ==
  /\ cap = "body" /\ lost' = (proc = "reaped")
  /\ Cleanup(e)
  /\ UNCHANGED <<processFrame, proc, pump>>

\* The body returns (e = "none") or raises e.
BodyEnds(e) ==
  /\ cap = "body" /\ lost' = (proc = "reaped")
  /\ Cleanup(IF e = "none" /\ proc = "reaped" THEN "capture" ELSE e)
  /\ UNCHANGED <<processFrame, proc, pump>>

\* Mutant: the trace is taken as it is, without awaiting the pump.
WaitReturnsUndrained ==
  /\ cap \in {"terminating", "killing"} /\ proc = "reaped" /\ cap' = "left"
  /\ UNCHANGED <<processFrame, proc, pump, signalled, lost, error, interrupted>>

\* process.wait() returns, in the time allowed to `terminate' or after `kill'.
WaitReturns ==
  /\ cap \in {"terminating", "killing"} /\ proc = "reaped" /\ cap' = "draining"
  /\ UNCHANGED <<processFrame, proc, pump, signalled, lost, error, interrupted>>

TermTimesOut ==
  /\ cap = "terminating" /\ proc # "reaped"
  /\ cap' = "killing" /\ signalled' = "kill"
  /\ UNCHANGED <<processFrame, proc, pump, lost, error, interrupted>>

\* Mutant: the pump announces its end of file, and nothing else is awaited.
DrainedAtEndOfFile ==
  /\ cap = "draining" /\ pump = "ended" /\ cap' = "left"
  /\ UNCHANGED <<processFrame, proc, pump, signalled, lost, error, interrupted>>

\* The pump's own exception replaces the one in flight.
Drained ==
  /\ cap = "draining" /\ pump \in {"ended", "failed"} /\ cap' = "left"
  /\ error' = IF pump = "failed" THEN "pump" ELSE error
  /\ UNCHANGED <<processFrame, proc, pump, signalled, lost, interrupted>>

\* SIGINT at an await of the context manager.  One that interrupts the clean-up ends it
\* there, and asyncio.run cancels the pump; a subprocess being spawned is killed.
Interrupt ==
  /\ ~interrupted /\ interrupted' = TRUE
  /\ \/ /\ cap = "spawning" /\ cap' = "left" /\ error' = "cancelled"
        /\ UNCHANGED <<pump, signalled>>
     \/ cap = "ready_wait" /\ Cleanup("cancelled") /\ UNCHANGED pump
     \/ /\ cap \in {"terminating", "killing", "draining"}
        /\ cap' = "left" /\ error' = "cancelled"
        /\ pump' = (IF pump = "reading" THEN "cancelled" ELSE pump)
        /\ UNCHANGED signalled
  /\ UNCHANGED <<processFrame, proc, lost>>

ProcessStep ==
  \/ \E line \in Lines : ScriptWrites(line)
  \/ ScriptEnds \/ TimeoutExits \/ Reap

PumpStep == PumpFiles \/ PumpEnds \/ PumpFails

ManagerStep ==
  \/ Spawn \/ SpawnFails \/ ReadySeen \/ ReadyTimesOut
  \/ WaitReturns \/ TermTimesOut \/ Drained

\* What TimeoutExits leaves behind when `timeout' was killed: no one bounds it.
Orphaned == script /\ proc # "running"

\* `script' ends within the 180 seconds that a living `timeout' allows it, as long as
\* somebody reads what it writes.
BoundedScriptEnds == ScriptEnds /\ proc = "running" /\ pump = "reading"
----------------------------------------------------------------------------
\* An experiment runs only under a capture that has started to trace
\* (docs/current-design.md, line 219: capture startup must succeed before scanning).
CaptureBeforeScan == cap = "body" => Contains(Text, "banner")

\* However the context manager is left, its capture has ended or was told to end.
CaptureStopped ==
  cap = "left" /\ proc # "none" => proc = "reaped" \/ signalled # "none"
=============================================================================
