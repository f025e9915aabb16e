--------------------------- MODULE PairDiagnostic ---------------------------
(***************************************************************************)
(* diagnose_pair_cli of src/bosch_ble/bluez.py: run_pair_diagnostic_attempt*)
(* for each pairing backend with privacy off and on, each attempt under a  *)
(* btmon capture of its own.  assist_connection, which AssistPairing       *)
(* models, returns or raises.                                              *)
(***************************************************************************)
EXTENDS BtmonCapture

CONSTANT Attempts   \* the four (backend, privacy) pairs of the list

ASSUME AttemptsAssumption == Attempts \in Nat \ {0}

VARIABLES
  stage,     \* where the attempt stands
  attempt,   \* which one of the list
  summary    \* the PairAttemptSummary of the attempt: none, "refused" or from a "trace"

attemptVars == <<stage, attempt, summary>>
diagnosticVars == <<captureVars, attemptVars>>

DiagnosticInit == CaptureInit /\ stage = "preflight" /\ attempt = 1 /\ summary = "none"
----------------------------------------------------------------------------
\* The bike is visible, and paired or not known to be outside its pairing mode.
PreflightReady ==
  /\ stage = "preflight" /\ stage' = "assist" /\ cap' = "spawning"
  /\ UNCHANGED <<proc, processFrame, pump, signalled, lost, error, interrupted, attempt,
                 summary>>

\* The attempt is summed up without a capture.
PreflightRefuses ==
  /\ stage = "preflight" /\ stage' = "next" /\ summary' = "refused"
  /\ UNCHANGED <<captureVars, attempt>>

\* The scan raises, or is cancelled.
PreflightRaises ==
  /\ stage = "preflight" /\ stage' = "done" /\ error' \in {"other", "cancelled"}
  /\ error' = "cancelled" => ~interrupted
  /\ interrupted' = (interrupted \/ error' = "cancelled")
  /\ UNCHANGED <<proc, processFrame, pump, signalled, lost, cap, attempt, summary>>

\* assist_connection returns or raises: its error goes into the summary.
Assist ==
  /\ cap = "body" /\ stage = "assist" /\ stage' = "settle"
  /\ UNCHANGED <<captureVars, attempt, summary>>

AssistSettled ==
  /\ stage = "settle" /\ BodyEnds("none") /\ stage' = "leaving"
  /\ UNCHANGED <<interrupted, attempt, summary>>

\* `except Exception' around assist_connection lets a cancellation through.
InterruptAttempt ==
  /\ ~interrupted /\ interrupted' = TRUE
  /\ BodyEnds("cancelled") /\ stage' = "leaving"
  /\ UNCHANGED <<attempt, summary>>

\* The trace is summed up, unless the capture raised; that ends the whole list.
Summarise ==
  /\ stage \in {"assist", "leaving"} /\ cap = "left"
  /\ IF error = "none" THEN stage' = "next" /\ summary' = "trace"
     ELSE stage' = "done" /\ UNCHANGED summary
  /\ UNCHANGED <<captureVars, attempt>>

\* Another btmon_text_capture, with a trace file and an Event of its own.
CaptureAgain ==
  /\ proc' = "none" /\ written' = <<>> /\ filed' = 0 /\ pump' = "none"
  /\ ready' = FALSE /\ signalled' = "none" /\ cap' = "idle" /\ lost' = FALSE
  /\ UNCHANGED <<script, error, interrupted>>

\* The summary is printed, and the next attempt starts under an asyncio.run of its own.
NextAttempt ==
  /\ stage = "next"
  /\ IF attempt = Attempts
     THEN stage' = "done" /\ UNCHANGED <<captureVars, attempt, summary>>
     ELSE /\ stage' = "preflight" /\ attempt' = attempt + 1 /\ summary' = "none"
          /\ CaptureAgain

MainStep ==
  \/ PreflightReady \/ PreflightRefuses \/ PreflightRaises \/ Assist \/ AssistSettled
  \/ Summarise \/ NextAttempt

\* The steps of the capture leave the list alone.
CaptureOf(A) == A /\ UNCHANGED attemptVars

DiagnosticNext ==
  \/ MainStep \/ InterruptAttempt
  \/ CaptureOf(ProcessStep \/ PumpStep \/ ManagerStep \/ Interrupt)

DiagnosticFairness ==
  /\ WF_diagnosticVars(MainStep)
  /\ WF_diagnosticVars(CaptureOf(ManagerStep)) /\ WF_diagnosticVars(CaptureOf(PumpStep))
  /\ WF_diagnosticVars(CaptureOf(TimeoutExits)) /\ WF_diagnosticVars(CaptureOf(Reap))
  /\ WF_diagnosticVars(CaptureOf(BoundedScriptEnds))

DiagnosticSpec == DiagnosticInit /\ [][DiagnosticNext]_diagnosticVars /\ DiagnosticFairness
----------------------------------------------------------------------------
\* A summary of a trace covers all that a capture wrote, which had started before the
\* pairing and ran until it was over: a stage that it lacks was not reached.
SummaryIsWhole ==
  summary = "trace" => ~lost /\ Text = written /\ Contains(Text, "banner")

\* The capture of one attempt has ended before the next attempt begins, whatever it took
\* to stop it: two monitors never run side by side.
OneCapture == cap = "idle" => ~script
=============================================================================
