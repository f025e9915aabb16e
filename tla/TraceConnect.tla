---------------------------- MODULE TraceConnect ----------------------------
(***************************************************************************)
(* capture_connection of src/bosch_ble/trace_connect.py: one connection    *)
(* experiment under a btmon capture, and the outcome it reports.  What     *)
(* happens inside preflight_device and connect_device is the subject of    *)
(* BluezHost and ConnectClient; here they return or raise.                 *)
(***************************************************************************)
EXTENDS BtmonCapture

VARIABLES
  pc,        \* where the experiment stands
  link,      \* the BLE link: "down", "up", "resolved"
  preflight, \* what the preflight scan found
  outcome    \* the ConnectOutcome

experimentVars == <<pc, link, preflight, outcome>>
vars == <<captureVars, experimentVars>>

Init ==
  /\ CaptureInit
  /\ pc = "controller" /\ link = "down" /\ preflight = "none"
  /\ outcome = "connect_failed"

Body == {"preflight", "connect", "state_wait", "settle", "recheck"}
Outcomes == {"bike_unavailable", "setup_failed", "connect_failed", "parameters_unknown",
             "parameters_differ", "no_att", "baseline_reached"}

TypeOK ==
  /\ CaptureTypeOK
  /\ pc \in Body \cup {"controller", "leaving", "done"}
  /\ link \in {"down", "up", "resolved"}
  /\ preflight \in {"none", "ready", "invisible", "not_pairing"}
  /\ outcome \in Outcomes \cup {"none"}
  /\ cap = "body" => pc \in Body
----------------------------------------------------------------------------
\* assert_controller_ready, before the capture.
ControllerFree ==
  /\ pc = "controller" /\ pc' = "preflight" /\ cap = "idle" /\ cap' = "spawning"
  /\ UNCHANGED <<proc, processFrame, pump, signalled, lost, error, interrupted, link,
                 preflight, outcome>>

ControllerBusy ==
  /\ pc = "controller" /\ pc' = "leaving" /\ cap' = "left" /\ error' = "other"
  /\ UNCHANGED <<proc, processFrame, pump, signalled, lost, interrupted, link, preflight,
                 outcome>>

Leave(e) == BodyEnds(e) /\ pc' = "leaving" /\ UNCHANGED interrupted

\* preflight_device, and assert_pairing_advertisement_ready on what it found.
Preflight ==
  /\ cap = "body" /\ pc = "preflight"
  /\ preflight' \in {"ready", "invisible", "not_pairing"}
  /\ IF preflight' = "ready"
     THEN pc' = "connect" /\ UNCHANGED captureVars
     ELSE Leave("bike_state")
  /\ UNCHANGED <<link, outcome>>

\* connect_device: its own scan may refuse the bike, and its set-up may fail.
ConnectDevice ==
  /\ cap = "body" /\ pc = "connect" /\ pc' = "state_wait"
  /\ link' = "up"
  /\ UNCHANGED <<captureVars, preflight, outcome>>

\* A step of the body raises: the scan, connect_device, wait_for_state or the last reading
\* of the state.
Raises(e) ==
  /\ \/ pc = "preflight" /\ e = "other"
     \/ pc = "connect" /\ e \in {"bike_state", "setup", "other"}
     \/ pc \in {"state_wait", "recheck"} /\ e = "other"
  /\ Leave(e)
  /\ UNCHANGED <<link, preflight, outcome>>

StateReached ==
  /\ cap = "body" /\ pc = "state_wait" /\ link = "resolved" /\ pc' = "settle"
  /\ UNCHANGED <<captureVars, link, preflight, outcome>>

Settled ==
  /\ cap = "body" /\ pc = "settle" /\ pc' = "recheck"
  /\ UNCHANGED <<captureVars, link, preflight, outcome>>

\* read_device_state after three seconds: is the link still resolved?
Recheck ==
  /\ pc = "recheck"
  /\ outcome' = IF link = "resolved" THEN "baseline_reached" ELSE outcome
  /\ Leave("none")
  /\ UNCHANGED <<link, preflight>>

InterruptBody ==
  /\ ~interrupted /\ interrupted' = TRUE
  /\ BodyEnds("cancelled") /\ pc' = "leaving"
  /\ UNCHANGED <<link, preflight, outcome>>
----------------------------------------------------------------------------
\* The except clauses.
OutcomeOf(e) ==
  CASE e = "bike_state" -> "bike_unavailable"
    [] e \in {"setup", "capture"} -> "setup_failed"
    [] OTHER -> outcome

\* What the trace adds to a connection that was held.
Graded(text) ==
  IF ~Contains(text, "phone_parameters") /\ ~Contains(text, "other_parameters")
  THEN "parameters_unknown"
  ELSE IF Contains(text, "other_parameters") THEN "parameters_differ"
  ELSE IF ~Contains(text, "att") THEN "no_att" ELSE "baseline_reached"

\* The trace is read and the outcome written; a cancellation passes by it.
Report ==
  /\ cap = "left" /\ pc # "done" /\ pc' = "done"
  /\ outcome' = IF error = "cancelled" THEN "none"
                ELSE IF OutcomeOf(error) = "baseline_reached" THEN Graded(Text)
                ELSE OutcomeOf(error)
  /\ UNCHANGED <<captureVars, link, preflight>>

Services ==
  /\ link = "up" /\ link' = "resolved"
  /\ UNCHANGED <<captureVars, pc, preflight, outcome>>

LinkDrops ==
  /\ link # "down" /\ link' = "down"
  /\ UNCHANGED <<captureVars, pc, preflight, outcome>>

BodyStep ==
  \/ Preflight \/ ConnectDevice \/ StateReached \/ Settled \/ Recheck
  \/ \E e \in {"bike_state", "setup", "other"} : Raises(e)

\* The steps of the capture leave the experiment alone.
Capture(A) == A /\ UNCHANGED experimentVars

Next ==
  \/ ControllerFree \/ ControllerBusy \/ BodyStep \/ InterruptBody \/ Report
  \/ Services \/ LinkDrops
  \/ Capture(ProcessStep \/ PumpStep \/ ManagerStep \/ Interrupt)

\* Each await of the main coroutine comes back or runs into its time-out, the pump and
\* the kernel do their part, and the 180 seconds of the capture end.
Fairness ==
  /\ WF_vars(ControllerFree \/ ControllerBusy \/ BodyStep \/ Report)
  /\ WF_vars(Capture(ManagerStep)) /\ WF_vars(Capture(PumpStep))
  /\ WF_vars(Capture(TimeoutExits)) /\ WF_vars(Capture(Reap))
  /\ WF_vars(Capture(BoundedScriptEnds))

Spec == Init /\ [][Next]_vars /\ Fairness
----------------------------------------------------------------------------
\* `baseline_reached' without an error: a complete trace of a capture that outlived the
\* experiment, with matching parameters only and ATT traffic, on a bike found ready.
BaselineEvidence ==
  pc = "done" /\ outcome = "baseline_reached" /\ error = "none" =>
    /\ ~lost /\ Text = written /\ preflight = "ready"
    /\ Contains(written, "phone_parameters") /\ Contains(written, "att")
    /\ ~Contains(written, "other_parameters")

\* The experiment comes to its end, unless a killed `timeout' left the trace open.
ExperimentEnds == <>(pc = "done" \/ Orphaned)

\* baseline_reached requires matching initial parameters, every complete set being
\* recorded (docs/current-design.md, lines 227 to 229): none of those that btmon
\* reported differs.
BaselineParameters ==
  pc = "done" /\ outcome = "baseline_reached" => ~Contains(written, "other_parameters")
=============================================================================
