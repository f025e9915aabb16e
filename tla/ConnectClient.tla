--------------------------- MODULE ConnectClient ---------------------------
(***************************************************************************)
(* connected_client of src/bosch_ble/live.py on the BlueZ backend: up to   *)
(* three attempts to prepare the connection (dump_gatt.prepare_connection, *)
(* bluez.connect_device), open the Bleak client, stage Bosch security and  *)
(* run the body of the `async with'.  The host procedures are BluezHost's. *)
(***************************************************************************)
EXTENDS BluezHost

CONSTANT MaxAttempts   \* DISCOVERY_RETRY_ATTEMPTS

ASSUME AttemptsAssumption == MaxAttempts \in Nat \ {0}

VARIABLES
  pc,          \* where connected_client stands
  attempt,     \* the attempt that runs
  resolved,    \* resolve_device returned a device handle
  target,      \* what BleakClient is built from
  demand,      \* how the first descriptor write of this attempt was refused
  raised,      \* the error that leaves the `async with'
  bodyError    \* history: what the body raised, or leaving the client after it ("exit")

clientVars == <<pc, attempt, resolved, target, demand, raised, bodyError>>
vars == <<hostVars, clientVars>>

Init ==
  /\ HostInit
  /\ pc = "attempt" /\ attempt = 1 /\ resolved = FALSE /\ target = "none"
  /\ demand = "none" /\ raised = "none" /\ bodyError = "none"

\* Mutant: the attempts are not counted.
FailUncounted(e) ==
  /\ IF e \in {"bleak_retry", "in_progress", "security_drop", "body_retry"}
        /\ attempt < MaxAttempts
     THEN pc' = "attempt" /\ attempt' = attempt /\ raised' = raised
     ELSE pc' = "closed" /\ raised' = e /\ attempt' = attempt
  /\ UNCHANGED <<resolved, target, demand>>

\* retry_message: service discovery failed or an operation was already in progress (of
\* Bleak: bleak_retry; of BlueZ: in_progress), or the security transition dropped the
\* link.  Everything else is final.
Retryable == {"bleak_retry", "in_progress", "security_drop", "body_retry"}

\* The except clause: the next attempt, or the error is raised to the caller.
Fail(e) ==
  /\ IF e \in Retryable /\ attempt < MaxAttempts
     THEN pc' = "attempt" /\ attempt' = attempt + 1 /\ raised' = raised
     ELSE pc' = "closed" /\ raised' = e /\ attempt' = attempt
  /\ UNCHANGED <<resolved, target, demand>>

\* Leaving `async with BleakClient' disconnects.
Drop == SetConnected(FALSE)

Goto(p) == pc' = p /\ UNCHANGED <<attempt, resolved, target, demand, raised, bodyError>>
----------------------------------------------------------------------------
(***************************************************************************)
(* dump_gatt.resolve_device.                                               *)
(***************************************************************************)
\* assert_controller_ready passes, and the preflight scan starts.
Resolve ==
  /\ pc = "attempt" /\ step = "idle"
  /\ pc' = "resolve" /\ CallPreflight /\ resolved' = FALSE /\ target' = "none"
  /\ demand' = "none"
  /\ UNCHANGED <<hostButStep, attempt, raised, bodyError>>

\* Another Bluetooth tool runs, or the controller is discovering.
ControllerBusy ==
  /\ pc = "attempt" /\ step = "idle" /\ Fail("busy")
  /\ UNCHANGED <<hostVars, bodyError>>

\* Nothing found: one more, longer scan.
Rediscover ==
  /\ pc = "resolve" /\ step = "scanned" /\ ~snapshot.visible
  /\ Goto("rediscover") /\ CallPreflight /\ UNCHANGED hostButStep

Resolved ==
  /\ step = "scanned" /\ pc \in {"resolve", "rediscover"}
  /\ snapshot.visible \/ pc = "rediscover"
  /\ pc' = "info" /\ resolved' = snapshot.visible /\ HostReturn
  /\ UNCHANGED <<hostButStep, attempt, target, demand, raised, bodyError>>

(***************************************************************************)
(* bluez.connect_device.                                                   *)
(***************************************************************************)
\* `bluetoothctl info' does not know the device: scan for it.
InfoUnavailable ==
  /\ pc = "info" /\ ~device.paired
  /\ Goto("info_scan") /\ CallPreflight /\ UNCHANGED hostButStep

InfoKnown == pc = "info" /\ Goto("sudo") /\ UNCHANGED hostVars

InfoScanned ==
  /\ pc = "info_scan" /\ step = "scanned"
  /\ Goto("sudo") /\ HostReturn /\ UNCHANGED hostButStep

SudoReady ==
  /\ pc = "sudo" /\ Goto("prepare") /\ CallPrepare /\ UNCHANGED hostButStep

SudoRefused == pc = "sudo" /\ Fail("sudo") /\ UNCHANGED <<hostVars, bodyError>>

Prepared ==
  /\ pc = "prepare" /\ step = "ready"
  /\ Goto("connect") /\ HostReturn /\ UNCHANGED hostButStep

\* The errors of the host that carry the text of a command or of BlueZ, which may be
\* that an operation was already in progress.
Texts(e) == {e} \cup IF e \in {"scan", "setup", "parameters", "connect"}
                     THEN {"in_progress"} ELSE {}

\* The next attempt, if there is one, finds the controller as this one left it.
HostRaises ==
  /\ step = "raised" /\ \E e \in Texts(hostError) : Fail(e)
  /\ HostReturn /\ UNCHANGED <<hostButStep, bodyError>>

\* `bluetoothctl connect': its exit code and the state BlueZ ends in are apart.
Connect ==
  /\ pc = "connect"
  /\ \E up \in {FALSE, bike # "off"} : SetConnected(up)
  /\ Goto("read_state")
  /\ UNCHANGED hostButDevice

\* Mutant: the device handle of the scan before the controller reset is preferred.
StaleHandle == IF resolved THEN "resolve_scan" ELSE "ready_scan"

\* The handle that prepare_connection returns when BlueZ has no object path for the
\* device: that of the scan after the reset, else that of resolve_device.
ScanHandle ==
  IF snapshot.visible THEN "ready_scan" ELSE IF resolved THEN "resolve_scan" ELSE "address"

\* The state read afterwards does not say the device is disconnected (nor, if the
\* command failed, leaves it open): the Bleak target is chosen.
ConnectAccepted ==
  /\ pc = "read_state" /\ \E f \in Read(device.connected) : f # "no"
  /\ pc' = "open" /\ target' \in {"object_path", ScanHandle}
  /\ UNCHANGED <<hostVars, attempt, resolved, demand, raised, bodyError>>

\* It says disconnected, or the command failed and it says nothing.
ConnectRefused ==
  /\ pc = "read_state" /\ \E f \in Read(device.connected) : f # "yes"
  /\ \E e \in Texts("connect") : Fail(e)
  /\ UNCHANGED <<hostVars, bodyError>>
----------------------------------------------------------------------------
(***************************************************************************)
(* BleakClient.__aenter__, then dump_gatt.stage_bosch_security.            *)
(***************************************************************************)
Open ==
  /\ pc = "open" /\ bike # "off"
  /\ SetConnected(TRUE) /\ Goto("stage") /\ UNCHANGED hostButDevice

\* Service discovery failed, an operation was in progress, or something final.
OpenRaises ==
  /\ pc = "open" /\ \E e \in {"bleak_retry", "bleak"} : Fail(e)
  /\ Drop /\ UNCHANGED <<hostButDevice, bodyError>>

\* The client is yielded.  A generator that yields a second time, because the body's
\* exception was taken for a retry, makes contextlib raise RuntimeError instead.
Yield ==
  /\ IF bodyError = "none"
     THEN pc' = "body" /\ UNCHANGED <<raised, device, setup>>
     ELSE pc' = "closed" /\ raised' = "second_yield" /\ Drop
  /\ UNCHANGED <<attempt, resolved, target, bodyError>>

\* There is no Bosch security descriptor, or writing it works.
StageDirect ==
  /\ pc = "stage" /\ demand' = "none" /\ Yield /\ UNCHANGED hostButDevice

\* Bleak refuses direct CCCD writes and BlueZ says the device is paired.
StageAlreadyPaired ==
  /\ pc = "stage" /\ device.paired /\ demand' = "blocked"
  /\ Yield /\ UNCHANGED hostButDevice

\* Bleak refuses direct CCCD writes, or the bike asks for encryption: pair.
StagePair ==
  /\ pc = "stage"
  /\ \/ demand' = "blocked" /\ \E f \in Read(device.paired) : f # "yes"
     \/ demand' = "encryption"
  /\ pc' = "pair"
  /\ UNCHANGED <<hostVars, attempt, resolved, target, raised, bodyError>>

StageRaises ==
  /\ pc \in {"stage", "pair", "wait_paired", "rewrite"} /\ \E e \in {"bleak_retry", "bleak"} : Fail(e)
  /\ Drop /\ UNCHANGED <<hostButDevice, bodyError>>

\* Mutant: security staging does not wait for the paired connected state.
PairWithoutWait ==
  /\ pc = "pair" /\ device.connected /\ demand' = demand /\ Yield
  /\ UNCHANGED hostButDevice

\* client.pair() under the pairing agent; its effect on BlueZ may come later.
Pair ==
  /\ pc = "pair" /\ device.connected
  /\ Goto("wait_paired") /\ UNCHANGED hostVars

\* BlueZ completes the pairing while wait_for_state polls.
PairingCompletes ==
  /\ pc = "wait_paired" /\ ~device.paired /\ device.connected
  /\ device' = [device EXCEPT !.paired = TRUE]
  /\ UNCHANGED <<hostButDevice, setup, clientVars>>

\* A poll finds the device paired and connected.  The client object may have seen a
\* disconnect all the same.
PairedSeen ==
  /\ pc = "wait_paired" /\ device.paired /\ device.connected
  /\ \/ demand = "blocked" /\ demand' = demand /\ Yield
     \/ demand = "encryption" /\ Goto("rewrite") /\ UNCHANGED <<device, setup>>
  /\ UNCHANGED hostButDevice

SecurityDrops ==
  /\ pc = "wait_paired" /\ device.paired /\ Fail("security_drop")
  /\ Drop /\ UNCHANGED <<hostButDevice, bodyError>>

\* The deadline passes on a poll that does not show the awaited state (services may
\* not be resolved, or a flag may be missing).
WaitTimesOut ==
  /\ pc = "wait_paired" /\ Fail("wait_for_state")
  /\ Drop /\ UNCHANGED <<hostButDevice, bodyError>>

\* The second descriptor write, over the encrypted link.
Rewrite ==
  /\ pc = "rewrite" /\ device.connected /\ demand' = demand /\ Yield /\ UNCHANGED hostButDevice
----------------------------------------------------------------------------
BodyReturns ==
  /\ pc = "body" /\ Goto("closed") /\ Drop /\ UNCHANGED hostButDevice

\* The body raises; its error goes through the same except clause as the set-up's.
BodyRaises ==
  /\ pc = "body" /\ \E e \in {"body_retry", "body"} : Fail(e) /\ bodyError' = e
  /\ Drop /\ UNCHANGED hostButDevice

\* BleakClient.__aexit__ raises, after the body or an error in the context: its own error
\* goes on in the place of any other, and the link may still be up.
ExitRaises ==
  /\ pc \in {"stage", "pair", "wait_paired", "rewrite", "body"}
  /\ \E e \in {"bleak_retry", "bleak"} : Fail(e)
  /\ bodyError' = IF pc = "body" THEN "exit" ELSE bodyError
  /\ Drop \/ UNCHANGED <<device, setup>>
  /\ UNCHANGED hostButDevice

Terminated == pc = "closed" /\ UNCHANGED vars

Flow ==
  \/ Resolve \/ ControllerBusy \/ Rediscover \/ Resolved
  \/ InfoUnavailable \/ InfoKnown \/ InfoScanned \/ SudoReady \/ SudoRefused
  \/ Prepared \/ HostRaises \/ Connect \/ ConnectAccepted \/ ConnectRefused
  \/ Open \/ OpenRaises
  \/ StageDirect \/ StageAlreadyPaired \/ StagePair \/ StageRaises \/ Pair
  \/ PairedSeen \/ SecurityDrops \/ WaitTimesOut \/ Rewrite

Host == HostStep /\ UNCHANGED clientVars
Bike == BikeStep /\ UNCHANGED clientVars

Next ==
  \/ Flow \/ Host \/ Bike \/ PairingCompletes
  \/ BodyReturns \/ BodyRaises \/ ExitRaises \/ Terminated

\* The commands, scans, polls and Bleak calls all end, by success or by time-out.
Fairness == WF_vars(Flow) /\ WF_vars(Host)

Spec == Init /\ [][Next]_vars /\ Fairness
----------------------------------------------------------------------------
(***************************************************************************)
(* Properties.                                                             *)
(***************************************************************************)
\* Every variable keeps its type; in particular the attempts stay within their bound.
TypeOK ==
  /\ HostTypeOK
  /\ pc \in {"attempt", "resolve", "rediscover", "info", "info_scan", "sudo", "prepare",
             "connect", "read_state", "open", "stage", "pair", "wait_paired", "rewrite",
             "body", "closed"}
  /\ attempt \in 1..MaxAttempts /\ resolved \in BOOLEAN
  /\ target \in {"none", "object_path", "ready_scan", "resolve_scan", "address"}
  /\ demand \in {"none", "blocked", "encryption"}
  /\ bodyError \in {"none", "body", "body_retry", "exit"}
  /\ raised \in {"none", "busy", "sudo", "scan", "setup", "invisible", "not_pairing",
                 "parameters", "connect", "bleak", "wait_for_state", "body", "second_yield"}
                 \cup Retryable

\* BlueZ is asked to connect only in a controller that was reset and fully set up in
\* this attempt, parameters last, and only if a scan after that reset found the bike
\* visible and either paired or pairable, whatever earlier scans or attempts found.
ConnectWhenReady == pc = "connect" => AttemptReady

\* After the controller reset, Bleak never gets the device handle of the scan that
\* preceded it.
TargetFresh == pc = "open" => target \in {"object_path", "ready_scan"}

\* If the bike asked for encryption, the body runs only once BlueZ has paired with it.
BodySecured == pc = "body" /\ demand = "encryption" => device.paired

\* Every call comes to its body or to an error: no retry goes on for ever.
FlowEnds == <>(pc \in {"body", "closed"})

\* A failure of the body is surfaced rather than hidden in the cleanup
\* (docs/current-design.md, line 50): the caller sees the error its body raised, unless
\* leaving the client raised one of its own.
BodyErrorSurfaces ==
  pc = "closed" /\ bodyError \in {"body", "body_retry"} => raised = bodyError
=============================================================================
