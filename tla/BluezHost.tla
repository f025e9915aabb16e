----------------------------- MODULE BluezHost -----------------------------
(***************************************************************************)
(* The host side of a connection attempt (src/bosch_ble/bluez.py): the     *)
(* advertisement scan, and prepare_connect_attempt, which resets and       *)
(* configures the controller, scans again, refuses a bike that is not      *)
(* ready and loads the LE connection parameters.  ConnectClient and        *)
(* AssistPairing call these two procedures and read what they leave.       *)
(*                                                                         *)
(* The bike is the environment: it may go off, advertise, or enter and     *)
(* leave its pairing mode at any moment, and the link may drop.            *)
(***************************************************************************)
EXTENDS Naturals, Sequences

VARIABLES
  bike,       \* what the bike advertises
  device,     \* BlueZ's view of the bike: paired, trusted, connected
  powered,    \* the controller is powered
  setup,      \* the setup steps in force since the controller was last reset
  scan,       \* the scan in progress, or the last one
  snapshot,   \* the BluezState built by the last preflight_device
  step,       \* where the running procedure stands; "idle" if none runs
  hostError   \* what the procedure raised

hostVars == <<bike, device, powered, setup, scan, snapshot, step, hostError>>

\* What a call or a return leaves alone, and what a caller's change of the device does.
hostButStep == <<bike, device, powered>>
hostButDevice == <<bike, powered, scan, snapshot, step, hostError>>

\* A flag of `bluetoothctl info': the output may lack it.
Flag(b) == IF b THEN "yes" ELSE "no"
Flags == {"yes", "no", "unknown"}
Read(b) == {Flag(b), "unknown"}

Adverts == {"generic", "pairing"}
NoScan == [on |-> FALSE, advert |-> "none", heard |-> {}]
NoSnapshot == [visible |-> FALSE, pairing |-> FALSE, paired |-> "unknown",
               trusted |-> "unknown", fresh |-> FALSE]

\* The commands of bluez_prepare_phone_like_pairing_controller, then pairable.
Commands == <<"power_off", "sys_config", "privacy", "bondable", "power_on", "pairable">>
CommandNames == {Commands[i] : i \in 1..Len(Commands)}
After(c) == LET i == CHOOSE i \in 1..Len(Commands) : Commands[i] = c
            IN IF i < Len(Commands) THEN Commands[i + 1] ELSE "scan"
FullSetup == (CommandNames \ {"power_off"}) \cup {"parameters"}

HostInit ==
  /\ bike \in Adverts \cup {"off"}
  /\ device \in [paired : BOOLEAN, trusted : BOOLEAN, connected : {FALSE}]
  /\ powered = TRUE /\ setup = {} /\ scan = NoScan /\ snapshot = NoSnapshot
  /\ step = "idle" /\ hostError = "none"

HostTypeOK ==
  /\ bike \in Adverts \cup {"off"}
  /\ device \in [paired : BOOLEAN, trusted : BOOLEAN, connected : BOOLEAN]
  /\ powered \in BOOLEAN /\ setup \subseteq FullSetup
  /\ scan \in [on : BOOLEAN, advert : Adverts \cup {"none"}, heard : SUBSET Adverts]
  /\ snapshot \in [visible : BOOLEAN, pairing : BOOLEAN, paired : Flags, trusted : Flags,
                   fresh : BOOLEAN]
  /\ step \in CommandNames \cup {"idle", "preflight", "scanned", "scan", "parameters",
                                 "ready", "raised"}
  /\ hostError \in {"none", "scan", "setup", "invisible", "not_pairing", "parameters"}
----------------------------------------------------------------------------
\* Calls of preflight_device and of prepare_connect_attempt, and their return.
CallPreflight == step' = "preflight" /\ UNCHANGED <<setup, scan, snapshot, hostError>>
CallPrepare == step' = "power_off" /\ UNCHANGED <<setup, scan, snapshot, hostError>>
HostReturn == step' = "idle" /\ hostError' = "none" /\ UNCHANGED <<setup, scan, snapshot>>

Raise(e) == step' = "raised" /\ hostError' = e

\* The BlueZ link comes up: the parameters the bike then asks for are cached in the
\* place of the loaded ones.
SetConnected(up) ==
  /\ device' = [device EXCEPT !.connected = up]
  /\ setup' = IF up THEN setup \ {"parameters"} ELSE setup
----------------------------------------------------------------------------
(***************************************************************************)
(* prepare_connect_attempt up to the scan.                                 *)
(***************************************************************************)
CommandSucceeds ==
  /\ step \in CommandNames
  /\ step' = After(step)
  /\ setup' = IF step = "power_off" THEN {} ELSE setup \cup {step}
  /\ powered' = IF step = "power_off" THEN FALSE ELSE step = "power_on" \/ powered
  /\ device' = IF step = "power_off" THEN [device EXCEPT !.connected = FALSE] ELSE device
  /\ snapshot' = IF step = "power_off" THEN [snapshot EXCEPT !.fresh = FALSE] ELSE snapshot
  /\ UNCHANGED <<bike, scan, hostError>>

\* The controller stays as the last successful command left it.
CommandFails ==
  /\ step \in CommandNames /\ Raise("setup")
  /\ UNCHANGED <<bike, device, powered, setup, scan, snapshot>>

(***************************************************************************)
(* scan_device_advertisement and the snapshot that preflight_device builds *)
(* from it.  `heard' is history: what the scanner delivered in this scan.  *)
(***************************************************************************)
ScanStarts ==
  /\ step \in {"preflight", "scan"} /\ ~scan.on /\ powered
  /\ scan' = [NoScan EXCEPT !.on = TRUE]
  /\ UNCHANGED <<bike, device, powered, setup, snapshot, step, hostError>>

ScanStartFails ==
  /\ step \in {"preflight", "scan"} /\ ~scan.on /\ Raise("scan")
  /\ UNCHANGED <<bike, device, powered, setup, scan, snapshot>>

\* Mutant: the last advertisement wins, pairing or not.
DetectLast ==
  /\ scan.on /\ bike # "off"
  /\ scan' = [scan EXCEPT !.heard = @ \cup {bike}, !.advert = bike]
  /\ UNCHANGED <<bike, device, powered, setup, snapshot, step, hostError>>

\* The detection callback: after a pairing advertisement it ignores the others, up to
\* the end of scanner.stop().
Detect ==
  /\ scan.on /\ bike # "off"
  /\ scan' = [scan EXCEPT !.heard = @ \cup {bike},
                          !.advert = IF @ = "pairing" THEN @ ELSE bike]
  /\ UNCHANGED <<bike, device, powered, setup, snapshot, step, hostError>>

\* Mutant: an unpaired bike that is visible is ready.
VisibleIsReady(s) == IF s.visible THEN "none" ELSE "invisible"

\* assert_pairing_advertisement_ready: the error it raises on a snapshot.
Refusal(s) ==
  IF ~s.visible THEN "invisible"
  ELSE IF s.paired # "yes" /\ ~s.pairing THEN "not_pairing" ELSE "none"

\* The scan ends on a pairing advertisement or on its timeout, and the device is read.
ScanStops ==
  /\ scan.on /\ scan' = [scan EXCEPT !.on = FALSE]
  /\ \E p \in Read(device.paired), t \in Read(device.trusted) :
       snapshot' = [visible |-> scan.advert # "none", pairing |-> scan.advert = "pairing",
                    paired |-> p, trusted |-> t, fresh |-> TRUE]
  /\ \/ step = "preflight" /\ step' = "scanned" /\ UNCHANGED hostError
     \/ /\ step = "scan" /\ Refusal(snapshot') = "none"
        /\ step' = "parameters" /\ UNCHANGED hostError
     \/ step = "scan" /\ Refusal(snapshot') # "none" /\ Raise(Refusal(snapshot'))
  /\ UNCHANGED <<bike, device, powered, setup>>

\* scanner.stop raises, or the reading of the device after it: no snapshot is built.
ScanStopFails ==
  /\ scan.on /\ scan' = [scan EXCEPT !.on = FALSE] /\ snapshot' = NoSnapshot
  /\ Raise("scan")
  /\ UNCHANGED <<bike, device, powered, setup>>

(***************************************************************************)
(* bluez_load_connection_parameters: the last step.                        *)
(***************************************************************************)
ParametersLoad ==
  /\ step = "parameters" /\ step' = "ready"
  /\ setup' = setup \cup {"parameters"}
  /\ UNCHANGED <<bike, device, powered, scan, snapshot, hostError>>

ParametersFail ==
  /\ step = "parameters" /\ Raise("parameters")
  /\ UNCHANGED <<bike, device, powered, setup, scan, snapshot>>

HostStep == \/ CommandSucceeds \/ CommandFails \/ ScanStarts \/ ScanStartFails
            \/ ScanStops \/ ScanStopFails \/ ParametersLoad \/ ParametersFail

\* The bike's own moves.
BikeChanges ==
  /\ bike' \in (Adverts \cup {"off"}) \ {bike}
  /\ UNCHANGED <<device, powered, setup, scan, snapshot, step, hostError>>

LinkDrops ==
  /\ device.connected /\ device' = [device EXCEPT !.connected = FALSE]
  /\ UNCHANGED <<bike, powered, setup, scan, snapshot, step, hostError>>

BikeStep == BikeChanges \/ LinkDrops \/ Detect
----------------------------------------------------------------------------
\* Each scan retains its first pairing advertisement through scanner shutdown: the
\* snapshot of the last scan says what that scan heard, whatever came after it.
PairingRetained ==
  snapshot.fresh /\ ~scan.on =>
    /\ snapshot.pairing = ("pairing" \in scan.heard)
    /\ snapshot.visible = (scan.heard # {})

\* The readiness that a connect or pair operation needs: every setup step is in force
\* since the last reset, and a scan made after that reset found the bike ready.
AttemptReady ==
  /\ setup = FullSetup
  /\ snapshot.fresh /\ snapshot.visible
  /\ snapshot.paired = "yes" \/ snapshot.pairing
=============================================================================
