---------------------------- MODULE Bluez_proofs ----------------------------
(***************************************************************************)
(* What BlueZ is asked to do, and when.  A procedure of BluezHost keeps    *)
(* HostInv at each of its steps, whatever the bike does meanwhile; on top  *)
(* of it, connected_client connects only in a prepared controller, opens   *)
(* Bleak on a handle no older than that, and runs its body over the        *)
(* security the bike asked for; assist_connection pairs only in a          *)
(* controller prepared for that try, keeps its agent exactly as long as it *)
(* is needed, and reports success only of a device that BlueZ has paired   *)
(* with and trusts.  All of it for any number of attempts.                 *)
(***************************************************************************)
EXTENDS ConnectClient, AssistPairing, TLAPS

\* The advertisement retained is the one the detection callbacks should retain.
Retained ==
  /\ (scan.advert = "none") = (scan.heard = {})
  /\ (scan.advert = "pairing") = ("pairing" \in scan.heard)
  /\ scan.on => step \in {"preflight", "scan"}
  /\ snapshot.fresh /\ ~scan.on =>
       /\ snapshot.visible = (scan.advert # "none")
       /\ snapshot.pairing = (scan.advert = "pairing")

\* The commands that the one at hand comes after.
Behind(s) ==
  CASE s = "privacy"  -> {"sys_config"}
    [] s = "bondable" -> {"sys_config", "privacy"}
    [] s = "power_on" -> {"sys_config", "privacy", "bondable"}
    [] s = "pairable" -> {"sys_config", "privacy", "bondable", "power_on"}
    [] s \in {"scan", "parameters"} -> {"sys_config", "privacy", "bondable", "power_on", "pairable"}
    [] s = "ready"    -> FullSetup
    [] OTHER -> {}

\* Each step of prepare_connect_attempt rests on all of those before it.
Progress ==
  /\ Behind(step) \subseteq setup
  /\ step \in {"parameters", "ready"} => snapshot.fresh /\ Refusal(snapshot) = "none"

HostInv == HostTypeOK /\ Retained /\ Progress

\* The six commands by name.
LEMMA CommandList ==
  /\ CommandNames = {"power_off", "sys_config", "privacy", "bondable", "power_on", "pairable"}
  /\ FullSetup = {"sys_config", "privacy", "bondable", "power_on", "pairable", "parameters"}
  /\ After("power_off") = "sys_config" /\ After("sys_config") = "privacy"
  /\ After("privacy") = "bondable" /\ After("bondable") = "power_on"
  /\ After("power_on") = "pairable" /\ After("pairable") = "scan"
<1>1. Len(Commands) = 6
  BY DEF Commands
<1>2. /\ Commands[1] = "power_off" /\ Commands[2] = "sys_config" /\ Commands[3] = "privacy"
      /\ Commands[4] = "bondable" /\ Commands[5] = "power_on" /\ Commands[6] = "pairable"
  BY DEF Commands
<1>3. 1..Len(Commands) = {1, 2, 3, 4, 5, 6}
  BY <1>1
<1>4. CommandNames = {"power_off", "sys_config", "privacy", "bondable", "power_on", "pairable"}
  BY <1>2, <1>3 DEF CommandNames
<1>5. ASSUME NEW i \in 1..Len(Commands), NEW c, Commands[i] = c
      PROVE  (CHOOSE j \in 1..Len(Commands) : Commands[j] = c) = i
  BY <1>2, <1>3, <1>5
<1>6. ASSUME NEW i \in 1..Len(Commands)
      PROVE  After(Commands[i]) = IF i < 6 THEN Commands[i + 1] ELSE "scan"
  <2>1. (CHOOSE j \in 1..Len(Commands) : Commands[j] = Commands[i]) = i
  BY <1>5
  <2>. QED  BY   <2>1, <1>1 DEF After
<1>7. After("power_off") = "sys_config" /\ After("sys_config") = "privacy"
  BY <1>2, <1>3, <1>6
<1>8. After("privacy") = "bondable" /\ After("bondable") = "power_on"
  BY <1>2, <1>3, <1>6
<1>9. After("power_on") = "pairable" /\ After("pairable") = "scan"
  BY <1>2, <1>3, <1>6
<1>. QED  BY <1>4, <1>7, <1>8, <1>9 DEF FullSetup

\* A step of the running procedure.
LEMMA HostStepKeeps == HostInv /\ HostStep => HostInv'
<1>. SUFFICES ASSUME HostInv, HostStep PROVE HostInv'
  OBVIOUS
<1>. USE CommandList DEF HostInv
<1>1. CASE CommandSucceeds
  <2>1. HostTypeOK'
    BY <1>1 DEF CommandSucceeds, HostTypeOK
  <2>2. Retained'
    BY <1>1 DEF CommandSucceeds, HostTypeOK, Retained
  <2>3. Progress'
    BY <1>1 DEF CommandSucceeds, HostTypeOK, Progress, Behind
  <2>. QED  BY <2>1, <2>2, <2>3
<1>2. CASE CommandFails
  BY <1>2 DEF CommandFails, Raise, HostTypeOK, Retained, Progress, Behind
<1>3. CASE ScanStarts
  <2>1. HostTypeOK'
    BY <1>3 DEF ScanStarts, NoScan, HostTypeOK
  <2>2. Retained'
    BY <1>3 DEF ScanStarts, NoScan, HostTypeOK, Retained
  <2>3. Progress'
    BY <1>3 DEF ScanStarts, Progress, Behind
  <2>. QED  BY <2>1, <2>2, <2>3
<1>4. CASE ScanStartFails
  BY <1>4 DEF ScanStartFails, Raise, HostTypeOK, Retained, Progress, Behind
<1>5. CASE ScanStops
  <2>1. HostTypeOK'
    <3>1. PICK p \in Read(device.paired), t \in Read(device.trusted) :
            snapshot' = [visible |-> scan.advert # "none", pairing |-> scan.advert = "pairing",
                         paired |-> p, trusted |-> t, fresh |-> TRUE]
      BY <1>5 DEF ScanStops
    <3>2. p \in Flags /\ t \in Flags
      BY DEF Read, Flag, Flags
    <3>3. Refusal(snapshot') \in {"none", "invisible", "not_pairing"}
      BY DEF Refusal
    <3>4. scan' \in [on : BOOLEAN, advert : Adverts \cup {"none"}, heard : SUBSET Adverts]
      BY <1>5 DEF ScanStops, HostTypeOK
    <3>5. step' \in {"scanned", "parameters", "raised"}
          /\ (hostError' = hostError \/ hostError' \in {"invisible", "not_pairing"})
      BY <1>5, <3>3 DEF ScanStops, Raise
    <3>. QED  BY <1>5, <3>1, <3>2, <3>4, <3>5, ZenonT(60) DEF ScanStops, HostTypeOK
  <2>2. Retained'
    BY <1>5 DEF ScanStops, Raise, HostTypeOK, Retained
  <2>3. Progress'
    BY <1>5 DEF ScanStops, Raise, HostTypeOK, Progress, Behind
  <2>. QED  BY <2>1, <2>2, <2>3
<1>8. CASE ScanStopFails
  <2>1. HostTypeOK'
    <3>1. /\ scan' \in [on : BOOLEAN, advert : Adverts \cup {"none"}, heard : SUBSET Adverts]
          /\ snapshot' \in [visible : BOOLEAN, pairing : BOOLEAN, paired : Flags,
                            trusted : Flags, fresh : BOOLEAN]
      BY <1>8 DEF ScanStopFails, NoSnapshot, Flags, HostTypeOK
    <3>. QED  BY <1>8, <3>1 DEF ScanStopFails, Raise, HostTypeOK
  <2>2. Retained'
    BY <1>8 DEF ScanStopFails, Raise, NoSnapshot, HostTypeOK, Retained
  <2>3. Progress'
    BY <1>8 DEF ScanStopFails, Raise, Progress, Behind
  <2>. QED  BY <2>1, <2>2, <2>3
<1>6. CASE ParametersLoad
  BY <1>6 DEF ParametersLoad, HostTypeOK, Retained, Progress, Behind
<1>7. CASE ParametersFail
  BY <1>7 DEF ParametersFail, Raise, HostTypeOK, Retained, Progress, Behind
<1>. QED  BY <1>1, <1>2, <1>3, <1>4, <1>5, <1>6, <1>7, <1>8 DEF HostStep

\* A move of the bike, of the link or of the detection callback.
LEMMA BikeStepKeeps == HostInv /\ BikeStep => HostInv'
<1>. SUFFICES ASSUME HostInv, BikeStep PROVE HostInv'
  OBVIOUS
<1>1. CASE BikeChanges
  BY <1>1 DEF BikeChanges, HostInv, HostTypeOK, Retained, Progress
<1>2. CASE LinkDrops
  <2>1. HostTypeOK'
    <3>1. device' \in [paired : BOOLEAN, trusted : BOOLEAN, connected : BOOLEAN]
      BY <1>2 DEF LinkDrops, HostInv, HostTypeOK
    <3>. QED  BY <1>2, <3>1 DEF LinkDrops, HostInv, HostTypeOK
  <2>2. Retained'
    BY <1>2 DEF LinkDrops, HostInv, Retained
  <2>3. Progress'
    BY <1>2 DEF LinkDrops, HostInv, Progress, Behind
  <2>. QED  BY <2>1, <2>2, <2>3 DEF HostInv
<1>3. CASE Detect
  <2>1. HostTypeOK'
    <3>1. /\ bike \in Adverts
          /\ scan \in [on : BOOLEAN, advert : Adverts \cup {"none"}, heard : SUBSET Adverts]
      BY <1>3 DEF Detect, HostInv, HostTypeOK
    <3>2. scan' = [on |-> scan.on, heard |-> scan.heard \cup {bike},
                   advert |-> IF scan.advert = "pairing" THEN scan.advert ELSE bike]
      BY <1>3, <3>1 DEF Detect
    <3>3. scan' \in [on : BOOLEAN, advert : Adverts \cup {"none"}, heard : SUBSET Adverts]
      BY <3>1, <3>2
    <3>. QED  BY <1>3, <3>3 DEF Detect, HostInv, HostTypeOK
  <2>2. Retained'
    BY <1>3 DEF Detect, HostInv, HostTypeOK, Retained, Adverts
  <2>3. Progress'
    BY <1>3 DEF Detect, HostInv, Progress, Behind
  <2>. QED  BY <2>1, <2>2, <2>3 DEF HostInv
<1>. QED  BY <1>1, <1>2, <1>3 DEF BikeStep

\* A call or the return of a procedure, when none is in the middle of a scan.
LEMMA CallKeeps ==
  ASSUME HostInv, step \notin {"preflight", "scan"},
         CallPreflight \/ CallPrepare \/ HostReturn, UNCHANGED <<bike, device, powered>>
  PROVE  HostInv'
BY CommandList DEF CallPreflight, CallPrepare, HostReturn, HostInv, HostTypeOK, Retained,
   Progress, Behind

\* What the callers do to BlueZ's view of the device while no procedure runs.
LEMMA IdleKeeps ==
  ASSUME HostInv, step = "idle", UNCHANGED <<bike, powered, scan, snapshot, step, hostError>>,
         device' \in [paired : BOOLEAN, trusted : BOOLEAN, connected : BOOLEAN],
         setup' \in {setup, setup \ {"parameters"}}
  PROVE  HostInv'
BY DEF HostInv, HostTypeOK, Retained, Progress, Behind

\* A caller that reports the link up or down, while no procedure runs.
LEMMA SetConnectedKeeps ==
  ASSUME HostInv, step = "idle", NEW up \in BOOLEAN, SetConnected(up),
         UNCHANGED <<bike, powered, scan, snapshot, step, hostError>>
  PROVE  HostInv' /\ device'.paired = device.paired /\ device'.trusted = device.trusted
<1>1. /\ device' \in [paired : BOOLEAN, trusted : BOOLEAN, connected : BOOLEAN]
      /\ device'.paired = device.paired /\ device'.trusted = device.trusted
  BY DEF HostInv, HostTypeOK, SetConnected
<1>2. setup' \in {setup, setup \ {"parameters"}}
  BY DEF SetConnected
<1>. QED  BY <1>1, <1>2, IdleKeeps

\* Where a procedure may stand, and where a step of it may lead.
Preflighting == {"preflight", "scanned", "raised"}
Preparing == CommandNames \cup {"scan", "parameters", "ready", "raised"}

LEMMA HostStepMoves ==
  ASSUME HostInv, HostStep
  PROVE  /\ step # "idle" /\ step' # "idle"
         /\ step \in Preflighting => step' \in Preflighting
         /\ step \in Preparing => step' \in Preparing
         /\ step' = "raised" => hostError' # "none"
         /\ device'.paired = device.paired /\ device'.trusted = device.trusted
<1>. USE CommandList DEF Preflighting, Preparing, HostInv, HostTypeOK
<1>1. CASE CommandSucceeds
  BY <1>1 DEF CommandSucceeds
<1>2. CASE CommandFails
  BY <1>2 DEF CommandFails, Raise
<1>3. CASE ScanStarts
  BY <1>3 DEF ScanStarts
<1>4. CASE ScanStartFails
  BY <1>4 DEF ScanStartFails, Raise
<1>5. CASE ScanStops
  BY <1>5 DEF ScanStops, Raise, Refusal
<1>6. CASE ParametersLoad
  BY <1>6 DEF ParametersLoad
<1>7. CASE ParametersFail
  BY <1>7 DEF ParametersFail, Raise
<1>8. CASE ScanStopFails
  BY <1>8 DEF ScanStopFails, Raise, Retained
<1>. QED  BY <1>1, <1>2, <1>3, <1>4, <1>5, <1>6, <1>7, <1>8 DEF HostStep

\* The bike's moves leave the procedure and the bond alone.
LEMMA BikeStepLeaves ==
  ASSUME HostInv, BikeStep
  PROVE  /\ UNCHANGED <<setup, snapshot, step, hostError>>
         /\ device'.paired = device.paired /\ device'.trusted = device.trusted
BY DEF BikeStep, BikeChanges, LinkDrops, Detect, HostInv, HostTypeOK

\* A snapshot says yes only of what is so: no step takes a bond or the trust away.
Truthful ==
  /\ snapshot.paired = "yes" => device.paired
  /\ snapshot.trusted = "yes" => device.trusted

LEMMA TruthKeeps == HostInv /\ Truthful /\ (HostStep \/ BikeStep) => Truthful'
<1>. SUFFICES ASSUME HostInv, Truthful, HostStep \/ BikeStep PROVE Truthful'
  OBVIOUS
<1>1. device'.paired = device.paired /\ device'.trusted = device.trusted
  BY HostStepMoves, BikeStepLeaves
<1>2. CASE snapshot' = snapshot
  BY <1>1, <1>2 DEF Truthful
<1>3. CASE CommandSucceeds
  BY <1>1, <1>3 DEF CommandSucceeds, Truthful, HostInv, HostTypeOK
<1>4. CASE ScanStops
  BY <1>1, <1>4 DEF ScanStops, Truthful, Read, Flag
<1>6. CASE ScanStopFails
  BY <1>6 DEF ScanStopFails, NoSnapshot, Truthful
<1>5. CASE ~CommandSucceeds /\ ~ScanStops /\ ~ScanStopFails
  <2>1. snapshot' = snapshot
    BY <1>5 DEF HostStep, CommandFails, ScanStarts, ScanStartFails, ParametersLoad, ParametersFail,
       BikeStep, BikeChanges, LinkDrops, Detect
  <2>. QED  BY <2>1, <1>2
<1>. QED  BY <1>3, <1>4, <1>5, <1>6

\* A procedure that has come to its end has prepared the attempt.
LEMMA ReadyIsReady == HostInv /\ step = "ready" => AttemptReady
BY DEF HostInv, HostTypeOK, Progress, Behind, Refusal, AttemptReady

LEMMA HostStarts == HostInit => HostInv
<1>. SUFFICES ASSUME HostInit PROVE HostInv
  OBVIOUS
<1>1. HostTypeOK
  BY DEF HostInit, HostTypeOK, NoScan, NoSnapshot, Adverts, Flags
<1>2. Retained
  BY DEF HostInit, Retained, NoScan, NoSnapshot
<1>3. Progress
  BY DEF HostInit, Progress, Behind
<1>. QED  BY <1>1, <1>2, <1>3 DEF HostInv

\* Each scan keeps the pairing advertisement it heard.
LEMMA RetainedIsKept == HostInv => PairingRetained
BY DEF HostInv, Retained, PairingRetained
-----------------------------------------------------------------------------
(***************************************************************************)
(* connected_client.                                                       *)
(***************************************************************************)
\* The part of TypeOK that is connected_client's own.
ClientTypeOK ==
  /\ pc \in {"attempt", "resolve", "rediscover", "info", "info_scan", "sudo", "prepare",
             "connect", "read_state", "open", "stage", "pair", "wait_paired", "rewrite",
             "body", "closed"}
  /\ attempt \in 1..MaxAttempts /\ resolved \in BOOLEAN
  /\ target \in {"none", "object_path", "ready_scan", "resolve_scan", "address"}
  /\ demand \in {"none", "blocked", "encryption"}
  /\ bodyError \in {"none", "body", "body_retry", "exit"}
  /\ raised \in {"none", "busy", "sudo", "scan", "setup", "invisible", "not_pairing",
                 "parameters", "connect", "bleak", "wait_for_state", "body", "second_yield"}
                 \cup Retryable

\* A procedure of the host runs exactly where connected_client awaits one.
Placed ==
  /\ pc \in {"resolve", "rediscover", "info_scan"} => step \in Preflighting
  /\ pc = "prepare" => step \in Preparing
  /\ pc \notin {"resolve", "rediscover", "info_scan", "prepare"} => step = "idle"

\* What is known between the preparation and the choice of the Bleak target.
Prepped ==
  /\ ConnectWhenReady /\ TargetFresh
  /\ pc \in {"connect", "read_state"} => snapshot.visible

\* What the second descriptor write and the body rest on.
Secured ==
  /\ BodySecured
  /\ pc = "rewrite" => device.paired

ClientInv == HostInv /\ ClientTypeOK /\ Placed /\ Prepped /\ Secured

Errors == {"busy", "sudo", "connect", "bleak", "wait_for_state", "body", "none", "scan", "setup",
           "invisible", "not_pairing", "parameters"} \cup Retryable
-----------------------------------------------------------------------------
\* The except clause keeps its counters and errors in their types, and makes no call.
LEMMA FailKeeps ==
  ASSUME ClientTypeOK, NEW e \in Errors, Fail(e),
         bodyError' \in {"none", "body", "body_retry", "exit"}
  PROVE  ClientTypeOK' /\ pc' \in {"attempt", "closed"}
BY AttemptsAssumption DEF ClientTypeOK, Fail, Errors, Retryable

\* Leaving the Bleak client, or reporting its link, while no procedure runs.
LEMMA YieldKeeps ==
  ASSUME HostInv, ClientTypeOK, step = "idle", Yield, UNCHANGED hostButDevice,
         demand' \in {"none", "blocked", "encryption"}
  PROVE  /\ HostInv' /\ ClientTypeOK' /\ pc' \in {"body", "closed"} /\ step' = "idle"
         /\ device'.paired = device.paired
<1>1. ClientTypeOK' /\ pc' \in {"body", "closed"} /\ step' = "idle"
  BY DEF Yield, ClientTypeOK, hostButDevice
<1>2. CASE bodyError = "none"
  BY <1>1, <1>2, IdleKeeps DEF Yield, hostButDevice, HostInv, HostTypeOK
<1>3. CASE bodyError # "none"
  BY <1>1, <1>3, SetConnectedKeeps DEF Yield, Drop, hostButDevice
<1>. QED  BY <1>2, <1>3

\* The steps of connected_client that leave the host as it is.
LEMMA LocalSteps ==
  ASSUME ClientInv,
         \/ ControllerBusy \/ InfoKnown \/ SudoRefused \/ ConnectAccepted \/ ConnectRefused
         \/ StagePair \/ Pair
  PROVE  ClientInv'
<1>. USE DEF ClientInv
<1>1. UNCHANGED hostVars /\ HostInv'
  BY DEF ControllerBusy, InfoKnown, SudoRefused, ConnectAccepted, ConnectRefused,
     StagePair, Pair,
         hostVars, HostInv, HostTypeOK, Retained, Progress
<1>2. CASE ControllerBusy \/ SudoRefused \/ ConnectRefused
  <2>1. PICK e \in {"busy", "sudo", "connect", "in_progress"} : Fail(e)
    BY <1>2 DEF ControllerBusy, SudoRefused, ConnectRefused, Texts
  <2>2. ClientTypeOK' /\ pc' \in {"attempt", "closed"}
    BY <1>2, <2>1, FailKeeps DEF ControllerBusy, SudoRefused, ConnectRefused, Errors,
       Retryable, ClientTypeOK
  <2>3. step = "idle" /\ step' = "idle"
    BY <1>1, <1>2 DEF ControllerBusy, SudoRefused, ConnectRefused, Placed, hostVars
  <2>. QED  BY <1>1, <2>2, <2>3 DEF Placed, Prepped, Secured, ConnectWhenReady,
               TargetFresh, BodySecured
<1>3. CASE InfoKnown \/ StagePair \/ Pair
  <2>1. /\ ClientTypeOK' /\ pc \in {"info", "stage", "pair"}
        /\ pc' \in {"sudo", "pair", "wait_paired"}
    BY <1>3 DEF InfoKnown, StagePair, Pair, Goto, ClientTypeOK
  <2>. QED  BY <1>1, <2>1 DEF Placed, Prepped, Secured, ConnectWhenReady, TargetFresh,
               BodySecured, hostVars
<1>4. CASE ConnectAccepted
  <2>1. /\ ClientTypeOK' /\ pc = "read_state" /\ pc' = "open"
        /\ target' \in {"object_path", "ready_scan"}
    BY <1>4 DEF ConnectAccepted, ScanHandle, ClientTypeOK, Prepped
  <2>. QED  BY <1>1, <2>1 DEF Placed, Prepped, Secured, ConnectWhenReady, TargetFresh,
               BodySecured, hostVars
<1>. QED  BY <1>2, <1>3, <1>4

\* The calls of the host's procedures.
LEMMA CallSteps ==
  ASSUME ClientInv, Resolve \/ Rediscover \/ InfoUnavailable \/ SudoReady
  PROVE  ClientInv'
<1>. USE DEF ClientInv
<1>1. HostInv'
  <2>1. step \notin {"preflight", "scan"}
    BY DEF Resolve, Rediscover, InfoUnavailable, SudoReady, Placed
  <2>2. (CallPreflight \/ CallPrepare) /\ UNCHANGED <<bike, device, powered>>
    BY DEF Resolve, Rediscover, InfoUnavailable, SudoReady, hostButStep
  <2>. QED  BY <2>1, <2>2, CallKeeps
<1>2. ClientTypeOK'
  BY DEF Resolve, Rediscover, InfoUnavailable, SudoReady, Goto, ClientTypeOK
<1>3. Placed'
  BY CommandList DEF Resolve, Rediscover, InfoUnavailable, SudoReady, Goto, CallPreflight,
     CallPrepare,
         Placed, Preflighting, Preparing
<1>4. Prepped' /\ Secured'
  BY DEF Resolve, Rediscover, InfoUnavailable, SudoReady, Goto, Prepped, Secured,
     ConnectWhenReady,
         TargetFresh, BodySecured
<1>. QED  BY <1>1, <1>2, <1>3, <1>4

\* Their returns: the attempt is ready when prepare_connect_attempt comes back.
LEMMA ReturnSteps ==
  ASSUME ClientInv, Resolved \/ InfoScanned \/ Prepared \/ HostRaises
  PROVE  ClientInv'
<1>. USE DEF ClientInv
<1>1. HostInv' /\ step' = "idle"
  <2>1. /\ step \notin {"preflight", "scan"} /\ HostReturn
        /\ UNCHANGED <<bike, device, powered>>
    BY DEF Resolved, InfoScanned, Prepared, HostRaises, hostButStep
  <2>. QED  BY <2>1, CallKeeps DEF HostReturn
<1>2. CASE Resolved \/ InfoScanned
  <2>1. ClientTypeOK' /\ pc' \in {"info", "sudo"}
    BY <1>2 DEF Resolved, InfoScanned, Goto, ClientTypeOK, HostInv, HostTypeOK
  <2>. QED  BY <1>1, <2>1 DEF Placed, Prepped, Secured, ConnectWhenReady, TargetFresh,
               BodySecured
<1>3. CASE Prepared
  <2>1. ClientTypeOK' /\ pc' = "connect"
    BY <1>3 DEF Prepared, Goto, ClientTypeOK
  <2>2. AttemptReady /\ UNCHANGED <<setup, snapshot>>
    BY <1>3, ReadyIsReady DEF Prepared, HostReturn
  <2>3. AttemptReady' /\ snapshot'.visible
    BY <2>2 DEF AttemptReady
  <2>. QED
    BY <1>1, <2>1, <2>3 DEF Placed, Prepped, Secured, ConnectWhenReady, TargetFresh,
       BodySecured
<1>4. CASE HostRaises
  <2>1. PICK e \in Texts(hostError) : Fail(e)
    BY <1>4 DEF HostRaises
  <2>2. e \in Errors
    BY DEF Texts, Errors, Retryable, HostInv, HostTypeOK
  <2>3. ClientTypeOK' /\ pc' \in {"attempt", "closed"}
    BY <1>4, <2>1, <2>2, FailKeeps DEF HostRaises, ClientTypeOK
  <2>. QED  BY <1>1, <2>3 DEF Placed, Prepped, Secured, ConnectWhenReady, TargetFresh,
               BodySecured
<1>. QED  BY <1>2, <1>3, <1>4

\* The steps that move the link, no procedure running.
LEMMA LinkSteps ==
  ASSUME ClientInv, Connect \/ Open \/ BodyReturns \/ PairingCompletes
  PROVE  ClientInv'
<1>. USE DEF ClientInv
<1>1. step = "idle" /\ step' = "idle"
  BY DEF Connect, Open, BodyReturns, PairingCompletes, hostButDevice, Placed
<1>2. ClientTypeOK' /\ pc' \in {"read_state", "stage", "closed", "wait_paired"}
  BY DEF Connect, Open, BodyReturns, PairingCompletes, Goto, clientVars, ClientTypeOK
<1>3. HostInv'
  <2>1. CASE Connect \/ Open \/ BodyReturns
    BY <1>1, <2>1, SetConnectedKeeps DEF Connect, Open, BodyReturns, Drop, hostButDevice
  <2>2. CASE PairingCompletes
    BY <1>1, <2>2, IdleKeeps DEF PairingCompletes, hostButDevice, HostInv, HostTypeOK
  <2>. QED  BY <2>1, <2>2
<1>4. CASE Connect
  <2>1. pc = "connect" /\ snapshot' = snapshot
    BY <1>4 DEF Connect, hostButDevice
  <2>. QED  BY <1>1, <1>2, <1>3, <2>1, <1>4 DEF Connect, Goto, Placed, Prepped, Secured,
               ConnectWhenReady,
                TargetFresh, BodySecured
<1>5. CASE Open \/ BodyReturns \/ PairingCompletes
  <2>1. pc' \in {"stage", "closed", "wait_paired"}
    BY <1>5 DEF Open, BodyReturns, PairingCompletes, Goto, clientVars
  <2>. QED  BY <1>1, <1>2, <1>3, <2>1 DEF Placed, Prepped, Secured, ConnectWhenReady,
               TargetFresh,
                BodySecured
<1>. QED  BY <1>4, <1>5

\* The failures that leave the Bleak client, its own included.
LEMMA DropSteps ==
  ASSUME ClientInv,
         \/ OpenRaises \/ StageRaises \/ SecurityDrops \/ WaitTimesOut \/ BodyRaises
         \/ ExitRaises
  PROVE  ClientInv'
<1>. USE DEF ClientInv
<1>1. step = "idle" /\ (Drop \/ UNCHANGED <<device, setup>>) /\ UNCHANGED hostButDevice
  BY DEF OpenRaises, StageRaises, SecurityDrops, WaitTimesOut, BodyRaises, ExitRaises, Placed
<1>2. HostInv' /\ step' = "idle"
  <2>1. CASE Drop
    BY <1>1, <2>1, SetConnectedKeeps DEF Drop, hostButDevice
  <2>2. CASE UNCHANGED <<device, setup>>
    BY <1>1, <2>2, IdleKeeps DEF hostButDevice, HostInv, HostTypeOK
  <2>. QED  BY <1>1, <2>1, <2>2
<1>3. PICK e \in {"bleak_retry", "bleak", "security_drop", "wait_for_state", "body_retry",
              "body"} :
        Fail(e) /\ bodyError' \in {"none", "body", "body_retry", "exit"}
  BY DEF OpenRaises, StageRaises, SecurityDrops, WaitTimesOut, BodyRaises, ExitRaises, ClientTypeOK
<1>4. ClientTypeOK' /\ pc' \in {"attempt", "closed"}
  BY <1>3, FailKeeps DEF Errors, Retryable
<1>. QED  BY <1>2, <1>4 DEF Placed, Prepped, Secured, ConnectWhenReady, TargetFresh,
             BodySecured

\* The steps that may yield the client to the body.
LEMMA YieldSteps ==
  ASSUME ClientInv, StageDirect \/ StageAlreadyPaired \/ PairedSeen \/ Rewrite
  PROVE  ClientInv'
<1>. USE DEF ClientInv
<1>1. step = "idle" /\ UNCHANGED hostButDevice
  BY DEF StageDirect, StageAlreadyPaired, PairedSeen, Rewrite, Placed
<1>2. CASE Yield
  <2>1. /\ demand' \in {"none", "blocked", "encryption"}
        /\ demand' = "encryption" => device.paired
    BY <1>2 DEF StageDirect, StageAlreadyPaired, PairedSeen, Rewrite, ClientTypeOK,
       Secured, Goto
  <2>2. /\ HostInv' /\ ClientTypeOK' /\ pc' \in {"body", "closed"} /\ step' = "idle"
        /\ device'.paired = device.paired
    BY <1>1, <1>2, <2>1, YieldKeeps
  <2>. QED  BY <2>1, <2>2 DEF Placed, Prepped, Secured, ConnectWhenReady, TargetFresh,
               BodySecured
<1>3. CASE PairedSeen /\ Goto("rewrite") /\ UNCHANGED <<device, setup>>
  <2>1. HostInv' /\ step' = "idle" /\ device'.paired
    BY <1>1, <1>3, IdleKeeps DEF PairedSeen, hostButDevice, HostInv, HostTypeOK
  <2>2. ClientTypeOK' /\ pc' = "rewrite"
    BY <1>3 DEF Goto, ClientTypeOK
  <2>. QED  BY <2>1, <2>2 DEF Placed, Prepped, Secured, ConnectWhenReady, TargetFresh,
               BodySecured
<1>. QED  BY <1>2, <1>3 DEF StageDirect, StageAlreadyPaired, PairedSeen, Rewrite

\* A step of the host or of the bike.
LEMMA OtherSteps ==
  ASSUME ClientInv, Host \/ Bike
  PROVE  ClientInv'
<1>. USE DEF ClientInv
<1>1. ClientTypeOK' /\ UNCHANGED <<pc, target, demand>>
  BY DEF Host, Bike, clientVars, ClientTypeOK
<1>2. CASE Host
  <2>1. HostInv' /\ device'.paired = device.paired
    BY <1>2, HostStepKeeps, HostStepMoves DEF Host
  <2>2. Placed' /\ pc \in {"resolve", "rediscover", "info_scan", "prepare"}
    BY <1>1, <1>2, HostStepMoves DEF Host, Placed, ClientTypeOK
  <2>. QED  BY <1>1, <2>1, <2>2 DEF Prepped, Secured, ConnectWhenReady, TargetFresh,
               BodySecured
<1>3. CASE Bike
  <2>1. HostInv' /\ device'.paired = device.paired /\ UNCHANGED <<setup, snapshot, step>>
    BY <1>3, BikeStepKeeps, BikeStepLeaves DEF Bike
  <2>. QED
    BY <1>1, <2>1 DEF Placed, Prepped, Secured, ConnectWhenReady, TargetFresh,
       BodySecured, AttemptReady
<1>. QED  BY <1>2, <1>3

\* The invariant that the five properties follow from holds in every reachable state.
THEOREM ClientInvariant == Spec => []ClientInv
<1>1. Init => ClientInv
  <2>. SUFFICES ASSUME Init PROVE ClientInv
    OBVIOUS
  <2>1. HostInv /\ step = "idle"
    BY HostStarts DEF Init, HostInit
  <2>2. ClientTypeOK
    <3>1. 1 \in 1..MaxAttempts
      BY AttemptsAssumption
    <3>. QED  BY <3>1 DEF Init, ClientTypeOK
  <2>. QED  BY <2>1, <2>2 DEF Init, ClientInv, Placed, Prepped, Secured, ConnectWhenReady,
               TargetFresh,
                BodySecured
<1>2. ClientInv /\ [Next]_vars => ClientInv'
  <2>. SUFFICES ASSUME ClientInv, [Next]_vars PROVE ClientInv'
    OBVIOUS
  <2>1. CASE Flow
    BY <2>1, LocalSteps, CallSteps, ReturnSteps, LinkSteps, DropSteps, YieldSteps DEF Flow
  <2>2. CASE Host \/ Bike
    BY <2>2, OtherSteps
  <2>3. CASE PairingCompletes \/ BodyReturns \/ BodyRaises \/ ExitRaises
    BY <2>3, LinkSteps, DropSteps
  <2>4. CASE UNCHANGED vars
    BY <2>4 DEF vars, hostVars, clientVars, ClientInv, HostInv, HostTypeOK, Retained,
       Progress, ClientTypeOK,
       Placed, Prepped, Secured, ConnectWhenReady, TargetFresh, BodySecured, AttemptReady
  <2>. QED  BY <2>1, <2>2, <2>3, <2>4 DEF Next, Terminated
<1>. QED  BY <1>1, <1>2, PTL DEF Spec

\* Every variable keeps its type: however the attempts fail, their number stays within
\* DISCOVERY_RETRY_ATTEMPTS.
THEOREM ClientTyped == Spec => []TypeOK
<1>1. ClientInv => TypeOK
  BY DEF ClientInv, HostInv, ClientTypeOK, TypeOK
<1>. QED  BY <1>1, ClientInvariant, PTL

\* The snapshot of the last scan says what that scan heard, whatever was heard after the
\* pairing advertisement and however many scans came before.
THEOREM SnapshotsRetain == Spec => []PairingRetained
<1>1. ClientInv => PairingRetained
  BY RetainedIsKept DEF ClientInv
<1>. QED  BY <1>1, ClientInvariant, PTL

\* Every connect command meets a controller reset and set up for its own attempt, and a
\* bike that a later scan found ready.
THEOREM ConnectsWhenReady == Spec => []ConnectWhenReady
<1>1. ClientInv => ConnectWhenReady
  BY DEF ClientInv, Prepped
<1>. QED  BY <1>1, ClientInvariant, PTL

\* Bleak never opens on the handle of a scan made before the controller reset.
THEOREM OpensFreshTarget == Spec => []TargetFresh
<1>1. ClientInv => TargetFresh
  BY DEF ClientInv, Prepped
<1>. QED  BY <1>1, ClientInvariant, PTL

\* A body whose bike asked for encryption runs over a completed pairing.
THEOREM BodiesSecured == Spec => []BodySecured
<1>1. ClientInv => BodySecured
  BY DEF ClientInv, Secured
<1>. QED  BY <1>1, ClientInvariant, PTL
-----------------------------------------------------------------------------
(***************************************************************************)
(* assist_connection.                                                      *)
(***************************************************************************)
\* The part of TypeOK that is assist_connection's own.
CallTypeOK ==
  /\ stage \in {"info", "info_scan", "register", "sudo", "prepare", "pair", "pair_failed",
             "trust", "connect", "exit_agent", "read_state", "closed"}
  /\ tries \in 0..MaxTries /\ info \in [paired : Flags, trusted : Flags]
  /\ agent \in {"none", "exported", "registered"}
  /\ failure \in {"none", "transient", "pair", "sudo", "trust", "call", "scan", "setup",
                  "invisible", "not_pairing", "parameters"}
  /\ thrown \in {"none", "agent", "pair", "sudo", "trust", "call", "scan", "setup",
                 "invisible", "not_pairing", "parameters", "connect"}

\* A procedure of the host runs exactly where assist_connection awaits one, and what it
\* raises is an error.
AssistPlaced ==
  /\ stage = "info_scan" => step \in Preflighting
  /\ stage = "prepare" => step \in Preparing
  /\ stage \notin {"info_scan", "prepare"} => step = "idle"
  /\ step = "raised" => hostError # "none"

\* Where the agent is registered; AgentScoped says it of the places that need it.
Scoped ==
  /\ stage \in {"sudo", "prepare", "pair", "pair_failed", "trust", "connect", "exit_agent"} =>
       agent = "registered"
  /\ stage \in {"info", "info_scan", "register", "read_state"} => agent = "none"
  /\ stage = "closed" => agent # "registered"

\* What was read is true, an error is pending only on the way out, and each of the last
\* steps rests on those before it.
Bonded ==
  /\ Truthful
  /\ info.paired = "yes" => device.paired
  /\ info.trusted = "yes" => device.trusted
  /\ stage \notin {"pair_failed", "exit_agent", "closed"} => failure = "none"
  /\ stage = "exit_agent" => failure # "transient"
  /\ stage = "trust" => device.paired
  /\ stage \in {"connect", "read_state"} => device.paired /\ device.trusted
  /\ stage = "exit_agent" /\ failure = "none" => device.paired /\ device.trusted
  /\ stage # "closed" => thrown = "none"
  /\ SuccessIsBonded

\* No try is counted before the first.
Counted == stage \in {"info", "info_scan", "register", "sudo"} => tries = 0

AssistInv == /\ HostInv /\ CallTypeOK /\ AssistPlaced /\ PairWhenReady
             /\ Scoped /\ Bonded /\ Counted
-----------------------------------------------------------------------------
\* The steps of assist_connection that leave the host as it is.
LEMMA AssistLocalSteps ==
  ASSUME AssistInv,
         \/ ReadInfo \/ Register \/ RegisterFails \/ ExitAgent \/ TrySudoRefused \/ PairedAnyway
         \/ PairGivenUp \/ AlreadyTrusted \/ TrustedAnyway \/ TrustFails
         \/ ReadRaises \/ StateAccepted \/ StateRefused
  PROVE  AssistInv'
<1>. USE DEF AssistInv
<1>1. UNCHANGED hostVars
  BY DEF ReadInfo, Register, RegisterFails, ExitAgent, TrySudoRefused, PairedAnyway, PairGivenUp,
     AlreadyTrusted, TrustedAnyway, TrustFails, ReadRaises, StateAccepted, StateRefused
<1>2. HostInv' /\ Truthful'
  BY <1>1 DEF hostVars, HostInv, HostTypeOK, Retained, Progress, Truthful, Bonded
<1>3. CASE ReadInfo
  BY <1>1, <1>2, <1>3 DEF ReadInfo, hostVars, Read, Flag, Flags, CallTypeOK, AssistPlaced,
     PairWhenReady, Scoped, Bonded, Counted, SuccessIsBonded
<1>4. CASE Register
  BY <1>1, <1>2, <1>4 DEF Register, hostVars, CallTypeOK, AssistPlaced, PairWhenReady, Scoped,
     Bonded, Counted, SuccessIsBonded
<1>5. CASE RegisterFails
  BY <1>1, <1>2, <1>5 DEF RegisterFails, hostVars, CallTypeOK, AssistPlaced, PairWhenReady, Scoped,
     Bonded, Counted, SuccessIsBonded
<1>6. CASE ExitAgent
  BY <1>1, <1>2, <1>6 DEF ExitAgent, hostVars, CallTypeOK, AssistPlaced, PairWhenReady, Scoped,
     Bonded, Counted, SuccessIsBonded
<1>7. CASE TrySudoRefused \/ PairGivenUp \/ TrustFails
  <2>1. PICK e \in {"sudo", "pair", "trust"} : Throw(e)
    BY <1>7 DEF TrySudoRefused, PairGivenUp, TrustFails
  <2>2. stage \in {"sudo", "pair_failed", "trust"}
    BY <1>7 DEF TrySudoRefused, PairGivenUp, TrustFails
  <2>. QED  BY <1>1, <1>2, <2>1, <2>2 DEF Throw, hostVars, CallTypeOK, AssistPlaced, PairWhenReady,
                Scoped, Bonded, Counted, SuccessIsBonded
<1>8. CASE PairedAnyway
  BY <1>1, <1>2, <1>8 DEF PairedAnyway, hostVars, CallTypeOK, AssistPlaced, PairWhenReady, Scoped,
     Bonded, Counted, SuccessIsBonded
<1>9. CASE AlreadyTrusted \/ TrustedAnyway
  BY <1>1, <1>2, <1>9 DEF AlreadyTrusted, TrustedAnyway, GoOn, hostVars, CallTypeOK, AssistPlaced,
     PairWhenReady, Scoped, Bonded, Counted, SuccessIsBonded
<1>10. CASE StateAccepted \/ StateRefused
  BY <1>1, <1>2, <1>10 DEF StateAccepted, StateRefused, GoOn, hostVars, CallTypeOK, AssistPlaced,
     PairWhenReady, Scoped, Bonded, Counted, SuccessIsBonded
<1>11. CASE ReadRaises
  BY <1>1, <1>2, <1>11 DEF ReadRaises, hostVars, CallTypeOK, AssistPlaced, PairWhenReady, Scoped,
     Bonded, Counted, SuccessIsBonded
<1>. QED  BY <1>3, <1>4, <1>5, <1>6, <1>7, <1>8, <1>9, <1>10, <1>11

\* The calls of the host's procedures: every try begins with one.
LEMMA AssistCalls ==
  ASSUME AssistInv, StateUnavailable \/ TrySudoReady \/ RetryPair
  PROVE  AssistInv'
<1>. USE DEF AssistInv
<1>1. /\ step = "idle" /\ (CallPreflight \/ CallPrepare)
      /\ UNCHANGED <<bike, device, powered>> /\ UNCHANGED <<snapshot, hostError>>
  BY DEF StateUnavailable, TrySudoReady, RetryPair, AssistPlaced, hostButStep, CallPreflight, CallPrepare
<1>2. HostInv' /\ Truthful'
  BY <1>1, CallKeeps DEF Truthful, Bonded
<1>3. CallTypeOK'
  BY TriesAssumption DEF StateUnavailable, TrySudoReady, RetryPair, GoOn, CallTypeOK, Counted
<1>4. AssistPlaced'
  BY <1>1, CommandList DEF StateUnavailable, TrySudoReady, RetryPair, GoOn, CallPreflight,
     CallPrepare, AssistPlaced, Preflighting, Preparing
<1>5. PairWhenReady' /\ Scoped' /\ Counted'
  BY DEF StateUnavailable, TrySudoReady, RetryPair, GoOn, PairWhenReady, Scoped, Counted
<1>6. Bonded'
  BY <1>1, <1>2 DEF StateUnavailable, TrySudoReady, RetryPair, GoOn, Bonded, SuccessIsBonded
<1>. QED  BY <1>2, <1>3, <1>4, <1>5, <1>6

\* Their returns: the try is ready when prepare_connect_attempt comes back.
LEMMA AssistReturns ==
  ASSUME AssistInv, StateScanned \/ TryPrepared \/ TryRaises
  PROVE  AssistInv'
<1>. USE DEF AssistInv
<1>1. /\ step \in {"scanned", "ready", "raised"} /\ HostReturn
      /\ UNCHANGED <<bike, device, powered>>
  BY DEF StateScanned, TryPrepared, TryRaises, hostButStep
<1>2. HostInv' /\ Truthful' /\ step' = "idle" /\ hostError' = "none"
  BY <1>1, CallKeeps DEF HostReturn, Truthful, Bonded
<1>3. CASE StateScanned \/ TryPrepared
  <2>1. info' = [paired |-> snapshot.paired, trusted |-> snapshot.trusted]
    BY <1>3 DEF StateScanned, TryPrepared, TakeSnapshot
  <2>2. CallTypeOK'
    BY <1>3, <2>1 DEF StateScanned, TryPrepared, CallTypeOK, HostInv, HostTypeOK
  <2>3. PairWhenReady'
    <3>1. CASE TryPrepared
      BY <3>1, <1>1, ReadyIsReady DEF TryPrepared, HostReturn, PairWhenReady, AttemptReady
    <3>2. CASE StateScanned
      BY <3>2 DEF StateScanned, PairWhenReady
    <3>. QED  BY <1>3, <3>1, <3>2
  <2>4. Bonded'
    BY <1>1, <1>2, <1>3, <2>1 DEF StateScanned, TryPrepared, Bonded, Truthful, SuccessIsBonded
  <2>5. AssistPlaced' /\ Scoped' /\ Counted'
    BY <1>2, <1>3 DEF StateScanned, TryPrepared, AssistPlaced, Scoped, Counted
  <2>. QED  BY <1>2, <2>2, <2>3, <2>4, <2>5
<1>4. CASE TryRaises
  <2>1. /\ stage \in {"info_scan", "prepare"} /\ stage' \in {"exit_agent", "closed"}
        /\ hostError \notin {"none", "transient"} /\ UNCHANGED <<tries, info, agent>>
    BY <1>4 DEF TryRaises, Throw, AssistPlaced, CallTypeOK, HostInv, HostTypeOK
  <2>2. CallTypeOK'
    BY <1>4, <2>1 DEF TryRaises, Throw, CallTypeOK, HostInv, HostTypeOK
  <2>3. AssistPlaced' /\ PairWhenReady' /\ Counted'
    BY <1>2, <2>1 DEF AssistPlaced, PairWhenReady, Counted
  <2>4. Scoped' /\ Bonded'
    BY <1>1, <1>2, <1>4, <2>1 DEF TryRaises, Throw, Scoped, Bonded, SuccessIsBonded
  <2>. QED  BY <1>2, <2>2, <2>3, <2>4
<1>. QED  BY <1>3, <1>4

\* The steps that change BlueZ's view of the device: it may be paired, trusted or
\* connected by them, and is never unpaired.
LEMMA AssistDeviceSteps ==
  ASSUME AssistInv,
         PairSucceeds \/ PairFails \/ SetTrusted \/ ConnectBonded \/ CallRaises
  PROVE  AssistInv'
<1>. USE DEF AssistInv
<1>1. step = "idle" /\ UNCHANGED hostButDevice
  BY DEF PairSucceeds, PairFails, SetTrusted, ConnectBonded, CallRaises, PairLeaves,
     ConnectLeaves, AssistPlaced
<1>2. /\ device' \in [paired : BOOLEAN, trusted : BOOLEAN, connected : BOOLEAN]
      /\ device.paired => device'.paired
      /\ device.trusted => device'.trusted
  <2>1. device \in [paired : BOOLEAN, trusted : BOOLEAN, connected : BOOLEAN]
    BY DEF HostInv, HostTypeOK
  <2>2. CASE PairSucceeds
    BY <2>1, <2>2 DEF PairSucceeds
  <2>3. CASE PairLeaves
    BY <2>1, <2>3 DEF PairLeaves
  <2>4. CASE SetTrusted
    BY <2>1, <2>4 DEF SetTrusted
  <2>5. CASE ConnectLeaves
    BY <2>1, <2>5 DEF ConnectLeaves, SetConnected
  <2>6. CASE UNCHANGED <<device, setup>>
    BY <2>1, <2>6
  <2>. QED  BY <2>2, <2>3, <2>4, <2>5, <2>6 DEF PairFails, ConnectBonded, CallRaises
<1>3. setup' \in {setup, setup \ {"parameters"}}
  BY DEF PairSucceeds, PairFails, SetTrusted, ConnectBonded, CallRaises, PairLeaves,
     ConnectLeaves, SetConnected
<1>4. HostInv' /\ Truthful'
  BY <1>1, <1>2, <1>3, IdleKeeps DEF hostButDevice, Truthful, Bonded
<1>5. CallTypeOK'
  BY DEF PairSucceeds, PairFails, SetTrusted, ConnectBonded, CallRaises, GoOn, Throw, CallTypeOK
<1>6. AssistPlaced' /\ PairWhenReady' /\ Scoped' /\ Counted'
  BY <1>1 DEF PairSucceeds, PairFails, PairLeaves, SetTrusted, ConnectBonded, ConnectLeaves,
     CallRaises, GoOn, Throw, hostButDevice, AssistPlaced, PairWhenReady, Scoped, Counted
<1>7. Bonded'
  <2>1. device \in [paired : BOOLEAN, trusted : BOOLEAN, connected : BOOLEAN]
    BY DEF HostInv, HostTypeOK
  <2>2. CASE PairSucceeds
    BY <1>2, <1>4, <2>1, <2>2 DEF PairSucceeds, GoOn, Bonded, SuccessIsBonded
  <2>3. CASE PairFails
    BY <1>2, <1>4, <2>3 DEF PairFails, PairLeaves, Bonded, SuccessIsBonded
  <2>4. CASE SetTrusted
    BY <1>2, <1>4, <2>1, <2>4 DEF SetTrusted, GoOn, Bonded, SuccessIsBonded
  <2>5. CASE ConnectBonded
    BY <1>2, <1>4, <2>5 DEF ConnectBonded, ConnectLeaves, GoOn, Bonded, SuccessIsBonded
  <2>6. CASE CallRaises
    <3>1. stage \notin {"exit_agent", "closed"}
      BY <2>6 DEF CallRaises, PairLeaves, ConnectLeaves
    <3>. QED  BY <1>2, <1>4, <2>6, <3>1 DEF CallRaises, Throw, Bonded, SuccessIsBonded
  <2>. QED  BY <2>2, <2>3, <2>4, <2>5, <2>6
<1>. QED  BY <1>4, <1>5, <1>6, <1>7

\* A step of the host or of the bike.
LEMMA AssistOtherSteps ==
  ASSUME AssistInv, AssistHost \/ AssistBike
  PROVE  AssistInv'
<1>. USE DEF AssistInv
<1>1. CallTypeOK' /\ UNCHANGED callVars
  BY DEF AssistHost, AssistBike, callVars, CallTypeOK
<1>2. Truthful' /\ device'.paired = device.paired /\ device'.trusted = device.trusted
  BY TruthKeeps, HostStepMoves, BikeStepLeaves DEF AssistHost, AssistBike, Bonded
<1>3. Bonded' /\ Scoped' /\ Counted'
  BY <1>1, <1>2 DEF callVars, Bonded, SuccessIsBonded, Scoped, Counted
<1>4. CASE AssistHost
  BY <1>1, <1>3, <1>4, HostStepKeeps, HostStepMoves DEF AssistHost, callVars, AssistPlaced, PairWhenReady
<1>5. CASE AssistBike
  BY <1>1, <1>3, <1>5, BikeStepKeeps, BikeStepLeaves DEF AssistBike, callVars, AssistPlaced,
     PairWhenReady, AttemptReady
<1>. QED  BY <1>4, <1>5

\* The invariant that the four properties follow from holds in every reachable state.
THEOREM AssistInvariant == AssistSpec => []AssistInv
<1>1. AssistInit => AssistInv
  <2>. SUFFICES ASSUME AssistInit PROVE AssistInv
    OBVIOUS
  <2>1. HostInv /\ step = "idle" /\ hostError = "none"
    BY HostStarts DEF AssistInit, HostInit
  <2>2. CallTypeOK
    <3>1. 0 \in 0..MaxTries
      BY TriesAssumption
    <3>. QED  BY <3>1 DEF AssistInit, CallTypeOK, Flags
  <2>3. Bonded
    BY DEF AssistInit, HostInit, NoSnapshot, Bonded, Truthful, SuccessIsBonded
  <2>. QED  BY <2>1, <2>2, <2>3 DEF AssistInit, AssistInv, AssistPlaced, PairWhenReady, Scoped, Counted
<1>2. AssistInv /\ [AssistNext]_assistVars => AssistInv'
  <2>. SUFFICES ASSUME AssistInv, [AssistNext]_assistVars PROVE AssistInv'
    OBVIOUS
  <2>1. CASE Assist
    BY <2>1, AssistLocalSteps, AssistCalls, AssistReturns, AssistDeviceSteps DEF Assist
  <2>2. CASE AssistHost \/ AssistBike
    BY <2>2, AssistOtherSteps
  <2>3. CASE UNCHANGED assistVars
    BY <2>3 DEF assistVars, hostVars, callVars, AssistInv, HostInv, HostTypeOK, Retained, Progress,
       CallTypeOK, AssistPlaced, PairWhenReady, AttemptReady, Scoped, Bonded, Truthful,
       SuccessIsBonded, Counted
  <2>. QED  BY <2>1, <2>2, <2>3 DEF AssistNext, AssistTerminated
<1>. QED  BY <1>1, <1>2, PTL DEF AssistSpec

\* Every variable keeps its type; the pairing loop never begins more tries than its bound.
THEOREM AssistTyped == AssistSpec => []AssistTypeOK
<1>1. AssistInv => AssistTypeOK
  BY DEF AssistInv, HostInv, CallTypeOK, AssistTypeOK
<1>. QED  BY <1>1, AssistInvariant, PTL

\* Every pairing try, first or retried, is made in a controller reset and set up for it,
\* after a scan that found the bike ready.
THEOREM PairsWhenReady == AssistSpec => []PairWhenReady
<1>1. AssistInv => PairWhenReady
  BY DEF AssistInv
<1>. QED  BY <1>1, AssistInvariant, PTL

\* The agent is there as long as the device may pair, trust or connect, and is withdrawn
\* from BlueZ on every way out.
THEOREM AgentIsScoped == AssistSpec => []AgentScoped
<1>1. AssistInv => AgentScoped
  BY DEF AssistInv, Scoped, AgentScoped
<1>. QED  BY <1>1, AssistInvariant, PTL

\* assist_connection returns without an error only for a device that BlueZ has paired
\* with and trusts, whichever commands reported a failure on the way.
THEOREM SuccessesAreBonded == AssistSpec => []SuccessIsBonded
<1>1. AssistInv => SuccessIsBonded
  BY DEF AssistInv, Bonded
<1>. QED  BY <1>1, AssistInvariant, PTL
=============================================================================
