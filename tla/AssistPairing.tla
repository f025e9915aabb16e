--------------------------- MODULE AssistPairing ---------------------------
(***************************************************************************)
(* assist_connection of src/bosch_ble/bluez.py, which the pairing          *)
(* diagnostic runs: under a BlueZ pairing agent, up to three prepared      *)
(* pairing attempts if the device is not paired, then trust, then connect. *)
(* The host procedures are BluezHost's.                                    *)
(*                                                                         *)
(* Assumption: nobody removes the bond or the trust while this runs.  The  *)
(* last check of the code (StateAccepted) looks at the link only.          *)
(***************************************************************************)
EXTENDS BluezHost

CONSTANT MaxTries   \* the three attempts of the pairing loop

ASSUME TriesAssumption == MaxTries \in Nat \ {0}

VARIABLES
  stage,    \* where assist_connection stands
  tries,    \* pairing attempts begun
  info,     \* info_state: what was read of the device before pairing and trusting
  agent,    \* the D-Bus agent: "none", "exported" on an open bus, "registered"
  failure,  \* the error being raised through the `async with pairing_agent'
  thrown    \* what assist_connection raises

callVars == <<stage, tries, info, agent, failure, thrown>>
assistVars == <<hostVars, callVars>>

AssistInit ==
  /\ HostInit
  /\ stage = "info" /\ tries = 0 /\ agent = "none" /\ failure = "none" /\ thrown = "none"
  /\ info = [paired |-> "unknown", trusted |-> "unknown"]

GoOn(p) == stage' = p /\ UNCHANGED <<tries, info, agent, failure, thrown>>

\* An error inside the `async with': the agent is withdrawn before it leaves.
Throw(e) == stage' = "exit_agent" /\ failure' = e /\ UNCHANGED <<tries, info, agent, thrown>>
----------------------------------------------------------------------------
\* `bluetoothctl info', or the state read by a scan if that does not know the device.
ReadInfo ==
  /\ stage = "info"
  /\ \E p \in Read(device.paired), t \in Read(device.trusted) :
       info' = [paired |-> p, trusted |-> t]
  /\ stage' = "register"
  /\ UNCHANGED <<hostVars, tries, agent, failure, thrown>>

StateUnavailable ==
  /\ stage = "info" /\ ~device.paired
  /\ GoOn("info_scan") /\ CallPreflight /\ UNCHANGED hostButStep

TakeSnapshot == info' = [paired |-> snapshot.paired, trusted |-> snapshot.trusted]

StateScanned ==
  /\ stage = "info_scan" /\ step = "scanned"
  /\ TakeSnapshot /\ stage' = "register" /\ HostReturn
  /\ UNCHANGED <<hostButStep, tries, agent, failure, thrown>>

(***************************************************************************)
(* pairing_agent.                                                          *)
(***************************************************************************)
\* The agent is exported on a D-Bus connection, registered and made the default.
Register ==
  /\ stage = "register" /\ agent' = "registered"
  /\ stage' = IF info.paired = "yes" THEN "trust" ELSE "sudo"
  /\ UNCHANGED <<hostVars, tries, info, failure, thrown>>

\* Registration is outside the try: if it fails, the bus is left open with the agent
\* exported.  If the request to be the default agent fails, the bus is closed.
RegisterFails ==
  /\ stage = "register" /\ agent' \in {"none", "exported"}
  /\ stage' = "closed" /\ thrown' = "agent"
  /\ UNCHANGED <<hostVars, tries, info, failure>>

\* Mutant: an error leaves the context without withdrawing the agent.
ExitAgentUnlessError ==
  /\ stage = "exit_agent" /\ agent' = IF failure = "none" THEN "none" ELSE agent
  /\ \/ failure # "none" /\ stage' = "closed" /\ thrown' = failure
     \/ failure = "none" /\ stage' = "read_state" /\ thrown' = thrown
  /\ UNCHANGED <<hostVars, tries, info, failure>>

\* The context is left: the agent is unregistered (a failure is ignored), unexported
\* and its bus closed.  A pending error goes on; otherwise the state is read.
ExitAgent ==
  /\ stage = "exit_agent" /\ agent' = "none"
  /\ \/ failure # "none" /\ stage' = "closed" /\ thrown' = failure
     \/ failure = "none" /\ stage' = "read_state" /\ thrown' = thrown
  /\ UNCHANGED <<hostVars, tries, info, failure>>
----------------------------------------------------------------------------
(***************************************************************************)
(* The pairing loop.                                                       *)
(***************************************************************************)
TrySudoReady ==
  /\ stage = "sudo" /\ stage' = "prepare" /\ tries' = tries + 1 /\ CallPrepare
  /\ UNCHANGED <<hostButStep, info, agent, failure, thrown>>

TrySudoRefused == stage = "sudo" /\ Throw("sudo") /\ UNCHANGED hostVars

TryPrepared ==
  /\ stage = "prepare" /\ step = "ready"
  /\ TakeSnapshot /\ stage' = "pair" /\ HostReturn
  /\ UNCHANGED <<hostButStep, tries, agent, failure, thrown>>

TryRaises ==
  /\ step = "raised" /\ HostReturn /\ UNCHANGED hostButStep
  /\ \/ agent = "registered" /\ Throw(hostError)
     \/ /\ agent # "registered" /\ stage' = "closed" /\ thrown' = hostError
        /\ UNCHANGED <<tries, info, agent, failure>>

\* Device1.Pair (or btmgmt pair) reports success: BlueZ is paired and connected.
PairSucceeds ==
  /\ stage = "pair" /\ bike # "off"
  /\ device' = [device EXCEPT !.paired = TRUE, !.connected = TRUE]
  /\ setup' = setup \ {"parameters"}
  /\ GoOn("trust") /\ UNCHANGED hostButDevice

\* Without a success, the device may be paired all the same, and the link may have been
\* up, which is enough for BlueZ to cache other parameters.
PairLeaves ==
  /\ stage = "pair"
  /\ \E p \in {TRUE, device.paired}, up \in {FALSE, bike # "off"} :
       device' = [device EXCEPT !.paired = p, !.connected = up]
  /\ setup' \in {setup, setup \ {"parameters"}}

\* It reports a failure, transient or not.
PairFails ==
  /\ PairLeaves
  /\ \E e \in {"transient", "pair"} : stage' = "pair_failed" /\ failure' = e
  /\ UNCHANGED <<hostButDevice, tries, info, agent, thrown>>

\* The state is read: if it says paired the loop ends, whatever the command reported.
PairedAnyway ==
  /\ stage = "pair_failed" /\ device.paired
  /\ stage' = "trust" /\ failure' = "none"
  /\ UNCHANGED <<hostVars, tries, info, agent, thrown>>

\* Mutant: the next try pairs at once, in the controller as it is.
RetryUnprepared ==
  /\ stage = "pair_failed" /\ failure = "transient" /\ tries < MaxTries
  /\ stage' = "pair" /\ tries' = tries + 1 /\ failure' = "none"
  /\ UNCHANGED <<hostVars, info, agent, thrown>>

\* Mutant: the tries are not counted.
RetryUncounted ==
  /\ stage = "pair_failed" /\ failure = "transient"
  /\ stage' = "prepare" /\ failure' = "none" /\ CallPrepare
  /\ UNCHANGED <<hostButStep, tries, info, agent, thrown>>

\* A transient failure is tried again from the controller reset on.
RetryPair ==
  /\ stage = "pair_failed" /\ \E f \in Read(device.paired) : f # "yes"
  /\ failure = "transient" /\ tries < MaxTries
  /\ stage' = "prepare" /\ tries' = tries + 1 /\ failure' = "none" /\ CallPrepare
  /\ UNCHANGED <<hostButStep, info, agent, thrown>>

PairGivenUp ==
  /\ stage = "pair_failed" /\ \E f \in Read(device.paired) : f # "yes"
  /\ failure # "transient" \/ tries = MaxTries
  /\ Throw("pair") /\ UNCHANGED hostVars
----------------------------------------------------------------------------
(***************************************************************************)
(* Trust and connect.                                                      *)
(***************************************************************************)
AlreadyTrusted ==
  /\ stage = "trust" /\ info.trusted = "yes" /\ GoOn("connect") /\ UNCHANGED hostVars

\* Trusted is set; a failure is fatal only if the device does not turn out trusted.
SetTrusted ==
  /\ stage = "trust" /\ info.trusted # "yes"
  /\ device' = [device EXCEPT !.trusted = TRUE]
  /\ GoOn("connect") /\ UNCHANGED <<hostButDevice, setup>>

TrustedAnyway ==
  /\ stage = "trust" /\ info.trusted # "yes" /\ device.trusted
  /\ GoOn("connect") /\ UNCHANGED hostVars

\* Mutant: a failure to trust is ignored.
TrustShrugged ==
  /\ stage = "trust" /\ info.trusted # "yes" /\ GoOn("connect") /\ UNCHANGED hostVars

TrustFails ==
  /\ stage = "trust" /\ info.trusted # "yes"
  /\ \E f \in Read(device.trusted) : f # "yes"
  /\ Throw("trust") /\ UNCHANGED hostVars

\* `bluetoothctl connect' runs, to whatever end.
ConnectLeaves ==
  /\ stage = "connect" /\ \E up \in {device.connected, bike # "off"} : SetConnected(up)

\* Then the context of the agent ends.
ConnectBonded == ConnectLeaves /\ GoOn("exit_agent") /\ UNCHANGED hostButDevice

\* A call raises instead of reporting its failure: D-Bus cannot be reached (the connect of
\* MessageBus is outside the try), or a command passes its time-out.
CallRaises ==
  /\ \/ PairLeaves \/ ConnectLeaves
     \/ /\ \/ stage = "pair_failed"
           \/ stage = "trust" /\ info.trusted # "yes"
        /\ UNCHANGED <<device, setup>>
  /\ Throw("call") /\ UNCHANGED hostButDevice

\* The same outside the context of the agent, where the state is read.
ReadRaises ==
  /\ stage \in {"info", "read_state"} /\ stage' = "closed" /\ thrown' = "call"
  /\ UNCHANGED <<hostVars, tries, info, agent, failure>>

\* The last check: it looks at the link, not at the bond.
StateAccepted ==
  /\ stage = "read_state" /\ \E f \in Read(device.connected) : f # "no"
  /\ GoOn("closed") /\ UNCHANGED hostVars

StateRefused ==
  /\ stage = "read_state" /\ \E f \in Read(device.connected) : f # "yes"
  /\ stage' = "closed" /\ thrown' = "connect"
  /\ UNCHANGED <<hostVars, tries, info, agent, failure>>

AssistTerminated == stage = "closed" /\ UNCHANGED assistVars

Assist ==
  \/ ReadInfo \/ StateUnavailable \/ StateScanned
  \/ Register \/ RegisterFails \/ ExitAgent
  \/ TrySudoReady \/ TrySudoRefused \/ TryPrepared \/ TryRaises
  \/ PairSucceeds \/ PairFails \/ PairedAnyway \/ RetryPair \/ PairGivenUp
  \/ AlreadyTrusted \/ SetTrusted \/ TrustedAnyway \/ TrustFails
  \/ ConnectBonded \/ CallRaises \/ ReadRaises \/ StateAccepted \/ StateRefused

AssistHost == HostStep /\ UNCHANGED callVars
AssistBike == BikeStep /\ UNCHANGED callVars

AssistNext == Assist \/ AssistHost \/ AssistBike \/ AssistTerminated

\* The commands, scans and D-Bus calls all end, by success or by time-out.
AssistFairness == WF_assistVars(Assist) /\ WF_assistVars(AssistHost)

AssistSpec == AssistInit /\ [][AssistNext]_assistVars /\ AssistFairness
----------------------------------------------------------------------------
(***************************************************************************)
(* Properties.                                                             *)
(***************************************************************************)
\* Every variable keeps its type, and the tries stay within their bound.
AssistTypeOK ==
  /\ HostTypeOK
  /\ stage \in {"info", "info_scan", "register", "sudo", "prepare", "pair", "pair_failed",
             "trust", "connect", "exit_agent", "read_state", "closed"}
  /\ tries \in 0..MaxTries /\ info \in [paired : Flags, trusted : Flags]
  /\ agent \in {"none", "exported", "registered"}
  /\ failure \in {"none", "transient", "pair", "sudo", "trust", "call", "scan", "setup",
                  "invisible", "not_pairing", "parameters"}
  /\ thrown \in {"none", "agent", "pair", "sudo", "trust", "call", "scan", "setup",
                 "invisible", "not_pairing", "parameters", "connect"}

\* Every pairing attempt, the retries as much as the first, is made in a controller
\* reset and set up for it, after a scan that found the bike ready once more.
PairWhenReady == stage = "pair" => AttemptReady

\* The agent answers pairing requests for as long as the device may pair, trust or
\* connect, and is gone from BlueZ when assist_connection ends, however it ends.
AgentScoped ==
  /\ stage \in {"prepare", "pair", "pair_failed", "trust", "connect"} => agent = "registered"
  /\ stage = "closed" => agent # "registered"

\* Success means what it says: BlueZ was seen to pair with and to trust the device,
\* though no single command has to have reported it.
SuccessIsBonded == stage = "closed" /\ thrown = "none" => device.paired /\ device.trusted

\* assist_connection comes to an end.
AssistEnds == <>(stage = "closed")
=============================================================================
