----------------------------- MODULE Dashboard -----------------------------
(***************************************************************************)
(* main of dashboard.py: a live session whose on_message callback updates  *)
(* the display, and a loop that prints it every second.  handshake.py runs *)
(* the same session without a display.                                     *)
(***************************************************************************)
EXTENDS LiveSession, DashboardState

CONSTANT Contents   \* the messages of each notification that reach on_message

\* A message of the bike: the address it is about and the two fields it may give.
Report == [source : STRING, value : Nat \cup {Null}, valid : {Null, 0, 1}, garbled : BOOLEAN]

VARIABLES
  status,     \* connection_status of the DashboardState
  display,    \* its other fields
  screen,     \* what _print_dashboard printed last
  received    \* history: the reports that reached on_message

dashVars == <<status, display, screen, received>>
dvars == <<vars, dashVars>>

\* How the bike writes a report: a field without a value is left out.
Varint[n \in Nat] == IF n < 128 THEN <<n>> ELSE <<128 + (n % 128)>> \o Varint[n \div 128]
Field(number, value) == IF value = Null THEN <<>> ELSE <<number * 8>> \o Varint[value]
Payload(r) == IF r.garbled THEN <<8>> ELSE Field(1, r.value) \o Field(2, r.valid)
Message(r) == [source |-> r.source, payload |-> Payload(r)]

\* A report whose decoding raises ends its callback.
ASSUME DashboardAssumption ==
  /\ Contents \in [Notifications -> Seq(Report)]
  /\ \A n \in Notifications :
       /\ \A i \in 1..Len(Contents[n]) : Raises(Message(Contents[n][i])) => i = Len(Contents[n])
       /\ (\E i \in 1..Len(Contents[n]) : Raises(Message(Contents[n][i]))) <=> ~Completes(n)

\* The client is connected; the screen shows it.
DInit ==
  /\ Init
  /\ status = "connected" /\ display = EmptyDisplay
  /\ screen = [status |-> status, fields |-> display]
  /\ received = <<>>
----------------------------------------------------------------------------
DNotify ==
  \E frames \in Notifications :
    /\ Notify(frames)
    /\ IF tool = "dashboard"
       THEN /\ status' = IF Contents[frames] = <<>> THEN status ELSE "connected"
            /\ display' = FoldLeft(LAMBDA d, r : Apply(d, Message(r)), display, Contents[frames])
            /\ received' = received \o Contents[frames]
       ELSE UNCHANGED <<status, display, received>>
    /\ UNCHANGED screen

Show == screen' = [status |-> status, fields |-> display] /\ UNCHANGED <<status, display, received>>

\* The response is queued and the loop begins: it prints unless a signal came before.
DQueueHandshakeResponse ==
  /\ QueueHandshakeResponse
  /\ IF tool = "dashboard" /\ ~stopRequested THEN Show ELSE UNCHANGED dashVars

\* Mutant: the display is printed before the loop and not in it.
RefreshSilently ==
  /\ tool = "dashboard" /\ pc = "holding" /\ ~stopRequested
  /\ UNCHANGED dvars

\* A second has passed without a signal.
Refresh ==
  /\ tool = "dashboard" /\ pc = "holding" /\ ~stopRequested
  /\ Show /\ UNCHANGED vars

\* Mutant: the status is printed before it is set.
ShowBeforeSet ==
  IF tool = "dashboard" /\ pc' = "finished" /\ raised' \notin {"writer", "stop_notify"}
  THEN /\ status' = "disconnected" /\ screen' = [status |-> status, fields |-> display]
       /\ UNCHANGED <<display, received>>
  ELSE UNCHANGED dashVars

\* The end of the finally clause, which an error of session.stop() skips.
Closing ==
  IF tool = "dashboard" /\ pc' = "finished" /\ raised' \notin {"writer", "stop_notify"}
  THEN /\ status' = "disconnected" /\ screen' = [status |-> status', fields |-> display]
       /\ UNCHANGED <<display, received>>
  ELSE UNCHANGED dashVars

DMain ==
  \/ DQueueHandshakeResponse
  \/ (JoinReturns \/ CloseReturns) /\ Closing
  \/ /\ \/ Start \/ Subscribe \/ StartNotifyReturns \/ StartNotifyRaises
        \/ HandshakeTimeout \/ HoldEnds \/ StopNotifyReturns \/ StopNotifyRaises
        \/ JoinStarts \/ RunCancels
     /\ UNCHANGED dashVars

DWriter == Writer /\ UNCHANGED dashVars

DNext ==
  \/ DWriter \/ DMain \/ DNotify \/ Refresh
  \/ (NotifyMalformed \/ Disconnect \/ Signal \/ Terminated) /\ UNCHANGED dashVars

DSpec == DInit /\ [][DNext]_dvars /\ WF_dvars(DWriter) /\ WF_dvars(DMain) /\ WF_dvars(Refresh)
----------------------------------------------------------------------------
(***************************************************************************)
(* Properties.                                                             *)
(***************************************************************************)
\* What the last readable report from `source' among the first n said.
Latest(reports, n, source) ==
  LET heard == {i \in 1..n : reports[i].source = source /\ ~reports[i].garbled}
  IN IF heard = {} THEN Null ELSE reports[Max(heard)].value

\* The same, passing over the reports that give no value.
LatestKnown(reports, source) ==
  LET heard == {i \in 1..Len(reports) : /\ reports[i].source = source
                                        /\ ~reports[i].garbled /\ reports[i].value # Null}
  IN IF heard = {} THEN Null ELSE reports[Max(heard)].value

LatestSpeed(reports) ==
  LET heard == {i \in 1..Len(reports) :
                  /\ reports[i].source = SPEED /\ ~reports[i].garbled
                  /\ reports[i].valid = 0 \/ (reports[i].valid = 1 /\ reports[i].value # Null)}
  IN IF heard = {} \/ reports[Max(heard)].valid = 0 THEN Null ELSE reports[Max(heard)].value

\* What the two charging reports said when last one of them said something.
Charges(reports, n) == {Latest(reports, n, CHARGING), Latest(reports, n, INSTANCE_CHARGING)} \ {Null}

LatestCharger(reports) ==
  LET informed == {n \in 1..Len(reports) : Charges(reports, n) # {}}
  IN IF informed = {} THEN "unknown"
     ELSE IF Charges(reports, Max(informed)) \subseteq {0} THEN "unplugged" ELSE "charging"

\* Whatever the order in which reports arrive, are repeated, lose their value or fail to
\* decode, each field of the display is what the reports received so far say of it.
DisplayIsLatest ==
  LET percent(source) == Latest(received, Len(received), source) IN
  /\ display.battery = IF percent(SYSTEM) # Null THEN percent(SYSTEM) ELSE percent(PACK)
  /\ display.charger = LatestCharger(received) /\ display.speed = LatestSpeed(received)
  /\ display.stage = LatestKnown(received, STAGE)
  /\ display.assist = LatestKnown(received, ASSIST)

\* A dashboard that ends without an error of session.stop(), even after a time-out, leaves a
\* screen that says the connection is gone, whatever callbacks came while it stopped.
FinalScreen ==
  tool = "dashboard" /\ pc = "finished" /\ raised \in {"none", "timeout"} =>
    screen.status = "disconnected"

\* While the dashboard holds the session, what has arrived is on the screen in the end.
ScreenCatchesUp ==
  (tool = "dashboard" /\ pc = "holding") ~> (screen.fields = display \/ pc # "holding")
=============================================================================
