----------------------------- MODULE GattTools -----------------------------
(***************************************************************************)
(* log_chars.main, probe.main and the listing of dump_gatt.main, as the    *)
(* body of a connection through the proxy: notifications go to the output  *)
(* file while the tool reads (and probe writes) until SIGINT sets STOP.    *)
(* Every call on the bike returns or raises; a loop over characteristics   *)
(* takes them in any order.                                                *)
(***************************************************************************)
EXTENDS EsphomeClient, FiniteSets

CONSTANTS
  Notifying, Readable,   \* the characteristics subscribed to, read
  Writes,                \* probe characteristics times PROBE_PAYLOADS: a count
  Values, NoValue        \* what a characteristic may hold; not read, or the read failed

ASSUME ToolsAssumption ==
  Writes \in Nat /\ NoValue \notin Values /\ Values # {} /\ IsFiniteSet(Readable)

VARIABLES
  phase, todo,            \* where the body stands; characteristics left in its loop
  fileOpen, stop,         \* the output file; STOP
  subscribed, stubborn,   \* start_notify worked; stop_notify failed
  device,                 \* external: what the characteristics hold
  baseline, current,      \* the snapshots of probe
  left,                   \* writes left
  lastGood,               \* history: the value last read
  after, late             \* history: reads since STOP; notifications after the file was closed

notifyVars == <<subscribed, stubborn>>
probeVars == <<baseline, current, left, lastGood>>
bodyVars == <<phase, todo, fileOpen, stop, notifyVars, device, probeVars, after, late>>
vars == <<esphomeVars, bodyVars>>

Nothing == [c \in Readable |-> NoValue]

Init ==
  /\ EsphomeInit
  /\ phase = "idle" /\ todo = {} /\ fileOpen = FALSE /\ stop = FALSE
  /\ subscribed = {} /\ stubborn = {} /\ device \in [Readable -> Values]
  /\ baseline = Nothing /\ current = Nothing /\ left = Writes
  /\ lastGood = Nothing /\ after = 0 /\ late = {}

GotoPhase(p, cs) == phase' = p /\ todo' = cs
In(p) == pc = "body" /\ phase = p
----------------------------------------------------------------------------
(***************************************************************************)
(* The environment.                                                        *)
(***************************************************************************)
Signal ==
  /\ LoopRuns /\ tool # "dump" /\ ~stop /\ stop' = TRUE
  /\ UNCHANGED <<esphomeVars, phase, todo, fileOpen, notifyVars, device, probeVars, after, late>>

BikeChanges ==
  /\ In("pause") /\ device' \in [Readable -> Values]
  /\ UNCHANGED <<esphomeVars, phase, todo, fileOpen, stop, notifyVars, probeVars, after, late>>

\* notify_handler: it writes to the file, also when the file has been closed.
Notification ==
  /\ pc = "body"
  /\ \E c \in subscribed : late' = IF fileOpen THEN late ELSE late \cup {c}
  /\ UNCHANGED <<esphomeVars, phase, todo, fileOpen, stop, notifyVars, device, probeVars, after>>
----------------------------------------------------------------------------
(***************************************************************************)
(* The body.                                                               *)
(***************************************************************************)
\* The characteristics are collected.  probe raises when it has nothing to write to.
Begin ==
  /\ In("idle") /\ (tool = "probe" => Writes > 0)
  /\ fileOpen' = (tool # "dump")
  /\ IF tool = "dump" THEN GotoPhase("read", Readable) ELSE GotoPhase("subscribe", Notifying)
  /\ UNCHANGED <<esphomeVars, stop, notifyVars, device, probeVars, after, late>>

Subscribe ==
  /\ In("subscribe")
  /\ \E c \in todo : /\ GotoPhase("subscribe", todo \ {c})
                     /\ subscribed' \in {subscribed, subscribed \cup {c}}
  /\ UNCHANGED <<esphomeVars, fileOpen, stop, stubborn, device, probeVars, after, late>>

\* The loop of log_chars, or the BASELINE snapshot.
Subscribed ==
  /\ In("subscribe") /\ todo = {}
  /\ IF tool = "log" THEN GotoPhase("poll", {}) ELSE GotoPhase("baseline", Readable)
  /\ UNCHANGED <<esphomeVars, fileOpen, stop, notifyVars, device, probeVars, after, late>>

\* One read: log_chars and dump print the value, probe keeps it too.
ReadOne ==
  /\ phase \in {"read", "baseline"} /\ In(phase)
  /\ \E c \in todo :
       /\ GotoPhase(phase, todo \ {c})
       /\ IF tool = "probe"
          THEN current' \in {current, [current EXCEPT ![c] = device[c]]}
          ELSE UNCHANGED current
  /\ after' = IF stop THEN after + 1 ELSE after
  /\ UNCHANGED <<esphomeVars, fileOpen, stop, notifyVars, device, baseline, left, lastGood,
                 late>>

Good(c) == current[c] # NoValue

\* Mutant: a characteristic without a baseline value is not compared.
ReportedKnown == {c \in Readable : Good(c) /\ baseline[c] \notin {NoValue, current[c]}}

\* The characteristics for which READ_CHANGE is written.
Reported == {c \in Readable : Good(c) /\ baseline[c] # current[c]}

\* Those whose last two successful reads differ, whatever failed between them.
Changed == {c \in Readable : Good(c) /\ lastGood[c] \notin {NoValue, current[c]}}

\* baseline = current: the reads that failed are dropped from it.
EndSnapshot ==
  /\ tool = "probe" /\ phase \in {"read", "baseline"} /\ In(phase) /\ todo = {}
  /\ GotoPhase("write", {})
  /\ baseline' = current /\ current' = Nothing
  /\ lastGood' = [c \in Readable |-> IF Good(c) THEN current[c] ELSE lastGood[c]]
  /\ UNCHANGED <<esphomeVars, fileOpen, stop, notifyVars, device, left, after, late>>

\* A payload is written, and then the bike is given a second; a refused write is skipped.
Write ==
  /\ In("write") /\ ~stop /\ left > 0
  /\ left' = left - 1
  /\ GotoPhase("pause", {}) \/ GotoPhase("write", {})
  /\ UNCHANGED <<esphomeVars, fileOpen, stop, notifyVars, device, baseline, current, lastGood,
                 after, late>>

Written ==
  /\ In("write") /\ (stop \/ left = 0)
  /\ GotoPhase("unsubscribe", Notifying)
  /\ UNCHANGED <<esphomeVars, fileOpen, stop, notifyVars, device, probeVars, after, late>>

\* The sleeps of both tools.
Wake ==
  /\ In("pause")
  /\ IF tool = "log" THEN GotoPhase("poll", {}) ELSE GotoPhase("read", Readable)
  /\ UNCHANGED <<esphomeVars, fileOpen, stop, notifyVars, device, probeVars, after, late>>

\* Mutant: STOP is not looked at after the sleep.
PollAgain ==
  /\ In("poll") /\ GotoPhase("read", Readable)
  /\ UNCHANGED <<esphomeVars, fileOpen, stop, notifyVars, device, probeVars, after, late>>

\* while not STOP.is_set().
Poll ==
  /\ In("poll")
  /\ IF stop THEN GotoPhase("unsubscribe", Notifying) ELSE GotoPhase("read", Readable)
  /\ UNCHANGED <<esphomeVars, fileOpen, stop, notifyVars, device, probeVars, after, late>>

EndRound ==
  /\ tool = "log" /\ In("read") /\ todo = {} /\ GotoPhase("pause", {})
  /\ UNCHANGED <<esphomeVars, fileOpen, stop, notifyVars, device, probeVars, after, late>>

\* stop_notify is tried for every characteristic, subscribed or not.
Unsubscribe ==
  /\ In("unsubscribe")
  /\ \E c \in todo :
       /\ GotoPhase("unsubscribe", todo \ {c})
       /\ \/ subscribed' = subscribed \ {c} /\ UNCHANGED stubborn
          \/ stubborn' = stubborn \cup {c} /\ UNCHANGED subscribed
  /\ UNCHANGED <<esphomeVars, fileOpen, stop, device, probeVars, after, late>>

\* Mutant: the file is closed before the notifications are stopped.
CloseFirst ==
  /\ phase \in {"read", "unsubscribe"} /\ In(phase)
  /\ phase = "read" => tool = "dump" /\ todo = {}
  /\ GotoPhase("closing", {}) /\ fileOpen' = FALSE
  /\ UNCHANGED <<esphomeVars, stop, notifyVars, device, probeVars, after, late>>

\* The body is done, and leaves the `with' of the file.
Close ==
  /\ In(IF tool = "dump" THEN "read" ELSE "unsubscribe") /\ todo = {}
  /\ GotoPhase("closing", {}) /\ fileOpen' = FALSE
  /\ UNCHANGED <<esphomeVars, stop, notifyVars, device, probeVars, after, late>>

\* The file cannot be opened or written, the services are not there, or probe found
\* nothing to write to.
BodyRaises ==
  /\ pc = "body" /\ phase # "closing"
  /\ bodyError' \in {"body", "body_retry"}
  /\ GotoPhase("closing", {}) /\ fileOpen' = FALSE
  /\ UNCHANGED <<linkVars, tool, pc, attempt, raised, cleanup, stop, notifyVars, device,
                 probeVars, after, late>>

\* The contexts are left: the notifications end with the client, and the proxy is torn down.
LeaveContexts ==
  /\ In("closing") /\ GotoPhase("idle", {}) /\ subscribed' = {} /\ Teardown
  /\ UNCHANGED <<fileOpen, stop, stubborn, device, probeVars, after, late>>

\* Bleak disconnects, and the error of the body goes to the except clause.
Leave ==
  /\ LeaveContexts
  /\ IF bodyError = "none" THEN pc' = "closed" /\ UNCHANGED <<tool, attempt, raised>>
     ELSE Fail(bodyError)
  /\ bodyError' = IF tool = "dump" THEN "none" ELSE bodyError

\* The disconnect raises: its error goes there in the place of the body's.
ExitRaises ==
  /\ LeaveContexts /\ \E e \in {"bleak_retry", "bleak"} : Fail(e)
  /\ bodyError' = IF tool = "dump" THEN "none" ELSE "exit"

Body ==
  \/ Begin \/ Subscribe \/ Subscribed \/ ReadOne \/ EndSnapshot \/ Write \/ Written
  \/ Wake \/ Poll \/ EndRound \/ Unsubscribe \/ Close \/ Leave

Terminated == pc = "closed" /\ UNCHANGED vars

Next ==
  \/ (Flow \/ Callbacks \/ CleanupTask) /\ UNCHANGED bodyVars
  \/ Body \/ BodyRaises \/ ExitRaises \/ Signal \/ BikeChanges \/ Notification \/ Terminated

\* Every call of the tools returns or runs into its time-out, and ready tasks are run.
Fairness == WF_vars(Flow /\ UNCHANGED bodyVars) /\ WF_vars(Body)
            /\ WF_vars(CleanupTask /\ UNCHANGED bodyVars)

Spec == Init /\ [][Next]_vars /\ Fairness
----------------------------------------------------------------------------
TypeOK ==
  /\ EsphomeTypeOK
  /\ phase \in {"idle", "subscribe", "baseline", "write", "pause", "read", "poll",
                "unsubscribe", "closing"}
  /\ todo \subseteq Notifying \cup Readable /\ fileOpen \in BOOLEAN /\ stop \in BOOLEAN
  /\ subscribed \subseteq Notifying /\ stubborn \subseteq Notifying
  /\ device \in [Readable -> Values] /\ left \in 0..Writes
  /\ baseline \in [Readable -> Values \cup {NoValue}]
  /\ current \in [Readable -> Values \cup {NoValue}]
  /\ lastGood \in [Readable -> Values \cup {NoValue}]
  /\ after \in Nat /\ late \subseteq Notifying

(***************************************************************************)
(* probe writes READ_CHANGE for every characteristic whose last two        *)
(* successful reads differ, although each snapshot drops the reads that    *)
(* failed and a refused write skips its snapshot (probe.py 150-166).       *)
(***************************************************************************)
NoChangeMissed ==
  [][In("read") /\ tool = "probe" /\ phase' = "write" => Changed \subseteq Reported]_vars

(***************************************************************************)
(* After SIGINT a tool makes at most one more round of reads, wherever the *)
(* signal came (probe.py 141-158, log_chars.py 83-94).                     *)
(***************************************************************************)
StopIsPrompt == after <= Cardinality(Readable)

(***************************************************************************)
(* No notification comes after the output file was closed, unless the bike *)
(* refused to stop it or the body was left by an exception: the handler    *)
(* writes to that file (log_chars.py 59-63, 96-102; probe.py 121, 168).    *)
(***************************************************************************)
NoLateNotification == bodyError = "none" => late \subseteq stubborn

(***************************************************************************)
(* probe and the listing end by themselves and log_chars ends after        *)
(* SIGINT, whatever fails, and however often the proxy drops.              *)
(***************************************************************************)
ToolEnds == (stop \/ tool # "log") ~> (pc = "closed")
=============================================================================
