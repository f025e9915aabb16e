--------------------------- MODULE EsphomeClient ---------------------------
(***************************************************************************)
(* A connection through the ESPHome proxy: setup_esphome_proxy and its     *)
(* teardown (esphome_proxy.py), inside the attempts of connected_client    *)
(* (live.py) or of dump_gatt.main, which repeats that loop.  The           *)
(* reconnect logic of aioesphomeapi is external: it calls on_connect and   *)
(* on_disconnect in turn, under one lock, until it is stopped.             *)
(*                                                                         *)
(* Assumptions: the disconnect callbacks of bleak_esphome, which           *)
(* on_disconnect calls first, do not raise; every attempt has its own      *)
(* undo functions, so scanners are counted from zero in each (FreshLink).  *)
(***************************************************************************)
EXTENDS Integers

CONSTANTS
  Tools,         \* the tools that may run: "log", "probe", "dump"
  MaxAttempts,   \* DISCOVERY_RETRY_ATTEMPTS
  MaxCalls       \* bound: calls of on_connect in one attempt

ASSUME EsphomeAssumption ==
  /\ Tools \subseteq {"log", "probe", "dump"}
  /\ MaxAttempts \in Nat \ {0} /\ MaxCalls \in Nat

VARIABLES
  tool,                  \* which tool was started
  pc, attempt,           \* where its coroutine stands
  link, calls,           \* the reconnect logic of this attempt; history: calls of on_connect
  announced,             \* connected_event woke its waiter; client_data_holder is not empty
  unsetup, unregister,   \* on_disconnect holds the undo functions of a scanner
  setUps, registered,    \* external: scanners of this attempt set up, registered
  cleanup,               \* the task that stops the reconnect logic is scheduled
  raised, bodyError      \* the error the caller sees; history: what the body or its exit raised

linkVars == <<link, calls, announced, unsetup, unregister, setUps, registered>>
flowVars == <<tool, attempt, raised, bodyError>>
esphomeVars == <<linkVars, flowVars, pc, cleanup>>

FreshLink ==
  /\ link' = "down" /\ calls' = 0 /\ announced' = FALSE
  /\ unsetup' = FALSE /\ unregister' = FALSE /\ setUps' = 0 /\ registered' = 0

EsphomeInit ==
  /\ tool \in Tools /\ pc = "attempt" /\ attempt = 1
  /\ link = "stopped" /\ calls = 0 /\ announced = FALSE
  /\ unsetup = FALSE /\ unregister = FALSE /\ setUps = 0 /\ registered = 0
  /\ cleanup = FALSE /\ raised = "none" /\ bodyError = "none"
----------------------------------------------------------------------------
(***************************************************************************)
(* The callbacks.  They are tasks of the same event loop, and stop when    *)
(* asyncio.run returns.                                                    *)
(***************************************************************************)
LoopRuns == pc # "closed"

\* The API connection is made; on_connect asks for the device info.
CallOnConnect ==
  /\ LoopRuns /\ link = "down" /\ calls < MaxCalls
  /\ link' = "calling" /\ calls' = calls + 1
  /\ UNCHANGED <<announced, unsetup, unregister, setUps, registered>>

\* The rest of on_connect runs without a pause: the scanner is set up, registered, announced.
OnConnect ==
  /\ LoopRuns /\ link = "calling"
  /\ link' = "up" /\ announced' = TRUE /\ unsetup' = TRUE /\ unregister' = TRUE
  /\ setUps' = setUps + 1 /\ registered' = registered + 1
  /\ UNCHANGED calls

\* It raises before it has set up the scanner, or when it registers it.
OnConnectRaises ==
  /\ LoopRuns /\ link = "calling" /\ link' = "up"
  /\ \/ UNCHANGED <<unsetup, setUps>>
     \/ unsetup' = TRUE /\ setUps' = setUps + 1
  /\ UNCHANGED <<calls, announced, unregister, registered>>

\* Mutant: only a scanner that was registered is undone.
UndoRegistered ==
  IF unregister THEN /\ unsetup' = FALSE /\ setUps' = setUps - 1
                     /\ unregister' = FALSE /\ registered' = registered - 1
  ELSE UNCHANGED <<unsetup, setUps, unregister, registered>>

\* on_disconnect undoes what it holds a function for.  That it clears the event comes too
\* late for a waiter that was woken.
Undo ==
  /\ unsetup' = FALSE /\ setUps' = IF unsetup THEN setUps - 1 ELSE setUps
  /\ unregister' = FALSE /\ registered' = IF unregister THEN registered - 1 ELSE registered

OnDisconnect ==
  /\ LoopRuns /\ link = "up"
  /\ link' = "down" /\ Undo /\ UNCHANGED <<calls, announced>>

\* reconnect_logic.stop ends the calls, with or without a last on_disconnect.
StopLogic ==
  /\ link' = "stopped" /\ UNCHANGED <<calls, announced>>
  /\ Undo \/ UNCHANGED <<unsetup, unregister, setUps, registered>>

\* The task that cleanup() created.
CleanupTask ==
  /\ cleanup /\ cleanup' = FALSE /\ StopLogic
  /\ UNCHANGED <<flowVars, pc>>

Callbacks ==
  /\ CallOnConnect \/ OnConnect \/ OnConnectRaises \/ OnDisconnect
  /\ UNCHANGED <<flowVars, pc, cleanup>>
----------------------------------------------------------------------------
(***************************************************************************)
(* The attempts.                                                           *)
(***************************************************************************)
Retryable == {"bleak_retry", "body_retry"}

\* The except clause: sleep before the next attempt, or raise.
Fail(e) ==
  /\ IF e \in Retryable /\ attempt < MaxAttempts
     THEN pc' = "sleep" /\ attempt' = attempt /\ raised' = raised
     ELSE pc' = "closed" /\ raised' = e /\ attempt' = attempt
  /\ UNCHANGED tool

Goto(p) == pc' = p /\ UNCHANGED flowVars

\* A new client, reconnect logic and event.
Start ==
  /\ pc = "attempt" /\ Goto("wait") /\ FreshLink /\ UNCHANGED cleanup

Connected ==
  /\ pc = "wait" /\ announced /\ Goto("open") /\ UNCHANGED <<linkVars, cleanup>>

\* The 30 s of wait_for are over, even if the event has just been set.
SetupTimesOut ==
  /\ pc = "wait" /\ Goto("stop") /\ UNCHANGED <<linkVars, cleanup>>

SetupStopped ==
  /\ pc = "stop" /\ StopLogic /\ Fail("proxy_timeout") /\ UNCHANGED <<cleanup, bodyError>>

Open == pc = "open" /\ Goto("stage") /\ UNCHANGED <<linkVars, cleanup>>

\* teardown_esphome_proxy only schedules the stop, as the contexts are left.
Teardown == cleanup' = TRUE /\ UNCHANGED linkVars

\* Bleak fails in its connect, or in a step of the security staging.
BleakRaises ==
  /\ pc \in {"open", "stage", "pair", "rewrite"}
  /\ \E e \in {"bleak_retry", "bleak"} : Fail(e)
  /\ Teardown /\ UNCHANGED bodyError

\* The body starts.  Only dump_gatt.main may start it again: connected_client is a
\* generator, and contextlib refuses its second yield.
Yield ==
  IF bodyError = "none" \/ tool = "dump"
  THEN pc' = "body" /\ UNCHANGED <<linkVars, cleanup, flowVars>>
  ELSE /\ pc' = "closed" /\ raised' = "second_yield" /\ Teardown
       /\ UNCHANGED <<tool, attempt, bodyError>>

\* There is no security descriptor, or it is written at once.
StageDirect == pc = "stage" /\ Yield

\* The write is refused: pair, without an agent and without waiting for BlueZ.
StagePair == pc = "stage" /\ Goto("pair") /\ UNCHANGED <<linkVars, cleanup>>

\* Bleak had blocked the write, or the bike had asked for encryption.
Paired ==
  /\ pc = "pair"
  /\ Yield \/ (Goto("rewrite") /\ UNCHANGED <<linkVars, cleanup>>)

Rewrite == pc = "rewrite" /\ Yield

\* Mutant: the attempts are not counted.
SleepUncounted ==
  /\ pc = "sleep" /\ ~cleanup
  /\ pc' = "attempt"
  /\ UNCHANGED <<linkVars, cleanup, flowVars>>

\* asyncio.sleep(attempt): tasks that were ready before it run first.
Sleep ==
  /\ pc = "sleep" /\ ~cleanup
  /\ pc' = "attempt" /\ attempt' = attempt + 1
  /\ UNCHANGED <<linkVars, cleanup, tool, raised, bodyError>>

Flow ==
  \/ Start \/ Connected \/ SetupTimesOut \/ SetupStopped \/ Open \/ BleakRaises
  \/ StageDirect \/ StagePair \/ Paired \/ Rewrite \/ Sleep
----------------------------------------------------------------------------
EsphomeTypeOK ==
  /\ tool \in Tools
  /\ pc \in {"attempt", "wait", "stop", "open", "stage", "pair", "rewrite", "body", "sleep",
             "closed"}
  /\ attempt \in 1..MaxAttempts
  /\ link \in {"down", "calling", "up", "stopped"} /\ calls \in 0..MaxCalls
  /\ announced \in BOOLEAN /\ unsetup \in BOOLEAN /\ unregister \in BOOLEAN
  /\ setUps \in Nat /\ registered \in Nat /\ cleanup \in BOOLEAN
  /\ raised \in {"none", "proxy_timeout", "bleak", "body", "second_yield"} \cup Retryable
  /\ bodyError \in {"none", "body", "body_retry", "exit"}

(***************************************************************************)
(* However often the proxy drops and comes back in an attempt, and         *)
(* wherever on_connect fails, no scanner of that attempt stays set up or   *)
(* registered without the function that undoes it: a later on_connect      *)
(* never overwrites the only reference to one (esphome_proxy.py 73-100).   *)
(***************************************************************************)
NoScannerLost ==
  /\ setUps = IF unsetup THEN 1 ELSE 0
  /\ registered = IF unregister THEN 1 ELSE 0
=============================================================================
