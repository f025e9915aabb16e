------------------------------ MODULE Scanner ------------------------------
(***************************************************************************)
(* ScannerApp of scan.py: the table of devices seen, its filters and its   *)
(* cursor, in one process; the other processes share only the ignore list. *)
(* Each handler runs to its end on the event loop, except that a save may  *)
(* be interrupted by other processes.  The order of the rows and what they *)
(* show beside the address are left out: the cursor falls on any row when  *)
(* its own is gone.                                                        *)
(***************************************************************************)
EXTENDS IgnoreStore, Sequences

CONSTANTS
  Me,          \* the scanner modelled in full
  Addresses,   \* the devices in reach
  NoAddress,   \* selected_address None
  Norm,        \* normalize_address
  MaxEvents    \* bound: RowHighlighted messages under way

ASSUME ScannerAssumption ==
  /\ Me \in Apps
  /\ NoAddress \notin Addresses
  /\ Norm \in [Addresses -> Keys]
  /\ MaxEvents \in Nat
  /\ IsFiniteSet(Keys)

VARIABLES
  devices, stale,            \* the keys of devices; those not heard for STALE_AFTER_SECONDS
  hideStale, hideIgnored,
  visible, selected,         \* visible_addresses, selected_address
  events                     \* RowHighlighted messages posted and not handled yet

viewVars == <<devices, stale, hideStale, hideIgnored, visible, selected, events>>
vars == <<storeVars, viewVars>>

Init ==
  /\ StoreInit
  /\ devices = {} /\ stale = {} /\ hideStale = FALSE /\ hideIgnored = FALSE
  /\ visible = {} /\ selected = NoAddress /\ events = <<>>

Running == phase[Me] = "running"
----------------------------------------------------------------------------
\* build_table_rows: a device that a filter hides has no row.
Rows ==
  {a \in devices : /\ ~(hideStale /\ a \in stale)
                   /\ ~(hideIgnored /\ Norm[a] \in ignored[Me])}

\* The table posts a message when its cursor moves; the bound stands for a loop that keeps up.
Post(a) ==
  \/ UNCHANGED events
  \/ Len(events) < MaxEvents /\ events' = Append(events, a)

\* Mutant: a selection that has left the table is kept.
RefreshKeepsSelection ==
  /\ visible' = Rows'
  /\ selected' \in IF visible' = {} THEN {NoAddress}
                   ELSE IF selected = NoAddress THEN visible' ELSE {selected}
  /\ UNCHANGED events

\* refresh_view at the end of a handler, with what the handler has just set.
RefreshView ==
  /\ visible' = Rows'
  /\ IF visible' = {} THEN selected' = NoAddress
     ELSE selected' \in IF selected \in visible' THEN {selected} ELSE visible'
  /\ IF selected' = NoAddress THEN UNCHANGED events ELSE Post(selected')
----------------------------------------------------------------------------
\* __init__ and on_mount; nothing of an earlier run is kept but the file.
Start ==
  /\ Launch(Me)
  /\ devices' = {} /\ stale' = {} /\ hideStale' = FALSE /\ hideIgnored' = FALSE
  /\ visible' = {} /\ selected' = NoAddress /\ events' = <<>>

\* detection_callback: the row waits for the next refresh.
DetectionCallback(a) ==
  /\ Running
  /\ devices' = devices \cup {a} /\ stale' = stale \ {a}
  /\ UNCHANGED <<storeVars, hideStale, hideIgnored, visible, selected, events>>

\* Thirty seconds pass without an advertisement.
Age(a) ==
  /\ Running /\ a \in devices \ stale
  /\ stale' = stale \cup {a}
  /\ UNCHANGED <<storeVars, devices, hideStale, hideIgnored, visible, selected, events>>

\* The interval timer, and action_cycle_sort.
Tick ==
  /\ Running
  /\ UNCHANGED <<storeVars, devices, stale, hideStale, hideIgnored>>
  /\ RefreshView

ToggleStale ==
  /\ Running
  /\ hideStale' = ~hideStale
  /\ UNCHANGED <<storeVars, devices, stale, hideIgnored>>
  /\ RefreshView

ToggleHideIgnored ==
  /\ Running
  /\ hideIgnored' = ~hideIgnored
  /\ UNCHANGED <<storeVars, devices, stale, hideStale>>
  /\ RefreshView

ToggleIgnoreSelected ==
  /\ selected # NoAddress
  /\ BeginSave(Me, Toggled(ignored[Me], {Norm[selected]}))
  /\ UNCHANGED viewVars

\* With an empty table the list is saved as it is.
ToggleIgnoreVisible ==
  /\ BeginSave(Me, Toggled(ignored[Me], {Norm[a] : a \in visible}))
  /\ UNCHANGED viewVars

\* Mutant: the table is not refreshed after a save.
SavedSilently ==
  /\ EndSave(Me)
  /\ UNCHANGED viewVars

\* The second half of the two handlers above.
Saved ==
  /\ EndSave(Me)
  /\ UNCHANGED <<devices, stale, hideStale, hideIgnored>>
  /\ RefreshView

\* The user moves the cursor to a displayed row.
MoveCursor ==
  /\ Running /\ Len(events) < MaxEvents
  /\ \E a \in visible : events' = Append(events, a)
  /\ UNCHANGED <<storeVars, devices, stale, hideStale, hideIgnored, visible, selected>>

\* on_data_table_row_highlighted: the row may have left the table since.
RowHighlighted ==
  /\ Running /\ events # <<>>
  /\ selected' = Head(events) /\ events' = Tail(events)
  /\ UNCHANGED <<storeVars, devices, stale, hideStale, hideIgnored, visible>>

\* action_quit, on_data_table_row_selected, a kill, or a save that fails.
Stop ==
  /\ Exit(Me) \/ FailSave(Me)
  /\ UNCHANGED viewVars

Other ==
  /\ \E a \in Apps \ {Me} :
       \/ Launch(a) \/ EndSave(a) \/ FailSave(a) \/ Exit(a)
       \/ \E ks \in SUBSET Keys : BeginSave(a, Toggled(ignored[a], ks))
  /\ UNCHANGED viewVars

Next ==
  \/ Start \/ Tick \/ ToggleStale \/ ToggleHideIgnored
  \/ ToggleIgnoreSelected \/ ToggleIgnoreVisible \/ Saved
  \/ MoveCursor \/ RowHighlighted \/ Stop \/ Other
  \/ \E a \in Addresses : DetectionCallback(a) \/ Age(a)

\* The interval timer runs as long as the application, and a write ends or is killed.
Fairness == WF_vars(Tick) /\ WF_vars(Saved)

Spec == Init /\ [][Next]_vars /\ Fairness
----------------------------------------------------------------------------
TypeOK ==
  /\ phase \in [Apps -> {"off", "running", "saving"}]
  /\ ignored \in [Apps -> SUBSET Keys]
  /\ file \in [holds : {"list", "garbage", "nothing", "absent"}, list : SUBSET Keys]
  /\ last \in SUBSET Keys /\ spoiled \in BOOLEAN
  /\ devices \in SUBSET Addresses /\ stale \in SUBSET Addresses
  /\ hideStale \in BOOLEAN /\ hideIgnored \in BOOLEAN
  /\ visible \in SUBSET Addresses /\ selected \in Addresses \cup {NoAddress}
  /\ events \in Seq(Addresses)

(***************************************************************************)
(* Between two handlers no ignored device has a row while "hide ignored"   *)
(* is on, whatever changed the list, the filter or the table last: scan.py *)
(* 376-405 end in refresh_view on every path that touches one of them.     *)
(***************************************************************************)
HiddenStayHidden ==
  Running /\ hideIgnored => \A a \in visible : Norm[a] \notin ignored[Me]

(***************************************************************************)
(* The file holds the list saved last, by whichever scanner, unless a save *)
(* was killed, failed or overlapped another since: what a scanner started  *)
(* now loads is then that list (scan.py 74-92).                            *)
(***************************************************************************)
ListSurvives == Saving = {} /\ ~spoiled => Load = last

(***************************************************************************)
(* As long as the scanner runs, the table always shows again exactly the   *)
(* devices the filters let through, with the selection on one of its rows: *)
(* a message of a row that has gone (scan.py 407) does not keep the        *)
(* selection on it.                                                        *)
(***************************************************************************)
ViewSettled ==
  /\ visible = Rows
  /\ IF visible = {} THEN selected = NoAddress ELSE selected \in visible
ViewCatchesUp == []<>(phase[Me] = "off" \/ ViewSettled)
=============================================================================
