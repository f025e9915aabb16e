-------------------------- MODULE Scanner_proofs --------------------------
(***************************************************************************)
(* Proofs about the scanner: the table obeys its filter, and the file      *)
(* holds the list saved last whenever no save was disturbed.               *)
(***************************************************************************)
EXTENDS Scanner, FiniteSetTheorems, TLAPS

USE ScannerAssumption

(***************************************************************************)
(* A save that nothing disturbs is alone, has emptied the file, and writes *)
(* the list saved last.                                                    *)
(***************************************************************************)
AloneWhileSaving ==
  ~spoiled => \A a \in Apps : phase[a] = "saving" =>
    /\ file = Empty /\ ignored[a] = last
    /\ \A b \in Apps : phase[b] = "saving" => b = a

StoreTypeOK ==
  /\ phase \in [Apps -> {"off", "running", "saving"}]
  /\ ignored \in [Apps -> SUBSET Keys]
  /\ last \in SUBSET Keys /\ spoiled \in BOOLEAN

StoreInv == StoreTypeOK /\ AloneWhileSaving /\ ListSurvives

StoreStep(a) ==
  \/ Launch(a) \/ EndSave(a) \/ FailSave(a) \/ Exit(a)
  \/ \E list \in SUBSET Keys : BeginSave(a, list)

\* The file read by load_ignored_addresses; save_ignored_addresses is given sets of keys only.
FileOK == file \in [holds : {"list", "garbage", "nothing", "absent"}, list : SUBSET Keys]

\* What a process loads is a set of keys.
LEMMA LoadIsKeys == FileOK => Load \in SUBSET Keys
BY DEF FileOK, Load

\* Toggling keys gives a set of keys (toggle_visible_ignored, scan.py 95-108).
LEMMA ToggledIsKeys ==
  ASSUME NEW list \in SUBSET Keys, NEW keys \in SUBSET Keys
  PROVE  Toggled(list, keys) \in SUBSET Keys
BY DEF Toggled

\* Every step of a process on the store keeps its types.
LEMMA StoreTypes ==
  ASSUME StoreTypeOK, FileOK, NEW a \in Apps, StoreStep(a)
  PROVE  StoreTypeOK' /\ FileOK'
<1>1. CASE Launch(a)
  BY <1>1, LoadIsKeys DEF Launch, StoreTypeOK, FileOK
<1>2. CASE EndSave(a)
  <2>1. file.list \in SUBSET Keys /\ ignored[a] \in SUBSET Keys
    BY DEF FileOK, StoreTypeOK
  <2>2. FileOK'
    BY <1>2, <2>1 DEF EndSave, FileOK, Text, Garbage
  <2> QED  BY <1>2, <2>2 DEF EndSave, StoreTypeOK
<1>3. CASE FailSave(a)
  <2>1. StoreTypeOK'
    BY <1>3 DEF FailSave, StoreTypeOK
  <2>2. Empty \in [holds : {"list", "garbage", "nothing", "absent"}, list : SUBSET Keys]
    BY DEF Empty
  <2>3. file' = file \/ file' = Empty
    BY <1>3 DEF FailSave
  <2> QED  BY <2>1, <2>2, <2>3 DEF FileOK
<1>4. CASE Exit(a)
  BY <1>4 DEF Exit, StoreTypeOK, FileOK
<1>5. ASSUME NEW list \in SUBSET Keys, BeginSave(a, list)
      PROVE  StoreTypeOK' /\ FileOK'
  BY <1>5 DEF BeginSave, StoreTypeOK, FileOK, Empty
<1> QED  BY <1>1, <1>2, <1>3, <1>4, <1>5 DEF StoreStep

\* A list of keys is never shorter than the empty text of a truncated file.
LEMMA NothingIsShortest ==
  ASSUME NEW list \in SUBSET Keys
  PROVE  ~(Cardinality(Empty.list) > Cardinality(list))
<1>1. IsFiniteSet(list)
  BY FS_Subset
<1>2. Cardinality(list) \in Nat
  BY <1>1, FS_CardinalityType
<1>3. Cardinality({}) = 0
  BY FS_EmptySet
<1> QED  BY <1>2, <1>3 DEF Empty

\* Every step of a process on the store keeps the invariant of the store.
LEMMA StoreKept ==
  ASSUME StoreInv, FileOK, NEW a \in Apps, StoreStep(a)
  PROVE  StoreInv'
<1>0. StoreTypeOK'
  BY StoreTypes DEF StoreInv
<1>1. CASE Launch(a)
  <2>1. \A b \in Apps : phase'[b] = "saving" <=> phase[b] = "saving"
    BY <1>1 DEF Launch, StoreInv, StoreTypeOK
  <2>2. \A b \in Apps : phase'[b] = "saving" => ignored'[b] = ignored[b]
    BY <1>1 DEF Launch, StoreInv, StoreTypeOK
  <2>3. AloneWhileSaving'
    BY <1>1, <2>1, <2>2 DEF Launch, StoreInv, AloneWhileSaving
  <2>4. ListSurvives'
    BY <1>1, <2>1 DEF Launch, StoreInv, ListSurvives, Load, Saving
  <2> QED  BY <1>0, <2>3, <2>4 DEF StoreInv
<1>2. CASE EndSave(a)
  <2>1. phase' = [phase EXCEPT ![a] = "running"] /\ UNCHANGED <<ignored, last, spoiled>>
        /\ phase[a] = "saving"
    BY <1>2 DEF EndSave
  <2>2. \A b \in Apps : phase'[b] = "saving" => phase[b] = "saving" /\ b # a
    BY <2>1 DEF StoreInv, StoreTypeOK
  <2>3. ASSUME ~spoiled'
        PROVE  Load' = last' /\ \A b \in Apps : phase'[b] # "saving"
    <3>1. ~spoiled
      BY <2>1, <2>3
    <3>2. file = Empty /\ ignored[a] = last
      BY <2>1, <3>1 DEF StoreInv, AloneWhileSaving
    <3>3. ignored[a] \in SUBSET Keys
      BY DEF StoreInv, StoreTypeOK
    <3>4. file' = Text(ignored[a])
      BY <1>2, <3>2, <3>3, NothingIsShortest DEF EndSave
    <3>5. Load' = ignored[a]
      BY <3>4 DEF Load, Text
    <3>6. \A b \in Apps : phase[b] = "saving" => b = a
      BY <2>1, <3>1 DEF StoreInv, AloneWhileSaving
    <3> QED  BY <2>1, <2>2, <3>2, <3>5, <3>6
  <2>4. AloneWhileSaving'
    BY <2>3 DEF AloneWhileSaving
  <2>5. ListSurvives'
    BY <2>3 DEF ListSurvives
  <2> QED  BY <1>0, <2>4, <2>5 DEF StoreInv
<1>3. CASE FailSave(a)
  <2>1. \A b \in Apps : phase'[b] = "saving" <=> phase[b] = "saving"
    BY <1>3 DEF FailSave, StoreInv, StoreTypeOK
  <2>2. \A b \in Apps : phase'[b] = "saving" => ignored'[b] = ignored[b]
    BY <1>3 DEF FailSave, StoreInv, StoreTypeOK
  <2>3. CASE UNCHANGED <<file, spoiled>>
    <3>1. AloneWhileSaving'
      BY <1>3, <2>1, <2>2, <2>3 DEF FailSave, StoreInv, AloneWhileSaving
    <3>2. ListSurvives'
      BY <1>3, <2>1, <2>3 DEF FailSave, StoreInv, ListSurvives, Load, Saving
    <3> QED  BY <1>0, <3>1, <3>2 DEF StoreInv
  <2>4. CASE spoiled' = TRUE
    BY <1>0, <2>4 DEF StoreInv, AloneWhileSaving, ListSurvives
  <2> QED  BY <1>3, <2>3, <2>4 DEF FailSave
<1>4. CASE Exit(a)
  <2>1. \A b \in Apps : phase'[b] = "saving" <=> phase[b] = "saving" /\ b # a
    BY <1>4 DEF Exit, StoreInv, StoreTypeOK
  <2>2. \A b \in Apps : phase'[b] = "saving" => ignored'[b] = ignored[b]
    BY <1>4 DEF Exit, StoreInv, StoreTypeOK
  <2>3. ~spoiled' => ~spoiled /\ phase[a] # "saving"
    BY <1>4 DEF Exit, StoreInv, StoreTypeOK
  <2>4. UNCHANGED <<file, last>>
    BY <1>4 DEF Exit
  <2>5. AloneWhileSaving'
    BY <2>1, <2>2, <2>3, <2>4 DEF StoreInv, AloneWhileSaving
  <2>6. ListSurvives'
    BY <2>1, <2>3, <2>4 DEF StoreInv, ListSurvives, Load, Saving
  <2> QED  BY <1>0, <2>5, <2>6 DEF StoreInv
<1>5. ASSUME NEW list \in SUBSET Keys, BeginSave(a, list)
      PROVE  StoreInv'
  <2>1. \A b \in Apps : phase'[b] = "saving" <=> phase[b] = "saving" \/ b = a
    BY <1>5 DEF BeginSave, StoreInv, StoreTypeOK
  <2>2. ignored'[a] = list /\ last' = list /\ file' = Empty
    BY <1>5 DEF BeginSave, StoreInv, StoreTypeOK
  <2>3. ~spoiled' => \A b \in Apps : phase[b] # "saving"
    BY <1>5 DEF BeginSave, Saving
  <2>4. AloneWhileSaving'
    BY <2>1, <2>2, <2>3 DEF AloneWhileSaving
  <2>5. ListSurvives'
    BY <2>1 DEF ListSurvives, Saving
  <2> QED  BY <1>0, <2>4, <2>5 DEF StoreInv
<1> QED  BY <1>1, <1>2, <1>3, <1>4, <1>5 DEF StoreStep
----------------------------------------------------------------------------
(***************************************************************************)
(* The table.                                                              *)
(***************************************************************************)
ViewTypeOK ==
  /\ devices \in SUBSET Addresses /\ stale \in SUBSET Addresses
  /\ hideStale \in BOOLEAN /\ hideIgnored \in BOOLEAN
  /\ visible \in SUBSET Addresses /\ selected \in Addresses \cup {NoAddress}
  /\ events \in Seq(Addresses)

ScannerInv == StoreInv /\ FileOK /\ ViewTypeOK /\ HiddenStayHidden

\* refresh_view leaves only rows the filter lets through, and selects one of them.
LEMMA RefreshShowsRows ==
  ASSUME ViewTypeOK, RefreshView, devices' = devices, stale' = stale,
         hideStale' \in BOOLEAN, hideIgnored' \in BOOLEAN
  PROVE  ViewTypeOK' /\ HiddenStayHidden'
<1>1. visible' = Rows'
  BY DEF RefreshView
<1>2. visible' \in SUBSET Addresses
  BY <1>1 DEF Rows, ViewTypeOK
<1>3. selected' \in Addresses \cup {NoAddress}
  BY <1>2 DEF RefreshView, ViewTypeOK
<1>4. events' \in Seq(Addresses)
  BY <1>3 DEF RefreshView, Post, ViewTypeOK
<1>5. HiddenStayHidden'
  BY <1>1 DEF HiddenStayHidden, Rows
<1> QED  BY <1>2, <1>3, <1>4, <1>5 DEF ViewTypeOK

\* The ways in which a step of the scanner treats the store: it leaves it alone, or takes
\* one step of one process.
LEMMA StepOnStore ==
  ASSUME ScannerInv, Next
  PROVE  UNCHANGED storeVars \/ \E a \in Apps : StoreStep(a)
<1>1. CASE Start
  BY <1>1 DEF Start, StoreStep
<1>2. CASE Tick \/ ToggleStale \/ ToggleHideIgnored \/ MoveCursor \/ RowHighlighted
  BY <1>2 DEF Tick, ToggleStale, ToggleHideIgnored, MoveCursor, RowHighlighted
<1>3. CASE ToggleIgnoreSelected
  <2>1. {Norm[selected]} \in SUBSET Keys
    BY <1>3 DEF ToggleIgnoreSelected, ScannerInv, ViewTypeOK
  <2>2. ignored[Me] \in SUBSET Keys
    BY DEF ScannerInv, StoreInv, StoreTypeOK
  <2>3. Toggled(ignored[Me], {Norm[selected]}) \in SUBSET Keys
    BY <2>1, <2>2, ToggledIsKeys
  <2> QED  BY <1>3, <2>3 DEF ToggleIgnoreSelected, StoreStep
<1>4. CASE ToggleIgnoreVisible
  <2>1. {Norm[a] : a \in visible} \in SUBSET Keys
    BY DEF ScannerInv, ViewTypeOK
  <2>2. ignored[Me] \in SUBSET Keys
    BY DEF ScannerInv, StoreInv, StoreTypeOK
  <2>3. Toggled(ignored[Me], {Norm[a] : a \in visible}) \in SUBSET Keys
    BY <2>1, <2>2, ToggledIsKeys
  <2> QED  BY <1>4, <2>3 DEF ToggleIgnoreVisible, StoreStep
<1>5. CASE Saved \/ Stop
  BY <1>5 DEF Saved, Stop, StoreStep
<1>6. CASE Other
  <2>1. PICK a \in Apps \ {Me} :
          \/ Launch(a) \/ EndSave(a) \/ FailSave(a) \/ Exit(a)
          \/ \E ks \in SUBSET Keys : BeginSave(a, Toggled(ignored[a], ks))
    BY <1>6 DEF Other
  <2>2. ignored[a] \in SUBSET Keys
    BY <2>1 DEF ScannerInv, StoreInv, StoreTypeOK
  <2>3. \A ks \in SUBSET Keys : Toggled(ignored[a], ks) \in SUBSET Keys
    BY <2>2, ToggledIsKeys
  <2> QED  BY <2>1, <2>3 DEF StoreStep
<1>7. CASE \E a \in Addresses : DetectionCallback(a) \/ Age(a)
  BY <1>7 DEF DetectionCallback, Age
<1> QED  BY <1>1, <1>2, <1>3, <1>4, <1>5, <1>6, <1>7 DEF Next

\* The store's part of the invariant is kept by every step of the scanner.
LEMMA StepKeepsStore ==
  ASSUME ScannerInv, Next
  PROVE  StoreInv' /\ FileOK'
<1>1. CASE UNCHANGED storeVars
  BY <1>1 DEF ScannerInv, storeVars, StoreInv, StoreTypeOK, AloneWhileSaving, ListSurvives,
              Saving, Load, FileOK
<1>2. ASSUME NEW a \in Apps, StoreStep(a)
      PROVE  StoreInv' /\ FileOK'
  BY <1>2, StoreKept, StoreTypes DEF ScannerInv, StoreInv
<1> QED  BY <1>1, <1>2, StepOnStore

\* The table's part of the invariant is kept by every step of the scanner.
LEMMA StepKeepsView ==
  ASSUME ScannerInv, Next
  PROVE  ViewTypeOK' /\ HiddenStayHidden'
<1> USE DEF ScannerInv
<1>1. CASE Start
  <2>1. Addresses \in SUBSET Addresses /\ {} \in SUBSET Addresses /\ <<>> \in Seq(Addresses)
    OBVIOUS
  <2> QED  BY <1>1, <2>1 DEF Start, ViewTypeOK, HiddenStayHidden
<1>2. CASE Tick
  BY <1>2, RefreshShowsRows DEF Tick, ViewTypeOK
<1>3. CASE ToggleStale
  BY <1>3, RefreshShowsRows DEF ToggleStale, ViewTypeOK
<1>4. CASE ToggleHideIgnored
  BY <1>4, RefreshShowsRows DEF ToggleHideIgnored, ViewTypeOK
<1>5. CASE ToggleIgnoreSelected \/ ToggleIgnoreVisible
  <2>1. PICK list : BeginSave(Me, list) /\ UNCHANGED viewVars
    BY <1>5 DEF ToggleIgnoreSelected, ToggleIgnoreVisible
  <2>2. ~Running'
    BY <2>1 DEF BeginSave, Running, StoreInv, StoreTypeOK
  <2> QED  BY <2>1, <2>2 DEF viewVars, ViewTypeOK, HiddenStayHidden
<1>6. CASE Saved
  BY <1>6, RefreshShowsRows DEF Saved, ViewTypeOK
<1>7. CASE MoveCursor
  BY <1>7 DEF MoveCursor, ViewTypeOK, HiddenStayHidden, Running, storeVars
<1>8. CASE RowHighlighted
  <2>1. Head(events) \in Addresses /\ Tail(events) \in Seq(Addresses)
    BY <1>8 DEF RowHighlighted, ViewTypeOK
  <2> QED  BY <1>8, <2>1 DEF RowHighlighted, ViewTypeOK, HiddenStayHidden, Running, storeVars
<1>9. CASE Stop
  <2>1. ~Running' /\ UNCHANGED viewVars
    BY <1>9 DEF Stop, Exit, FailSave, Running, StoreInv, StoreTypeOK
  <2> QED  BY <2>1 DEF viewVars, ViewTypeOK, HiddenStayHidden
<1>10. CASE Other
  <2>1. PICK a \in Apps \ {Me} :
          \/ Launch(a) \/ EndSave(a) \/ FailSave(a) \/ Exit(a)
          \/ \E ks \in SUBSET Keys : BeginSave(a, Toggled(ignored[a], ks))
    BY <1>10 DEF Other
  <2>2. phase'[Me] = phase[Me] /\ ignored'[Me] = ignored[Me]
    BY <2>1 DEF Launch, EndSave, FailSave, Exit, BeginSave, StoreInv, StoreTypeOK
  <2>3. UNCHANGED viewVars
    BY <1>10 DEF Other
  <2> QED  BY <2>2, <2>3 DEF viewVars, ViewTypeOK, HiddenStayHidden, Running
<1>11. ASSUME NEW a \in Addresses, DetectionCallback(a) \/ Age(a)
       PROVE  ViewTypeOK' /\ HiddenStayHidden'
  BY <1>11 DEF DetectionCallback, Age, ViewTypeOK, HiddenStayHidden, Running, storeVars
<1> QED  BY <1>1, <1>2, <1>3, <1>4, <1>5, <1>6, <1>7, <1>8, <1>9, <1>10, <1>11 DEF Next

\* Every state a scanner can reach satisfies the invariant.
THEOREM ScannerInvariance == Spec => []ScannerInv
<1>1. Init => ScannerInv
  <2>1. <<>> \in Seq(Addresses)
    OBVIOUS
  <2>2. Absent \in [holds : {"list", "garbage", "nothing", "absent"}, list : SUBSET Keys]
    BY DEF Absent
  <2>3. ASSUME Init
        PROVE  StoreInv /\ FileOK
    <3>1. StoreTypeOK
      BY <2>3 DEF Init, StoreInit, StoreTypeOK
    <3>2. \A a \in Apps : phase[a] # "saving"
      BY <2>3 DEF Init, StoreInit
    <3>3. Load = last
      BY <2>3 DEF Init, StoreInit, Load, Absent
    <3> QED  BY <2>2, <2>3, <3>1, <3>2, <3>3
             DEF Init, StoreInit, StoreInv, AloneWhileSaving, ListSurvives, FileOK
  <2>4. Init => ViewTypeOK /\ HiddenStayHidden
    BY <2>1 DEF Init, ViewTypeOK, HiddenStayHidden
  <2> QED  BY <2>3, <2>4 DEF ScannerInv
<1>2. ScannerInv /\ [Next]_vars => ScannerInv'
  <2>1. ASSUME ScannerInv, Next  PROVE ScannerInv'
    BY <2>1, StepKeepsStore, StepKeepsView DEF ScannerInv
  <2>2. ASSUME ScannerInv, UNCHANGED vars  PROVE ScannerInv'
    BY <2>2 DEF ScannerInv, vars, storeVars, viewVars, StoreInv, StoreTypeOK,
                AloneWhileSaving, ListSurvives, Saving, Load, FileOK, ViewTypeOK,
                HiddenStayHidden, Running
  <2> QED  BY <2>1, <2>2
<1> QED  BY <1>1, <1>2, PTL DEF Spec

(***************************************************************************)
(* Type correctness, for any number of scanners, devices and messages.     *)
(***************************************************************************)
THEOREM ScannerTypes == Spec => []TypeOK
<1>1. ScannerInv => TypeOK
  BY DEF ScannerInv, StoreInv, StoreTypeOK, FileOK, ViewTypeOK, TypeOK
<1> QED  BY <1>1, ScannerInvariance, PTL

(***************************************************************************)
(* No ignored device has a row while they are hidden (scan.py 376-405).    *)
(***************************************************************************)
THEOREM IgnoredStaysHidden == Spec => []HiddenStayHidden
<1>1. ScannerInv => HiddenStayHidden
  BY DEF ScannerInv
<1> QED  BY <1>1, ScannerInvariance, PTL

(***************************************************************************)
(* A scanner started after an undisturbed save loads the list saved, for   *)
(* any number of scanners on the file (scan.py 74-92).                     *)
(***************************************************************************)
THEOREM SavedListIsLoaded == Spec => []ListSurvives
<1>1. ScannerInv => ListSurvives
  BY DEF ScannerInv, StoreInv
<1> QED  BY <1>1, ScannerInvariance, PTL
=============================================================================
