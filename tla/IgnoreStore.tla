---------------------------- MODULE IgnoreStore ----------------------------
(***************************************************************************)
(* The ignore list of scan.py: a set of addresses that each running        *)
(* scanner keeps in memory and writes whole, in place, to one file that    *)
(* all scanners share, with no lock and no temporary file.                 *)
(***************************************************************************)
EXTENDS Integers, FiniteSets

CONSTANTS
  Apps,      \* the scanner processes
  Keys       \* normalized addresses

\* What the file holds: a list; the start of one with the end of a longer one behind it;
\* nothing, after a truncation.
Text(list) == [holds |-> "list", list |-> list]
Garbage(list) == [holds |-> "garbage", list |-> list]
Empty  == [holds |-> "nothing", list |-> {}]
Absent == [holds |-> "absent", list |-> {}]

VARIABLES
  phase, ignored,   \* of each scanner: whether it runs, ignored_addresses
  file,             \* the file on disk
  last, spoiled     \* history: the list saved last; whether its write was disturbed

storeVars == <<phase, ignored, file, last, spoiled>>

StoreInit ==
  /\ phase = [a \in Apps |-> "off"] /\ ignored = [a \in Apps |-> {}]
  /\ file = Absent /\ last = {} /\ spoiled = FALSE

\* load_ignored_addresses: a file that is missing or does not parse is an empty list.
Load == IF file.holds = "list" THEN file.list ELSE {}

\* ScannerApp.__init__.
Launch(a) ==
  /\ phase[a] = "off"
  /\ phase' = [phase EXCEPT ![a] = "running"]
  /\ ignored' = [ignored EXCEPT ![a] = Load]
  /\ UNCHANGED <<file, last, spoiled>>

\* toggle_visible_ignored: all of the keys are in the list and leave it, or they all enter it.
Toggled(list, keys) == IF keys \subseteq list THEN list \ keys ELSE list \cup keys
----------------------------------------------------------------------------
(***************************************************************************)
(* save_ignored_addresses: write_text truncates the file, then writes all  *)
(* of the list.  Another process may come between the two, or a kill.      *)
(***************************************************************************)
Saving == {a \in Apps : phase[a] = "saving"}

\* Mutant: the list written is the one from before the change.
BeginSaveOld(a, list) ==
  /\ phase[a] = "running"
  /\ phase' = [phase EXCEPT ![a] = "saving"]
  /\ file' = Empty /\ last' = list
  /\ spoiled' = (Saving # {})
  /\ UNCHANGED ignored

BeginSave(a, list) ==
  /\ phase[a] = "running"
  /\ phase' = [phase EXCEPT ![a] = "saving"]
  /\ ignored' = [ignored EXCEPT ![a] = list]
  /\ file' = Empty /\ last' = list
  /\ spoiled' = (Saving # {})

\* Each writer starts at the head of the file: a longer text written meanwhile shows behind.
EndSave(a) ==
  /\ phase[a] = "saving"
  /\ phase' = [phase EXCEPT ![a] = "running"]
  /\ file' = IF Cardinality(file.list) > Cardinality(ignored[a])
             THEN Garbage(file.list) ELSE Text(ignored[a])
  /\ UNCHANGED <<ignored, last, spoiled>>

\* The directory, the open or the write fails, which ends the application.
FailSave(a) ==
  /\ phase[a] = "running"
  /\ phase' = [phase EXCEPT ![a] = "off"] /\ ignored' = [ignored EXCEPT ![a] = {}]
  /\ \/ UNCHANGED <<file, spoiled>>
     \/ file' = Empty /\ spoiled' = TRUE
  /\ UNCHANGED last

\* The process ends or is killed; in the middle of a save the file stays as it is.
Exit(a) ==
  /\ phase[a] # "off"
  /\ phase' = [phase EXCEPT ![a] = "off"] /\ ignored' = [ignored EXCEPT ![a] = {}]
  /\ spoiled' = (spoiled \/ phase[a] = "saving")
  /\ UNCHANGED <<file, last>>
=============================================================================
