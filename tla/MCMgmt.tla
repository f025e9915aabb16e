------------------------------- MODULE MCMgmt -------------------------------
(***************************************************************************)
(* Mgmt with answers, events of other commands, and events whose payload   *)
(* holds the bytes of an answer.                                           *)
(***************************************************************************)
EXTENDS Mgmt

Ev(code, payload) == [code |-> code, index |-> 0, payload |-> payload]

MCEvents == {
  Ev(Complete, <<LoadConnParam, 0, 0>>),            \* success
  Ev(Status, <<LoadConnParam, 0, 13>>),             \* Invalid Parameters
  Ev(Complete, <<LoadConnParam, 1, 5, 7>>),         \* another opcode
  Ev(Complete, <<LoadConnParam, 0>>),               \* too short for a status
  Ev(3, <<>>),                                      \* no payload
  Ev(18, <<1, 0, 0, 0, 3, 0, LoadConnParam, 0, 9>>) \* an answer inside a payload
}
=============================================================================
