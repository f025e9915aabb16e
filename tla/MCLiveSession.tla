-------------------------- MODULE MCLiveSession --------------------------
(***************************************************************************)
(* A live session with two data channels and a handful of notifications,   *)
(* with and without a display.                                             *)
(***************************************************************************)
EXTENDS Dashboard

Cmd(t, a) == [command |-> [type |-> t, arg |-> a], replies |-> 0, raises |-> FALSE]
Msg(n) == [command |-> NoCommand, replies |-> n, raises |-> FALSE]
Raising == [command |-> NoCommand, replies |-> 0, raises |-> TRUE]
Unanswered == Msg(0)

MCChannels == 0..2

\* The handshake in two halves, in one piece behind a subscription request, in one
\* piece with a callback that raises before the check, and requests before, between
\* and after them.
FirstHalf == <<Cmd("version", 3), Cmd("max_packet", 20), Unanswered, Unanswered>>
SecondHalf == <<Cmd("advance", 1), Unanswered, Cmd("advance", 2), Unanswered>>
OldVersion == <<Cmd("version", 2), Msg(1), Unanswered, Unanswered>>
InOnePiece == <<Msg(2), Cmd("version", 3), Cmd("max_packet", 20), Cmd("advance", 1),
                Cmd("advance", 2), Unanswered, Unanswered>>
CutShort == <<Msg(1), Cmd("version", 3), Cmd("max_packet", 20), Cmd("advance", 1),
              Unanswered, Cmd("advance", 2), Raising, Msg(2)>>

MCNotifications == {FirstHalf, SecondHalf, OldVersion, InOnePiece, CutShort}

Says(source, value) == [source |-> source, value |-> value, valid |-> Null, garbled |-> FALSE]
SaysSpeed(value, valid) == [source |-> SPEED, value |-> value, valid |-> valid, garbled |-> FALSE]
Garbled(source) == [source |-> source, value |-> Null, valid |-> Null, garbled |-> TRUE]

\* Both charging reports, both percentages, values given and withdrawn in every order,
\* a value of two bytes, and a report whose decoding raises.
MCContents ==
  (FirstHalf  :> <<Says(CHARGING, 1), SaysSpeed(250, 1)>>) @@
  (SecondHalf :> <<Says(SYSTEM, 80), Says(CHARGING, Null)>>) @@
  (OldVersion :> <<Says(STAGE, 2), Says(INSTANCE_CHARGING, 0), Says(SYSTEM, Null)>>) @@
  (InOnePiece :> <<Says(PACK, 79), SaysSpeed(0, 0)>>) @@
  (CutShort   :> <<Says(INSTANCE_CHARGING, 1), Garbled(ASSIST)>>)
=============================================================================
