--------------------------- MODULE DashboardState ---------------------------
(***************************************************************************)
(* The interpretation that dashboard.py gives to MessageBus messages: the  *)
(* protobuf varint fields of a payload, and DashboardState.apply_message.  *)
(***************************************************************************)
EXTENDS Integers, SequencesExt

\* The addresses the dashboard looks at; a message has one of them or another.
STAGE    == "STARTUP_STAGE"
SYSTEM   == "BATTERY_SYSTEM_STATE_OF_CHARGE_FOR_RIDER"
PACK     == "BATTERY_STATE_OF_CHARGE"
CHARGING == "BATTERY_CHARGING_ACTIVE"
INSTANCE_CHARGING == "BATTERY_INSTANCE_CHARGING_ACTIVE"
ASSIST   == "DRIVE_UNIT_PRESENT_ASSIST_FACTOR"
SPEED    == "DRIVE_UNIT_DISPLAYED_BIKE_SPEED"
Interpreted == {STAGE, SYSTEM, PACK, CHARGING, INSTANCE_CHARGING, ASSIST, SPEED}

Null == -1   \* None: no value
----------------------------------------------------------------------------
(***************************************************************************)
(* Varints: seven bits to a byte, low bits first, the eighth says that     *)
(* another byte follows.                                                   *)
(***************************************************************************)
Truncated == [ok |-> FALSE, value |-> 0, next |-> 0]

ParseVarint(data, offset) ==
  LET ends == {i \in (offset + 1)..Len(data) : data[i] < 128}
      digits(last) == SubSeq(data, offset + 1, last)
      number(last) == FoldRight(LAMBDA b, high : (b % 128) + 128 * high, digits(last), 0)
  IN IF ends = {} THEN Truncated
     ELSE [ok |-> TRUE, value |-> number(Min(ends)), next |-> Min(ends)]

Malformed == [ok |-> FALSE, values |-> <<>>]

\* A field that is read before others, which keeps its value if none of them repeats it.
WithField(values, number, value) ==
  [n \in DOMAIN values \cup {number} |-> IF n \in DOMAIN values THEN values[n] ELSE value]

\* The fields of a payload: number and value; a repeated field keeps its last value.
ParseFields(payload) ==
  LET from[offset \in 0..Len(payload)] ==
        LET key == ParseVarint(payload, offset)
            value == ParseVarint(payload, key.next)
            later == from[value.next]
        IN IF offset = Len(payload) THEN [ok |-> TRUE, values |-> <<>>]
           ELSE IF ~key.ok \/ key.value % 8 # 0 \/ ~value.ok \/ ~later.ok THEN Malformed
           ELSE [ok |-> TRUE, values |-> WithField(later.values, key.value \div 8, value.value)]
  IN from[0]

\* decode_uint, decode_uint8_nullable, decode_boolean: one field, or None.
FieldOf(payload, number) ==
  LET values == ParseFields(payload).values
  IN IF number \in DOMAIN values THEN values[number] ELSE Null

BooleanOf(payload, number) ==
  LET value == FieldOf(payload, number) IN IF value = Null THEN Null ELSE IF value = 0 THEN 0 ELSE 1
----------------------------------------------------------------------------
Charger == {"unknown", "charging", "unplugged"}

EmptyDisplay ==
  [stage |-> Null, assist |-> Null, battery |-> Null,
   speed |-> Null, charger |-> "unknown",
   system |-> Null, pack |-> Null, charging |-> Null, instance |-> Null]

\* Mutant: the pack's own percentage is preferred.
PackFirst(d) == [d EXCEPT !.battery = IF d.pack # Null THEN d.pack ELSE d.system]

\* _recompute_battery_percent: that of the system, else that of the pack.
WithBattery(d) == [d EXCEPT !.battery = IF d.system # Null THEN d.system ELSE d.pack]

\* _recompute_charger_connected: when both are None it keeps what it was.
WithCharger(d) ==
  CASE 1 \in {d.charging, d.instance} -> [d EXCEPT !.charger = "charging"]
    [] 1 \notin {d.charging, d.instance} /\ 0 \in {d.charging, d.instance} ->
         [d EXCEPT !.charger = "unplugged"]
    [] d.charging = Null /\ d.instance = Null -> d

Interpret(d, m) ==
  LET value == FieldOf(m.payload, 1)
      valid == BooleanOf(m.payload, 2)
  IN CASE m.source = SYSTEM   -> WithBattery([d EXCEPT !.system = value])
       [] m.source = PACK     -> WithBattery([d EXCEPT !.pack = value])
       [] m.source = CHARGING -> WithCharger([d EXCEPT !.charging = BooleanOf(m.payload, 1)])
       [] m.source = INSTANCE_CHARGING ->
            WithCharger([d EXCEPT !.instance = BooleanOf(m.payload, 1)])
       [] m.source = STAGE    -> [d EXCEPT !.stage = IF value # Null THEN value ELSE @]
       [] m.source = ASSIST   -> [d EXCEPT !.assist = IF value # Null THEN value ELSE @]
       [] m.source = SPEED    -> [d EXCEPT !.speed = IF valid = 1 /\ value # Null THEN value
                                                     ELSE IF valid = 0 THEN Null ELSE @]
       [] m.source \notin Interpreted -> d

\* The decoder raises ValueError out of apply_message.
Raises(m) == m.source \in Interpreted /\ ~ParseFields(m.payload).ok

\* apply_message on the fields a message is about.
Apply(d, m) == IF Raises(m) THEN d ELSE Interpret(d, m)
=============================================================================
