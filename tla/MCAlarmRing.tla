---------------------------- MODULE MCAlarmRing ----------------------------
(* Constants for the model checking of AlarmRing: one event that is        *)
(* recorded and, for each test of the callback, one that is not.           *)
EXTENDS AlarmRing

Event(command, type, channels) ==
    [lCommand |-> command, dwAlarmType |-> type, byChannel |-> channels]

MCEvents ==
    { Event("COMM_ALARM_V30", 3, {1}),
      Event("COMM_ALARM_V30", 3, {}),
      Event("COMM_ALARM_V30", 0, {1}),
      Event("COMM_ALARM_RULE", 3, {1}) }

=============================================================================
