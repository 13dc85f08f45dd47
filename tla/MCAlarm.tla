------------------------------- MODULE MCAlarm -------------------------------
(* Alarm with four alarms competing for three entries. *)
EXTENDS Alarm, TLC

CONSTANTS a1, a2, a3, a4
MCAlarms == {a1, a2, a3, a4}
Symmetry == Permutations(MCAlarms)
==============================================================================
