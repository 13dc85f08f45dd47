SPECIFICATION Spec
CONSTANTS
  a1 = a1
  a2 = a2
  a3 = a3
  a4 = a4
  NoAlarm = NoAlarm
  Alarms <- MCAlarms
  MaxPending = 3
  ClockMax = 3
  ResetClk = 1
  MaxCycles = 2
SYMMETRY Symmetry
INVARIANTS IndexConsistent NextIsEarliest
PROPERTIES NoAlarmOverrun ImplementsAlarmSpec
