SPECIFICATION Spec
CONSTANTS
  Second = 2
  ResetCycles = 1
  ClockMod = 64
  MaxClk = 4
  MaxInputs = 2
  MaxRequests = 4
  MaxFaults = 1
  MaxSlips = 1
INVARIANTS PlaybackReproduces ListAccountsForMachine  TimestampDue PlaybackNeverStalls
\* the bounds stop the clock and the user
CHECK_DEADLOCK FALSE
