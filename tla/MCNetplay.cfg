SPECIFICATION FairSpec
CONSTANTS
  Deltas = {2}
  MaxFrames = 3
  MaxInputs = 2
  MaxSuspends = 1
  MaxSessions = 2
INVARIANTS Lockstep NoFalseAlarm
PROPERTIES FramesGoOn
CHECK_DEADLOCK FALSE
