SPECIFICATION FairSpec
CONSTANTS
  Deltas = {2}
  MaxFrames = 3
  MaxInputs = 0
  MaxSuspends = 0
  MaxSessions = 1
PROPERTY LossNoticed
CHECK_DEADLOCK FALSE
