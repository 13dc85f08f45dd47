SPECIFICATION Spec
CONSTANTS
  QUEUE_SIZE = 3
  buffer_size = 2
  kernal_init_cycles = 4
  BootCycles = 3
  Frame = 2
  ResetCycles = 1
  Letters = {65}
  MaxLength = 2
  MaxClk = 6
  MaxFeeds = 3
  MaxResets = 1
  MaxKeys = 1
INVARIANTS KeysDelivered
PROPERTY KeysArrive
