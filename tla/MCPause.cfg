SPECIFICATION Spec
CONSTANTS
  MaxActions = 7
  MaxShots = 2
INVARIANTS CallbacksOnce PauseTakesHold AdvancesOneFrame
PROPERTY MonitorOpens
