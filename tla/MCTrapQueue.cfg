SPECIFICATION FairSpec
CONSTANTS
  MaxIssued = 5
  MaxResets = 2
  NestAnywhere = FALSE
INVARIANTS TrapsRunInOrder NoTrapForgotten
PROPERTIES EveryTrapRuns
CHECK_DEADLOCK FALSE
