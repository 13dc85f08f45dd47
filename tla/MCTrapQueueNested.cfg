SPECIFICATION Spec
CONSTANTS
  MaxIssued = 3
  MaxResets = 0
  NestAnywhere = TRUE
INVARIANTS TrapsRunInOrder
CHECK_DEADLOCK FALSE
