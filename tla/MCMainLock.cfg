SPECIFICATION LockFairSpec
CONSTANTS
  MaxDepth = 1
  MaxSpurious = 3
  ViceExits = TRUE
INVARIANTS MutualExclusion HandshakeOwed NoOrphanedWait
PROPERTIES UiServed ViceResumes ProgramEnds
CHECK_DEADLOCK FALSE
