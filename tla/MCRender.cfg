SPECIFICATION FairSpec
CONSTANTS
  Backbuffers = {b1, b2}
  None = None
  MaxFrames = 4
  MaxRedraws = 1
  MaxUpdates = 1
INVARIANTS BackbuffersConserved TexturesRight
PROPERTIES ShownInOrder FramesShown UiGetsOn
CHECK_DEADLOCK FALSE
