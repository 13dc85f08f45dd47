SPECIFICATION Spec
CONSTANTS
  Lines = {d1}
  MaxTraps = 1
  Loaders = {"autostart"}
  Savers = {"trap"}
  GivenAges = {3}
  Program = {"plain"}
INVARIANTS LinesCounted TrapArmed CheckpointsArmed
