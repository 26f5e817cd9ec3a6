SPECIFICATION LoopSpec
CHECK_DEADLOCK FALSE
CONSTANTS
  MaxPid = 3
  MaxSleep = 1
  Quantum <- SourceQuantum
  SpawnPriority = {2}
  Waiters = {}
  Killable = {}
PROPERTY CadenceKept
