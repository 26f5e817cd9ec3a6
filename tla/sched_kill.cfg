\* A task is killed while it waits in a ready queue.
SPECIFICATION Spec
CONSTANTS
  MaxPid = 3
  MaxSleep = 1
  Quantum <- MCQuantum
  SpawnPriority <- MCNormalOnly
  Waiters <- MCNone
  Killable <- MCFirst
PROPERTIES
  DeadIsFinal
