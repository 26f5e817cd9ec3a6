\* The timer fires between scheduler::init and register_current_as_task.
SPECIFICATION FairSpec
CONSTANTS
  MaxPid = 2
  MaxSleep = 1
  Quantum <- MCQuantum
  SpawnPriority <- MCNone
  Waiters <- MCNone
  Killable <- MCNone
PROPERTIES
  BootCompletes
