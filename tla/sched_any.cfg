\* Tasks that sleep, block and are killed at any point.
SPECIFICATION FairSpec
CONSTANTS
  MaxPid = 4
  MaxSleep = 2
  Quantum <- MCQuantum
  SpawnPriority <- MCHighOnly
  Waiters <- MCWorkers
  Killable <- MCWorkers
INVARIANTS
  TypeOK
  ReadyIsQueued
  CpuOwner
  QueuesSound
  LiveContextSaved
PROPERTIES
  DispatchOrder
  SleepersWake
