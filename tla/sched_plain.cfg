\* Tasks that compute, yield and exit.
SPECIFICATION FairSpec
CONSTANTS
  MaxPid = 5
  MaxSleep = 1
  Quantum <- MCQuantum
  SpawnPriority <- MCNormalOnly
  Waiters <- MCNone
  Killable <- MCNone
INVARIANTS
  OnlyRunnableQueued
PROPERTIES
  DispatchSound
  RoundRobin
  ImplementsLifecycle
