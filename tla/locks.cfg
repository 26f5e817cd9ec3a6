\* Entry points that keep the interrupt discipline.
SPECIFICATION Spec
CONSTANTS
  t1 = t1
  t2 = t2
  Tasks <- MCTasks
  Entries <- MCCareful
  Handlers <- MCHandlers
INVARIANTS
  NoMaskedSpin
  SuspendedHoldsNone
