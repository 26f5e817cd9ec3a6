\* Locks that a handler or spawn waits for are held with interrupts enabled.
SPECIFICATION Spec
CONSTANTS
  t1 = t1
  t2 = t2
  Tasks <- MCTasks
  Entries <- MCOpen
  Handlers <- MCCommands
INVARIANTS
  NoMaskedSpin
