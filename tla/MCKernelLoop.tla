----------------------------- MODULE MCKernelLoop -----------------------------
(* One task beside kernel_main and the idle task, at kernel_main's priority,  *)
(* with the periods of main.rs and the quanta of Priority::quantum.  The idle *)
(* task's quantum (u32::MAX) is cut short: nothing here depends on it.        *)
EXTENDS KernelLoop

SourceQuantum == [c \in Priority |-> CASE c = 0 -> 2 [] c = 1 -> 5 [] c = 2 -> 10
                                       [] c = 3 -> 20 [] c = 4 -> 20]
=============================================================================
