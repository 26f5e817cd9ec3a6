---------------------------- MODULE MCKernelLocks ----------------------------
(***************************************************************************)
(* Small instances of KernelLocks: two tasks that call the entry points    *)
(* which keep the discipline, and that call the ones which do not.         *)
(***************************************************************************)
EXTENDS KernelLocks

CONSTANTS t1, t2

MCTasks == {t1, t2}

MCCareful == {"yield_now", "sleep", "spawn", "scheduler_kill", "serial_print",
              "container_stop"}
MCHandlers == {"timer", "key"}

(* The entry points that do not keep the discipline, with those that wait for *)
(* a lock they hold, and what the keyboard handler runs on the enter key.      *)
MCOpen == {"process_kill", "alloc", "current_tick", "check_permission", "spawn",
           "container_stop"}
MCCommands == {"timer", "key_command"}
=============================================================================
