------------------------------ MODULE Programs ------------------------------
(* What programs meet of the kernel, side by side: the loader of modules, the *)
(* system calls, the WASM interpreter and the compositor of their surfaces.   *)
(* They share no state.                                                      *)
EXTENDS ElfLoader, Syscalls, Wasm, Compositor

ProgramsSpec == ElfSpec /\ SyscallsSpec /\ WasmSpec /\ CompositorSpec

(* What the kernel keeps for a program, each part in its own module.  A       *)
(* module in memory is the code of its file, with its fields as far as the    *)
(* loader writes them, and its names are found.  The numbers system calls     *)
(* answer with are given out once and name what they were given out for, and  *)
(* every refusal is counted once, whoever it is counted against.  WASM keeps  *)
(* to its memory and its limits, and every running function has its own       *)
(* frame, above whatever failed calls left.  The screen has the surfaces      *)
(* where they are, with one focused, which looks it (elf_loader.rs,           *)
(* syscall/mod.rs, wasm/instance.rs, ui/compositor.rs).  What of this one     *)
(* might expect and the code does not keep is stated beside each part:        *)
(* FieldsWritten, RefusalsCharged, FramesReturned, LooksTrue.                *)
ProgramsTrue ==
  /\ ModulesSound /\ SymbolsLive
  /\ AnswersTrue
  /\ WasmBounded /\ FramesOwned
  /\ FrameTrue /\ OneFocus
=============================================================================
