-------------------------------- MODULE Wasm --------------------------------
(* The WASM interpreter (wasm/): a module is parsed, instantiated and called; *)
(* one action is one instruction.  Bytecode is bytes, as the interpreter skips    *)
(* over bytes, with immediates of one byte; an i32 wraps at WasmWord, a fourth  *)
(* power that four digits of it fill; values of other types have no content.  *)
(* The build is the default one, in which an overflow panics.                *)
(* A WasmModule is what parse_module returns or what a caller makes of its    *)
(* public fields: FromBinary says which.                                     *)
EXTENDS Integers, Sequences, SequencesExt, FiniteSetsExt

CONSTANTS WasmModules,     \* name -> [faults, imports, functions, typed, pages, data]
          CallArguments,   \* argument lists a call may come with
          MaxInstructions, \* CPU limit of an instance (10,000,000)
          MaxCallDepth,    \* MAX_CALL_DEPTH (256)
          PageSize,        \* 65536
          MaxPages,        \* MAX_LINEAR_MEMORY, in pages
          Radix,           \* what a byte of memory holds
          MaxCalls         \* bound: calls of a behaviour

(* WasmValue and the parts of a WasmModule; a function's code is its bytes. *)
WasmValue == [i32 : BOOLEAN, n : Int]
FuncBody == [params : Nat, locals : Nat, results : Nat, code : Seq(0 .. 255)]
DataSegment == [offset : Nat, bytes : Seq(0 .. Radix - 1)]
ParseChecks == << "UnexpectedEof", "InvalidMagic", "InvalidVersion", "Truncated" >>
HostNames == {"abort", "log", "value"}
ParseFaults == {ParseChecks[c] : c \in DOMAIN ParseChecks}
WasmModule == [faults : SUBSET ParseFaults,
               imports : Seq(HostNames), functions : Seq(FuncBody), typed : BOOLEAN,
               pages : Nat, data : Seq(DataSegment)]

ASSUME WasmAssumption ==
  /\ MaxInstructions \in Nat /\ MaxCallDepth \in Nat /\ MaxPages \in Nat /\ MaxCalls \in Nat
  /\ PageSize \in Nat \ {0} /\ Radix \in Nat \ {0, 1}
  /\ \A name \in DOMAIN WasmModules : WasmModules[name] \in WasmModule
  /\ CallArguments \subseteq Seq(WasmValue)

VARIABLES
  instance,  \* WasmInstance: [module, memory, globals, values, calls, controls, executed]
  running,   \* the activations of execute_bytecode: [func, pc, base]
  outcome,   \* how the last call ended
  abandoned, \* auxiliary: frames below those of the calls that are running
  called     \* history: calls made

wasmVars == << instance, running, outcome, abandoned, called >>

NoInstance == [module |-> "none"]
WasmInit == instance = NoInstance /\ running = << >> /\ outcome = "none" /\ abandoned = 0
            /\ called = 0

Op == [unreachable |-> 0, nop |-> 1, block |-> 2, loop |-> 3, if |-> 4, else |-> 5,
       end |-> 11, br |-> 12, brIf |-> 13, return |-> 15, call |-> 16, drop |-> 26,
       select |-> 27, localGet |-> 32, localSet |-> 33, localTee |-> 34,
       globalGet |-> 35, globalSet |-> 36, load |-> 40, store |-> 54, size |-> 63,
       grow |-> 64, const |-> 65, const64 |-> 66, float |-> 67, float64 |-> 68, eqz |-> 69,
       eq |-> 70, ne |-> 71, lt |-> 72, gt |-> 74, le |-> 76, ge |-> 78, add |-> 106,
       sub |-> 107, mul |-> 108, div |-> 109, and |-> 113, or |-> 114, xor |-> 115,
       shl |-> 116, shr |-> 117, extend8 |-> 192, extend16 |-> 193]

----------------------------------------------------------------------------
(* Values *)
WasmWord == Radix * Radix * Radix * Radix
Wrap32(v) == ((v + WasmWord \div 2) % WasmWord) - WasmWord \div 2
I32(v) == [i32 |-> TRUE, n |-> Wrap32(v)]
Other == [i32 |-> FALSE, n |-> 0]   \* a value of another type
Truth(p) == IF p THEN 1 ELSE 0
PlaceValue == << 1, Radix, Radix * Radix, Radix * Radix * Radix >>
DigitsOf(v) == [k \in 1 .. 4 |-> ((v % WasmWord) \div PlaceValue[k]) % Radix]
FromDigits(d) ==
  Wrap32(d[1] + PlaceValue[2] * d[2] + PlaceValue[3] * d[3] + PlaceValue[4] * d[4])
Padded(seq, n) == seq \o [k \in 1 .. n - Len(seq) |-> I32(0)]
WithoutTop(values, n) == SubSeq(values, 1, Max({0, Len(values) - n}))
TopOf(values, n) == SubSeq(values, Max({0, Len(values) - n}) + 1, Len(values))

(* pop_i32, n times: the ones that fail, and the value a good one gives. *)
BadPops(values, n) ==
  {j \in 1 .. n : j > Len(values) \/ ~values[Len(values) - j + 1].i32}
Popped(values, j) == values[Len(values) - j + 1].n

----------------------------------------------------------------------------
(* load and instantiate.  parse_section knows the types, exports, memory,     *)
(* start and code of a module; imports, the types of the functions and data   *)
(* are sections it ignores.                                                  *)
ParsedModule(m) == [m EXCEPT !.imports = << >>, !.typed = FALSE, !.data = << >>]

DataFits(m) == \A k \in DOMAIN m.data :
  m.data[k].offset + Len(m.data[k].bytes) <= m.pages * PageSize
\* The segments are copied in order: the last that reaches a cell is what it holds.
Reaches(segment, a) == a - segment.offset \in DOMAIN segment.bytes
Filled(m) ==
  [a \in 1 .. m.pages * PageSize |->
     LET over == {k \in DOMAIN m.data : Reaches(m.data[k], a)} IN
     IF over = {} THEN 0
     ELSE LET segment == m.data[Max(over)] IN segment.bytes[a - segment.offset]]
InstanceOf(m) ==
  [module |-> m, memory |-> Filled(m),
   globals |-> << >>, values |-> << >>, calls |-> << >>, controls |-> << >>,
   executed |-> 0]

Instantiate(name, FromBinary) ==
  LET given == WasmModules[name]
      m == IF FromBinary THEN ParsedModule(given) ELSE given
      broken == FromBinary /\ \E c \in DOMAIN ParseChecks : ParseChecks[c] \in given.faults
      fits == m.pages <= MaxPages /\ DataFits(m)
  IN /\ instance = NoInstance
     /\ instance' = IF ~broken /\ fits THEN InstanceOf(m) ELSE NoInstance
     /\ outcome' = IF broken THEN "parse" ELSE IF fits THEN "none" ELSE "memory"
     /\ UNCHANGED << running, abandoned, called >>

----------------------------------------------------------------------------
(* The instruction that is next. *)
Active == Last(running)
Bytecode == instance.module.functions[Active.func].code
At == Active.pc
Immediate(k) == IF At + k < Len(Bytecode) THEN Bytecode[At + k + 1] ELSE 0
Fetches(ops) ==
  /\ running # << >> /\ At < Len(Bytecode) /\ instance.executed < MaxInstructions
  /\ Bytecode[At + 1] \in ops
Opcode == Bytecode[At + 1]

GoesTo(pc, now) ==
  /\ running' = [running EXCEPT ![Len(running)].pc = pc]
  /\ instance' = [now EXCEPT !.executed = @ + 1]
  /\ UNCHANGED << outcome, abandoned, called >>

(* An error unwinds every activation; the frames, values and control frames   *)
(* of the instance stay.                                                     *)
Fails(error, now) ==
  /\ outcome' = error /\ running' = << >>
  /\ abandoned' = abandoned + Len(running)
  /\ instance' = now
FailsAt(error, now) ==
  Fails(error, [now EXCEPT !.executed = @ + 1]) /\ UNCHANGED called
Holding(values) == [instance EXCEPT !.values = values]

(* The instruction takes n i32 values and does what then says with the rest. *)
Taking(n, Then(_)) ==
  LET bad == BadPops(instance.values, n) IN
  IF bad = {} THEN Then(WithoutTop(instance.values, n))
  ELSE FailsAt("stack", Holding(WithoutTop(instance.values, Min(bad))))
Taken(j) == Popped(instance.values, j)

----------------------------------------------------------------------------
(* skip_to_end and skip_to_else_or_end look at every byte from a place on,    *)
(* immediates too.                                                           *)
CountOf(ops, from, to) == Cardinality({p \in from .. to : Bytecode[p + 1] \in ops})
Opens == {Op.block, Op.loop, Op.if}
StopsAt(p, from, stopAtElse) ==
  LET left == CountOf({Op.end}, from, p) - CountOf(Opens, from, p) IN
  \/ Bytecode[p + 1] = Op.end /\ left = 1
  \/ stopAtElse /\ Bytecode[p + 1] = Op.else /\ left = 0
SkipFrom(from, stopAtElse) ==
  LET stops == {p \in from .. Len(Bytecode) - 1 : StopsAt(p, from, stopAtElse)}
  IN IF stops = {} THEN Len(Bytecode) ELSE Min(stops) + 1

EnteredBlock(values, isLoop, pc) ==
  [instance EXCEPT !.values = values,
     !.controls = Append(@, [loop |-> isLoop, depth |-> Len(values), start |-> pc])]
LeftBlock(now) == [now EXCEPT !.controls = WithoutTop(@, 1)]

BlockOrLoop ==
  /\ Fetches({Op.block, Op.loop})
  /\ GoesTo(At + 2, EnteredBlock(instance.values, Opcode = Op.loop, At + 2))

\* A condition that fails skips to the else or past the end, and enters all the same.
IfThen ==
  /\ Fetches({Op.if})
  /\ LET enter(values) ==
           LET pc == IF Taken(1) = 0 THEN SkipFrom(At + 2, TRUE) ELSE At + 2
           IN GoesTo(pc, EnteredBlock(values, FALSE, pc))
     IN Taking(1, enter)

ElseOrEnd ==
  \/ Fetches({Op.else}) /\ GoesTo(SkipFrom(At + 1, FALSE), LeftBlock(instance))
  \/ /\ Fetches({Op.end})
     /\ IF instance.controls = << >> THEN GoesTo(At + 1, instance)
        ELSE LET depth == Last(instance.controls).depth IN
             IF depth > Len(instance.values) THEN FailsAt("panic", instance)
             ELSE GoesTo(At + 1, LeftBlock(Holding(SubSeq(instance.values, 1, depth))))

(* do_branch: only a loop is branched to. *)
BranchTarget(depth) ==
  LET n == Len(instance.controls) IN
  IF depth < n /\ instance.controls[n - depth].loop
  THEN instance.controls[n - depth].start ELSE At + 2
BranchTo ==
  \/ Fetches({Op.br}) /\ GoesTo(BranchTarget(Immediate(1)), instance)
  \/ /\ Fetches({Op.brIf})
     /\ LET branch(values) ==
              GoesTo(IF Taken(1) # 0 THEN BranchTarget(Immediate(1)) ELSE At + 2, Holding(values))
        IN Taking(1, branch)

----------------------------------------------------------------------------
(* call_function: f counts the imports first.  caller is the state of the     *)
(* activations and of the instance with the arguments taken.                 *)
HostImports == instance.module.imports
Enter(f, args, callers, now) ==
  LET local == f - Len(HostImports) + 1
      code == instance.module.functions[local]
  IN IF Len(now.calls) >= MaxCallDepth THEN Fails("depth", now)
     ELSE IF f < Len(HostImports)
     THEN IF HostImports[f + 1] = "abort" THEN Fails("unreachable", now)
          ELSE LET result == IF HostImports[f + 1] = "log" THEN << >> ELSE << I32(0) >> IN
               /\ UNCHANGED abandoned
               /\ running' = callers
               /\ instance' = IF callers = << >> THEN now ELSE [now EXCEPT !.values = @ \o result]
               /\ outcome' = IF callers = << >> THEN "ok" ELSE outcome
     ELSE IF local > Len(instance.module.functions) \/ ~instance.module.typed
     THEN Fails("undefined", now)
     ELSE LET given == SubSeq(args, 1, Min({Len(args), code.params}))
              locals == Padded(given, code.params + code.locals)
          IN /\ running' = Append(callers, [func |-> local, pc |-> 0, base |-> Len(now.values)])
             /\ instance' = [now EXCEPT !.calls = Append(@, [func |-> local, locals |-> locals])]
             /\ UNCHANGED << outcome, abandoned >>

CallExport(f, args) ==
  /\ instance # NoInstance /\ running = << >> /\ outcome # "panic"
  /\ called < MaxCalls /\ called' = called + 1
  /\ Enter(f, args, << >>, instance)

\* Up to four values are the arguments, whatever the callee's type.
CallInstruction ==
  /\ Fetches({Op.call}) /\ UNCHANGED called
  /\ Enter(Immediate(1), TopOf(instance.values, 4),
           [running EXCEPT ![Len(running)].pc = At + 2],
           [Holding(WithoutTop(instance.values, 4)) EXCEPT !.executed = @ + 1])

\* The frame of a call that returns is left to the instance.
FramesKept(calls) == calls

FramesLeft(calls) == Front(calls)

(* The results are taken off the stack, which goes back to the call's base,   *)
(* and the frame is dropped.                                                 *)
Leave(now) ==
  LET arity == instance.module.functions[Active.func].results
      kept == SubSeq(now.values, 1, Min({Active.base, Max({0, Len(now.values) - arity})}))
      outermost == Len(running) = 1
  IN /\ running' = Front(running)
     /\ instance' = [now EXCEPT !.calls = FramesLeft(@), !.values =
                      IF outermost THEN kept ELSE kept \o TopOf(now.values, arity)]
     /\ outcome' = IF outermost THEN "ok" ELSE outcome
     /\ UNCHANGED << abandoned, called >>

ReturnFrom ==
  \/ Fetches({Op.return}) /\ Leave([instance EXCEPT !.executed = @ + 1])
  \/ running # << >> /\ At >= Len(Bytecode) /\ Leave(instance)

TrapOut ==
  \/ Fetches({Op.unreachable}) /\ FailsAt("unreachable", instance)
  \/ /\ running # << >> /\ At < Len(Bytecode) /\ instance.executed >= MaxInstructions
     /\ Fails("cpu", instance) /\ UNCHANGED called

----------------------------------------------------------------------------
(* Variables.  An index beyond the list reads 0 (globals) or fails (locals); *)
(* a write makes the list longer.                                            *)
WrittenAt(list, idx, v) == [Padded(list, idx + 1) EXCEPT ![idx + 1] = v]
LastOr0(values) == IF values = << >> THEN I32(0) ELSE Last(values)
Pushing(v) == Holding(Append(instance.values, v))

ReadVariable ==
  LET idx == Immediate(1) + 1
      locals == Last(instance.calls).locals
  IN \/ /\ Fetches({Op.localGet})
        /\ IF idx \in DOMAIN locals THEN GoesTo(At + 2, Pushing(locals[idx]))
           ELSE FailsAt("stack", instance)
     \/ /\ Fetches({Op.globalGet})
        /\ GoesTo(At + 2, Pushing(IF idx \in DOMAIN instance.globals
                                   THEN instance.globals[idx] ELSE I32(0)))

WriteVariable ==
  LET v == LastOr0(instance.values)
      inLocals(now) == [now EXCEPT !.calls[Len(now.calls)].locals = WrittenAt(@, Immediate(1), v)]
      rest == Holding(WithoutTop(instance.values, 1))
  IN \/ Fetches({Op.localSet}) /\ GoesTo(At + 2, inLocals(rest))
     \/ Fetches({Op.localTee}) /\ GoesTo(At + 2, inLocals(instance))
     \/ Fetches({Op.globalSet})
        /\ GoesTo(At + 2, [rest EXCEPT !.globals = WrittenAt(@, Immediate(1), v)])

----------------------------------------------------------------------------
(* Memory.  A base is extended with its sign to 64 bits: with an offset it    *)
(* overflows when the sum of the two passes 0, as the end of the access does. *)
AccessOf(base, offset) ==
  LET a == base + offset IN
  IF base < 0 THEN IF a + 4 >= 0 THEN "panic" ELSE "memory"
  ELSE IF a + 4 > Len(instance.memory) THEN "memory" ELSE "fine"

LoadI32 ==
  /\ Fetches({Op.load})
  /\ LET read(values) ==
           LET a == Taken(1) + Immediate(2) IN
           IF AccessOf(Taken(1), Immediate(2)) # "fine"
           THEN FailsAt(AccessOf(Taken(1), Immediate(2)), Holding(values))
           ELSE GoesTo(At + 3, Holding(Append(values,
                  I32(FromDigits(SubSeq(instance.memory, a + 1, a + 4))))))
     IN Taking(1, read)

StoreI32 ==
  /\ Fetches({Op.store})
  /\ LET write(values) ==
           LET a == Taken(2) + Immediate(2) IN
           IF AccessOf(Taken(2), Immediate(2)) # "fine"
           THEN FailsAt(AccessOf(Taken(2), Immediate(2)), Holding(values))
           ELSE GoesTo(At + 3, [Holding(values) EXCEPT
                  !.memory = [k \in DOMAIN @ |-> IF k \in a + 1 .. a + 4
                                                 THEN DigitsOf(Taken(1))[k - a] ELSE @[k]]])
     IN Taking(2, write)

PagesNow == Len(instance.memory) \div PageSize

\* One page more than the limit.
GrowableOver(delta) == PagesNow + delta <= MaxPages + 1
Growable(delta) == PagesNow + delta <= MaxPages

GrowMemory ==
  /\ Fetches({Op.grow})
  /\ LET grow(values) ==
           IF Taken(1) < 0 THEN FailsAt("panic", Holding(values))
           ELSE IF Growable(Taken(1))
           THEN GoesTo(At + 2, [Holding(Append(values, I32(PagesNow))) EXCEPT
                  !.memory = @ \o [k \in 1 .. Taken(1) * PageSize |-> 0]])
           ELSE GoesTo(At + 2, Holding(Append(values, I32(-1))))
     IN Taking(1, grow)

----------------------------------------------------------------------------
(* The rest of the instructions. *)
Divided(a, b) == LET q == (IF a < 0 THEN -a ELSE a) \div (IF b < 0 THEN -b ELSE b)
                 IN IF (a < 0) = (b < 0) THEN q ELSE -q
Compares == {Op.eq, Op.ne, Op.lt, Op.gt, Op.le, Op.ge}
Binary(op, a, b) ==
  CASE op = Op.add -> a + b  [] op = Op.sub -> a - b  [] op = Op.mul -> a * b
    [] op = Op.div -> Divided(a, b)
    [] op = Op.eq -> Truth(a = b) [] op = Op.ne -> Truth(a # b)
    [] op = Op.lt -> Truth(a < b) [] op = Op.gt -> Truth(a > b)
    [] op = Op.le -> Truth(a <= b) [] op = Op.ge -> Truth(a >= b)

\* What an operation on bits or a shift gives is left open: any i32.
BitResults == -(WasmWord \div 2) .. WasmWord \div 2 - 1

Numeric ==
  \/ /\ Fetches(Compares \cup {Op.add, Op.sub, Op.mul, Op.div})
     /\ LET operate(values) ==
              IF Opcode = Op.div /\ Taken(1) = 0 THEN FailsAt("division", Holding(values))
              ELSE GoesTo(At + 1, Holding(Append(values, I32(Binary(Opcode, Taken(2), Taken(1))))))
        IN Taking(2, operate)
  \/ /\ Fetches({Op.eqz})
     /\ LET test(values) == GoesTo(At + 1, Holding(Append(values, I32(Truth(Taken(1) = 0)))))
        IN Taking(1, test)
  \/ /\ Fetches({Op.and, Op.or, Op.xor, Op.shl, Op.shr})
     /\ LET combine(values) == \E v \in BitResults : GoesTo(At + 1, Holding(Append(values, I32(v))))
        IN Taking(2, combine)

\* A floating-point constant that the code does not hold all of is not pushed.
PushFloat(size) ==
  IF At + 1 + size <= Len(Bytecode) THEN GoesTo(At + 1 + size, Pushing(Other))
  ELSE GoesTo(At + 1, instance)

PushConstant ==
  \/ Fetches({Op.const}) /\ GoesTo(At + 2, Pushing(I32(Immediate(1))))
  \/ Fetches({Op.const64}) /\ GoesTo(At + 2, Pushing(Other))
  \/ Fetches({Op.size}) /\ GoesTo(At + 2, Pushing(I32(PagesNow)))
  \/ Fetches({Op.float}) /\ PushFloat(4)
  \/ Fetches({Op.float64}) /\ PushFloat(8)

Parametric ==
  \/ Fetches({Op.drop}) /\ GoesTo(At + 1, Holding(WithoutTop(instance.values, 1)))
  \/ /\ Fetches({Op.select})
     /\ LET choose(values) ==
              LET b == LastOr0(values)  a == LastOr0(WithoutTop(values, 1)) IN
              GoesTo(At + 1, Holding(Append(WithoutTop(values, 2),
                                            IF Taken(1) # 0 THEN a ELSE b)))
        IN Taking(1, choose)
  \/ Fetches({Op.extend8, Op.extend16}) /\ GoesTo(At + 2, instance)
  \/ Fetches(0 .. 255 \ {Op[n] : n \in DOMAIN Op \ {"nop"}}) /\ GoesTo(At + 1, instance)

WasmNext ==
  \/ \E name \in DOMAIN WasmModules, fromBinary \in BOOLEAN : Instantiate(name, fromBinary)
  \/ instance # NoInstance /\ \E args \in CallArguments :
       \E f \in 0 .. Len(HostImports) + Len(instance.module.functions) : CallExport(f, args)
  \/ BlockOrLoop \/ IfThen \/ ElseOrEnd \/ BranchTo
  \/ CallInstruction \/ ReturnFrom \/ TrapOut
  \/ ReadVariable \/ WriteVariable \/ LoadI32 \/ StoreI32 \/ GrowMemory
  \/ Numeric \/ PushConstant \/ Parametric

WasmSpec == WasmInit /\ [][WasmNext]_wasmVars

(* Whatever a module's code is, the limits of the instance are kept over all  *)
(* its calls: instructions, nesting of calls, and a memory of whole pages     *)
(* that never shrinks (execute_bytecode, call_function, memory.grow).        *)
WasmBounded ==
  instance # NoInstance =>
    /\ instance.executed <= MaxInstructions
    /\ Len(instance.calls) <= MaxCallDepth
    /\ PagesNow \in instance.module.pages .. MaxPages
    /\ Len(instance.memory) % PageSize = 0

(* The frame that local.get and local.set use is the running function's own,  *)
(* at every level: the frames of the calls that are running are the last of   *)
(* the call stack, in their order (call_function).  Of what is below them     *)
(* nothing is said: it need not be empty (FramesReturned).                   *)
FramesOwned ==
  instance # NoInstance =>
    /\ Len(running) <= Len(instance.calls)
    /\ \A i \in DOMAIN running :
         instance.calls[Len(instance.calls) - Len(running) + i].func = running[i].func

(* What "restores the stack to its state before the call" says, and the code  *)
(* does not keep: with no call running the call stack is empty.  The ? after  *)
(* execute_bytecode leaves call_function before the restoring, so that each   *)
(* call that fails leaves its frames, and counts against MAX_CALL_DEPTH ever  *)
(* after.                                                                    *)
FramesReturned ==
  (instance # NoInstance /\ running = << >> /\ outcome # "panic") => instance.calls = << >>
=============================================================================
