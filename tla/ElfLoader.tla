------------------------------ MODULE ElfLoader ------------------------------
(* The ELF loader (elf_loader.rs): a relocatable file's sections are laid out *)
(* in one allocation, its symbols get addresses there or in the kernel, its   *)
(* relocations are written over the copied bytes, and the module joins a list *)
(* that is searched for exported names.                                      *)
(* A byte is what it came from: << "zero" >>, << "data", section, k >> or      *)
(* << "field", value, k >>, the k-th of a field.  Sections and symbols are    *)
(* numbered as in the file; number 0, the null one, is left out of each.     *)
EXTENDS Integers, FiniteSetsExt, Sifting

CONSTANTS Files,        \* the files there are: name -> ElfFile
          SymbolNames,  \* the names their symbols may have
          KernelExports,\* KERNEL_EXPORTS: name -> address
          Bases,        \* addresses the allocator may return
          Word32        \* 2^32, or less: what a 32-bit field wraps at

(* What load_module reads of a file: a compiler aligns to powers of two, and  *)
(* offsets, sizes and values are unsigned.                                   *)
SignedTypes == {"PC32", "PLT32", "32S"}
RelocationTypes == SignedTypes \cup {"64", "32", "other"}
Section ==
  [type : {"progbits", "nobits", "rela", "other"}, alloc : BOOLEAN, align : Nat, size : Nat,
   inFile : BOOLEAN]
ElfSymbol == [name : SymbolNames, section : Nat, value : Nat, global : BOOLEAN]
Rela == [target : Nat, offset : Nat, type : RelocationTypes, sym : Nat, addend : Int]
HeaderChecks == << "TooSmall", "InvalidMagic", "NotElf64", "NotLittleEndian",
                   "NotRelocatable", "WrongArchitecture", "InvalidSectionOffset" >>
ElfFile ==
  [faults : SUBSET {HeaderChecks[c] : c \in DOMAIN HeaderChecks}, sections : Seq(Section),
   symbols : Seq(ElfSymbol), relas : Seq(Rela)]

ASSUME ElfAssumption ==
  /\ Word32 \in Nat \ {0} /\ Bases \subseteq Nat
  /\ \A n \in DOMAIN KernelExports : KernelExports[n] \in Nat
  /\ \A name \in DOMAIN Files :
       /\ Files[name] \in ElfFile
       /\ \A i \in DOMAIN Files[name].sections :
            LET align == Files[name].sections[i].align
            IN align = 0 \/ \E k \in 0 .. align : align = 2 ^ k

VARIABLE loadedModules  \* ELF_MANAGER.modules
elfVars == << loadedModules >>
ElfInit == loadedModules = << >>

----------------------------------------------------------------------------
(* load_module, step 1 and 2: the first check that fails is the error. *)
HeaderError(file) ==
  LET failed == {c \in DOMAIN HeaderChecks : HeaderChecks[c] \in file.faults}
  IN IF failed = {} THEN "none" ELSE HeaderChecks[Min(failed)]

(* Step 3: the sections that occupy memory follow one another, each at the    *)
(* next multiple of its alignment.                                           *)

\* The end of the last section is rounded down.
AlignedDown(end, align) == IF align > 1 THEN end - (end % align) ELSE end

Aligned(end, align) == IF align > 1 THEN ((end + align - 1) \div align) * align ELSE end

\* Where the section i and those before it end.
Ends(sections) ==
  LET end[i \in 0 .. Len(sections)] ==
        IF i = 0 THEN 0
        ELSE IF sections[i].alloc
             THEN Aligned(end[i - 1], sections[i].align) + sections[i].size
        ELSE end[i - 1]
  IN end

OffsetOf(sections, i) == Aligned(Ends(sections)[i - 1], sections[i].align)
TotalSize(sections) == Ends(sections)[Len(sections)]
Span(sections, i) == OffsetOf(sections, i) .. OffsetOf(sections, i) + sections[i].size - 1

(* Step 4: only PROGBITS that lie in the file are copied; .bss stays zero. *)
Copied(sections) ==
  {i \in DOMAIN sections :
     sections[i].alloc /\ sections[i].inFile /\ sections[i].type = "progbits"}
Image(sections) ==
  [at \in 0 .. TotalSize(sections) - 1 |->
     IF \E i \in Copied(sections) : at \in Span(sections, i)
     THEN LET i == CHOOSE j \in Copied(sections) : at \in Span(sections, j)
          IN << "data", i, at - OffsetOf(sections, i) >>
     ELSE << "zero" >>]

(* Step 6: a symbol with a section has an address if that section occupies    *)
(* memory; one without is looked up in the kernel.  0 stands for no address.  *)
Defined(file, sym) == sym.section \in DOMAIN file.sections
AddressOf(file, base, i) ==
  IF i \notin DOMAIN file.symbols THEN 0
  ELSE LET sym == file.symbols[i] IN
    IF Defined(file, sym)
    THEN IF file.sections[sym.section].alloc
         THEN base + OffsetOf(file.sections, sym.section) + sym.value ELSE 0
    ELSE IF sym.section = 0 /\ sym.name \in DOMAIN KernelExports
         THEN KernelExports[sym.name] ELSE 0

(* The global symbols that have an address, under their names: the last one  *)
(* of a name takes the place of those before it.                             *)
ExportedBy(file) ==
  {i \in DOMAIN file.symbols :
     /\ file.symbols[i].global /\ file.symbols[i].name # ""
     /\ Defined(file, file.symbols[i]) /\ file.sections[file.symbols[i].section].alloc}
ExportOf(file, name) == Max({i \in ExportedBy(file) : file.symbols[i].name = name})
Exports(file, base) ==
  [name \in {file.symbols[i].name : i \in ExportedBy(file)} |->
     AddressOf(file, base, ExportOf(file, name))]

(* apply_relocation: the value and the width of the field; a type it does not *)
(* know leaves the bytes as they are.                                        *)
FieldWidth(type) == CASE type = "64" -> 8 [] type \in {"PC32", "PLT32", "32", "32S"} -> 4
                      [] OTHER -> 0
FieldValue(type, sym, addend, place) ==
  CASE type = "64" -> sym + addend
    [] type \in {"PC32", "PLT32"} -> (sym + addend - place) % Word32
    [] OTHER -> (sym + addend) % Word32

\* The place of a field is its offset in the file's section, wherever that is.
PlaceInSection(file, rela) == rela.offset

(* Step 7: the place is in the section the table is about. *)
Place(file, rela) == OffsetOf(file.sections, rela.target) + rela.offset

(* A field is left alone when the section it is in does not occupy memory, or *)
(* less than 8 bytes of the allocation follow, however wide it is.           *)
Skipped(file, rela) ==
  \/ rela.target \notin DOMAIN file.sections
  \/ ~file.sections[rela.target].alloc
  \/ Place(file, rela) + 8 > TotalSize(file.sections)

\* The bytes of a field.  The k-th relocation writes those of its own, over what
\* was there.
FieldBytes(file, rela) == Place(file, rela) .. Place(file, rela) + FieldWidth(rela.type) - 1
Field(file, k) ==
  IF Skipped(file, file.relas[k]) THEN {} ELSE FieldBytes(file, file.relas[k])
Relocated(file, base, memory) ==
  [at \in DOMAIN memory |->
     LET over == {k \in DOMAIN file.relas : at \in Field(file, k)} IN
     IF over = {} THEN memory[at]
     ELSE LET rela == file.relas[Max(over)]
              place == Place(file, rela)
          IN << "field", FieldValue(rela.type, AddressOf(file, base, rela.sym), rela.addend,
                                    base + place), at - place >>]

LoadedModule(name, base) ==
  [name |-> name, base |-> base, exports |-> Exports(Files[name], base),
   memory |-> Relocated(Files[name], base, Image(Files[name].sections))]

(* ElfModuleManager::load: a name that is loaded already is not loaded again, *)
(* and no error.                                                             *)
LoadModule(name, base) ==
  /\ \A i \in DOMAIN loadedModules : /\ loadedModules[i].name # name
                                     /\ loadedModules[i].base # base
  /\ HeaderError(Files[name]) = "none" /\ TotalSize(Files[name].sections) > 0
  /\ loadedModules' = Append(loadedModules, LoadedModule(name, base))

UnloadModule(name) ==
  /\ \E i \in DOMAIN loadedModules : loadedModules[i].name = name
  /\ LET listed == {loadedModules[i] : i \in DOMAIN loadedModules}
     IN loadedModules' = Sift(loadedModules, {m \in listed : m.name # name})

(* find_symbol: the first module, in the order they were loaded, exporting it. *)
FindSymbol(symbol) ==
  LET those == {i \in DOMAIN loadedModules : symbol \in DOMAIN loadedModules[i].exports}
  IN IF those = {} THEN 0 ELSE loadedModules[Min(those)].exports[symbol]

ElfNext ==
  \/ \E name \in DOMAIN Files, base \in Bases : LoadModule(name, base)
  \/ \E name \in DOMAIN Files : UnloadModule(name)

ElfSpec == ElfInit /\ [][ElfNext]_elfVars

----------------------------------------------------------------------------
(* Where the field of a relocation leads: the address it was made from. *)
Signed32(v) == IF v >= Word32 \div 2 THEN v - Word32 ELSE v
LeadsTo(m, rela) ==
  LET at == Place(Files[m.name], rela)
      value == m.memory[at][2]
  IN CASE rela.type \in {"PC32", "PLT32"} -> Signed32(value) + m.base + at - rela.addend
       [] rela.type = "32S" -> Signed32(value) - rela.addend
       [] OTHER -> value - rela.addend

(* A field of four bytes is wide enough for what it stands for. *)
WideEnough(m, rela, target) ==
  LET value == target + rela.addend
      away == value - m.base - Place(Files[m.name], rela)
      half == Word32 \div 2
  IN CASE rela.type = "64" -> TRUE
       [] rela.type \in {"PC32", "PLT32"} -> away \in -half .. half - 1
       [] rela.type = "32S" -> value \in -half .. half - 1
       [] OTHER -> value \in 0 .. Word32 - 1

(* The name of a symbol stands for this symbol, and for a byte of its section. *)
Named(file, s) == s \in ExportedBy(file) /\ s = ExportOf(file, file.symbols[s].name)
Within(file, s) == file.symbols[s].value < file.sections[file.symbols[s].section].size
Imported(file, s) ==
  /\ s \in DOMAIN file.symbols /\ file.symbols[s].section = 0
  /\ file.symbols[s].name \in DOMAIN KernelExports

(* What the name of a symbol stands for, here or in the kernel.              *)
Targets(m, file, s) ==
  (IF Named(file, s) THEN {m.exports[file.symbols[s].name]} ELSE {})
    \cup (IF Imported(file, s) THEN {KernelExports[file.symbols[s].name]} ELSE {})

(* A loaded module runs the code its file describes.  Its sections are apart  *)
(* and aligned.  An exported name that is in its section is the address of    *)
(* the byte it names: that byte was copied there, unless the file has none    *)
(* or a relocation wrote over it.  A field with 8 bytes of the image from its *)
(* place on, that no later relocation writes over, is whole and, where it is  *)
(* wide enough, leads to the symbol it names (load_module, apply_relocation). *)
(* Of the fields nearer to the end nothing is said: FieldsWritten.            *)
SectionsApart(m, file) ==
  LET placed == {i \in DOMAIN file.sections : file.sections[i].alloc} IN
  \A i \in placed :
    /\ Span(file.sections, i) \subseteq DOMAIN m.memory
    /\ file.sections[i].align > 1
         => OffsetOf(file.sections, i) % file.sections[i].align = 0
    /\ \A j \in placed \ {i} : Span(file.sections, i) \cap Span(file.sections, j) = {}
ExportsNameBytes(m, file) ==
  \A s \in DOMAIN file.symbols : Named(file, s) /\ Within(file, s) =>
    LET sym == file.symbols[s]
        at == m.exports[sym.name] - m.base
    IN /\ at \in DOMAIN m.memory
       /\ m.memory[at][1] = "data" => m.memory[at] = << "data", sym.section, sym.value >>
       /\ m.memory[at][1] = "zero" => sym.section \notin Copied(file.sections)
InMemory(file, rela) ==
  rela.target \in DOMAIN file.sections /\ file.sections[rela.target].alloc
FieldsLead(m, file) ==
  \A k \in DOMAIN file.relas :
    LET rela == file.relas[k]
        at == Place(file, rela)
    IN (/\ InMemory(file, rela) /\ at + 8 <= TotalSize(file.sections)
        /\ rela.type # "other"
        /\ \A l \in k + 1 .. Len(file.relas) : FieldBytes(file, rela) \cap Field(file, l) = {}) =>
         /\ \A b \in FieldBytes(file, rela) :
              m.memory[b] = << "field", m.memory[at][2], b - at >>
         /\ \A target \in Targets(m, file, rela.sym) :
              WideEnough(m, rela, target) => LeadsTo(m, rela) = target
ModulesSound ==
  \A n \in DOMAIN loadedModules :
    LET m == loadedModules[n] IN
    /\ SectionsApart(m, Files[m.name])
    /\ ExportsNameBytes(m, Files[m.name])
    /\ FieldsLead(m, Files[m.name])

(* What "loaded with success" says of a module's relocations, and the code    *)
(* does not keep: the field of each, if it lies in a section that occupies    *)
(* memory, was written.  load_module skips a field of 4 bytes, too, when less *)
(* than 8 of the image follow, and reports nothing.                          *)
FieldsWritten ==
  \A n \in DOMAIN loadedModules :
    LET m == loadedModules[n]
        file == Files[m.name]
    IN \A k \in DOMAIN file.relas :
         LET rela == file.relas[k] IN
         (InMemory(file, rela) /\ FieldBytes(file, rela) \subseteq Span(file.sections, rela.target))
           => \A b \in FieldBytes(file, rela) : m.memory[b][1] = "field"

(* No name is loaded twice, and a name some module exports is found in a      *)
(* module that is loaded, the first that has it; it is an address of that     *)
(* module's memory if it is in its section (load, unload, find_symbol).       *)
SymbolsLive ==
  /\ \A i, j \in DOMAIN loadedModules :
       loadedModules[i].name = loadedModules[j].name => i = j
  /\ \A i \in DOMAIN loadedModules : \A symbol \in DOMAIN loadedModules[i].exports :
       \E j \in 1 .. i :
         LET m == loadedModules[j]  file == Files[m.name] IN
         /\ \E s \in ExportedBy(file) :
              /\ file.symbols[s].name = symbol /\ Named(file, s)
              /\ Within(file, s) => FindSymbol(symbol) - m.base \in DOMAIN m.memory
         /\ \A k \in 1 .. j - 1 : symbol \notin DOMAIN loadedModules[k].exports
=============================================================================
