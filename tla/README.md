# X86_64_EMU_SOFT in TLA+

A verification development for the software x86 emulator in `src/`: TLA+ models
of the running program, TLC runs that check them on small instances, and TLAPS
proofs that hold for every value of the models' constants (program images, page
sizes, devices, command lines). Paths below are relative to `src/X86_64_EMU_SOFT/`; `S/` is `SOURCE/SYSTEM/`, `H/` is
`HEADER/X86_64_EMU_SOFT/SYSTEM/`.

## 1. The system

| component | state it keeps | operations | talks to |
|---|---|---|---|
| **System** (`S/SYSTEM_STATE.cpp`) | devices, bus, CPU | constructor, `ConstructAndRegisterDevices`, `Register*Device`, `Start` | builds the bus page table, hands the bus to the CPU |
| **Memory bus** (`S/MEMORY/MEMORY.cpp`) | `MemoryPages`: a vector of sections per 4 KiB page | `MapMainMemory`, `MapResetRom`, `MapFirmwareRom`, `Read8..64`, `Write8..64` | calls devices; called by the cores |
| **Devices** (`S/IO_DEVICES`, `H/IO_DEVICES`) | byte vectors of memory, reset ROM, firmware | `Read8`, `Write8`, `ValidateDeviceAccess` | called by the bus |
| **CPU** (`S/CPU/CPU_STATE.cpp`) | vector of cores | `Start`: a thread for `cores[0]`, a 100 ms poll, `join` | shares `isRunning`, `hasShutdown` with the core thread |
| **Virtual core** (`S/CPU/VCORE.cpp`) | registers, RIP, CR0, EFER, the two atomic flags | constructor, `StartCore`, `decodeInstruction`, `executeInstruction`, destructor | calls decoder, executor, bus |
| **Decoding engine** (`S/CPU/DECODING_ENGINE`, `H/CPU/DECODING_ENGINE`) | none: handlers work on the core's prefixes, cursor and instruction | the 256-entry table and its handlers | bus, through `FetchBytes` |
| **Execution engine** (`S/CPU/EXECUTING_ENGINE`, `H/CPU/EXECUTION_ENGINE`) | none | `Handle_ADD/SUB/OR/MOV/NOP/UD` | core registers |
| **GPR, RIP, CR0, EFER** (`H/CPU/REGISTERS`) | 64-bit values | partial-register getters and setters; `CR0::SetValue`/`ValidateInput` (no caller) | core |
| **Command line** (`SOURCE/HELPERS/CMD_PARSE.cpp`) | the parsed options | constructor, `Validate` | read by the System constructor |
| **main** (`../X86_64_EMU_SOFT_EXE/X86_64_EMU_SOFT_EXE.cpp`) | the System | construct, `Start`, wait for input, destroy | |
| Tracing, printing, memory dump | none of their own | | the dump reads every device |

Starting the program is: parse the options; construct the cores in the startup
mode, with a bus that is still empty; build the devices in the order of the
command line, mapping each on the bus; dump the memory; `CPU::Start`. From there two threads exist. The core thread loops: fetch
bytes and call the handler of each until one finishes the instruction, add its
length to RIP, execute it. Every exception ends in one catch block, after which
`hasShutdown` is set and `StartCore` returns.

### What is hard here

* **Two threads and two flags.** The host reads `hasShutdown` while the core
  sets, and on a second `Start` clears, it. On a restart the flag is stale until
  the new thread has run; only the join makes `Start` a synchronous call.
* **Decoding by a protocol of handler calls.** A handler returns false ("fetch
  on") or true; prefixes, the cursor and the instruction are passed from one to
  the next. Length and cursor are counted separately, by hand, in each handler.
* **Exceptions between two steps.** A throw while decoding must leave RIP and
  the registers alone; the execution handler throws with RIP already advanced.
* **Width.** Stores at 8, 16 and 32 bits treat the rest of a register in three
  different ways; carries must stop at the operand width.
* **Ordering of mappings.** A mapping edits sections left by earlier ones; the
  result depends on the command-line order, and unsigned differences, iterator
  use and `erase` decide whether it is right.
* **Undefined behaviour at the edges.** An address past the last page indexes
  `MemoryPages` out of bounds; `push_back` inside a range-for; `cores[0]` of an
  empty vector; a mode that is none; one argument too many from a preset file.
* **Overlapping sections.** Around a mapped ROM the remainders of a page are
  longer than the page has room for. `Read8` stops at the first section that
  covers an offset, `Write8` and the dump go through all of them.
* **Bits checked by subtraction.** CR0 decides which bits a write changes from
  the difference of two numbers, and what they may be from the stored value.
* **Objects that move.** A growing vector moves every core built so far with
  move operations written member by member.

`PROJECT.json` lists each hazard with its line and the properties that would
catch it.

### What makes each component correct

* Core and decoder: one instruction is atomic to its program; its prefixes are
  its own; RIP moves by the bytes decoded; decoding ends.
* Executor and registers: results modulo the operand width, partial-register
  rules.
* CPU: one `Start` is one whole run; the flags never say "stopped" of a core
  that executes; `Start` returns when the core stops.
* Bus: a ROM that is mapped reads back whole at its base; a failed mapping
  leaves no half of it; no read, no dump and no write leaves its device; a byte
  of memory is written once, and no ROM before it.
* CR0 and EFER: a write is judged by the bits it changes; paging can be left.
* Cores: however often they are moved, all are ready and share one bus.
* System: what a command line describes is what the core executes, from the
  first instruction in the reset ROM to the return of `Start`.

## 2. The modules

```
GPR <- Decoder <- Executor <- ISA            (abstract: atomic machine)  <- Board
                          <- VCore           (implements ISA)            <- MCVCore
                                 <- CPU      (implements SyncStart)      <- MCCPU
MemoryBus <- MCMemoryBus
          <- BusWrites <- MCBusWrites
ControlRegisters <- MCControlRegisters
Cores
System = INSTANCE MemoryBus + INSTANCE CPU  (implements Board)           <- MCSystem
Proofs:  DecoderProofs (Executor), VCoreProofs (CPU, DecoderProofs), CoresProofs (Cores),
         ControlRegistersProofs, MemoryBusProofs (MemoryBus),
         RomProofs and BusWritesProofs (MemoryBusProofs),
         SystemProofs (System, with INSTANCE RomProofs and INSTANCE VCoreProofs)
```

**GPR**: a register is a function from eight byte lanes to 0..255, so the width
of the C++ value is exact, and addition and subtraction carry from byte to byte
modulo 2^64. A narrower setter uses the low bytes of its argument, which is what
the `static_cast` at each call does.

**Decoder**: pure operators. `Handler` is the table of `VCORE.cpp:41`. For a
byte at address `a - 1`, `HandlerReads` says how many bytes its handler reads
from `a` on, `Throws` whether it raises `UNDEFINED_OPCODE`, `DecodeOpcode` the
instruction it leaves, `AddressAdvance` how far it moves the cursor. The
handlers keep the code's own choices: `Handle_AxEaxRax_imm` counts `1 + size/8`
bytes, GROUP1 zero-extends its immediate, `Handle_r8_rm8` gives the source the
high-byte flag of the destination, `MOV r, imm` ignores REX.B.
`std::bit_cast<bool>` of the REX byte is read as "not zero": values other than 0
and 1 have no defined `bool`, and the compilers test the byte.

**Executor**: the one shape of `Handle_ADD/SUB/OR/MOV`: fetch Operand1 as a
`uint64_t`, combine at the width of Operand0, store at that width.

**VCore**: `pc` says where `StartCore` is. `StartCore` and `ClearShutdown` are
its two separate stores; `decodeInstruction` takes fresh prefixes and the first
byte; `Handle_Prefix`, `Handle_REX` fetch on; `HandleOpcode` finishes;
`ThrowUndefinedOpcode` is the exception path; then `IncrementRIP`, one of
`ExecuteOperation`, `Handle_NOP`, `Handle_UD`, and `Shutdown` after the catch
block. A read past the memory image (`ReadPastMemory`) is undefined behaviour in
the code and ends in `pc = "undefined"`, about which nothing is claimed. Memory
is constant: no handler calls `WriteBytes`. A handler's own reads happen in one
step, which is exact because nobody writes memory.

**ISA**: the abstract machine. No cursor, no collected prefixes: the opcode is
the first byte from RIP on that is no prefix, and `Retire`, `Fault`, `Trap` or
`Leave` happens at once.

**CPU**: the host thread (`Start`, `Poll`, `Wake`, `Join`, `Destroy`) and the
thread that runs the core (`Enter`, `Run`, `Exit`), interleaved. **SyncStart** is
what the caller is promised: a synchronous call.

**MemoryBus**: the page table as a sequence of section sequences. Actions are
the registration of one device each (the whole of `Register*Device`, with the
split, sort and prune it does), a rejected descriptor, and `Construct`. A byte is
identified by its device and offset. Where the code is undefined, the outcome is
`"undefined"`; where a release build gets away with it (iterators after
`push_back` or `erase`), both outcomes exist. `std::sort` is stable at these
lengths (insertion sort up to 32 elements in the implementations used).
`Construct` ends with the dump: if a section leaves its device, a debug build
stops there for ever and a release build reads out of bounds.

**BusWrites** extends MemoryBus with the devices' bytes and the writes of
`VirtualCore::WriteBytes`. A write reaches *all* sections that cover its offset,
in the page whose number is the whole address; memory stores, ROMs ignore. No
instruction of the emulator writes memory yet, so the module is the bus side of
the first that will.

**ControlRegisters**: CR0 and EFER as sets of bit numbers, so their 64 bits are
exact. `Minus` and `Borrow` define the C++ subtraction on such sets; `Diff` and
`ValidateInput` are the code's. `SetValue` either stores or faults; the named
setters and `EFER::SetValue` just store, the latter also bits EFER has no name for.

**Cores**: `CPU::CPU`. Each core is built in a local (`Construct`), moved to the
vector (`PushBack`, or `Grow`, `Relocate` per element, `Replace` when it is
full) and destroyed where it was (`DestroyLocal`). How far the vector grows is
any choice, which covers every standard library. The copy constructor and the
two assignments have no caller and are not modelled.

**System** composes MemoryBus and CPU with main and the command line. `main` says
where the main thread is; the five construction actions are the constructor in
its order (cores before devices); then `StartSystem`, the two threads of CPU,
`StartReturns` and `Return`. The core's memory is `Image`: what `Read8` answers
over the finished table, up to the first read that is out of its device's
bounds (the core reads only from the reset vector upwards). The bus does not
change any more once the constructor is done, so taking the image then is exact.
`exit(1)` and exceptions that leave the constructor are `"failed"`.

**Board** is what System promises: plug devices in, switch on, boot once, and from
then on run the atomic machine `ISA` over one flat memory, until the machine is
stopped and only then switched off. Of a `Sound` description (memory of whole
pages, a reset ROM inside the upper half of one of its pages, then firmware that
ends within the 32 bits of its page) the memory has the described size and shows
the reset ROM's file at the reset vector; so does every `Separate` firmware, one at
the start of a page the reset ROM is not in, at its base. Of a description that is
not `Sound` only the order is promised; a sound memory and reset ROM
alone may not end undefined, a firmware after them may (the `push_back` above).
System implements it under the mapping `Described`: power is read off `main`,
`status` and `pc`, memory and mode show from `Start` on, and RIP is the one before
the increment while an instruction executes.

Operators commented "Faulty variant" are not part of any specification. Each is
a plausible bug of the definition after it, and shows that a property can fail.

## 3. What TLC checks

| run | states | what it shows |
|---|---|---|
| `VCore.cfg` | 71 172 | the core implements ISA; prefixes, length, partial registers and arithmetic as promised; decoding ends |
| `CPU.cfg` | 642 | every interleaving of host and core thread: `Start` is synchronous, flags are truthful, `Start` returns |
| `MemoryBus.cfg` | 1 943 086 | every command line of up to four devices: reset ROM and firmware read back whole under the stated conditions, firmware at a page's start at its base in any case, reads and the dump stay in their device |
| `BusWrites.cfg` | 271 801 | two writes of any width anywhere: a byte of memory is written once and no ROM with it, a write with page entries is defined |
| `ControlRegisters.cfg` | 6 144 | every sequence of writes to CR0 and EFER: both keep 64 bits, one-way writes are judged exactly, paging can be left |
| `System.cfg` | 17 110 | the whole program implements Board; no thread outside of `Start`; every boot ends |
| `Cores.cfg` | 2 652 | up to five cores through every growth of their vector: ready, one owner of the bus each |
| `RipPastPrefixes.cfg` | | violated: prefix bytes are not counted, RIP stops short |
| `MemoryAliasing.cfg` | | violated: all pages of memory read the first page's bytes |
| `RomBase.cfg` | | violated: a ROM that overlaps none is not at its base |
| `ReservedBits.cfg` | | violated: an accepted write changes a reserved bit of CR0 |
| `CommandLine.cfg` | | violated: no core, or a mode that is none, passes validation |

The last five state what a comment, a test or a page of the documentation says;
`PROJECT.json` quotes the lines. Fourteen more disagreements found while modelling
are listed there without a run, among them the table entries of 0x01 and 0x08, the
page index of `Write8`, and PG being judged by the stored PE.

**Bounds.** `MCVCore` has all programs of up to two prefixed instructions and an
ending, from five prefix sequences (none, 66, REX, 66+REX, repeated REX with an
F2), three loads whose bytes sit at the carry boundaries, fifteen operations that
cover every handler, high-byte registers, REX.B, REX.R, the SIB form and rejected
encodings, and three endings (memory ends, trap, memory ends inside a prefix);
each in three modes and with restarts. Two instructions are needed for anything
to leak from one to the next, and since RIP is short after a prefix the second
one is also decoded from the middle. `MCCPU` has four short programs; the threads
share two flags, so what matters is the interleavings around start and stop,
which are complete, with any number of calls. `MCMemoryBus` scales a page to
eight bytes and the reset ROM to two: a section list depends only on the order
and the equality of offsets and ends, and the firmware bases and vectors include
page starts, the end of a previous firmware, page-crossing ROMs, empty ROMs,
addresses past memory, a vector in each half of a page and at its last two places,
a firmware that is one byte longer than what is left behind the reset ROM, and
one the overlong remainder before it hides in part. `MaxDevices = 4` allows memory, both ROMs and one more of
any kind in any order. `MCBusWrites` has pages of four bytes and nine of them,
because a write goes to the page its address names: with fewer, no eight-byte
write would be defined. Of page a only the offset of address a is written, so its
three vectors (the start of a page, the middle of one, where the remainder hides the
one-byte reset ROM, and the upper half of one, with a remainder on both sides) and
its four firmwares (before, at and behind each) stand at such addresses. Two writes (`MaxWrites`) suffice for one to change what
another left; the two values differ in every byte. `MCControlRegisters` writes
values with bits on both sides of the reserved ranges, a run of low bits for a
borrow to go through, reserved bits of both ranges, PE, PG and a bit above the
mask, and to EFER nothing, long mode and bits without a name; the setters of PE and PG stand for the eleven of CR0, whose other bits no
rule reads. `MCSystem` has every sequence of up to three of twelve descriptors
(sound, short, long, overlapping, unaligned, unknown, malformed), whose programs
trap, run on from the reset ROM into a firmware with prefixed and arithmetic
instructions, or leave memory; and every combination of preset, 0, 1, 2 or 256
cores and 16, 32, 64 or an undefined mode over two sound machines. `Cores.cfg` has
up to five cores and capacities up to seven (`MaxCores`, `MaxCapacity`): the
vector grows by one, by half or by doubling, up to five times. Deadlock is not
checked where the system stops: a core that returned or is undefined, a
destroyed CPU, a finished construction, an exited main. It is checked for
ControlRegisters.

**Fairness.** `WF(CoreStep)` (in `CPU`: `WF(ThreadStep)` and `WF(HostStep)`): the
operating system schedules a runnable thread, and `sleep_for` ends. Nothing
forces a call of `Start`, or the first step of a core nobody started.
`DecodeTerminates` and `StartReturns` need no more: there are no jumps and RIP
only grows, so every program comes to a trap or to the end of memory, and
`StartReturns` promises that each call then returns (leaving memory is undefined
and excepted). In `System` the main thread's own steps and the core's thread are
each weakly fair; `Return` is not, because nobody has to type anything. `BootEnds`
follows from these.

`LengthCountsFromOpcode` says the length counts from the *opcode*, which is what
the code does; that the prefixes should be in it is the violated
`RipReachesNextInstruction`.

## 4. What is proved

TLAPS checks the following for all values of the constants that satisfy the
named assumptions of the modules: images are sequences of bytes; pages are not
empty, the reset ROM is smaller than a page and a section's fields are wide
enough for two pages (4096 of 2^32 in the code); sizes, bases and vectors are
natural numbers; arguments of `CR0::SetValue` and `EFER::SetValue` have 64 bits; written values have
eight bytes; a command line is of the type its options have, names at most
`MaxDevices` devices, and a ROM is as long as its file.

| theorem | statement |
|---|---|
| `DecoderProofs!DecodeOpcodeType` | any bytes decode to a well-formed instruction |
| `DecoderProofs!LengthIsBytesRead` | the counted length is the bytes read |
| `VCoreProofs!TypeInvariance` | `Spec => []TypeOK` |
| `VCoreProofs!PrefixesExact` | `Spec => []PrefixesReflectBytes` |
| `VCoreProofs!LengthExact` | `Spec => []LengthCountsFromOpcode` |
| `VCoreProofs!NarrowWrites` | `Spec => NarrowWritesKeepHighBytes` |
| `VCoreProofs!ImplementsMachine` | `Spec => ImplementsISA` |
| `VCoreProofs!Arithmetic` | `Spec => ArithmeticWraps` |
| `VCoreProofs!HostTypeInvariance` | `CPUSpec => []HostTypeOK` |
| `VCoreProofs!FlagTruthful` | `CPUSpec => []FlagClearedWhileActive` |
| `VCoreProofs!StartLeavesNothing` | `CPUSpec => []QuietOutsideStart` |
| `VCoreProofs!StartIsSynchronous` | the safety part of `ImplementsSyncStart` |
| `MemoryBusProofs!TypeInvariance` | `Spec => []TypeOK` |
| `MemoryBusProofs!ReadsInDevice` | `Spec => []ReadsStayInDevice` |
| `MemoryBusProofs!DumpInDevices` | `Spec => []DumpStaysInDevices` |
| `RomProofs!ResetRomVisibility` | `Spec => []ResetRomVisible` |
| `RomProofs!FirmwareWholeness` | `Spec => []FirmwareWholeOrAbsent` |
| `RomProofs!FirmwareAtBase` | `Spec => []FirmwareAtPreferredBase` |
| `BusWritesProofs!ContentsTypeInvariance` | `WriteSpec => []ContentsTypeOK` |
| `BusWritesProofs!WritesWithPagesDefined` | `WriteSpec => []SmallWritesDefined` |
| `BusWritesProofs!WrittenAlone` | `WriteSpec => []MemoryWrittenAlone` |
| `ControlRegistersProofs!TypeInvariance` | `Spec => []TypeOK` |
| `ControlRegistersProofs!OneWayExact` | `Spec => []OneWayWritesJudgedExactly` |
| `ControlRegistersProofs!PagingLeft` | `Spec => []PagingCanBeLeft` |
| `CoresProofs!CoresTypeInvariance` | `Spec => []CoresTypeOK` |
| `CoresProofs!CoresReadiness` | `Spec => []CoresReady` |
| `CoresProofs!OneShareEachInvariance` | `Spec => []OneShareEach` |
| `SystemProofs!ThreadInsideStart` | `Spec => []ThreadOnlyWhileRunning` |
| `SystemProofs!SystemTypes` | `Spec => []SystemTypeOK` |
| `SystemProofs!BoardRefined` | `Spec => ImplementsBoard` |

**The argument for the core.** `TypeOK` is inductive once every handler is shown
to build a well-formed instruction and `Effect` to keep eight bytes per register
(`DecoderProofs`). `PrefixesReflectBytes` is stated with the CHOOSE of `ISA` ("the
last REX byte"), which is awkward to carry over a step; `Collecting` replaces it
by the equivalent *some REX byte was the last, or there was none*, and adds that
the cursor stays in the image. `Decoding` carries the result to execution: while
an instruction is decoded or executed there is an opcode address whose decoding,
by the abstract machine, is `instr`. It needs `Origin`, the RIP before the
increment, because RIP moves before the instruction takes effect.
`VCoreInv == TypeOK /\ Collecting /\ Decoding` is inductive, and the theorems
follow: the length because `LengthIsBytesRead` applies to the opcode address;
partial registers because without REX.W (the table has REX 0x40 to 0x47 only) no
decoded destination is wider than 32 bits; the refinement because every dispatch,
the early RIP and the return are stutters under
`rip <- IF pc = "execute" THEN rip - instr.len ELSE rip`, the exception is `Fault`
at the opcode, the execution is `Retire` or `Trap`, and a read past memory implies
that no instruction from RIP on is complete (`OpcodeReached`).

**The argument for the threads.** `CPUInv` relates the two program counters: no
thread outside a call, an exited thread has returned, a returned core has its
flag set. The flag alone is not inductive: that the join is reached early on a
stale flag is harmless only because the thread's state, not the flag, is what the
join waits for.

**The argument for arithmetic.** `ArithmeticWraps` compares numbers of up to
eight bytes, the model adds byte by byte. A byte operand is the low or the high byte
of its register and no carry comes into it (`OperandByte`, `LowestByte`). For words
and doublewords, bytes are taken in pairs: the two lower
bytes of a sum are the sum modulo 2^16 and their second carry is its quotient
(`HalfSum`; `HalfDifference` for borrows). `CarryStep` and `BorrowStep` unfold the
carry definition of `GPR` once, `AddHalves` and `SubtractHalves` put the pairs
together to four bytes, which is as wide as an operand gets without REX.W, and
`ExecutionWraps` applies them to the operands `VCoreInv` promises.

**The argument for the page table.** `BusInv` says that every page holds at least
one section and every section is of its type, which is `TypeOK`, and, as long as
the reset ROM is mapped first and no memory ends inside its first page
(`MemoryHoldsAPage`), that every section is *inside* its device. `InsideSection` has
three kinds: the section of a page of memory, whose dropped offset makes every read
one of the first page, which is why a partial last page does no harm to reads; a
ROM's section, which is as long as what is mapped of the ROM; and the remainders
around ROMs, which belong to memory. The subtractions that give the remainders their
length do go below zero and wrap (MEMORY.cpp:187 and :231); nothing in the invariant
rests on their value. That a remainder is too long does no harm exactly because it belongs to
memory then; with a reset ROM mapped into a page a firmware is on, it belongs to
the firmware, which is why the condition is there. Sorting and pruning keep the
sections of a page (`SortKeeps`, `PruneKeeps`, from `PlacesTaken`: the places
counted by the number of smaller elements are all taken), so each mapping
operation only has to be shown to build sections that are inside.
The dump reads whole sections, so a remainder must not only be in memory but
also be no longer than a page: `DumpInv` says that every section is `Dumped`, and
needs the condition that no ROM reaches over the end of its page, because only
then are the lengths the two mappings compute those of `LengthsFit`.

**The argument for writes.** `BusWritesProofs` adds the length of every device's
contents, and uses the same section invariant for `SmallWritesDefined`. A write
reaches every section that covers its offset, not the first as a read does, so
`MemoryWrittenAlone` needs more than what `RomProofs` needs for reads: a remainder of
memory covers no byte of any other section. `MemoryAround`, a part of `PageInv`
below, says that a page has one head of memory before its reset ROM at most, and
that its tail begins behind the ROM; with `FirmwareClear` and `RomShown`, two sections
that cover an offset, one of them of memory, are one (`MemoryCoveredOnce`).

**The argument for ROMs.** What `Read8` finds depends on the order of a page's
sections, so `RomProofs` first shows that `SortSections` leaves a page sorted,
with every section exactly once (`SortOrders`), and that `PruneEmptySections`
keeps the order, repeats nothing, and drops only what stands behind an empty
section (`PruneOrders`). Then `RomInv`: as long as the reset ROM is mapped first
and no firmware ends beyond the 32 bits, every page is sorted and satisfies
`PageInv`, which has five parts. `RomsAtHome`: a ROM has no section but the one
made for it, on its own page. `RomShown`: at a sound vector the reset ROM's
section is there, and every other one ends before it, *not empty*, or begins
behind it. Not empty is what keeps pruning from taking the ROM for the empty
section before it. `OneTail`: besides the head before the reset ROM a page has at
most one section of memory; a firmware replaces that one, so a second firmware of
the same page cannot be put over the first. `MemoryAround` is for writes, above. `FirmwareClear`: a firmware that
overlaps no ROM and no end of its page shares no byte with any other section of
its page. `FirmwareClear` is about the *firmware the devices promise*, so it must
survive a later device that breaks the promise (`FirmwareRegistered`). The two
properties follow because the first section that covers an address of such a ROM
is the ROM's own (`FirstCovering`, `RomIsRead`, `FirmwareIsRead`), directly
mapped with offset 0.

"Or not at all" does not apply at the start of a page, where every page has a
section to put the firmware in: `FirmwareAtPreferredBase`. Its invariant, `MapInv`,
is about the first section only. Memory mapped first is as long as its pages, and
a firmware at the start of a page off the reset ROM's `Heads` it: its section is
the first, at 0, and nothing else begins at 0. Sorting cannot put anything before
it, pruning never takes the first section, and a later firmware of the page is
either mapped behind it or ends the construction (`SplitHead`). It needs neither
`ResetRomFirst` nor disjoint ROMs, nor that the page held nothing before.

Where the vector is not sound the remainder before the ROM is too long, which is
the violated `RomBase`. The exact conditions of these properties came out of the
proof: the reset ROM is at the start of a page, at its end, or in its upper half
(`VectorSound`), and a firmware ends below 4 GiB, counted from its page
(`FirmwareEndsFit`); the findings list what happens otherwise. The run has vectors
on both sides of the first condition; every firmware of the run meets the second,
which eight-byte pages leave no room to break.

**The argument for CR0.** `TypeOK` is inductive. The others need no history: they
hold of every pair of values. `OneWayExact` rests on a write in one direction
borrowing nothing, `PagingLeft` on single bits outside the reserved mask.

**The argument for the cores.** A core that was never moved is `Fresh`, what a
move leaves of it a `Husk`. `CoresInv` gives, for every place of the loop, the
exact contents of the three places a core can be in: outside a relocation the
vector holds `made` fresh cores; inside it, `Moved(m)` says that the new core and
the first `m` are in the larger buffer and their husks in the old one. How far the
vector grows is not used. The three properties follow by counting or by looking at
one fresh core and one husk; `OneShareEach` is a bijection from 1..n to the places
that hold a share.

**The argument for the system.** `SystemInv` ties main to the two threads of CPU:
inside `Start` the system is ready, a thread exists exactly while the host is
inside, and the core moves only with a live thread.

`SystemTypeOK` is inductive with what was proved of the parts. `SystemProofs`
instantiates their proof modules under the names of `System`, with every size and
base there is (`BusAssumptions`, `CoreAssumptions`: their assumptions follow from
those of `System`), and equates each of their operators with the instance `System`
itself uses (`CoreOperators`, `CoreSteps`, `BusOperators`). `PartsInv` then is
`TableInv`, which is all that is proved of the bus, and `VCoreInv`, each kept by its
own steps, plus `Built`: the table names the devices of the command line, in its
order. The one new obligation is where the
parts meet: the memory the core runs on, cut out of the bus with a `Min`
(`ImageType`), consists of bytes because a read inside a ROM is a read inside its
file (`AnswerType`). Before the proof `Answer` had overlapping CASE arms, of which
TLA+ takes any; it is an IF now.

**The argument for the board.** `BoardRefined` maps each step of the program to one
of `Board` or to none. `StageInv` adds what is only true along the way: no device
before the descriptors are split, the core's memory is the image of the table when
`Start` is called, a created thread finds a core that was never entered, a host
back from `Start` one that returned.

The constructor (`BoardConstructs`) plugs in exactly the next device of the command
line (`RegisterOutcome`) or gives up. The promise is that it may not end undefined
with a sound memory and reset ROM alone. It cannot map them undefined: the vector is
in memory, so the page exists, and the split of the page's one section leaves no
empty section to prune (`SoundRomMaps`, `CutWithoutRest`). Nor can the dump fail, which is `DumpedInDevice` with the ROM
inside its page (`SoundDump`).

Switching on (`BoardStarts`) is where the invariants of the bus are used: a sound
description fulfils the conditions of the properties of section 3
(`SoundDevices`), so no read is out of bounds and the image is as long as the
memory (`SoundMemory`); the reset ROM and every separate firmware are read at
their bases (`RomIsRead`, `HeadIsRead`), and what is read is the byte of the file
(`SoundResetRom`, `SoundFirmware`, `RomAnswer`).

While main is in `Start` the described machine is the core's (`BoardMachine`), so a
step of the core's thread is a step of `ISA` because `VCoreProofs` proves
`MachineStep`; it is the first (`Boot`) exactly when it clears the flag, and no
other step is a start (`BoardCoreStep`). `SwitchOff` is the return of `Start`, which
`SystemInv` and `StageInv` allow only with a returned core.

The proof made `Board` promise more. Its first form let a stopped machine start
again, which the program never does: `Boot` is an action of its own now, and
`RunProgram` has no start. It asked of a `Separate` firmware that no other ROM is on
its page; the start of a page off the reset ROM's is enough. What it had to add is
that firmware ends within 32 bits (`FirmwareEndsFit` of the bus), without which a
later firmware can hide the reset ROM.

**Model-checked only.** Liveness (`DecodeTerminates`, `StartReturns`, `BootEnds`,
the fairness of `SyncStart`), which the prover does not reach. Every other property
of the passing runs is a theorem.

## 5. Not modelled

* The deprecated register decoders, `MapIODevice` (a stub that returns false), the
  queries of the bus and the flag accessors of a core: no caller, or no body.
* Cores other than `cores[0]` after their construction: the code never starts
  them.
* The text of options and descriptors, numbers in them and file access: a command
  line is its options, a descriptor its kind, size, base and file; boost and the
  file system are external.
* Trace points and printing: no state depends on them. The reads the dump makes
  are modelled.
* `isRunning` has no reader in the program. It is modelled; that it stays TRUE
  after a core has stopped contradicts nothing that is written down.
* Writes by instructions: no handler calls `WriteBytes`. BusWrites models the bus
  side, so the core's memory is constant in VCore and System.

## 6. State of the plan

All stages are done: the core against its abstract machine, the host and the core
thread against the synchronous call, the page table with reads and writes, the
control registers, the construction of the cores, and the whole program against
the board, with the proofs of section 4. What could follow is bound to changes of
the code: instructions that write memory would join VCore and BusWrites, jumps
would weaken `StartReturns` and `BootEnds`, a second started core would make
CPU's thread one of several.
