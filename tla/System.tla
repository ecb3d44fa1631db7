------------------------------- MODULE System -------------------------------
(***************************************************************************)
(* The whole program: main constructs a System from the command line       *)
(* (CMD_PARSE.cpp, SYSTEM_STATE.cpp), calls Start once and waits for input *)
(* before it returns.  The page table is that of MemoryBus, the two        *)
(* threads are those of CPU, and the memory the core reads is what the bus *)
(* answers when it is complete.                                            *)
(***************************************************************************)
EXTENDS Decoder, FiniteSetsExt

CONSTANTS
  CommandLines,   \* the command lines explored
  ResetVector, PageSize, Wrap, ResetRomSize, MaxDevices

(* What a command line holds, as parsed.  Malformed is a descriptor that   *)
(* has not nine parts; file is what the file a ROM names holds.             *)
Descriptor ==
  [kind : {"MEMORY", "RESET_ROM", "FIRMWARE", "UNKNOWN", "MALFORMED"},
   size : Nat, base : Nat, file : Seq(Byte)]
CommandLine ==
  [preset : {"none", "empty", "lines", "missing"}, cores : Nat, mode : Int,
   devices : Seq(Descriptor)]

(* A ROM is as long as its file. *)
Loaded(device) ==
  device.kind \in {"RESET_ROM", "FIRMWARE"} => device.size = Len(device.file)

ASSUME ResetVectorAssumption == ResetVector \in Nat
ASSUME PageSizeAssumption == PageSize \in Nat \ {0}
ASSUME WrapAssumption == Wrap \in Nat /\ Wrap > 2 * PageSize
ASSUME ResetRomSizeAssumption == ResetRomSize \in 1 .. PageSize - 1
ASSUME MaxDevicesAssumption == MaxDevices \in Nat
ASSUME CommandLinesAssumption ==
  \A c \in CommandLines :
    /\ c \in CommandLine
    /\ Len(c.devices) <= MaxDevices
    /\ \A k \in DOMAIN c.devices : Loaded(c.devices[k])

VARIABLES
  args,   \* the command line
  main,   \* the main thread: "parse", "cpu", "split", "devices", "start",
          \* "running", "waiting", "exited"
  MemoryPages, RegisteredDevices, resetVector, status,   \* the bus, as in MemoryBus
  mem, PE, LMA, regs, rip, pc, address, byte, prefixes, instr,   \* the core
  isRunning, hasShutdown, host, thread

bus == << MemoryPages, RegisteredDevices, resetVector, status >>
core == << mem, PE, LMA, regs, rip, pc, address, byte, prefixes, instr,
           isRunning, hasShutdown, host, thread >>
systemVars == << args, main, bus, core >>

Bus == INSTANCE MemoryBus WITH
  ResetVectors <- {ResetVector}, ResetRomFiles <- {}, MemorySizes <- {}, Firmwares <- {}

(* The byte at address a, and whether it is a byte of its device. *)
Answer(a) ==
  LET t == Bus!Read8(a)
  IN IF t = Bus!NoByte THEN 255
     ELSE IF Bus!Is(t.device, "MEMORY") THEN 0
     ELSE args.devices[t.device].file[t.offset + 1]
InBounds(a) ==
  Bus!Read8(a) = Bus!NoByte \/ Bus!Read8(a).offset < Bus!Size(Bus!Read8(a).device)

(* Memory as the core sees it, up to the first byte at or after the reset  *)
(* vector whose read is not defined.  RIP never goes below the vector.      *)
Image ==
  LET n == Min({Cardinality(Bus!Addresses)} \cup
               {a \in Bus!Addresses : a >= ResetVector /\ ~InBounds(a)})
  IN [k \in 1 .. n |-> IF InBounds(k - 1) THEN Answer(k - 1) ELSE 255]

Core == INSTANCE CPU WITH
  Images <- Seq(Byte), StartupModes <- Modes

----------------------------------------------------------------------------

Init ==
  /\ args \in CommandLines
  /\ main = "parse"
  /\ MemoryPages = << >> /\ RegisteredDevices = << >>
  /\ resetVector = ResetVector /\ status = "constructing"
  /\ mem = << >> /\ PE = FALSE /\ LMA = FALSE
  /\ regs = [r \in Registers |-> Zero] /\ rip = ResetVector
  /\ pc = "constructed" /\ address = 0 /\ byte = 0
  /\ prefixes = NoPrefixes /\ instr = FreshInstruction
  /\ isRunning = FALSE /\ hasShutdown = FALSE
  /\ host = "idle" /\ thread = "none"

(* The System constructor goes on, exits or throws, or is undefined. *)
Constructing == status = "constructing"
GoOn(next) == main' = next /\ UNCHANGED << args, bus, core >>
End(how) ==
  /\ status' = how
  /\ UNCHANGED << args, main, MemoryPages, RegisteredDevices, resetVector, core >>

(* Lines of a preset file become an argv of their number plus one, which   *)
(* is one more than the array holds.  Validate accepts everything else.     *)
ParseArguments ==
  /\ main = "parse" /\ Constructing
  /\ CASE args.preset = "missing" -> End("failed")
       [] args.preset = "lines" -> End("undefined")
       [] OTHER -> GoOn("cpu")

(* IntToMode and the cores. *)
ConstructCPU ==
  /\ main = "cpu" /\ Constructing
  /\ IF args.mode \in {16, 32, 64}
       THEN /\ main' = "split"
            /\ PE' = (args.mode = 32)
            /\ LMA' = (args.mode = 64)
            /\ UNCHANGED << args, bus, mem, regs, rip, pc, address, byte, prefixes,
                            instr, isRunning, hasShutdown, host, thread >>
       ELSE End("undefined")

(* All descriptors are split before the first device is built. *)
SplitDescriptors ==
  /\ main = "split" /\ Constructing
  /\ IF args.devices = << >> \/ \E k \in DOMAIN args.devices : args.devices[k].kind = "MALFORMED"
       THEN End("failed")
       ELSE GoOn("devices")

(* The next descriptor; an unknown type or a missing file is not built. *)
RegisterNext ==
  LET n == Len(RegisteredDevices) + 1
      d == args.devices[n]
  IN /\ main = "devices" /\ Constructing
     /\ n \in DOMAIN args.devices
     /\ \/ /\ d.kind = "MEMORY"
           /\ Bus!RegisterMemoryDevice(d.size)
           /\ UNCHANGED << args, main, core >>
        \/ /\ d.kind = "RESET_ROM" /\ d.size <= ResetRomSize + 1
           /\ Bus!RegisterResetROMDevice(d.size)
           /\ UNCHANGED << args, main, core >>
        \/ /\ d.kind = "FIRMWARE"
           /\ Bus!RegisterFirmwareDevice(d.size, d.base)
           /\ UNCHANGED << args, main, core >>
        \/ /\ \/ d.kind = "UNKNOWN"
              \/ d.kind = "RESET_ROM" /\ d.size > ResetRomSize + 1
           /\ End("failed")

(* The map and the memory are dumped, and the System is there: the bus will *)
(* not change any more.                                                     *)
FinishConstruction ==
  /\ main = "devices"
  /\ Len(RegisteredDevices) = Len(args.devices)
  /\ Bus!Construct
  /\ IF status' = "ready" THEN main' = "start" /\ mem' = Image ELSE UNCHANGED << main, mem >>
  /\ UNCHANGED << args, PE, LMA, regs, rip, pc, address, byte, prefixes, instr,
                  isRunning, hasShutdown, host, thread >>

(* System::Start: &cores[0] of an empty vector is undefined. *)
StartSystem ==
  /\ main = "start" /\ status = "ready"
  /\ IF args.cores > 0
       THEN main' = "running" /\ UNCHANGED << args, bus >> /\ Core!Start
       ELSE End("undefined")

(* CPU::Start and the thread it made. *)
HostStep == main = "running" /\ UNCHANGED << args, main, bus >> /\ Core!HostStep
ThreadStep == UNCHANGED << args, main, bus >> /\ Core!ThreadStep

(* Faulty variant: main goes on while Start is still in its loop. *)
StartReturnsEarly ==
  /\ main = "running" /\ host \in {"idle", "sleep"}
  /\ GoOn("waiting")

(* Start is back in main, which reads from standard input. *)
StartReturns ==
  /\ main = "running" /\ host = "idle"
  /\ GoOn("waiting")

(* Input arrives, main returns and the System is destroyed. *)
Return ==
  /\ main = "waiting"
  /\ main' = "exited"
  /\ UNCHANGED << args, bus >>
  /\ Core!Destroy

Construction ==
  ParseArguments \/ ConstructCPU \/ SplitDescriptors \/ RegisterNext \/ FinishConstruction

Next ==
  Construction \/ StartSystem \/ HostStep \/ ThreadStep \/ StartReturns \/ Return

(* Both threads are scheduled.  Nobody has to type anything. *)
Spec ==
  /\ Init /\ [][Next]_systemVars
  /\ WF_systemVars(Construction \/ StartSystem \/ HostStep \/ StartReturns)
  /\ WF_systemVars(ThreadStep)

----------------------------------------------------------------------------
(* Properties. *)

(* A command line, and the parts' own types.  The table only ever maps the *)
(* devices of the command line, in its order.                               *)
SystemTypeOK ==
  /\ args \in CommandLine
  /\ main \in {"parse", "cpu", "split", "devices", "start", "running", "waiting", "exited"}
  /\ Bus!TypeOK
  /\ Core!TypeOK /\ Core!HostTypeOK
  /\ \A k \in DOMAIN RegisteredDevices :
       /\ RegisteredDevices[k].kind = args.devices[k].kind
       /\ RegisteredDevices[k].size = args.devices[k].size

(* No thread executes while the System is not there: not before the bus it *)
(* reads is complete, and not after main has left Start.                    *)
ThreadOnlyWhileRunning ==
  thread # "none" \/ pc \notin {"constructed", "returned"} =>
    status = "ready" /\ main = "running"

(* The machine the command line describes. *)
Described == INSTANCE Board WITH
  Pluggable <- UNION {{c.devices[k] : k \in DOMAIN c.devices} : c \in CommandLines},
  mem <- IF main \in {"running", "waiting", "exited"} THEN mem ELSE << >>,
  mode <- IF main \in {"running", "waiting", "exited"} THEN Core!getMode ELSE "real",
  rip <- IF pc = "execute" THEN rip - instr.len ELSE rip,
  status <- IF pc \in {"decode", "dispatch", "decoded", "execute"} THEN "running"
            ELSE IF pc = "undefined" THEN "undefined" ELSE "stopped",
  power <- IF status \in {"failed", "undefined"} THEN status
           ELSE IF main = "running"
             THEN IF pc \in {"constructed", "starting"} THEN "on" ELSE "booted"
           ELSE IF main \in {"waiting", "exited"} THEN "done" ELSE "off",
  cores <- args.cores,
  devices <- [k \in 1 .. Len(RegisteredDevices) |-> args.devices[k]]

(* From the command line to the last instruction: a memory and a reset ROM *)
(* that are sound always come up, execution begins once and sees the ROMs   *)
(* at their bases, instruction by instruction, and Start outlasts it.       *)
ImplementsBoard == Described!BoardSpec

(* Every start of the program ends: refused, with Start returned, or        *)
(* undefined.  No instruction goes back, so every program leaves memory or  *)
(* is stopped, and the host never misses it.                                *)
BootEnds ==
  <>(main = "waiting" \/ status \in {"failed", "undefined"} \/ pc = "undefined")

----------------------------------------------------------------------------
(* A statement of the repository the code does not meet. *)

(* CMD_PARSE.md:19: the command line is verified, so that no invalid        *)
(* combination is passed.  The ranges are those of CMD_PARSE.cpp:35, 38.    *)
CommandLineVerified ==
  main # "parse" => args.cores \in 1 .. 255 /\ args.mode \in {16, 32, 64}
=============================================================================
