---------------------------- MODULE SystemProofs ----------------------------
(***************************************************************************)
(* The whole program, for every set of command lines, every reset vector   *)
(* and every page size: the core's thread exists only while main is in     *)
(* Start of a complete System, every part keeps its own types, and from    *)
(* the command line to the last instruction the program is the machine of  *)
(* Board.  It rests on the invariants proved of the bus (RomProofs) and on *)
(* the invariants and the refinement proved of the core (VCoreProofs).     *)
(***************************************************************************)
EXTENDS System, FiniteSetTheorems, WellFoundedInduction, TLAPS

(* The two threads and main; inside a call of Start the System is ready. *)
SystemInv ==
  /\ main = "running" => status = "ready"
  /\ host \notin {"idle", "destroyed"} => main = "running"
  /\ thread = "none" <=> host \in {"idle", "destroyed"}
  /\ pc \notin {"constructed", "returned"} => thread = "live"
  /\ thread = "exited" => pc = "returned"

(* The constructor of System leaves the core and its threads alone. *)
LEMMA ConstructionStep ==
  ASSUME SystemInv, Construction
  PROVE  SystemInv'
<1>1. UNCHANGED << pc, host, thread >> /\ main # "running" /\ main' # "running"
  <2>1. CASE ParseArguments
    BY <2>1 DEF ParseArguments, End, GoOn, core
  <2>2. CASE ConstructCPU
    BY <2>2 DEF ConstructCPU, End, core
  <2>3. CASE SplitDescriptors
    BY <2>3 DEF SplitDescriptors, End, GoOn, core
  <2>4. CASE RegisterNext
    BY <2>4 DEF RegisterNext, End, core
  <2>5. CASE FinishConstruction
    BY <2>5 DEF FinishConstruction
  <2> QED  BY <2>1, <2>2, <2>3, <2>4, <2>5 DEF Construction
<1> QED  BY <1>1 DEF SystemInv

(* Which threads there are follows main and the call of Start it is in. *)
LEMMA SystemInvariance == Spec => []SystemInv
<1>1. Init => SystemInv
  BY DEF Init, SystemInv
<1>2. SystemInv /\ [Next]_systemVars => SystemInv'
  <2> SUFFICES ASSUME SystemInv, [Next]_systemVars PROVE SystemInv'
    OBVIOUS
  <2>1. CASE Construction
    BY <2>1, ConstructionStep
  <2>2. CASE StartSystem
    <3>1. CASE args.cores > 0
      BY <2>2, <3>1 DEF StartSystem, SystemInv, bus, Core!Start, Core!vars
    <3>2. CASE ~ (args.cores > 0)
      BY <2>2, <3>2 DEF StartSystem, End, SystemInv, core
    <3> QED  BY <3>1, <3>2
  <2>3. CASE HostStep
    <3>1. main' = main /\ status' = status /\ main = "running"
      BY <2>3 DEF HostStep, bus
    <3>2. CASE Core!Poll
      BY <3>1, <3>2 DEF SystemInv, Core!Poll, Core!vars
    <3>3. CASE Core!Wake
      BY <3>1, <3>3 DEF SystemInv, Core!Wake, Core!vars
    <3>4. CASE Core!Join
      BY <3>1, <3>4 DEF SystemInv, Core!Join, Core!vars
    <3> QED  BY <2>3, <3>2, <3>3, <3>4 DEF HostStep, Core!HostStep
  <2>4. CASE ThreadStep
    <3>1. main' = main /\ status' = status
      BY <2>4 DEF ThreadStep, bus
    <3>2. CASE Core!Enter
      BY <3>1, <3>2 DEF SystemInv, Core!Enter
    <3>3. CASE Core!Run
      BY <3>1, <3>3 DEF SystemInv, Core!Run
    <3>4. CASE Core!Exit
      BY <3>1, <3>4 DEF SystemInv, Core!Exit, Core!vars
    <3> QED  BY <2>4, <3>2, <3>3, <3>4 DEF ThreadStep, Core!ThreadStep
  <2>5. CASE StartReturns
    BY <2>5 DEF StartReturns, GoOn, SystemInv, bus, core
  <2>6. CASE Return
    BY <2>6 DEF Return, SystemInv, bus, Core!Destroy
  <2>7. CASE UNCHANGED systemVars
    BY <2>7 DEF systemVars, SystemInv, bus, core
  <2> QED  BY <2>1, <2>2, <2>3, <2>4, <2>5, <2>6, <2>7 DEF Next
<1> QED  BY <1>1, <1>2, PTL DEF Spec

(* No thread executes before the bus it reads is complete, nor after main   *)
(* has left Start and may destroy the System (SYSTEM_STATE.cpp:215).        *)
THEOREM ThreadInsideStart == Spec => []ThreadOnlyWhileRunning
<1>1. SystemInv => ThreadOnlyWhileRunning
  BY DEF SystemInv, ThreadOnlyWhileRunning
<1> QED  BY <1>1, SystemInvariance, PTL

----------------------------------------------------------------------------
(* The parts, with the theorems proved about them. *)

BusP == INSTANCE RomProofs WITH
  ResetVectors <- {ResetVector}, ResetRomFiles <- 0 .. ResetRomSize + 1,
  MemorySizes <- Nat, Firmwares <- [size : Nat, base : Nat]

CoreP == INSTANCE VCoreProofs WITH
  Images <- Seq(Byte), StartupModes <- Modes

(* The assumptions of System are those its parts make. *)
LEMMA BusAssumptions ==
  /\ BusP!PageSizeAssumption /\ BusP!WrapAssumption /\ BusP!ResetRomSizeAssumption
  /\ BusP!ResetRomFilesAssumption /\ BusP!MemorySizesAssumption
  /\ BusP!FirmwaresAssumption /\ BusP!ResetVectorsAssumption /\ BusP!MaxDevicesAssumption
BY ResetVectorAssumption, PageSizeAssumption, WrapAssumption, ResetRomSizeAssumption,
   MaxDevicesAssumption
   DEF BusP!PageSizeAssumption, BusP!WrapAssumption, BusP!ResetRomSizeAssumption,
       BusP!ResetRomFilesAssumption, BusP!MemorySizesAssumption,
       BusP!FirmwaresAssumption, BusP!ResetVectorsAssumption, BusP!MaxDevicesAssumption

(* The same for the core: any memory, any mode. *)
LEMMA CoreAssumptions ==
  CoreP!ImagesAssumption /\ CoreP!ResetVectorAssumption /\ CoreP!StartupModesAssumption
BY ResetVectorAssumption
   DEF CoreP!ImagesAssumption, CoreP!ResetVectorAssumption,
       CoreP!StartupModesAssumption, CoreP!Byte, Byte, CoreP!Modes, Modes

(* Core and CoreP are two instances of the same modules: each operator of   *)
(* one is that of the other, which the provers see by expanding both.       *)
LEMMA CoreTypes == Core!TypeOK = CoreP!TypeOK
BY DEF Core!TypeOK, CoreP!TypeOK, Core!Byte, CoreP!Byte, Core!Registers,
       CoreP!Registers, Core!Word64, CoreP!Word64, Core!Lane, CoreP!Lane,
       Core!PC, CoreP!PC, Core!Prefixes, CoreP!Prefixes, Core!Instructions,
       CoreP!Instructions, Core!Operand, CoreP!Operand, Core!InstructionTypes,
       CoreP!InstructionTypes

(* The decoder and the executor, operator by operator. *)
LEMMA CoreOperators ==
  ASSUME NEW m, NEW mode, NEW p, NEW a, NEW b, NEW h, NEW R, NEW i
  PROVE  /\ Core!Fetch(m, a) = CoreP!Fetch(m, a)
         /\ Core!Handler(b) = CoreP!Handler(b)
         /\ Core!HandlerReads(m, mode, p, a, h) = CoreP!HandlerReads(m, mode, p, a, h)
         /\ Core!Throws(m, mode, a, h) = CoreP!Throws(m, mode, a, h)
         /\ Core!DecodeOpcode(m, mode, p, a, b) = CoreP!DecodeOpcode(m, mode, p, a, b)
         /\ Core!Effect(R, i) = CoreP!Effect(R, i)
         /\ Core!AddressAdvance(m, mode, p, a, h) = CoreP!AddressAdvance(m, mode, p, a, h)
         /\ Core!NoPrefixes = CoreP!NoPrefixes
         /\ Core!Operations = CoreP!Operations
         /\ Core!FreshInstruction = CoreP!FreshInstruction
<1> USE DEF Core!Byte, CoreP!Byte, Core!Lane, CoreP!Lane, Core!Zero, CoreP!Zero,
      Core!Fetch, CoreP!Fetch, Core!FetchBytes, CoreP!FetchBytes, Core!Handler,
      CoreP!Handler, Core!ModRM_mod, CoreP!ModRM_mod, Core!ModRM_reg, CoreP!ModRM_reg,
      Core!ModRM_rm, CoreP!ModRM_rm, Core!ModRMAndSIB, CoreP!ModRMAndSIB,
      Core!ModRMHandlers, CoreP!ModRMHandlers, Core!ImmediateBytes, CoreP!ImmediateBytes,
      Core!RexW, CoreP!RexW, Core!HasRex, CoreP!HasRex, Core!OperandSize, CoreP!OperandSize,
      Core!GetDefaultOperandSize, CoreP!GetDefaultOperandSize,
      Core!Instruction, CoreP!Instruction, Core!NoOperand, CoreP!NoOperand
<1>3. Core!Fetch(m, a) = CoreP!Fetch(m, a) /\ Core!Handler(b) = CoreP!Handler(b)
  OBVIOUS
<1>4. Core!HandlerReads(m, mode, p, a, h) = CoreP!HandlerReads(m, mode, p, a, h)
  BY DEF Core!HandlerReads, CoreP!HandlerReads
<1>5. Core!Throws(m, mode, a, h) = CoreP!Throws(m, mode, a, h)
  BY DEF Core!Throws, CoreP!Throws
<1>6. Core!DecodeOpcode(m, mode, p, a, b) = CoreP!DecodeOpcode(m, mode, p, a, b)
  BY DEF Core!DecodeOpcode, CoreP!DecodeOpcode, Core!Handler_rm8_r8,
         CoreP!Handler_rm8_r8,
     Core!Handle_r8_rm8, CoreP!Handle_r8_rm8, Core!Handler_rm_r, CoreP!Handler_rm_r,
     Core!Handle_r_rm, CoreP!Handle_r_rm, Core!Handle_AL_imm8, CoreP!Handle_AL_imm8,
     Core!Handle_AxEaxRax_imm, CoreP!Handle_AxEaxRax_imm, Core!Handle_GROUP1,
     CoreP!Handle_GROUP1, Core!Handle_MOV_imm, CoreP!Handle_MOV_imm, Core!InstructionType,
     CoreP!InstructionType, Core!RexB, CoreP!RexB, Core!RexR, CoreP!RexR,
     Core!DecodeTargetRegister, CoreP!DecodeTargetRegister,
     Core!GetTargetRegisterFromAdditiveID, CoreP!GetTargetRegisterFromAdditiveID,
     Core!DecodeTarget8BitRegister, CoreP!DecodeTarget8BitRegister,
     Core!IsHighRegister, CoreP!IsHighRegister, Core!HighRegisters, CoreP!HighRegisters,
     Core!RegisterOrder, CoreP!RegisterOrder, Core!RegisterOperand, CoreP!RegisterOperand,
     Core!ImmediateOperand, CoreP!ImmediateOperand, Core!GetRegister, CoreP!GetRegister
<1>7. Core!Effect(R, i) = CoreP!Effect(R, i)
  BY DEF Core!Effect, CoreP!Effect, Core!RegisterBytes, CoreP!RegisterBytes,
     Core!SourceValue, CoreP!SourceValue, Core!Write, CoreP!Write, Core!Result, CoreP!Result,
     Core!GetLow, CoreP!GetLow, Core!GetHigh8Bits, CoreP!GetHigh8Bits,
     Core!SetHigh8Bits, CoreP!SetHigh8Bits, Core!SetLow, CoreP!SetLow,
     Core!SetLow32Bits, CoreP!SetLow32Bits, Core!Add, CoreP!Add, Core!Carry, CoreP!Carry,
     Core!Subtract, CoreP!Subtract, Core!Borrow, CoreP!Borrow, Core!Or, CoreP!Or,
     Core!OrByte, CoreP!OrByte, Core!OrBit, CoreP!OrBit
<1>8. Core!AddressAdvance(m, mode, p, a, h) = CoreP!AddressAdvance(m, mode, p, a, h)
  BY DEF Core!AddressAdvance, CoreP!AddressAdvance
<1>9. /\ Core!NoPrefixes = CoreP!NoPrefixes /\ Core!Operations = CoreP!Operations
      /\ Core!FreshInstruction = CoreP!FreshInstruction
  BY DEF Core!NoPrefixes, CoreP!NoPrefixes, Core!Operations, CoreP!Operations,
         Core!FreshInstruction, CoreP!FreshInstruction
<1> QED  BY <1>3, <1>4, <1>5, <1>6, <1>7, <1>8, <1>9

(* The steps of the core. *)
LEMMA CoreSteps ==
  (Core!StartCore <=> CoreP!StartCore) /\ (Core!CoreStep <=> CoreP!CoreStep)
<1> USE DEF Core!memory, CoreP!memory, Core!flags, CoreP!flags, Core!cursor,
            CoreP!cursor, Core!vars, CoreP!vars, Core!allVars, CoreP!allVars,
            Core!getMode, CoreP!getMode
<1>1. Core!decodeInstruction <=> CoreP!decodeInstruction
  BY CoreOperators DEF Core!decodeInstruction, CoreP!decodeInstruction
<1>2. Core!FetchNextByte <=> CoreP!FetchNextByte
  BY CoreOperators DEF Core!FetchNextByte, CoreP!FetchNextByte
<1>3. Core!Handle_Prefix <=> CoreP!Handle_Prefix
  BY <1>2, CoreOperators DEF Core!Handle_Prefix, CoreP!Handle_Prefix
<1>4. Core!Handle_REX <=> CoreP!Handle_REX
  BY <1>2, CoreOperators DEF Core!Handle_REX, CoreP!Handle_REX
<1>5. Core!ReadsInRange <=> CoreP!ReadsInRange
  BY CoreOperators DEF Core!ReadsInRange, CoreP!ReadsInRange
<1>6. Core!HandleOpcode <=> CoreP!HandleOpcode
  BY <1>5, CoreOperators DEF Core!HandleOpcode, CoreP!HandleOpcode
<1>7. Core!ThrowUndefinedOpcode <=> CoreP!ThrowUndefinedOpcode
  BY <1>5, CoreOperators DEF Core!ThrowUndefinedOpcode, CoreP!ThrowUndefinedOpcode
<1>8. Core!ReadPastMemory <=> CoreP!ReadPastMemory
  BY <1>5, CoreOperators DEF Core!ReadPastMemory, CoreP!ReadPastMemory
<1>9. Core!Execute <=> CoreP!Execute
  BY CoreOperators
     DEF Core!Execute, CoreP!Execute, Core!ExecuteOperation,
         CoreP!ExecuteOperation, Core!Handle_NOP, CoreP!Handle_NOP,
         Core!Handle_UD, CoreP!Handle_UD
<1>10. Core!CoreStep <=> CoreP!CoreStep
  BY <1>1, <1>3, <1>4, <1>6, <1>7, <1>8, <1>9
     DEF Core!CoreStep, CoreP!CoreStep, Core!Decode, CoreP!Decode,
         Core!ClearShutdown, CoreP!ClearShutdown, Core!IncrementRIP,
         CoreP!IncrementRIP, Core!Shutdown, CoreP!Shutdown
<1>11. Core!StartCore <=> CoreP!StartCore
  BY DEF Core!StartCore, CoreP!StartCore
<1> QED  BY <1>10, <1>11

(* The same for the bus. *)
LEMMA BusOperators ==
  ASSUME NEW a, NEW size, NEW base
  PROVE  /\ Bus!Addresses = BusP!Addresses
         /\ Bus!NoByte = BusP!NoByte
         /\ Bus!Read8(a) = BusP!Read8(a)
         /\ Bus!Size(a) = BusP!Size(a)
         /\ Bus!TypeOK <=> BusP!TypeOK
         /\ Bus!RegisterMemoryDevice(size) <=> BusP!RegisterMemoryDevice(size)
         /\ Bus!RegisterResetROMDevice(size) <=> BusP!RegisterResetROMDevice(size)
         /\ Bus!RegisterFirmwareDevice(size, base) <=> BusP!RegisterFirmwareDevice(size, base)
         /\ Bus!Construct <=> BusP!Construct
<1> USE DEF Bus!GetPageNumber, BusP!GetPageNumber, Bus!InPageOffset,
            BusP!InPageOffset,
      Bus!Section, BusP!Section, Bus!Device, BusP!Device, Bus!Number, BusP!Number,
      Bus!Register, BusP!Register, Bus!Undefined, BusP!Undefined, Bus!Abort, BusP!Abort,
      Bus!Remainder, BusP!Remainder, Bus!EmptySections, BusP!EmptySections,
      Bus!PruneUndefined, BusP!PruneUndefined, Bus!PruneChecked, BusP!PruneChecked
<1>1. Bus!Addresses = BusP!Addresses /\ Bus!NoByte = BusP!NoByte /\ Bus!Size(a) = BusP!Size(a)
  BY DEF Bus!Addresses, BusP!Addresses, Bus!NoByte, BusP!NoByte, Bus!Size, BusP!Size
<1>2. Bus!Read8(a) = BusP!Read8(a)
  BY DEF Bus!Read8, BusP!Read8, Bus!Covering, BusP!Covering, Bus!NoByte, BusP!NoByte
<1>3. Bus!TypeOK <=> BusP!TypeOK
  BY DEF Bus!TypeOK, BusP!TypeOK, Bus!Kinds, BusP!Kinds
<1>4. Bus!RegisterMemoryDevice(size) <=> BusP!RegisterMemoryDevice(size)
  BY DEF Bus!RegisterMemoryDevice, BusP!RegisterMemoryDevice,
         Bus!MainMemoryPages, BusP!MainMemoryPages
<1>5. ASSUME NEW s
      PROVE  /\ Bus!SortSections(s) = BusP!SortSections(s)
             /\ Bus!PruneEmptySections(s) = BusP!PruneEmptySections(s)
  BY DEF Bus!SortSections, BusP!SortSections, Bus!Arrange, BusP!Arrange,
         Bus!PruneEmptySections, BusP!PruneEmptySections,
         Bus!Cardinality, BusP!Cardinality
<1>6. ASSUME NEW s, NEW n
      PROVE  Bus!SplitForResetRom(s, n) = BusP!SplitForResetRom(s, n)
  BY <1>5, SMTT(30) DEF Bus!SplitForResetRom, BusP!SplitForResetRom
<1>7. ASSUME NEW n
      PROVE  Bus!MapResetRom(n) <=> BusP!MapResetRom(n)
  BY <1>5, <1>6, ZenonT(30)
     DEF Bus!MapResetRom, BusP!MapResetRom, Bus!ResetRomPages,
         BusP!ResetRomPages
<1>8. Bus!RegisterResetROMDevice(size) <=> BusP!RegisterResetROMDevice(size)
  BY <1>7 DEF Bus!RegisterResetROMDevice, BusP!RegisterResetROMDevice
<1>9. ASSUME NEW pages, NEW start
      PROVE  Bus!FinishFirmware(pages, start) <=> BusP!FinishFirmware(pages, start)
  BY <1>5 DEF Bus!FinishFirmware, BusP!FinishFirmware
<1>10. ASSUME NEW s, NEW i, NEW n
       PROVE  /\ Bus!SplitForFirmware(s, i, n, size, base)
                   = BusP!SplitForFirmware(s, i, n, size, base)
              /\ Bus!Candidates(s, base) = BusP!Candidates(s, base)
              /\ Bus!FirstCandidate(s, base) = BusP!FirstCandidate(s, base)
  BY DEF Bus!SplitForFirmware, BusP!SplitForFirmware, Bus!Candidates,
         BusP!Candidates,
         Bus!FirstCandidate, BusP!FirstCandidate
<1>11. ASSUME NEW n
       PROVE  Bus!MapFirmwareRom(n, size, base) <=> BusP!MapFirmwareRom(n, size, base)
  BY <1>9, <1>10 DEF Bus!MapFirmwareRom, BusP!MapFirmwareRom
<1>12. Bus!RegisterFirmwareDevice(size, base) <=> BusP!RegisterFirmwareDevice(size, base)
  BY <1>11 DEF Bus!RegisterFirmwareDevice, BusP!RegisterFirmwareDevice
<1>13. Bus!Construct <=> BusP!Construct
  BY DEF Bus!Construct, BusP!Construct, Bus!Sections, BusP!Sections,
         Bus!InDevice, BusP!InDevice
<1> QED  BY <1>1, <1>2, <1>3, <1>4, <1>8, <1>12, <1>13

----------------------------------------------------------------------------
(* The memory the core sees. *)

(* FiniteSetsExt!Min. *)
LEMMA Least ==
  ASSUME NEW S \in SUBSET Nat, S # {}
  PROVE  Min(S) \in S /\ \A n \in S : Min(S) <= n
<1>1. PICK k \in S : TRUE
  OBVIOUS
<1>2. PICK i \in S : \A j \in S : ~ (<< j, i >> \in OpToRel(<, Nat))
  BY <1>1, WFMin, NatLessThanWellFounded
<1>3. \A j \in S : i <= j
  <2> TAKE j \in S
  <2>1. i \in Nat /\ j \in Nat /\ ~ (j < i)
    BY <1>2 DEF OpToRel
  <2> QED  BY <2>1
<1> QED  BY <1>3 DEF Min

(* The devices built are those of the command line, in its order. *)
Built ==
  /\ Len(RegisteredDevices) <= Len(args.devices)
  /\ \A k \in DOMAIN RegisteredDevices :
       /\ RegisteredDevices[k].kind = args.devices[k].kind
       /\ RegisteredDevices[k].size = args.devices[k].size
       /\ RegisteredDevices[k].kind = "FIRMWARE" =>
            RegisteredDevices[k].base = args.devices[k].base
       /\ RegisteredDevices[k].kind = "RESET_ROM" => RegisteredDevices[k].base = ResetVector

(* What is known of a command line. *)
LEMMA ArgsType ==
  ASSUME args \in CommandLines
  PROVE  /\ args \in CommandLine /\ args.devices \in Seq(Descriptor)
         /\ Len(args.devices) \in Nat /\ DOMAIN args.devices = 1 .. Len(args.devices)
         /\ Len(args.devices) <= MaxDevices
         /\ \A k \in DOMAIN args.devices :
              /\ args.devices[k] \in Descriptor
              /\ Loaded(args.devices[k])
<1>1. args \in CommandLine /\ Len(args.devices) <= MaxDevices
      /\ \A k \in DOMAIN args.devices : Loaded(args.devices[k])
  BY CommandLinesAssumption
<1>2. args.devices \in Seq(Descriptor)
  BY <1>1 DEF CommandLine
<1>3. /\ Len(args.devices) \in Nat /\ DOMAIN args.devices = 1 .. Len(args.devices)
      /\ \A k \in DOMAIN args.devices : args.devices[k] \in Descriptor
  BY <1>2
<1> QED  BY <1>1, <1>2, <1>3

(* What the bus answers is a byte: a ROM holds its whole file. *)
LEMMA AnswerType ==
  ASSUME args \in CommandLines, BusP!BusInv, Built,
         NEW a \in Bus!Addresses, InBounds(a)
  PROVE  Answer(a) \in Byte
<1>1. CASE Bus!Read8(a) = Bus!NoByte
  <2>1. Answer(a) = 255
    BY <1>1 DEF Answer
  <2> QED  BY <2>1 DEF Byte
<1>2. CASE Bus!Read8(a) # Bus!NoByte
  <2>1. PICK t : t = Bus!Read8(a) /\ t = BusP!Read8(a) /\ t # BusP!NoByte
    BY <1>2, BusOperators
  <2>2. a \in BusP!Addresses /\ BusP!Covering(a) # {}
    BY <2>1, BusOperators DEF BusP!Read8
  <2>3. PICK g \in BusP!SectionType(Len(RegisteredDevices)) :
           /\ BusP!InPageOffset(a) >= g.pageOffset
           /\ BusP!InPageOffset(a) < g.pageOffset + g.size
           /\ t = [device |-> g.device,
                   offset |-> IF g.DirectAccess
                                THEN BusP!InPageOffset(a) - g.pageOffset
                                ELSE g.DeviceOffset + (BusP!InPageOffset(a) - g.pageOffset)]
    BY <2>1, <2>2, BusAssumptions, BusP!ReadSection DEF BusP!BusInv
  <2>4. /\ g.device \in 1 .. Len(RegisteredDevices) /\ g.DeviceOffset \in Nat
        /\ g.pageOffset \in 0 .. Wrap - 1 /\ g.DirectAccess \in BOOLEAN
    BY <2>3 DEF BusP!SectionType
  <2>5. BusP!InPageOffset(a) \in Nat
    <3>1. Len(MemoryPages) \in Nat
      BY DEF BusP!BusInv, BusP!PagesIn
    <3>2. PICK P \in Nat \ {0}, L \in Nat : P = PageSize /\ L = Len(MemoryPages)
      BY <3>1, PageSizeAssumption
    <3>3. a \in Nat
      BY <3>2, <2>2 DEF BusP!Addresses
    <3> QED  BY <3>3, BusAssumptions, BusP!OffsetNat
  <2>6. t.device = g.device /\ t.offset \in Nat
    <3>1. PICK x \in Nat, y \in Nat, z \in Nat :
            x = BusP!InPageOffset(a) /\ y = g.pageOffset /\ z = g.DeviceOffset /\ x >= y
      BY <2>3, <2>4, <2>5, WrapAssumption
    <3>2. t.offset = x - y \/ t.offset = z + (x - y)
      BY <2>3, <3>1
    <3> QED  BY <2>3, <3>1, <3>2
  <2>7. PICK n : n = t.device /\ n \in DOMAIN RegisteredDevices /\ n \in DOMAIN args.devices
    BY <2>4, <2>6, ArgsType DEF Built, BusP!BusInv
  <2>8. CASE Bus!Is(t.device, "MEMORY")
    <3>1. Answer(a) = 0
      BY <2>1, <2>8, <1>2 DEF Answer
    <3> QED  BY <3>1 DEF Byte
  <2>9. CASE ~Bus!Is(t.device, "MEMORY")
    <3>1. PICK d : d = args.devices[n] /\ d \in Descriptor /\ Loaded(d)
      BY <2>7, ArgsType
    <3>2. RegisteredDevices[n].kind = d.kind /\ RegisteredDevices[n].size = d.size
      BY <2>7, <3>1 DEF Built
    <3>3. RegisteredDevices[n] \in BusP!DeviceType
      BY <2>7 DEF BusP!BusInv
    <3>4. d.kind \in {"RESET_ROM", "FIRMWARE"} /\ d.size = Len(d.file)
      BY <2>7, <2>9, <3>1, <3>2, <3>3
         DEF BusP!DeviceType, BusP!Kinds, Bus!Is, Loaded
    <3>5. t.offset < d.size
      BY <1>2, <2>1, <2>7, <3>2 DEF InBounds, Bus!Size
    <3>6. d.file \in Seq(Byte)
      BY <3>1 DEF Descriptor
    <3>7. d.file[t.offset + 1] \in Byte
      BY <2>6, <3>4, <3>5, <3>6
    <3>8. Answer(a) = d.file[t.offset + 1]
      BY <1>2, <2>1, <2>7, <2>9, <3>1 DEF Answer
    <3> QED  BY <3>7, <3>8
  <2> QED  BY <2>8, <2>9
<1> QED  BY <1>1, <1>2

(* The memory the core reads is made of bytes and no longer than the table. *)
LEMMA ImageType ==
  ASSUME args \in CommandLines, BusP!BusInv, Built
  PROVE  Image \in Seq(Byte) /\ Len(Image) <= Len(MemoryPages) * PageSize
<1>1. PICK N \in Nat : N = Len(MemoryPages) * PageSize
  <2>1. PICK L \in Nat, P \in Nat : L = Len(MemoryPages) /\ P = PageSize
    BY PageSizeAssumption DEF BusP!BusInv, BusP!PagesIn
  <2> QED  BY <2>1
<1>2. Bus!Addresses = 0 .. N - 1 /\ Cardinality(Bus!Addresses) = N
  BY <1>1, FS_Interval DEF Bus!Addresses
<1> DEFINE S == {Cardinality(Bus!Addresses)} \cup
                {a \in Bus!Addresses : a >= ResetVector /\ ~InBounds(a)}
<1>3. PICK n \in Nat : n = Min(S) /\ n <= N
  <2>1. S \subseteq Nat /\ N \in S
    BY <1>2
  <2> HIDE DEF S
  <2> QED  BY <2>1, Least
<1>4. ASSUME NEW k \in 1 .. n
      PROVE  (IF InBounds(k - 1) THEN Answer(k - 1) ELSE 255) \in Byte
  <2>1. k - 1 \in Bus!Addresses
    BY <1>1, <1>2, <1>3
  <2>2. CASE InBounds(k - 1)
    BY <2>1, <2>2, AnswerType
  <2>3. CASE ~InBounds(k - 1)
    BY <2>3 DEF Byte
  <2> QED  BY <2>2, <2>3
<1>5. Image = [k \in 1 .. n |-> IF InBounds(k - 1) THEN Answer(k - 1) ELSE 255]
  BY <1>3 DEF Image
<1>6. Image \in [1 .. n -> Byte]
  BY <1>4, <1>5
<1>7. Image \in Seq(Byte) /\ Len(Image) = n
  BY <1>6
<1> QED  BY <1>1, <1>3, <1>7

----------------------------------------------------------------------------
(* Types. *)

Before == {"parse", "cpu", "split", "devices", "start"}

(* The parts' own invariants; until Start is called the core is as it was   *)
(* constructed.                                                             *)
PartsInv ==
  /\ args \in CommandLines
  /\ main \in Before \cup {"running", "waiting", "exited"}
  /\ BusP!TableInv /\ Built
  /\ CoreP!VCoreInv /\ CoreP!HostTypeOK
  /\ main \in Before => pc = "constructed" /\ host = "idle" /\ thread = "none"

(* Main has just been called. *)
LEMMA PartsInit == Init => PartsInv
<1> SUFFICES ASSUME Init PROVE PartsInv
  OBVIOUS
<1>1. BusP!TableInv
  <2>1. BusP!Init
    BY DEF Init, BusP!Init
  <2> QED  BY <2>1, BusAssumptions, BusP!TableInvInit
<1>2. Built
  <2>1. RegisteredDevices = << >> /\ Len(args.devices) \in Nat
    BY ArgsType DEF Init
  <2> QED  BY <2>1 DEF Built
<1>3. CoreP!VCoreInv
  <2>1. \E mode \in Modes : PE = (mode = "protected") /\ LMA = (mode = "long")
    <3>1. "real" \in Modes /\ PE = ("real" = "protected") /\ LMA = ("real" = "long")
      BY DEF Init, Modes
    <3> QED  BY <3>1
  <2>2. /\ CoreP!Registers = Registers /\ CoreP!Zero = Zero /\ CoreP!NoPrefixes = NoPrefixes
        /\ CoreP!FreshInstruction = FreshInstruction
    BY DEF CoreP!Registers, Registers, CoreP!Zero, Zero, CoreP!Lane, Lane,
       CoreP!NoPrefixes, NoPrefixes, CoreP!FreshInstruction, FreshInstruction,
       CoreP!Instruction, Instruction, CoreP!NoOperand, NoOperand
  <2>3. mem \in Seq(Byte)
    BY DEF Init
  <2>4. CoreP!Init
    BY <2>1, <2>2, <2>3 DEF Init, CoreP!Init
  <2> QED  BY <2>4, CoreAssumptions, CoreP!VCoreInvInit
<1> QED  BY <1>1, <1>2, <1>3 DEF Init, PartsInv, Before, CoreP!HostTypeOK

(* Whatever leaves the bus's table alone. *)
LEMMA BusStutter ==
  ASSUME BusP!TableInv, Built, args' = args,
         UNCHANGED << MemoryPages, RegisteredDevices, resetVector >>,
         \/ status' \in {status, "failed", "undefined"}
         \/ status = "constructing" /\ status' = "ready"
  PROVE  BusP!TableInv' /\ Built'
<1>1. /\ status' \in {"constructing", "ready", "failed", "undefined"}
      /\ BusP!Usable' => BusP!Usable
  BY DEF BusP!TableInv, BusP!BusInv, BusP!Usable
<1>2. BusP!TableInv'
  BY <1>1, BusAssumptions, BusP!TableStutter
<1> QED  BY <1>2 DEF Built

(* Whatever leaves the core alone. *)
LEMMA CoreStutter ==
  ASSUME CoreP!VCoreInv, CoreP!HostTypeOK, UNCHANGED core
  PROVE  CoreP!VCoreInv' /\ CoreP!HostTypeOK'
<1>1. UNCHANGED CoreP!vars /\ host' = host /\ thread' = thread
  BY DEF core, CoreP!vars
<1>2. CoreP!VCoreInv'
  BY <1>1, CoreAssumptions, CoreP!VCoreInvStep
<1> QED  BY <1>1, <1>2 DEF CoreP!HostTypeOK

(* A device built from the next descriptor of the command line. *)
LEMMA RegisterKeepsBuilt ==
  ASSUME Built, args \in CommandLines, RegisteredDevices \in Seq(BusP!DeviceType), args' = args,
         NEW kind, NEW size, NEW base,
         RegisteredDevices' = Append(RegisteredDevices, Bus!Device(kind, size, base)),
         Len(RegisteredDevices) + 1 \in DOMAIN args.devices,
         kind = args.devices[Len(RegisteredDevices) + 1].kind,
         size = args.devices[Len(RegisteredDevices) + 1].size,
         kind = "FIRMWARE" => base = args.devices[Len(RegisteredDevices) + 1].base,
         kind = "RESET_ROM" => base = ResetVector
  PROVE  Built'
<1> DEFINE N == Len(RegisteredDevices)
<1> DEFINE A == args.devices
<1>1. PICK n \in Nat : n = Len(A) /\ DOMAIN A = 1 .. n
  BY ArgsType
<1>2. PICK d : d = Bus!Device(kind, size, base) /\ d.kind = kind /\ d.size = size /\ d.base = base
  BY DEF Bus!Device
<1>3. PICK E : E = Append(RegisteredDevices, d)
  OBVIOUS
<1>4. /\ N \in Nat /\ Len(E) = N + 1 /\ DOMAIN E = 1 .. N + 1 /\ DOMAIN RegisteredDevices = 1 .. N
      /\ \A k \in 1 .. N : E[k] = RegisteredDevices[k]
      /\ E[N + 1] = d
  BY <1>3
<1>5. RegisteredDevices' = E /\ args'.devices = A
  BY <1>2, <1>3
<1>6. N + 1 <= n
  BY <1>1, <1>4
<1>7. ASSUME NEW k \in 1 .. N + 1
      PROVE  /\ E[k].kind = A[k].kind
             /\ E[k].size = A[k].size
             /\ E[k].kind = "FIRMWARE" => E[k].base = A[k].base
             /\ E[k].kind = "RESET_ROM" => E[k].base = ResetVector
  <2>1. CASE k \in 1 .. N
    BY <2>1, <1>1, <1>4 DEF Built
  <2>2. CASE k = N + 1
    BY <2>2, <1>1, <1>2, <1>4
  <2> QED  BY <2>1, <2>2, <1>4
<1> QED  BY <1>1, <1>4, <1>5, <1>6, <1>7 DEF Built

(* A descriptor's device is registered with the bus, and no thread runs. *)
LEMMA RegisterParts ==
  ASSUME PartsInv, RegisterNext
  PROVE  PartsInv'
<1> DEFINE n == Len(RegisteredDevices) + 1
           d == args.devices[n]
<1>1. /\ args \in CommandLines /\ BusP!TableInv /\ Built /\ CoreP!VCoreInv /\ CoreP!HostTypeOK
      /\ n \in DOMAIN args.devices /\ main = "devices"
      /\ RegisteredDevices \in Seq(BusP!DeviceType) /\ resetVector = ResetVector
  BY DEF PartsInv, RegisterNext, BusP!TableInv, BusP!BusInv
<1>2. d.size \in Nat /\ d.base \in Nat
  BY <1>1, ArgsType DEF Descriptor
<1>3. PICK k, s, b : k = d.kind /\ s = d.size /\ b = d.base
  OBVIOUS
<1>4. UNCHANGED << args, main, core >> /\ BusP!TableInv' /\ Built'
  <2>1. CASE k = "MEMORY" /\ Bus!RegisterMemoryDevice(s) /\ UNCHANGED << args, main, core >>
    <3>1. BusP!RegisterMemoryDevice(s)
      BY <2>1, BusOperators
    <3>2. BusP!TableInv'
      BY <3>1, <1>1, <1>2, <1>3, BusAssumptions, BusP!TableInvStep DEF BusP!Next
    <3>3. RegisteredDevices' = Append(RegisteredDevices, Bus!Device("MEMORY", s, 0))
      BY <2>1 DEF Bus!RegisterMemoryDevice, Bus!Register
    <3>4. Built'
      BY <2>1, <3>3, <1>1, <1>3, RegisterKeepsBuilt
    <3> QED  BY <2>1, <3>2, <3>4
  <2>2. CASE k = "RESET_ROM" /\ s <= ResetRomSize + 1 /\ Bus!RegisterResetROMDevice(s)
             /\ UNCHANGED << args, main, core >>
    <3>1. BusP!RegisterResetROMDevice(s)
      BY <2>2, BusOperators
    <3>2. s \in 0 .. ResetRomSize + 1
      BY <2>2, <1>2, <1>3, ResetRomSizeAssumption, PageSizeAssumption
    <3>3. BusP!TableInv'
      BY <3>1, <3>2, <1>1, BusAssumptions, BusP!TableInvStep DEF BusP!Next
    <3>4. RegisteredDevices' = Append(RegisteredDevices, Bus!Device("RESET_ROM", s, resetVector))
      BY <2>2 DEF Bus!RegisterResetROMDevice, Bus!Register
    <3>5. Built'
      BY <2>2, <3>4, <1>1, <1>3, RegisterKeepsBuilt
    <3> QED  BY <2>2, <3>3, <3>5
  <2>3. CASE k = "FIRMWARE" /\ Bus!RegisterFirmwareDevice(s, b)
             /\ UNCHANGED << args, main, core >>
    <3>1. BusP!RegisterFirmwareDevice(s, b)
      BY <2>3, BusOperators
    <3>2. BusP!TableInv'
      <4>1. PICK f \in [size : Nat, base : Nat] : f.size = s /\ f.base = b
        <5>1. [size |-> s, base |-> b] \in [size : Nat, base : Nat]
          BY <1>2, <1>3
        <5> QED  BY <5>1
      <4>2. BusP!Next
        BY <3>1, <4>1 DEF BusP!Next
      <4> QED  BY <4>2, <1>1, BusAssumptions, BusP!TableInvStep
    <3>3. RegisteredDevices' = Append(RegisteredDevices, Bus!Device("FIRMWARE", s, b))
      BY <2>3 DEF Bus!RegisterFirmwareDevice, Bus!Register
    <3>4. Built'
      BY <2>3, <3>3, <1>1, <1>3, RegisterKeepsBuilt
    <3> QED  BY <2>3, <3>2, <3>4
  <2>4. CASE End("failed")
    <3>1. BusP!TableInv' /\ Built'
      BY <2>4, <1>1, BusStutter DEF End
    <3> QED  BY <3>1, <2>4 DEF End
  <2> QED  BY <2>1, <2>2, <2>3, <2>4, <1>3 DEF RegisterNext
<1>5. CoreP!VCoreInv' /\ CoreP!HostTypeOK'
  BY <1>1, <1>4, CoreStutter
<1>6. pc' = pc /\ host' = host /\ thread' = thread
  BY <1>4 DEF core
<1> QED  BY <1>1, <1>4, <1>5, <1>6 DEF PartsInv

(* The constructor of System. *)
LEMMA ConstructParts ==
  ASSUME PartsInv, Construction
  PROVE  PartsInv'
<1> USE DEF PartsInv, Before
<1>1. CASE ParseArguments
  <2>1. /\ UNCHANGED << args, MemoryPages, RegisteredDevices, resetVector, core >>
        /\ status' \in {status, "failed", "undefined"} /\ main' \in {main, "cpu"}
        /\ main = "parse"
    BY <1>1 DEF ParseArguments, End, GoOn, bus
  <2>2. BusP!TableInv' /\ Built' /\ CoreP!VCoreInv' /\ CoreP!HostTypeOK'
    BY <2>1, BusStutter, CoreStutter
  <2> QED  BY <2>1, <2>2 DEF core
<1>2. CASE ConstructCPU
  <2>1. CASE status' = "undefined" /\ UNCHANGED << args, main, core >>
             /\ UNCHANGED << MemoryPages, RegisteredDevices, resetVector >>
    <3>1. BusP!TableInv' /\ Built' /\ CoreP!VCoreInv' /\ CoreP!HostTypeOK'
      BY <2>1, BusStutter, CoreStutter
    <3> QED  BY <2>1, <3>1 DEF core
  <2>2. CASE main' = "split"
    <3>1. /\ main = "cpu" /\ PE' \in BOOLEAN /\ LMA' \in BOOLEAN
          /\ UNCHANGED << args, bus, mem, regs, rip, pc, address, byte, prefixes,
                          instr, isRunning, hasShutdown, host, thread >>
      BY <1>2, <2>2 DEF ConstructCPU, End
    <3>2. BusP!TableInv' /\ Built'
      BY <3>1, BusStutter DEF bus
    <3>3. CoreP!TypeOK'
      BY <3>1 DEF CoreP!TypeOK, CoreP!VCoreInv
    <3>4. CoreP!VCoreInv'
      BY <3>1, <3>3 DEF CoreP!VCoreInv, CoreP!Collecting, CoreP!Decoding
    <3> QED  BY <2>2, <3>1, <3>2, <3>4 DEF CoreP!HostTypeOK
  <2> QED  BY <1>2, <2>1, <2>2 DEF ConstructCPU, End
<1>3. CASE SplitDescriptors
  <2>1. /\ UNCHANGED << args, MemoryPages, RegisteredDevices, resetVector, core >>
        /\ status' \in {status, "failed"} /\ main' \in {main, "devices"}
        /\ main = "split"
    BY <1>3 DEF SplitDescriptors, End, GoOn, bus
  <2>2. BusP!TableInv' /\ Built' /\ CoreP!VCoreInv' /\ CoreP!HostTypeOK'
    BY <2>1, BusStutter, CoreStutter
  <2> QED  BY <2>1, <2>2 DEF core
<1>4. CASE RegisterNext
  BY <1>4, RegisterParts
<1>5. CASE FinishConstruction
  <2>1. /\ main = "devices" /\ main' \in {main, "start"} /\ mem' \in {mem, Image}
        /\ UNCHANGED << MemoryPages, RegisteredDevices, resetVector >>
        /\ status = "constructing" /\ status' \in {"ready", "undefined"}
        /\ UNCHANGED << args, PE, LMA, regs, rip, pc, address, byte, prefixes, instr,
                        isRunning, hasShutdown, host, thread >>
    BY <1>5 DEF FinishConstruction, Bus!Construct
  <2>2. BusP!TableInv' /\ Built'
    BY <2>1, BusStutter
  <2>3. mem' \in Seq(Byte)
    BY <2>1, ImageType DEF CoreP!TypeOK, CoreP!VCoreInv, BusP!TableInv
  <2>4. CoreP!TypeOK'
    BY <2>1, <2>3 DEF CoreP!TypeOK, CoreP!VCoreInv
  <2>5. CoreP!VCoreInv'
    BY <2>1, <2>4 DEF CoreP!VCoreInv, CoreP!Collecting, CoreP!Decoding
  <2> QED  BY <2>1, <2>2, <2>5 DEF CoreP!HostTypeOK
<1> QED  BY <1>1, <1>2, <1>3, <1>4, <1>5 DEF Construction

(* Whatever keeps the bus and the core's invariants, from Start on. *)
LEMMA CorePart ==
  ASSUME PartsInv, UNCHANGED << args, bus >>, main' = main \/ main' \notin Before,
         main' \in Before \cup {"running", "waiting", "exited"}, main \notin Before \/ main # main',
         CoreP!VCoreInv', CoreP!HostTypeOK'
  PROVE  PartsInv'
<1>1. BusP!TableInv' /\ Built'
  BY BusStutter DEF PartsInv, bus
<1> QED  BY <1>1 DEF PartsInv

(* A step of one of the two threads, or of the call they are in. *)
LEMMA CallParts ==
  ASSUME PartsInv, SystemInv, StartSystem \/ HostStep \/ ThreadStep \/ StartReturns \/ Return
  PROVE  PartsInv'
<1> USE DEF PartsInv, Before
<1>1. CASE StartSystem
  <2>1. CASE args.cores > 0
    <3>1. /\ main = "start" /\ main' = "running" /\ UNCHANGED << args, bus, Core!vars >>
          /\ host' = "poll" /\ thread' = "created"
      BY <1>1, <2>1 DEF StartSystem, Core!Start
    <3>2. UNCHANGED CoreP!vars
      BY <3>1 DEF CoreP!vars, Core!vars
    <3>3. CoreP!VCoreInv'
      BY <3>2, CoreAssumptions, CoreP!VCoreInvStep
    <3>4. CoreP!HostTypeOK'
      BY <3>1 DEF CoreP!HostTypeOK
    <3> QED  BY <3>1, <3>3, <3>4, CorePart
  <2>2. CASE ~(args.cores > 0)
    <3>1. status' = "undefined" /\ UNCHANGED << args, main, core >>
          /\ UNCHANGED << MemoryPages, RegisteredDevices, resetVector >>
      BY <1>1, <2>2 DEF StartSystem, End
    <3>2. BusP!TableInv' /\ Built' /\ CoreP!VCoreInv' /\ CoreP!HostTypeOK'
      BY <3>1, BusStutter, CoreStutter
    <3> QED  BY <3>1, <3>2 DEF core
  <2> QED  BY <2>1, <2>2
<1>2. CASE HostStep
  <2>1. /\ main = "running" /\ main' = main /\ UNCHANGED << args, bus, Core!vars >>
        /\ host' \in {"idle", "poll", "sleep", "join"} /\ thread' \in {thread, "none"}
    BY <1>2 DEF HostStep, Core!HostStep, Core!Poll, Core!Wake, Core!Join
  <2>2. UNCHANGED CoreP!vars
    BY <2>1 DEF CoreP!vars, Core!vars
  <2>3. CoreP!VCoreInv'
    BY <2>2, CoreAssumptions, CoreP!VCoreInvStep
  <2>4. CoreP!HostTypeOK'
    BY <2>1 DEF CoreP!HostTypeOK
  <2> QED  BY <2>1, <2>3, <2>4, CorePart
<1>3. CASE ThreadStep
  <2>1. main' = main /\ UNCHANGED << args, bus, host >> /\ thread \in {"created", "live"}
        /\ thread' \in {"live", "exited"}
    BY <1>3 DEF ThreadStep, Core!ThreadStep, Core!Enter, Core!Run, Core!Exit
  <2>2. [CoreP!Next]_(CoreP!vars)
    <3>1. Core!StartCore \/ Core!CoreStep \/ UNCHANGED Core!vars
      BY <1>3 DEF ThreadStep, Core!ThreadStep, Core!Enter, Core!Run, Core!Exit
    <3> QED  BY <3>1, CoreSteps DEF CoreP!Next, CoreP!vars, Core!vars
  <2>3. CoreP!VCoreInv'
    BY <2>2, CoreAssumptions, CoreP!VCoreInvStep
  <2>4. CoreP!HostTypeOK'
    BY <2>1 DEF CoreP!HostTypeOK
  <2> QED  BY <2>1, <2>3, <2>4, CorePart
<1>4. CASE StartReturns
  <2>1. main = "running" /\ main' = "waiting" /\ UNCHANGED << args, bus, core >>
    BY <1>4 DEF StartReturns, GoOn
  <2>2. CoreP!VCoreInv' /\ CoreP!HostTypeOK'
    BY <2>1, CoreStutter
  <2> QED  BY <2>1, <2>2, CorePart
<1>5. CASE Return
  <2>1. /\ main = "waiting" /\ main' = "exited" /\ UNCHANGED << args, bus >>
        /\ host = "idle" /\ host' = "destroyed" /\ thread' = thread
        /\ isRunning' = FALSE /\ hasShutdown' = TRUE
        /\ UNCHANGED << mem, PE, LMA, regs, rip, pc, address, byte, prefixes, instr >>
    BY <1>5 DEF Return, Core!Destroy, Core!memory, Core!cursor
  <2>2. pc \in {"constructed", "returned"}
    BY <2>1 DEF SystemInv
  <2>3. CoreP!TypeOK'
    BY <2>1 DEF CoreP!TypeOK, CoreP!VCoreInv
  <2>4. CoreP!VCoreInv'
    BY <2>1, <2>2, <2>3 DEF CoreP!VCoreInv, CoreP!Collecting, CoreP!Decoding
  <2>5. CoreP!HostTypeOK'
    BY <2>1 DEF CoreP!HostTypeOK
  <2> QED  BY <2>1, <2>4, <2>5, CorePart
<1> QED  BY <1>1, <1>2, <1>3, <1>4, <1>5

(* Every step of the program keeps what is proved of its parts. *)
LEMMA PartsInvariance == Spec => []PartsInv
<1>1. PartsInv /\ SystemInv /\ [Next]_systemVars => PartsInv'
  <2> SUFFICES ASSUME PartsInv, SystemInv, [Next]_systemVars PROVE PartsInv'
    OBVIOUS
  <2>1. CASE Construction
    BY <2>1, ConstructParts
  <2>2. CASE StartSystem \/ HostStep \/ ThreadStep \/ StartReturns \/ Return
    BY <2>2, CallParts
  <2>3. CASE UNCHANGED systemVars
    <3>1. UNCHANGED << args, main, MemoryPages, RegisteredDevices, resetVector, status, core >>
      BY <2>3 DEF systemVars, bus
    <3>2. BusP!TableInv' /\ Built' /\ CoreP!VCoreInv' /\ CoreP!HostTypeOK'
      BY <3>1, BusStutter, CoreStutter DEF PartsInv
    <3> QED  BY <3>1, <3>2 DEF PartsInv, core
  <2> QED  BY <2>1, <2>2, <2>3 DEF Next
<1> QED  BY <1>1, PartsInit, SystemInvariance, PTL DEF Spec

(* From the command line to the last instruction every part keeps the types *)
(* of its C++ fields, the table names only devices of the command line, in  *)
(* its order, and what the core runs on is a sequence of bytes: a read the  *)
(* bus defines is a byte of the file its ROM was loaded from.               *)
THEOREM SystemTypes == Spec => []SystemTypeOK
<1>1. PartsInv => SystemTypeOK
  <2> SUFFICES ASSUME PartsInv PROVE SystemTypeOK
    OBVIOUS
  <2>1. args \in CommandLine
    BY ArgsType DEF PartsInv
  <2>2. Bus!TypeOK
    <3>1. BusP!TypeOK
      BY BusAssumptions, BusP!BusInvTypeOK DEF PartsInv, BusP!TableInv
    <3> QED  BY <3>1, BusOperators
  <2>3. Core!TypeOK
    <3>1. CoreP!TypeOK
      BY DEF PartsInv, CoreP!VCoreInv
    <3> QED  BY <3>1, CoreTypes
  <2>4. Core!HostTypeOK
    BY DEF PartsInv, CoreP!HostTypeOK, Core!HostTypeOK
  <2> QED  BY <2>1, <2>2, <2>3, <2>4 DEF SystemTypeOK, PartsInv, Before, Built
<1> QED  BY <1>1, PartsInvariance, PTL

----------------------------------------------------------------------------
(* The way from the command line to the first instruction, once. *)

(* Devices come after the split, the core's memory is the bus's image when  *)
(* Start is called, and Start enters and leaves the core once.              *)
StageInv ==
  /\ main \in {"parse", "cpu", "split"} => RegisteredDevices = << >>
  /\ main = "start" => mem = Image
  /\ thread = "created" => pc = "constructed"
  /\ main = "running" /\ host = "idle" => pc = "returned"

(* The image is read from the table and the files. *)
LEMMA ImageStutter ==
  ASSUME args' = args, UNCHANGED << MemoryPages, RegisteredDevices, resetVector >>
  PROVE  Image' = Image
<1>1. Bus!Addresses' = Bus!Addresses
  BY DEF Bus!Addresses
<1>2. \A a : InBounds(a)' = InBounds(a) /\ Answer(a)' = Answer(a)
  BY DEF InBounds, Answer, Bus!Read8, Bus!Covering, Bus!NoByte, Bus!Size, Bus!Is,
         Bus!GetPageNumber, Bus!InPageOffset
<1> QED  BY <1>1, <1>2 DEF Image

(* The stages follow one another, and the image stays that of the table. *)
LEMMA StageInvariance == Spec => []StageInv
<1>1. Init => StageInv
  BY DEF Init, StageInv
<1>2. StageInv /\ PartsInv /\ SystemInv /\ [Next]_systemVars => StageInv'
  <2> SUFFICES ASSUME StageInv, PartsInv, SystemInv, [Next]_systemVars PROVE StageInv'
    OBVIOUS
  <2>1. CASE ParseArguments
    <3>1. main' \in {"parse", "cpu"} /\ RegisteredDevices' = RegisteredDevices
          /\ UNCHANGED << pc, thread >> /\ main = "parse"
      BY <2>1 DEF ParseArguments, End, GoOn, bus, core
    <3> QED  BY <3>1 DEF StageInv
  <2>2. CASE ConstructCPU
    <3>1. main' \in {"cpu", "split"} /\ RegisteredDevices' = RegisteredDevices
          /\ UNCHANGED << pc, thread >> /\ main = "cpu"
      BY <2>2 DEF ConstructCPU, End, bus, core
    <3> QED  BY <3>1 DEF StageInv
  <2>3. CASE SplitDescriptors
    <3>1. main' \in {"split", "devices"} /\ RegisteredDevices' = RegisteredDevices
          /\ UNCHANGED << pc, thread >> /\ main = "split"
      BY <2>3 DEF SplitDescriptors, End, GoOn, bus, core
    <3> QED  BY <3>1 DEF StageInv
  <2>4. CASE RegisterNext
    <3>1. main' = "devices" /\ UNCHANGED << pc, thread >>
      BY <2>4 DEF RegisterNext, End, core
    <3> QED  BY <3>1 DEF StageInv
  <2>5. CASE FinishConstruction
    <3>1. /\ main' = "devices" \/ (main' = "start" /\ mem' = Image)
          /\ args' = args /\ UNCHANGED << MemoryPages, RegisteredDevices, resetVector >>
          /\ UNCHANGED << pc, thread >>
      BY <2>5 DEF FinishConstruction, Bus!Construct
    <3> QED  BY <3>1, ImageStutter DEF StageInv
  <2>6. CASE StartSystem
    <3>1. CASE args.cores > 0
      <4>1. main' = "running" /\ host' = "poll" /\ pc' = pc /\ pc = "constructed"
        BY <2>6, <3>1 DEF StartSystem, Core!Start, Core!vars, PartsInv, Before
      <4> QED  BY <4>1 DEF StageInv
    <3>2. CASE ~(args.cores > 0)
      <4>1. /\ main' = "start" /\ UNCHANGED << mem, pc, thread >> /\ main = "start"
            /\ args' = args /\ UNCHANGED << MemoryPages, RegisteredDevices, resetVector >>
        BY <2>6, <3>2 DEF StartSystem, End, core
      <4> QED  BY <4>1, ImageStutter DEF StageInv
    <3> QED  BY <3>1, <3>2
  <2>7. CASE HostStep
    <3>1. /\ main' = "running" /\ pc' = pc /\ thread' \in {thread, "none"}
          /\ host' = "idle" => pc = "returned"
      BY <2>7 DEF HostStep, Core!HostStep, Core!Poll, Core!Wake, Core!Join, Core!vars,
                  SystemInv
    <3> QED  BY <3>1 DEF StageInv
  <2>8. CASE ThreadStep
    <3>1. /\ main' = main /\ host' = host /\ thread' # "created" /\ thread # "none"
          /\ thread # "none" => main = "running" /\ host # "idle"
      BY <2>8 DEF ThreadStep, Core!ThreadStep, Core!Enter, Core!Run, Core!Exit, SystemInv
    <3> QED  BY <3>1 DEF StageInv
  <2>9. CASE StartReturns
    BY <2>9 DEF StartReturns, GoOn, StageInv, core
  <2>10. CASE Return
    BY <2>10 DEF Return, Core!Destroy, StageInv
  <2>11. CASE UNCHANGED systemVars
    <3>1. /\ UNCHANGED << args, main, mem, host, pc, thread >>
          /\ UNCHANGED << MemoryPages, RegisteredDevices, resetVector >>
      BY <2>11 DEF systemVars, bus, core
    <3> QED  BY <3>1, ImageStutter DEF StageInv
  <2> QED  BY <2>1, <2>2, <2>3, <2>4, <2>5, <2>6, <2>7, <2>8, <2>9, <2>10, <2>11
           DEF Next, Construction
<1> QED  BY <1>1, <1>2, PartsInvariance, SystemInvariance, PTL DEF Spec

----------------------------------------------------------------------------
(* What a sound description makes of the table. *)

(* The description plugged in so far, as Described has it. *)
Plugged == [k \in 1 .. Len(RegisteredDevices) |-> args.devices[k]]

(* Each device registered is the one described at its place. *)
LEMMA PluggedDevices ==
  ASSUME PartsInv
  PROVE  /\ Len(RegisteredDevices) \in Nat /\ Len(Plugged) = Len(RegisteredDevices)
         /\ BusP!Devices = 1 .. Len(RegisteredDevices) /\ resetVector = ResetVector
         /\ \A k \in 1 .. Len(RegisteredDevices) :
              /\ Plugged[k] = args.devices[k] /\ Plugged[k] \in Descriptor /\ Loaded(Plugged[k])
              /\ \A kind : BusP!Is(k, kind) <=> Plugged[k].kind = kind
              /\ BusP!Size(k) = Plugged[k].size
              /\ BusP!Is(k, "FIRMWARE") => BusP!Base(k) = Plugged[k].base
              /\ BusP!Is(k, "RESET_ROM") => BusP!Base(k) = ResetVector
<1>1. PICK n \in Nat : n = Len(RegisteredDevices) /\ DOMAIN RegisteredDevices = 1 .. n
  BY DEF PartsInv, BusP!TableInv, BusP!BusInv
<1>2. Plugged = [k \in 1 .. n |-> args.devices[k]] /\ Len(Plugged) = n
  BY <1>1 DEF Plugged
<1>3. \A k \in 1 .. n : k \in DOMAIN args.devices
  BY <1>1, ArgsType DEF PartsInv, Built
<1>4. \A k \in 1 .. n : args.devices[k] \in Descriptor /\ Loaded(args.devices[k])
  BY <1>3, ArgsType DEF PartsInv
<1>5. ASSUME NEW k \in 1 .. n
      PROVE  /\ \A kind : BusP!Is(k, kind) <=> args.devices[k].kind = kind
             /\ BusP!Size(k) = args.devices[k].size
             /\ BusP!Is(k, "FIRMWARE") => BusP!Base(k) = args.devices[k].base
             /\ BusP!Is(k, "RESET_ROM") => BusP!Base(k) = ResetVector
  BY <1>1 DEF PartsInv, Built, BusP!Is, BusP!Size, BusP!Base
<1>6. BusP!Devices = 1 .. n /\ resetVector = ResetVector
  BY <1>1 DEF BusP!Devices, PartsInv, BusP!TableInv, BusP!BusInv
<1> QED  BY <1>1, <1>2, <1>4, <1>5, <1>6

(* The conditions the properties of the bus are under. *)
LEMMA SoundDevices ==
  ASSUME PartsInv, Described!Sound(Plugged)
  PROVE  /\ Len(RegisteredDevices) \in Nat /\ Len(RegisteredDevices) >= 2
         /\ 1 \in BusP!Devices /\ BusP!Is(1, "MEMORY") /\ BusP!Size(1) % PageSize = 0
         /\ 2 \in BusP!Devices /\ BusP!Is(2, "RESET_ROM")
         /\ \A k \in BusP!Devices : k = 1 \/ k = 2 \/ k \in 3 .. Len(RegisteredDevices)
         /\ \A k \in 3 .. Len(RegisteredDevices) : BusP!Is(k, "FIRMWARE")
         /\ ResetVector < BusP!Size(1)
         /\ 2 * BusP!InPageOffset(ResetVector) >= PageSize
         /\ BusP!InPageOffset(ResetVector) + ResetRomSize < PageSize
         /\ BusP!ResetRomFirst /\ BusP!FirmwareEndsFit /\ BusP!MemoryFirst
         /\ BusP!DevicesFillTheirMapping /\ BusP!VectorSound
<1>1. PICK n \in Nat : n = Len(RegisteredDevices) /\ n = Len(Plugged) /\ BusP!Devices = 1 .. n
  BY PluggedDevices
<1>2. /\ n >= 2
      /\ Plugged[1].kind = "MEMORY" /\ Plugged[1].size % PageSize = 0
      /\ Plugged[2].kind = "RESET_ROM" /\ Plugged[2].size \in ResetRomSize .. ResetRomSize + 1
      /\ 2 * (ResetVector % PageSize) >= PageSize
      /\ (ResetVector % PageSize) + ResetRomSize < PageSize
      /\ ResetVector < Plugged[1].size
      /\ \A k \in 3 .. n :
           Plugged[k].kind = "FIRMWARE" /\ (Plugged[k].base % PageSize) + Plugged[k].size < Wrap
  BY <1>1 DEF Described!Sound
<1>3. /\ 1 \in 1 .. n /\ 2 \in 1 .. n /\ \A k \in 3 .. n : k \in 1 .. n
      /\ \A k \in 1 .. n : k = 1 \/ k = 2 \/ k \in 3 .. n
  BY <1>2
<1>4. /\ BusP!Is(1, "MEMORY") /\ BusP!Size(1) = Plugged[1].size
      /\ BusP!Is(2, "RESET_ROM") /\ BusP!Size(2) = Plugged[2].size
      /\ resetVector = ResetVector
  BY <1>1, <1>2, <1>3, PluggedDevices
<1>5. \A k \in 3 .. n : /\ BusP!Is(k, "FIRMWARE") /\ BusP!Base(k) = Plugged[k].base
                        /\ BusP!Size(k) = Plugged[k].size
  BY <1>1, <1>2, <1>3, PluggedDevices
<1>6. \A k \in 1 .. n : /\ BusP!Is(k, "MEMORY") <=> k = 1
                        /\ BusP!Is(k, "RESET_ROM") <=> k = 2
                        /\ BusP!Is(k, "FIRMWARE") => k \in 3 .. n
  <2>1. \A k \in 3 .. n : ~BusP!Is(k, "MEMORY") /\ ~BusP!Is(k, "RESET_ROM")
    BY <1>5 DEF BusP!Is
  <2>2. ~BusP!Is(1, "RESET_ROM") /\ ~BusP!Is(1, "FIRMWARE")
        /\ ~BusP!Is(2, "MEMORY") /\ ~BusP!Is(2, "FIRMWARE")
    BY <1>4 DEF BusP!Is
  <2>3. \A k \in 3 .. n : k # 1 /\ k # 2
    OBVIOUS
  <2> QED  BY <1>3, <1>4, <2>1, <2>2, <2>3
<1>7. BusP!ResetRomFirst
  <2>1. \A j \in 1 .. n : j < 2 <=> j = 1
    OBVIOUS
  <2> QED  BY <1>1, <1>6, <2>1 DEF BusP!ResetRomFirst
<1>8. BusP!MemoryFirst
  BY <1>1, <1>6 DEF BusP!MemoryFirst
<1>9. BusP!FirmwareEndsFit
  BY <1>1, <1>2, <1>5, <1>6 DEF BusP!FirmwareEndsFit, BusP!InPageOffset
<1>10. BusP!DevicesFillTheirMapping
  <2>1. Plugged[2].size >= ResetRomSize
    BY <1>2, ResetRomSizeAssumption, PageSizeAssumption
  <2> QED  BY <1>1, <1>2, <1>4, <1>6, <2>1 DEF BusP!DevicesFillTheirMapping
<1>11. BusP!VectorSound
  BY <1>2, <1>4 DEF BusP!VectorSound, BusP!InPageOffset
<1> QED
  BY <1>1, <1>2, <1>3, <1>4, <1>5, <1>7, <1>8, <1>9, <1>10, <1>11 DEF BusP!InPageOffset

(* The core then sees exactly the described memory. *)
LEMMA SoundMemory ==
  ASSUME PartsInv, Described!Sound(Plugged), BusP!Usable
  PROVE  /\ Len(Image) = args.devices[1].size
         /\ \A a \in Bus!Addresses : a + 1 \in 1 .. Len(Image) /\ Image[a + 1] = Answer(a)
<1>1. BusP!BusInv /\ BusP!RomInv /\ BusP!MapInv
  BY DEF PartsInv, BusP!TableInv
<1>2. PICK z \in Nat : /\ z = BusP!Size(1) /\ z = args.devices[1].size
                       /\ Len(MemoryPages) * PageSize = z
  <2>1. 1 \in 1 .. Len(RegisteredDevices)
    BY SoundDevices, PluggedDevices
  <2>2. BusP!Size(1) = args.devices[1].size /\ args.devices[1].size \in Nat
    BY <2>1, PluggedDevices DEF Descriptor
  <2>3. Len(MemoryPages) * PageSize = BusP!Size(1)
    BY <1>1, SoundDevices, BusAssumptions, BusP!MemoryLength
  <2> QED  BY <2>2, <2>3
<1>3. Bus!Addresses = 0 .. z - 1 /\ Cardinality(Bus!Addresses) = z
  BY <1>2, FS_Interval DEF Bus!Addresses
<1>4. ASSUME NEW a \in Bus!Addresses PROVE InBounds(a)
  <2>1. CASE BusP!Read8(a) = BusP!NoByte
    BY <2>1, BusOperators DEF InBounds
  <2>2. CASE BusP!Read8(a) # BusP!NoByte
    <3>1. a \in BusP!Addresses
      BY BusOperators
    <3>2. BusP!Read8(a).offset < BusP!Size(BusP!Read8(a).device)
      BY <1>1, <2>2, <3>1, SoundDevices, BusAssumptions, BusP!ReadInDevice
    <3>3. BusP!Size(BusP!Read8(a).device) = Bus!Size(Bus!Read8(a).device)
      BY BusOperators
    <3> QED  BY <3>2, <3>3, BusOperators DEF InBounds
  <2> QED  BY <2>1, <2>2
<1>5. {a \in Bus!Addresses : a >= ResetVector /\ ~InBounds(a)} = {}
  BY <1>4
<1>6. Min({Cardinality(Bus!Addresses)}
            \cup {a \in Bus!Addresses : a >= ResetVector /\ ~InBounds(a)}) = z
  <2>1. {Cardinality(Bus!Addresses)}
            \cup {a \in Bus!Addresses : a >= ResetVector /\ ~InBounds(a)} = {z}
    BY <1>3, <1>5
  <2>2. Min({z}) \in {z}
    BY Least
  <2> QED  BY <2>1, <2>2
<1>7. Image = [k \in 1 .. z |-> IF InBounds(k - 1) THEN Answer(k - 1) ELSE 255]
  BY <1>6 DEF Image
<1>8. Len(Image) = z
  BY <1>7
<1>9. ASSUME NEW a \in Bus!Addresses
      PROVE  a + 1 \in 1 .. z /\ Image[a + 1] = Answer(a)
  <2>1. a + 1 \in 1 .. z /\ (a + 1) - 1 = a
    BY <1>3
  <2> QED  BY <1>4, <1>7, <2>1
<1> QED  BY <1>2, <1>8, <1>9

(* A byte the bus takes from a ROM is that of its file. *)
LEMMA RomAnswer ==
  ASSUME PartsInv, NEW k \in 1 .. Len(RegisteredDevices), ~BusP!Is(k, "MEMORY"),
         NEW i \in Nat, NEW a, BusP!Read8(a) = [device |-> k, offset |-> i]
  PROVE  Answer(a) = Plugged[k].file[i + 1]
<1>1. PICK t : t = Bus!Read8(a) /\ t = [device |-> k, offset |-> i]
  BY BusOperators
<1>2. t.device = k /\ t.offset = i
  BY <1>1
<1>3. k # 0
  BY PluggedDevices
<1>4. t # Bus!NoByte
  BY <1>2, <1>3 DEF Bus!NoByte
<1>5. ~Bus!Is(k, "MEMORY")
  BY DEF Bus!Is, BusP!Is
<1>6. Answer(a) = args.devices[k].file[i + 1]
  BY <1>1, <1>2, <1>4, <1>5 DEF Answer
<1> QED  BY <1>6, PluggedDevices

(* The reset ROM is seen whole where execution begins. *)
LEMMA SoundResetRom ==
  ASSUME PartsInv, Described!Sound(Plugged), BusP!Usable
  PROVE  Described!Shows(Image, Plugged[2], ResetRomSize)
<1>1. BusP!BusInv /\ BusP!RomInv
  BY DEF PartsInv, BusP!TableInv
<1>2. 2 \in BusP!Devices /\ 2 \in 1 .. Len(RegisteredDevices) /\ BusP!Is(2, "RESET_ROM")
      /\ resetVector = ResetVector
  BY SoundDevices, PluggedDevices
<1>3. Plugged[2].kind = "RESET_ROM" /\ ~BusP!Is(2, "MEMORY")
  BY <1>2, PluggedDevices DEF BusP!Is
<1>4. Described!Base(Plugged[2]) = ResetVector
  BY <1>3 DEF Described!Base
<1> SUFFICES ASSUME NEW i \in 1 .. ResetRomSize
             PROVE  ResetVector + i <= Len(Image) /\ Image[ResetVector + i] = Plugged[2].file[i]
  BY <1>4 DEF Described!Shows
<1>5. PICK j \in Nat : j = i - 1 /\ j \in 0 .. ResetRomSize - 1 /\ i = j + 1
  BY ResetRomSizeAssumption, PageSizeAssumption
<1>6. PICK a \in Nat : a = ResetVector + j /\ a + 1 = ResetVector + i
  BY <1>5, ResetVectorAssumption
<1>7. a \in BusP!Addresses /\ BusP!Read8(a) = [device |-> 2, offset |-> j]
  BY <1>1, <1>2, <1>5, <1>6, SoundDevices, BusAssumptions, BusP!RomIsRead
<1>8. Answer(a) = Plugged[2].file[i]
  BY <1>2, <1>3, <1>5, <1>7, RomAnswer
<1>9. a \in Bus!Addresses
  BY <1>7, BusOperators
<1>10. a + 1 \in 1 .. Len(Image) /\ Image[a + 1] = Answer(a)
  BY <1>9, SoundMemory
<1> QED  BY <1>6, <1>8, <1>10

(* A firmware at the start of a page the reset ROM is not in is seen whole. *)
LEMMA SoundFirmware ==
  ASSUME PartsInv, Described!Sound(Plugged), BusP!Usable,
         NEW k \in 3 .. Len(RegisteredDevices), Described!Separate(Plugged, k)
  PROVE  Described!Shows(Image, Plugged[k], Plugged[k].size)
<1>1. BusP!BusInv /\ BusP!MapInv
  BY DEF PartsInv, BusP!TableInv
<1>2. /\ k \in BusP!Devices /\ k \in 1 .. Len(RegisteredDevices) /\ BusP!Is(k, "FIRMWARE")
      /\ 1 \in 1 .. Len(RegisteredDevices) /\ BusP!Is(1, "MEMORY")
      /\ resetVector = ResetVector
  BY SoundDevices, PluggedDevices
<1>3. /\ Plugged[k].kind = "FIRMWARE" /\ ~BusP!Is(k, "MEMORY")
      /\ BusP!Base(k) = Plugged[k].base /\ BusP!Size(k) = Plugged[k].size
      /\ BusP!Size(1) = Plugged[1].size
  BY <1>2, PluggedDevices DEF BusP!Is
<1>4. PICK b \in Nat, z \in Nat : b = Plugged[k].base /\ z = Plugged[k].size
  BY <1>2, PluggedDevices DEF Descriptor
<1>5. /\ b % PageSize = 0 /\ z \in 1 .. PageSize /\ b < BusP!Size(1)
      /\ b \div PageSize # ResetVector \div PageSize
  BY <1>3, <1>4 DEF Described!Separate, Described!Page
<1>6. Described!Base(Plugged[k]) = b
  BY <1>3, <1>4 DEF Described!Base
<1> SUFFICES ASSUME NEW i \in 1 .. z
             PROVE  b + i <= Len(Image) /\ Image[b + i] = Plugged[k].file[i]
  BY <1>4, <1>6 DEF Described!Shows
<1>7. PICK j \in Nat : j = i - 1 /\ j \in 0 .. z - 1 /\ i = j + 1
  OBVIOUS
<1>8. PICK a \in Nat : a = b + j /\ a + 1 = b + i
  BY <1>7
<1>9. b \in BusP!Addresses
  BY <1>1, <1>2, <1>5, SoundDevices, BusAssumptions, BusP!MemoryLength
<1>10. BusP!StartsAPage(k)
  <2>1. BusP!ResetRomPages = {ResetVector \div PageSize}
    <3>1. /\ BusP!GetPageNumber(ResetVector + ResetRomSize) = BusP!GetPageNumber(ResetVector)
          /\ BusP!GetPageNumber(ResetVector) \in Nat
      BY SoundDevices, ResetVectorAssumption, BusAssumptions, BusP!ConstantsNat, BusP!WithinPage
    <3> QED  BY <1>2, <3>1 DEF BusP!ResetRomPages, BusP!GetPageNumber
  <2> QED  BY <1>2, <1>3, <1>4, <1>5, <2>1
           DEF BusP!StartsAPage, BusP!InPageOffset, BusP!GetPageNumber
<1>11. a \in BusP!Addresses /\ BusP!Read8(a) = [device |-> k, offset |-> j]
  BY <1>1, <1>2, <1>3, <1>4, <1>7, <1>8, <1>9, <1>10, SoundDevices, BusAssumptions, BusP!HeadIsRead
<1>12. Answer(a) = Plugged[k].file[i]
  BY <1>2, <1>3, <1>7, <1>11, RomAnswer
<1>13. a \in Bus!Addresses
  BY <1>11, BusOperators
<1>14. a + 1 \in 1 .. Len(Image) /\ Image[a + 1] = Answer(a)
  BY <1>13, SoundMemory
<1> QED  BY <1>8, <1>12, <1>14

(* Memory and a reset ROM that are sound always come up: neither mapping    *)
(* the ROM nor the dump of the finished table is undefined.                 *)
LEMMA SoundMaps ==
  ASSUME PartsInv, status = "constructing", NEW size, Bus!RegisterResetROMDevice(size),
         NEW device, NEW d, d = Append(Plugged, device), Described!Sound(d), Len(d) = 2
  PROVE  status' = "constructing"
<1>1. PICK s \in Seq(Descriptor) : s = Plugged /\ Len(s) = Len(RegisteredDevices)
  <2>1. PICK n \in Nat : n = Len(RegisteredDevices) /\ \A k \in 1 .. n : Plugged[k] \in Descriptor
    BY PluggedDevices
  <2>2. Plugged \in Seq(Descriptor)
    BY <2>1 DEF Plugged
  <2> QED  BY <2>2, PluggedDevices
<1>2. Len(RegisteredDevices) = 1 /\ d[1] = Plugged[1]
  BY <1>1
<1>3. /\ d[1].kind = "MEMORY" /\ ResetVector < d[1].size
      /\ 2 * (ResetVector % PageSize) >= PageSize
      /\ (ResetVector % PageSize) + ResetRomSize < PageSize
  BY DEF Described!Sound
<1>4. /\ BusP!Is(1, "MEMORY") /\ resetVector < BusP!Size(1)
      /\ 2 * BusP!InPageOffset(resetVector) >= PageSize
      /\ BusP!InPageOffset(resetVector) + ResetRomSize < PageSize
  BY <1>2, <1>3, PluggedDevices DEF BusP!InPageOffset
<1>5. BusP!RegisterResetROMDevice(size)
  BY BusOperators
<1>6. BusP!TableInv
  BY DEF PartsInv
<1> QED  BY <1>2, <1>4, <1>5, <1>6, BusAssumptions, BusP!SoundRomMaps

(* With these two alone the dump reads no byte past its device. *)
LEMMA SoundDump ==
  ASSUME PartsInv, Described!Sound(Plugged), Len(Plugged) = 2, Bus!Construct
  PROVE  status' = "ready"
<1>1. Len(RegisteredDevices) = 2
  BY PluggedDevices
<1>2. BusP!RomsFitPages
  <2>1. BusP!Devices = {1, 2}
    BY <1>1, SoundDevices, PluggedDevices
  <2>2. BusP!Roms \subseteq {2}
    BY <2>1, SoundDevices DEF BusP!Roms
  <2>3. BusP!Base(2) = ResetVector /\ BusP!Extent(2) = ResetRomSize
    BY <1>1, SoundDevices, PluggedDevices DEF BusP!Extent
  <2>4. BusP!InPageOffset(ResetVector) + ResetRomSize <= PageSize
    <3>1. BusP!InPageOffset(ResetVector) \in Nat
      BY ResetVectorAssumption, BusAssumptions, BusP!OffsetNat
    <3> QED  BY <3>1, SoundDevices, ResetRomSizeAssumption, PageSizeAssumption
  <2> QED  BY <2>2, <2>3, <2>4 DEF BusP!RomsFitPages
<1>3. \A g \in BusP!Sections : BusP!InDevice(g)
  BY <1>2, SoundDevices, BusAssumptions, BusP!DumpedInDevice DEF PartsInv, BusP!TableInv
<1>4. BusP!Construct
  BY BusOperators
<1> QED  BY <1>3, <1>4 DEF BusP!Construct

----------------------------------------------------------------------------
(* The machine described and the machine of the core are two instances of  *)
(* ISA.                                                                     *)
LEMMA BoardOperators ==
  ASSUME NEW m, NEW md, NEW p, NEW a, NEW b, NEW h, NEW R, NEW i
  PROVE  /\ Described!Fetch(m, a) = CoreP!Machine!Fetch(m, a)
         /\ Described!Handler(b) = CoreP!Machine!Handler(b)
         /\ Described!HandlerReads(m, md, p, a, h) = CoreP!Machine!HandlerReads(m, md, p, a, h)
         /\ Described!Throws(m, md, a, h) = CoreP!Machine!Throws(m, md, a, h)
         /\ Described!DecodeOpcode(m, md, p, a, b) = CoreP!Machine!DecodeOpcode(m, md, p, a, b)
         /\ Described!Effect(R, i) = CoreP!Machine!Effect(R, i)
<1> USE DEF Described!Byte, CoreP!Machine!Byte, Described!Lane, CoreP!Machine!Lane,
      Described!Zero, CoreP!Machine!Zero,
      Described!Fetch, CoreP!Machine!Fetch, Described!FetchBytes, CoreP!Machine!FetchBytes,
      Described!Handler, CoreP!Machine!Handler, Described!ModRM_mod, CoreP!Machine!ModRM_mod,
      Described!ModRM_reg, CoreP!Machine!ModRM_reg, Described!ModRM_rm, CoreP!Machine!ModRM_rm,
      Described!ModRMAndSIB, CoreP!Machine!ModRMAndSIB,
      Described!ModRMHandlers, CoreP!Machine!ModRMHandlers,
      Described!ImmediateBytes, CoreP!Machine!ImmediateBytes,
      Described!RexW, CoreP!Machine!RexW, Described!HasRex, CoreP!Machine!HasRex,
      Described!OperandSize, CoreP!Machine!OperandSize,
      Described!GetDefaultOperandSize, CoreP!Machine!GetDefaultOperandSize,
      Described!Instruction, CoreP!Machine!Instruction,
      Described!NoOperand, CoreP!Machine!NoOperand
<1>1. Described!Fetch(m, a) = CoreP!Machine!Fetch(m, a)
      /\ Described!Handler(b) = CoreP!Machine!Handler(b)
  OBVIOUS
<1>2. Described!HandlerReads(m, md, p, a, h) = CoreP!Machine!HandlerReads(m, md, p, a, h)
  BY DEF Described!HandlerReads, CoreP!Machine!HandlerReads
<1>3. Described!Throws(m, md, a, h) = CoreP!Machine!Throws(m, md, a, h)
  BY DEF Described!Throws, CoreP!Machine!Throws
<1>4. Described!DecodeOpcode(m, md, p, a, b) = CoreP!Machine!DecodeOpcode(m, md, p, a, b)
  BY DEF Described!DecodeOpcode, CoreP!Machine!DecodeOpcode,
     Described!Handler_rm8_r8, CoreP!Machine!Handler_rm8_r8,
     Described!Handle_r8_rm8, CoreP!Machine!Handle_r8_rm8,
     Described!Handler_rm_r, CoreP!Machine!Handler_rm_r,
     Described!Handle_r_rm, CoreP!Machine!Handle_r_rm,
     Described!Handle_AL_imm8, CoreP!Machine!Handle_AL_imm8,
     Described!Handle_AxEaxRax_imm, CoreP!Machine!Handle_AxEaxRax_imm,
     Described!Handle_GROUP1, CoreP!Machine!Handle_GROUP1,
     Described!Handle_MOV_imm, CoreP!Machine!Handle_MOV_imm,
     Described!InstructionType, CoreP!Machine!InstructionType,
     Described!RexB, CoreP!Machine!RexB, Described!RexR, CoreP!Machine!RexR,
     Described!DecodeTargetRegister, CoreP!Machine!DecodeTargetRegister,
     Described!GetTargetRegisterFromAdditiveID,
     CoreP!Machine!GetTargetRegisterFromAdditiveID,
     Described!DecodeTarget8BitRegister, CoreP!Machine!DecodeTarget8BitRegister,
     Described!IsHighRegister, CoreP!Machine!IsHighRegister,
     Described!HighRegisters, CoreP!Machine!HighRegisters,
     Described!RegisterOrder, CoreP!Machine!RegisterOrder,
     Described!RegisterOperand, CoreP!Machine!RegisterOperand,
     Described!ImmediateOperand, CoreP!Machine!ImmediateOperand,
     Described!GetRegister, CoreP!Machine!GetRegister
<1>5. Described!Effect(R, i) = CoreP!Machine!Effect(R, i)
  BY DEF Described!Effect, CoreP!Machine!Effect,
     Described!RegisterBytes, CoreP!Machine!RegisterBytes,
     Described!SourceValue, CoreP!Machine!SourceValue, Described!Write, CoreP!Machine!Write,
     Described!Result, CoreP!Machine!Result, Described!GetLow, CoreP!Machine!GetLow,
     Described!GetHigh8Bits, CoreP!Machine!GetHigh8Bits,
     Described!SetHigh8Bits, CoreP!Machine!SetHigh8Bits,
     Described!SetLow, CoreP!Machine!SetLow, Described!SetLow32Bits, CoreP!Machine!SetLow32Bits,
     Described!Add, CoreP!Machine!Add, Described!Carry, CoreP!Machine!Carry,
     Described!Subtract, CoreP!Machine!Subtract, Described!Borrow, CoreP!Machine!Borrow,
     Described!Or, CoreP!Machine!Or, Described!OrByte, CoreP!Machine!OrByte,
     Described!OrBit, CoreP!Machine!OrBit
<1> QED  BY <1>1, <1>2, <1>3, <1>4, <1>5

(* The last REX byte before a, as a function of the memory m. *)
LastRex(m, from, a) ==
  CHOOSE k \in from .. a - 1 :
    /\ Handler(Fetch(m, k)) = "Handle_REX"
    /\ \A j \in k + 1 .. a - 1 : ~(Handler(Fetch(m, j)) = "Handle_REX")

(* Both machines find the same last REX byte: the choice is a function of   *)
(* the memory.                                                              *)
LEMMA BoardLastRex ==
  ASSUME main = "running", NEW a
  PROVE  (CHOOSE k \in (IF pc = "execute" THEN rip - instr.len ELSE rip) .. a - 1 :
            Described!IsRex(k) /\ \A j \in k + 1 .. a - 1 : ~Described!IsRex(j))
          = CHOOSE k \in (IF pc = "execute" THEN rip - instr.len ELSE rip) .. a - 1 :
            CoreP!Machine!IsRex(k) /\ \A j \in k + 1 .. a - 1 : ~CoreP!Machine!IsRex(j)
<1> DEFINE r == IF pc = "execute" THEN rip - instr.len ELSE rip
           M == IF main \in {"running", "waiting", "exited"} THEN mem ELSE << >>
<1> USE DEF Byte, Described!Byte, CoreP!Machine!Byte, Fetch, Described!Fetch,
      CoreP!Machine!Fetch, Handler, Described!Handler, CoreP!Machine!Handler, FetchBytes,
      Described!FetchBytes, CoreP!Machine!FetchBytes, ModRM_mod, ModRM_reg,
      ModRM_rm, Described!IsRex, CoreP!Machine!IsRex
<1>1. (CHOOSE k \in r .. a - 1 :
            Described!IsRex(k) /\ \A j \in k + 1 .. a - 1 : ~Described!IsRex(j))
       = LastRex(M, r, a)
  BY DEF LastRex
<1>2. (CHOOSE k \in r .. a - 1 :
            CoreP!Machine!IsRex(k) /\ \A j \in k + 1 .. a - 1 : ~CoreP!Machine!IsRex(j))
       = LastRex(mem, r, a)
  BY DEF LastRex
<1>3. M = mem
  OBVIOUS
<1> HIDE DEF M, Byte, Described!Byte, CoreP!Machine!Byte, Fetch, Described!Fetch,
      CoreP!Machine!Fetch, Handler, Described!Handler, CoreP!Machine!Handler, FetchBytes,
      Described!FetchBytes, CoreP!Machine!FetchBytes, ModRM_mod, ModRM_reg,
      ModRM_rm, Described!IsRex, CoreP!Machine!IsRex
<1>4. LastRex(M, r, a) = LastRex(mem, r, a)
  BY <1>3
<1> QED  BY <1>1, <1>2, <1>4

(* While main is in Start the described machine is that of the core. *)
LEMMA BoardMachine ==
  ASSUME main = "running", NEW a
  PROVE  /\ Described!Complete(a) <=> CoreP!Machine!Complete(a)
         /\ Described!Faults(a) <=> CoreP!Machine!Faults(a)
         /\ Described!Decoded(a) = CoreP!Machine!Decoded(a)
<1>1. Core!getMode = CoreP!getMode
  BY DEF Core!getMode, CoreP!getMode
<1>2. ASSUME NEW k PROVE Described!IsPrefix(k) <=> CoreP!Machine!IsPrefix(k)
  BY <1>1, BoardOperators DEF Described!IsPrefix, CoreP!Machine!IsPrefix
<1>3. Described!OpcodeAt(a) <=> CoreP!Machine!OpcodeAt(a)
  BY <1>2 DEF Described!OpcodeAt, CoreP!Machine!OpcodeAt
<1>4. ASSUME NEW k PROVE Described!IsRex(k) <=> CoreP!Machine!IsRex(k)
  BY BoardOperators DEF Described!IsRex, CoreP!Machine!IsRex
<1>5. Described!PrefixesBefore(a) = CoreP!Machine!PrefixesBefore(a)
  <2> DEFINE r == IF pc = "execute" THEN rip - instr.len ELSE rip
             M == IF main \in {"running", "waiting", "exited"} THEN mem ELSE << >>
             o1 == \E k \in r .. a - 1 : Described!Fetch(M, k) = 102
             o2 == \E k \in r .. a - 1 : CoreP!Machine!Fetch(mem, k) = 102
             e1 == \E k \in r .. a - 1 : Described!IsRex(k)
             e2 == \E k \in r .. a - 1 : CoreP!Machine!IsRex(k)
             c1 == CHOOSE k \in r .. a - 1 :
                     Described!IsRex(k) /\ \A j \in k + 1 .. a - 1 : ~Described!IsRex(j)
             c2 == CHOOSE k \in r .. a - 1 :
                     CoreP!Machine!IsRex(k) /\ \A j \in k + 1 .. a - 1 : ~CoreP!Machine!IsRex(j)
  <2>1. c1 = c2
    BY BoardLastRex
  <2>2. M = mem
    OBVIOUS
  <2>3. \A k : Described!Fetch(M, k) = CoreP!Machine!Fetch(mem, k)
    BY <2>2, BoardOperators
  <2>4. o1 = o2
    <3>1. (o1 <=> o2) /\ o1 \in BOOLEAN /\ o2 \in BOOLEAN
      <4> HIDE DEF M
      <4> QED  BY <2>3
    <3> HIDE DEF o1, o2
    <3> QED  BY <3>1
  <2>5. e1 = e2
    <3>1. (e1 <=> e2) /\ e1 \in BOOLEAN /\ e2 \in BOOLEAN
      BY <1>4
    <3> HIDE DEF e1, e2
    <3> QED  BY <3>1
  <2>6. Described!PrefixesBefore(a)
         = [opsize |-> o1, rex |-> IF e1 THEN Described!Fetch(M, c1) ELSE 0]
    BY DEF Described!PrefixesBefore
  <2>7. CoreP!Machine!PrefixesBefore(a)
         = [opsize |-> o2, rex |-> IF e2 THEN CoreP!Machine!Fetch(mem, c2) ELSE 0]
    BY DEF CoreP!Machine!PrefixesBefore
  <2> HIDE DEF r, M, o1, o2, e1, e2, c1, c2
  <2> QED  BY <2>1, <2>3, <2>4, <2>5, <2>6, <2>7
<1>6. Described!Reads(a) = CoreP!Machine!Reads(a)
  BY <1>1, <1>5, BoardOperators DEF Described!Reads, CoreP!Machine!Reads
<1>7. Described!Complete(a) <=> CoreP!Machine!Complete(a)
  BY <1>3, <1>6 DEF Described!Complete, CoreP!Machine!Complete
<1>8. Described!Faults(a) <=> CoreP!Machine!Faults(a)
  BY <1>1, BoardOperators DEF Described!Faults, CoreP!Machine!Faults
<1>9. Described!Decoded(a) = CoreP!Machine!Decoded(a)
  BY <1>1, <1>5, BoardOperators DEF Described!Decoded, CoreP!Machine!Decoded
<1> QED  BY <1>7, <1>8, <1>9

(* A step of the core's machine is one of the described machine. *)
LEMMA BoardStep ==
  ASSUME main = "running", main' = "running", CoreP!Machine!Step \/ CoreP!Machine!Leave
  PROVE  Described!Step \/ Described!Leave
<1> DEFINE r == IF pc = "execute" THEN rip - instr.len ELSE rip
           S == IF pc \in {"decode", "dispatch", "decoded", "execute"} THEN "running"
                ELSE IF pc = "undefined" THEN "undefined" ELSE "stopped"
           C == CASE pc \in {"decode", "dispatch", "decoded", "execute"} -> "running"
                  [] pc = "undefined" -> "undefined"
                  [] OTHER -> "stopped"
           M == IF main \in {"running", "waiting", "exited"} THEN mem ELSE << >>
           G == IF main \in {"running", "waiting", "exited"} THEN Core!getMode ELSE "real"
<1>1. S = C /\ S' = C'
  OBVIOUS
<1>2. M = mem /\ M' = mem'
  OBVIOUS
<1>3. G = CoreP!getMode /\ G' = CoreP!getMode'
  BY DEF Core!getMode, CoreP!getMode
<1>4. ASSUME NEW a, CoreP!Machine!Retire(a) PROVE Described!Retire(a)
  <2>1. /\ C = "running" /\ CoreP!Machine!Complete(a) /\ ~CoreP!Machine!Faults(a)
        /\ CoreP!Machine!Decoded(a).type # "UD"
        /\ regs' = IF CoreP!Machine!Decoded(a).type = "NOP" THEN regs
                   ELSE CoreP!Machine!Effect(regs, CoreP!Machine!Decoded(a))
        /\ r' = r + CoreP!Machine!Decoded(a).len
        /\ mem' = mem /\ CoreP!getMode' = CoreP!getMode /\ C' = C
    BY <1>4 DEF CoreP!Machine!Retire
  <2>2. /\ S = "running" /\ Described!Complete(a) /\ ~Described!Faults(a)
        /\ Described!Decoded(a).type # "UD"
        /\ regs' = IF Described!Decoded(a).type = "NOP" THEN regs
                   ELSE Described!Effect(regs, Described!Decoded(a))
        /\ r' = r + Described!Decoded(a).len
        /\ M' = M /\ G' = G /\ S' = S
    <3> HIDE DEF r, S, C, M, G
    <3> QED  BY <2>1, <1>1, <1>2, <1>3, BoardMachine, BoardOperators
  <2> QED  BY <2>2 DEF Described!Retire
<1>5. ASSUME NEW a, CoreP!Machine!Fault(a) PROVE Described!Fault(a)
  <2>1. /\ C = "running" /\ CoreP!Machine!Complete(a) /\ CoreP!Machine!Faults(a)
        /\ C' = "stopped"
        /\ mem' = mem /\ CoreP!getMode' = CoreP!getMode /\ regs' = regs /\ r' = r
    BY <1>5 DEF CoreP!Machine!Fault
  <2>2. /\ S = "running" /\ Described!Complete(a) /\ Described!Faults(a)
        /\ S' = "stopped" /\ M' = M /\ G' = G /\ regs' = regs /\ r' = r
    <3> HIDE DEF r, S, C, M, G
    <3> QED  BY <2>1, <1>1, <1>2, <1>3, BoardMachine
  <2> QED  BY <2>2 DEF Described!Fault
<1>6. ASSUME NEW a, CoreP!Machine!Trap(a) PROVE Described!Trap(a)
  <2>1. /\ C = "running" /\ CoreP!Machine!Complete(a) /\ ~CoreP!Machine!Faults(a)
        /\ CoreP!Machine!Decoded(a).type = "UD" /\ C' = "stopped"
        /\ r' = r + CoreP!Machine!Decoded(a).len
        /\ mem' = mem /\ CoreP!getMode' = CoreP!getMode /\ regs' = regs
    BY <1>6 DEF CoreP!Machine!Trap
  <2>2. /\ S = "running" /\ Described!Complete(a) /\ ~Described!Faults(a)
        /\ Described!Decoded(a).type = "UD" /\ S' = "stopped"
        /\ r' = r + Described!Decoded(a).len
        /\ M' = M /\ G' = G /\ regs' = regs
    <3> HIDE DEF r, S, C, M, G
    <3> QED  BY <2>1, <1>1, <1>2, <1>3, BoardMachine
  <2> QED  BY <2>2 DEF Described!Trap
<1>7. CoreP!Machine!Leave => Described!Leave
  <2> SUFFICES ASSUME CoreP!Machine!Leave PROVE Described!Leave
    OBVIOUS
  <2>1. /\ C = "running"
        /\ ~ \E a \in r .. Len(mem) - 1 : CoreP!Machine!Complete(a)
        /\ C' = "undefined"
        /\ mem' = mem /\ CoreP!getMode' = CoreP!getMode /\ regs' = regs /\ r' = r
    BY DEF CoreP!Machine!Leave
  <2>2. /\ S = "running"
        /\ ~ \E a \in r .. Len(M) - 1 : Described!Complete(a)
        /\ S' = "undefined" /\ M' = M /\ G' = G /\ regs' = regs /\ r' = r
    <3> HIDE DEF r, S, C, M, G
    <3> QED  BY <2>1, <1>1, <1>2, <1>3, BoardMachine
  <2> QED  BY <2>2 DEF Described!Leave
<1>8. CoreP!Machine!Step => Described!Step
  <2> SUFFICES ASSUME CoreP!Machine!Step PROVE Described!Step
    OBVIOUS
  <2>1. PICK a \in r .. Len(mem) - 1 :
          CoreP!Machine!Retire(a) \/ CoreP!Machine!Fault(a) \/ CoreP!Machine!Trap(a)
    BY DEF CoreP!Machine!Step
  <2>2. a \in r .. Len(M) - 1
    BY <1>2
  <2> QED  BY <2>1, <2>2, <1>4, <1>5, <1>6 DEF Described!Step
<1> QED  BY <1>7, <1>8

(* A step of the thread inside StartCore is the first of the program, one of *)
(* its instructions, or none.                                                *)
LEMMA BoardCoreStep ==
  ASSUME CoreP!VCoreInv, SystemInv, main = "running", UNCHANGED << args, main, bus >>,
         Core!CoreStep
  PROVE  [Described!BoardNext]_(Described!boardVars)
<1> DEFINE S == IF pc \in {"decode", "dispatch", "decoded", "execute"} THEN "running"
                ELSE IF pc = "undefined" THEN "undefined" ELSE "stopped"
           R == IF pc = "execute" THEN rip - instr.len ELSE rip
           M == IF main \in {"running", "waiting", "exited"} THEN mem ELSE << >>
           G == IF main \in {"running", "waiting", "exited"} THEN Core!getMode ELSE "real"
           P == IF status \in {"failed", "undefined"} THEN status
                ELSE IF main = "running"
                  THEN IF pc \in {"constructed", "starting"} THEN "on" ELSE "booted"
                ELSE IF main \in {"waiting", "exited"} THEN "done" ELSE "off"
           D == [k \in 1 .. Len(RegisteredDevices) |-> args.devices[k]]
<1>1. status = "ready" /\ status' = "ready" /\ main' = "running"
  BY DEF SystemInv, bus
<1>2. args.cores' = args.cores /\ D' = D
  BY DEF bus
<1>3. CoreP!CoreStep
  BY CoreSteps
<1>4. CASE pc = "starting"
  <2>1. CoreP!ClearShutdown
    BY <1>3, <1>4
       DEF CoreP!CoreStep, CoreP!Decode, CoreP!decodeInstruction, CoreP!Handle_Prefix,
           CoreP!Handle_REX, CoreP!HandleOpcode, CoreP!ThrowUndefinedOpcode,
           CoreP!ReadPastMemory, CoreP!IncrementRIP, CoreP!Execute, CoreP!ExecuteOperation,
           CoreP!Handle_NOP, CoreP!Handle_UD, CoreP!Shutdown
  <2>2. pc' = "decode" /\ UNCHANGED << mem, PE, LMA, regs, rip >>
    BY <2>1 DEF CoreP!ClearShutdown, CoreP!memory
  <2>3. S = "stopped" /\ S' = "running" /\ P = "on" /\ P' = "booted" /\ R' = R /\ M' = M
    BY <1>1, <1>4, <2>2
  <2>4. G' = G
    BY <1>1, <2>2 DEF Core!getMode
  <2>5. Described!Boot
    BY <1>2, <2>2, <2>3, <2>4 DEF Described!Boot, Described!Start
  <2> QED  BY <2>5 DEF Described!BoardNext
<1>5. CASE pc # "starting"
  <2>1. /\ pc \notin {"constructed", "starting"} /\ pc' \notin {"constructed", "starting"}
        /\ S = "stopped" => S' = "stopped"
    BY <1>3, <1>5
       DEF CoreP!CoreStep, CoreP!Decode, CoreP!decodeInstruction, CoreP!Handle_Prefix,
           CoreP!Handle_REX, CoreP!HandleOpcode, CoreP!ThrowUndefinedOpcode,
           CoreP!ReadPastMemory, CoreP!IncrementRIP, CoreP!Execute, CoreP!ExecuteOperation,
           CoreP!Handle_NOP, CoreP!Handle_UD, CoreP!Shutdown, CoreP!ClearShutdown,
           CoreP!FetchNextByte
  <2>2. P = "booted" /\ P' = "booted"
    BY <1>1, <2>1
  <2>3. [CoreP!Machine!Next]_(CoreP!Machine!vars)
    BY <1>3, CoreAssumptions, CoreP!MachineStep DEF CoreP!Next
  <2>4. CASE CoreP!Machine!Step \/ CoreP!Machine!Leave
    <3>1. Described!Step \/ Described!Leave
      BY <1>1, <2>4, BoardStep
    <3>2. Described!RunProgram
      BY <1>2, <2>2, <3>1 DEF Described!RunProgram
    <3> QED  BY <3>2 DEF Described!BoardNext
  <2>5. CASE CoreP!Machine!Start
    <3>1. S = "stopped" /\ S' = "running"
      BY <2>5 DEF CoreP!Machine!Start
    <3> QED  BY <2>1, <3>1
  <2>6. CASE UNCHANGED CoreP!Machine!vars
    <3>1. /\ mem' = mem /\ CoreP!getMode' = CoreP!getMode /\ regs' = regs /\ R' = R
          /\ S' = S
      BY <2>6 DEF CoreP!Machine!vars
    <3>2. M' = M /\ G' = G
      BY <1>1, <3>1 DEF Core!getMode, CoreP!getMode
    <3> QED  BY <1>2, <2>2, <3>1, <3>2 DEF Described!boardVars, Described!vars
  <2> QED  BY <2>3, <2>4, <2>5, <2>6 DEF CoreP!Machine!Next
<1> QED  BY <1>4, <1>5

----------------------------------------------------------------------------
(* The constructor plugs devices in or gives up. *)

(* The power of the described machine. *)
Power == IF status \in {"failed", "undefined"} THEN status
         ELSE IF main = "running"
           THEN IF pc \in {"constructed", "starting"} THEN "on" ELSE "booted"
         ELSE IF main \in {"waiting", "exited"} THEN "done" ELSE "off"

(* While main constructs the System, memory and mode are not there to see. *)
LEMMA BoardOff ==
  ASSUME main \in Before, main' \in Before, status \in {"constructing", "ready"},
         args' = args, pc = "constructed", UNCHANGED << pc, regs, rip >>
  PROVE  /\ UNCHANGED Described!vars /\ args.cores' = args.cores
         /\ Power = "off" /\ Power' \in {"off", "failed", "undefined"}
         /\ status' \in {"failed", "undefined"} => Power' = status'
         /\ status' \notin {"failed", "undefined"} => Power' = "off"
BY DEF Described!vars, Before, Power

(* The constructor ends without a System. *)
LEMMA BoardGivesUp ==
  ASSUME UNCHANGED Described!vars, args.cores' = args.cores,
         Power = "off", Power' \in {"failed", "undefined"},
         \/ Plugged' = Plugged
         \/ \E c \in CommandLines : \E k \in DOMAIN c.devices :
              Plugged' = Append(Plugged, c.devices[k]),
         Power' = "undefined" => ~(Described!Sound(Plugged') /\ Len(Plugged') = 2)
  PROVE  Described!BoardNext
<1> DEFINE Q == UNION {{c.devices[k] : k \in DOMAIN c.devices} : c \in CommandLines}
<1>1. Plugged' = Plugged \/ \E device \in Q : Plugged' = Append(Plugged, device)
  OBVIOUS
<1>2. Described!GiveUp
  <2> HIDE DEF Q
  <2>1. \/ Plugged' = Plugged
        \/ \E device \in Q : Plugged' = Append(Plugged, device)
    BY <1>1
  <2>2. \/ Power' = "failed"
        \/ Power' = "undefined" /\ ~(Described!Sound(Plugged') /\ Len(Plugged') = 2)
    OBVIOUS
  <2> QED  BY <2>1, <2>2 DEF Described!GiveUp, Power, Plugged, Q
<1> QED  BY <1>2 DEF Described!BoardNext

(* The next device of the command line is plugged in. *)
LEMMA BoardPlugsIn ==
  ASSUME UNCHANGED Described!vars, args.cores' = args.cores, Power = "off", Power' = "off",
         NEW c \in CommandLines, NEW k \in DOMAIN c.devices,
         Plugged' = Append(Plugged, c.devices[k])
  PROVE  Described!BoardNext
<1> DEFINE Q == UNION {{e.devices[n] : n \in DOMAIN e.devices} : e \in CommandLines}
<1>1. PICK device \in Q : Plugged' = Append(Plugged, device)
  OBVIOUS
<1>2. Described!PlugIn(device)
  BY <1>1 DEF Described!PlugIn, Power, Plugged
<1> QED  BY <1>1, <1>2 DEF Described!BoardNext

(* Nothing to see. *)
LEMMA BoardIdle ==
  ASSUME UNCHANGED Described!vars, args.cores' = args.cores, Power' = Power, Plugged' = Plugged
  PROVE  UNCHANGED Described!boardVars
BY DEF Described!boardVars, Power, Plugged

(* A description that must come up is not empty. *)
LEMMA RefusedEmpty ==
  ASSUME RegisteredDevices = << >>
  PROVE  ~(Described!Sound(Plugged))
<1>1. Len(Plugged) = 0
  BY DEF Plugged
<1> QED  BY <1>1 DEF Described!Sound

(* Registering a device: its place is the next of the description. *)
LEMMA RegisterOutcome ==
  ASSUME PartsInv, RegisterNext
  PROVE  LET n == Len(RegisteredDevices) + 1
         IN \/ /\ status' = "failed" /\ Plugged' = Plugged
            \/ /\ n \in DOMAIN args.devices /\ Plugged' = Append(Plugged, args.devices[n])
               /\ status' \in {"constructing", "failed", "undefined"}
               /\ status' = "undefined" =>
                    ~(Described!Sound(Plugged') /\ Len(Plugged') = 2)
<1> DEFINE n == Len(RegisteredDevices) + 1
           d == args.devices[n]
<1>1. /\ n \in DOMAIN args.devices /\ status = "constructing"
      /\ RegisteredDevices \in Seq(BusP!DeviceType) /\ args' = args
  BY DEF PartsInv, RegisterNext, BusP!TableInv, BusP!BusInv, Constructing, End
<1>2. PICK k, s, b : k = d.kind /\ s = d.size /\ b = d.base
  OBVIOUS
<1>3. ASSUME NEW device, RegisteredDevices' = Append(RegisteredDevices, device)
      PROVE  Plugged' = Append(Plugged, d)
  <2>1. PICK L \in Nat : L = Len(RegisteredDevices) /\ Len(RegisteredDevices') = L + 1
    BY <1>1, <1>3
  <2>2. Plugged = [j \in 1 .. L |-> args.devices[j]]
        /\ Plugged' = [j \in 1 .. L + 1 |-> args.devices[j]] /\ d = args.devices[L + 1]
    BY <1>1, <2>1 DEF Plugged
  <2>3. PICK A : A = args.devices
    OBVIOUS
  <2>4. [j \in 1 .. L + 1 |-> A[j]] = Append([j \in 1 .. L |-> A[j]], A[L + 1])
    OBVIOUS
  <2> QED  BY <2>2, <2>3, <2>4
<1>4. CASE k = "MEMORY" /\ Bus!RegisterMemoryDevice(s)
  <2>1. status' = status /\ \E device : RegisteredDevices' = Append(RegisteredDevices, device)
    BY <1>4 DEF Bus!RegisterMemoryDevice, Bus!Register
  <2>2. status' = "constructing" /\ Plugged' = Append(Plugged, d)
    BY <1>1, <1>3, <2>1
  <2> QED  BY <1>1, <2>2
<1>5. CASE k = "RESET_ROM" /\ Bus!RegisterResetROMDevice(s)
  <2>1. /\ status' \in {"constructing", "undefined"}
        /\ \E device : RegisteredDevices' = Append(RegisteredDevices, device)
    BY <1>5 DEF Bus!RegisterResetROMDevice, Bus!Register, Bus!MapResetRom, Bus!Undefined
  <2>2. Plugged' = Append(Plugged, d)
    BY <1>3, <2>1
  <2>3. ASSUME Described!Sound(Plugged'), Len(Plugged') = 2
        PROVE  status' = "constructing"
    <3>1. PICK p : p = Append(Plugged, d)
      OBVIOUS
    <3>2. Described!Sound(p) /\ Len(p) = 2
      BY <2>2, <2>3, <3>1
    <3> QED  BY <1>1, <1>5, <3>1, <3>2, SoundMaps
  <2> QED  BY <1>1, <2>1, <2>2, <2>3
<1>6. CASE k = "FIRMWARE" /\ Bus!RegisterFirmwareDevice(s, b)
  <2>1. /\ status' \in {"constructing", "failed", "undefined"}
        /\ \E device : RegisteredDevices' = Append(RegisteredDevices, device)
    BY <1>6 DEF Bus!RegisterFirmwareDevice, Bus!Register, Bus!MapFirmwareRom,
                Bus!FinishFirmware, Bus!Undefined, Bus!Abort
  <2>2. Plugged' = Append(Plugged, d)
    BY <1>3, <2>1
  <2>3. ~(Described!Sound(Plugged') /\ Len(Plugged') = 2)
    <3> SUFFICES ASSUME Described!Sound(Plugged'), Len(Plugged') = 2 PROVE FALSE
      OBVIOUS
    <3>1. PICK P \in Seq(Descriptor) : P = Plugged
      <4>1. PICK L \in Nat : /\ L = Len(RegisteredDevices)
                             /\ \A j \in 1 .. L : Plugged[j] \in Descriptor
        BY PluggedDevices
      <4>2. Plugged \in Seq(Descriptor)
        BY <4>1 DEF Plugged
      <4> QED  BY <4>2
    <3>2. PICK Q : Q = Append(P, d) /\ Q = Plugged'
      BY <2>2, <3>1
    <3>3. Len(Q) = 2
      BY <3>2
    <3>4. Q[2] = d
      <4>1. PICK e \in Descriptor : e = d
        BY <1>1, ArgsType DEF PartsInv
      <4>2. Q = Append(P, e) /\ Len(Q) = 2
        BY <3>2, <3>3, <4>1
      <4>3. Q[2] = e
        BY <4>2
      <4> QED  BY <4>1, <4>3
    <3>5. Q[2].kind = "RESET_ROM"
      BY <3>2 DEF Described!Sound
    <3> QED  BY <1>2, <1>6, <3>4, <3>5
  <2> QED  BY <1>1, <2>1, <2>2, <2>3
<1>7. CASE End("failed")
  <2>1. status' = "failed" /\ Plugged' = Plugged
    BY <1>7 DEF End, Plugged
  <2> QED  BY <2>1
<1> QED  BY <1>2, <1>4, <1>5, <1>6, <1>7 DEF RegisterNext

(* Every step of the constructor plugs one device in, gives up, or is not seen. *)
LEMMA BoardConstructs ==
  ASSUME PartsInv, StageInv, Construction
  PROVE  [Described!BoardNext]_(Described!boardVars)
<1>1. /\ main \in Before /\ main' \in Before /\ status = "constructing" /\ args' = args
      /\ UNCHANGED << pc, regs, rip >>
  BY DEF Construction, ParseArguments, ConstructCPU, SplitDescriptors, RegisterNext,
         FinishConstruction, Constructing, End, GoOn, bus, core, Before, Bus!Construct
<1>2. /\ UNCHANGED Described!vars /\ args.cores' = args.cores
      /\ Power = "off" /\ Power' \in {"off", "failed", "undefined"}
      /\ status' \in {"failed", "undefined"} => Power' = status'
      /\ status' \notin {"failed", "undefined"} => Power' = "off"
  BY <1>1, BoardOff DEF PartsInv
<1>3. CASE ParseArguments \/ ConstructCPU \/ SplitDescriptors
  <2>1. /\ UNCHANGED << RegisteredDevices, args >> /\ RegisteredDevices = << >>
        /\ status' \in {"constructing", "failed", "undefined"}
    BY <1>1, <1>3
       DEF ParseArguments, ConstructCPU, SplitDescriptors, Constructing, End, GoOn, bus,
           StageInv
  <2>2. Plugged' = Plugged
    BY <2>1 DEF Plugged
  <2>3. ~(Described!Sound(Plugged'))
    BY <2>1, <2>2, RefusedEmpty
  <2>4. CASE status' = "constructing"
    BY <1>2, <2>2, <2>4, BoardIdle
  <2>5. CASE status' \in {"failed", "undefined"}
    BY <1>2, <2>2, <2>3, <2>5, BoardGivesUp
  <2> QED  BY <2>1, <2>4, <2>5
<1>4. CASE RegisterNext
  <2> DEFINE n == Len(RegisteredDevices) + 1
  <2>1. CASE status' = "failed" /\ Plugged' = Plugged
    BY <1>2, <2>1, BoardGivesUp
  <2>2. CASE /\ n \in DOMAIN args.devices /\ Plugged' = Append(Plugged, args.devices[n])
             /\ status' \in {"constructing", "failed", "undefined"}
             /\ status' = "undefined" => ~(Described!Sound(Plugged') /\ Len(Plugged') = 2)
    <3>1. args \in CommandLines
      BY DEF PartsInv
    <3>2. CASE status' = "constructing"
      BY <1>2, <2>2, <3>1, <3>2, BoardPlugsIn
    <3>3. CASE status' \in {"failed", "undefined"}
      <4>1. \E c \in CommandLines : \E k \in DOMAIN c.devices :
               Plugged' = Append(Plugged, c.devices[k])
        BY <2>2, <3>1
      <4> QED  BY <1>2, <2>2, <3>3, <4>1, BoardGivesUp
    <3> QED  BY <2>2, <3>2, <3>3
  <2> QED  BY <1>4, <2>1, <2>2, RegisterOutcome
<1>5. CASE FinishConstruction
  <2>1. /\ Bus!Construct /\ status' \in {"ready", "undefined"}
        /\ UNCHANGED << RegisteredDevices, args >>
    BY <1>5 DEF FinishConstruction, Bus!Construct
  <2>2. Plugged' = Plugged
    BY <2>1 DEF Plugged
  <2>3. CASE status' = "ready"
    BY <1>2, <2>2, <2>3, BoardIdle
  <2>4. CASE status' = "undefined"
    <3>1. ~(Described!Sound(Plugged) /\ Len(Plugged) = 2)
      BY <2>1, <2>4, SoundDump
    <3>2. ~(Described!Sound(Plugged') /\ Len(Plugged') = 2)
      BY <2>2, <3>1
    <3> QED  BY <1>2, <2>2, <2>4, <3>2, BoardGivesUp
  <2> QED  BY <2>1, <2>3, <2>4
<1> QED  BY <1>3, <1>4, <1>5 DEF Construction

----------------------------------------------------------------------------
(* Start. *)

(* Start switches the machine on: a sound description has a memory of its    *)
(* size in which the reset ROM and every separate firmware show their files. *)
LEMMA BoardStarts ==
  ASSUME PartsInv, StageInv, StartSystem
  PROVE  Described!BoardNext
<1>1. main = "start" /\ status = "ready" /\ pc = "constructed" /\ args' = args /\ Power = "off"
      /\ args.cores \in Nat
  <2>1. main = "start" /\ status = "ready" /\ args' = args
    BY DEF StartSystem, End
  <2>2. pc = "constructed"
    BY <2>1 DEF PartsInv, Before
  <2>3. args.cores \in Nat
    BY ArgsType DEF PartsInv, CommandLine
  <2> QED  BY <2>1, <2>2, <2>3 DEF Power
<1>2. CASE args.cores > 0
  <2>1. /\ main' = "running" /\ UNCHANGED << args, bus >>
        /\ UNCHANGED << mem, PE, LMA, regs, rip, pc, instr >>
    BY <1>2 DEF StartSystem, Core!Start, Core!vars
  <2>2. Power' = "on" /\ Plugged' = Plugged
    BY <1>1, <2>1 DEF Power, Plugged, bus
  <2>3. Core!getMode \in Described!Modes
    BY DEF Core!getMode, Described!Modes
  <2>4. Core!getMode' \in Described!Modes
    BY DEF Core!getMode, Described!Modes
  <2>5. mem' = Image /\ mem' \in Seq(Described!Byte)
    BY <1>1, <2>1 DEF StageInv, PartsInv, CoreP!VCoreInv, CoreP!TypeOK, Described!Byte, Byte
  <2>6. ASSUME Described!Sound(Plugged)
        PROVE  /\ Len(Image) = Plugged[1].size
               /\ Described!Shows(Image, Plugged[2], ResetRomSize)
               /\ \A k \in 3 .. Len(Plugged) :
                    Described!Separate(Plugged, k) =>
                      Described!Shows(Image, Plugged[k], Plugged[k].size)
    <3>1. BusP!Usable
      BY <1>1 DEF BusP!Usable
    <3>2. Len(Image) = Plugged[1].size
      BY <2>6, <3>1, SoundMemory, SoundDevices, PluggedDevices
    <3> QED  BY <2>6, <3>1, <3>2, SoundResetRom, SoundFirmware, PluggedDevices
  <2>7. Described!SwitchOn
    <3> DEFINE M == IF main \in {"running", "waiting", "exited"} THEN mem ELSE << >>
               G == IF main \in {"running", "waiting", "exited"} THEN Core!getMode ELSE "real"
    <3>1. M' = Image /\ M' \in Seq(Described!Byte) /\ G' \in Described!Modes
      BY <2>1, <2>4, <2>5
    <3>2. Described!Sound(Plugged) =>
            /\ Len(M') = Plugged[1].size
            /\ Described!Shows(M', Plugged[2], ResetRomSize)
            /\ \A k \in 3 .. Len(Plugged) :
                 Described!Separate(Plugged, k) =>
                   Described!Shows(M', Plugged[k], Plugged[k].size)
      <4> HIDE DEF M
      <4> QED  BY <2>6, <3>1
    <3> HIDE DEF M, G
    <3> QED
      BY <1>1, <1>2, <2>1, <2>2, <3>1, <3>2 DEF Described!SwitchOn, M, G, Power, Plugged
  <2> QED  BY <2>7 DEF Described!BoardNext
<1>3. CASE ~(args.cores > 0)
  <2>1. /\ status' = "undefined" /\ main' = main
        /\ UNCHANGED << args, RegisteredDevices, pc, regs, rip >>
    BY <1>3 DEF StartSystem, End, core
  <2>2. UNCHANGED Described!vars /\ args.cores' = args.cores /\ Power' = "undefined"
    BY <1>1, <2>1, BoardOff DEF Before
  <2>3. Plugged' = Plugged
    BY <2>1 DEF Plugged
  <2>4. ~(Described!Sound(Plugged'))
    BY <1>3 DEF Described!Sound
  <2> QED  BY <1>1, <2>2, <2>3, <2>4, BoardGivesUp
<1> QED  BY <1>2, <1>3

(* From Start on: the program runs, and the machine is switched off after it. *)
LEMMA BoardRuns ==
  ASSUME PartsInv, SystemInv, StageInv, HostStep \/ ThreadStep \/ StartReturns \/ Return
  PROVE  [Described!BoardNext]_(Described!boardVars)
<1>1. CASE HostStep
  <2>1. main = "running" /\ UNCHANGED << args, main, bus >> /\ UNCHANGED Core!vars
    BY <1>1 DEF HostStep, Core!HostStep, Core!Poll, Core!Wake, Core!Join
  <2>2. UNCHANGED Described!vars
    BY <2>1 DEF Described!vars, Core!vars, Core!getMode
  <2>3. Power' = Power /\ Plugged' = Plugged
    BY <2>1 DEF Power, Plugged, bus, Core!vars
  <2> QED  BY <2>1, <2>2, <2>3, BoardIdle
<1>2. CASE ThreadStep
  <2>1. UNCHANGED << args, main, bus >> /\ thread \in {"created", "live"}
    BY <1>2 DEF ThreadStep, Core!ThreadStep, Core!Enter, Core!Run, Core!Exit
  <2>2. main = "running"
    BY <2>1 DEF SystemInv
  <2>3. CASE Core!Enter
    <3>1. pc = "constructed" /\ pc' = "starting" /\ UNCHANGED << mem, PE, LMA, regs, rip >>
      BY <2>3 DEF Core!Enter, Core!StartCore, Core!memory, StageInv
    <3>2. UNCHANGED Described!vars
      BY <2>1, <3>1 DEF Described!vars, Core!getMode
    <3>3. Power' = Power /\ Plugged' = Plugged
      BY <2>1, <3>1 DEF Power, Plugged, bus
    <3> QED  BY <2>1, <3>2, <3>3, BoardIdle
  <2>4. CASE Core!Run
    <3>1. Core!CoreStep
      BY <2>4 DEF Core!Run
    <3> QED  BY <2>1, <2>2, <3>1, BoardCoreStep DEF PartsInv
  <2>5. CASE Core!Exit
    <3>1. UNCHANGED Core!vars
      BY <2>5 DEF Core!Exit
    <3>2. UNCHANGED Described!vars
      BY <2>1, <3>1 DEF Described!vars, Core!vars, Core!getMode
    <3>3. Power' = Power /\ Plugged' = Plugged
      BY <2>1, <3>1 DEF Power, Plugged, bus, Core!vars
    <3> QED  BY <2>1, <3>2, <3>3, BoardIdle
  <2> QED  BY <1>2, <2>3, <2>4, <2>5 DEF ThreadStep, Core!ThreadStep
<1>3. CASE StartReturns
  <2>1. /\ main = "running" /\ main' = "waiting" /\ UNCHANGED << args, bus, core >>
        /\ pc = "returned" /\ status = "ready"
    BY <1>3 DEF StartReturns, GoOn, StageInv, SystemInv
  <2>2. UNCHANGED << mem, PE, LMA, regs, rip, pc, instr, status >>
    BY <2>1 DEF core, bus
  <2>3. UNCHANGED Described!vars
    BY <2>1, <2>2 DEF Described!vars, Core!getMode
  <2>4. Power = "booted" /\ Power' = "done" /\ Plugged' = Plugged
    BY <2>1, <2>2 DEF Power, Plugged, bus
  <2>5. Described!SwitchOff
    BY <2>1, <2>3, <2>4 DEF Described!SwitchOff, Power, Plugged
  <2> QED  BY <2>5 DEF Described!BoardNext
<1>4. CASE Return
  <2>1. /\ main = "waiting" /\ main' = "exited" /\ UNCHANGED << args, bus >>
        /\ UNCHANGED << mem, PE, LMA, regs, rip, pc, instr >>
    BY <1>4 DEF Return, Core!Destroy, Core!memory
  <2>2. UNCHANGED Described!vars
    BY <2>1 DEF Described!vars, Core!getMode
  <2>3. Power' = Power /\ Plugged' = Plugged
    BY <2>1 DEF Power, Plugged, bus
  <2> QED  BY <2>1, <2>2, <2>3, BoardIdle
<1> QED  BY <1>1, <1>2, <1>3, <1>4

(* Before the command line is parsed nothing is plugged in. *)
LEMMA BoardBegins == Init => Described!BoardInit
<1> SUFFICES ASSUME Init PROVE Described!BoardInit
  OBVIOUS
<1>1. /\ main = "parse" /\ status = "constructing" /\ pc = "constructed" /\ rip = ResetVector
      /\ regs = [r \in Registers |-> Zero] /\ RegisteredDevices = << >>
  BY DEF Init
<1>2. args.cores \in Nat
  BY ArgsType DEF Init, CommandLine
<1>3. regs = [r \in Described!Registers |-> Described!Zero]
  BY <1>1 DEF Registers, Described!Registers, Zero, Described!Zero, Lane, Described!Lane
<1>4. [k \in 1 .. Len(RegisteredDevices) |-> args.devices[k]] = << >>
  <2>1. Len(RegisteredDevices) = 0
    BY <1>1
  <2> QED  BY <2>1
<1> QED  BY <1>1, <1>2, <1>3, <1>4 DEF Described!BoardInit

(* The program implements the machine its command line describes: devices    *)
(* are plugged in one after the other, a sound memory and reset ROM come up,  *)
(* the ROMs are seen at their bases, execution begins once at the reset       *)
(* vector and goes on one atomic instruction at a time, and Start returns     *)
(* only after the core has stopped.                                           *)
THEOREM BoardRefined == Spec => ImplementsBoard
<1>1. PartsInv /\ SystemInv /\ StageInv /\ [Next]_systemVars
        => [Described!BoardNext]_(Described!boardVars)
  <2> SUFFICES ASSUME PartsInv, SystemInv, StageInv, [Next]_systemVars
               PROVE  [Described!BoardNext]_(Described!boardVars)
    OBVIOUS
  <2>1. CASE Construction
    BY <2>1, BoardConstructs
  <2>2. CASE StartSystem
    BY <2>2, BoardStarts
  <2>3. CASE HostStep \/ ThreadStep \/ StartReturns \/ Return
    BY <2>3, BoardRuns
  <2>4. CASE UNCHANGED systemVars
    <3>1. UNCHANGED << args, main, RegisteredDevices, status, mem, PE, LMA, regs, rip, pc, instr >>
      BY <2>4 DEF systemVars, bus, core
    <3>2. UNCHANGED Described!vars /\ Power' = Power /\ Plugged' = Plugged
      BY <3>1 DEF Described!vars, Core!getMode, Power, Plugged
    <3> QED  BY <3>1, <3>2, BoardIdle
  <2> QED  BY <2>1, <2>2, <2>3, <2>4 DEF Next
<1> QED  BY <1>1, BoardBegins, PartsInvariance, SystemInvariance, StageInvariance, PTL
         DEF Spec, ImplementsBoard, Described!BoardSpec

=============================================================================
