----------------------------- MODULE VCoreProofs -----------------------------
(***************************************************************************)
(* One virtual core, for every set of memory images, every reset vector    *)
(* and every startup mode: its values keep their widths, the prefixes of   *)
(* an instruction are its own, and the length RIP moves by is the number   *)
(* of bytes decoded after the prefixes.  The arithmetic of its registers   *)
(* is right modulo every operand width.  The two threads of CPU::Start     *)
(* make it the synchronous call its caller takes it for.                   *)
(***************************************************************************)
EXTENDS CPU, DecoderProofs

LEMMA ModeType == getMode \in Modes
BY DEF getMode, Modes

LEMMA ImageType ==
  ASSUME TypeOK
  PROVE  mem \in Seq(Byte)
BY ImagesAssumption DEF TypeOK

LEMMA TypeInit == Init => TypeOK
<1> SUFFICES ASSUME Init
             PROVE  TypeOK
  OBVIOUS
<1>1. instr \in Instructions
  BY FreshInstructionType DEF Init
<1>2. regs \in [Registers -> Word64]
  BY DEF Init, Word64, Zero, Lane, Byte
<1>3. prefixes \in Prefixes
  BY DEF Init, Prefixes, NoPrefixes
<1>4. PE \in BOOLEAN /\ LMA \in BOOLEAN
  BY DEF Init
<1>5. isRunning \in BOOLEAN /\ hasShutdown \in BOOLEAN
  BY DEF Init
<1>6. pc \in PC /\ byte \in Byte
  BY DEF Init, PC, Byte
<1>7. mem \in Images /\ rip \in Nat /\ address \in Nat
  BY ResetVectorAssumption DEF Init
<1> QED  BY <1>1, <1>2, <1>3, <1>4, <1>5, <1>6, <1>7 DEF TypeOK

LEMMA TypeStep == TypeOK /\ [Next]_vars => TypeOK'
<1> SUFFICES ASSUME TypeOK, [Next]_vars
             PROVE  TypeOK'
  OBVIOUS
<1>1. mem \in Seq(Byte) /\ getMode \in Modes
  BY ImageType, ModeType
<1>2. CASE StartCore
  BY <1>2 DEF TypeOK, StartCore, memory, cursor, PC
<1>3. CASE ClearShutdown
  BY <1>3 DEF TypeOK, ClearShutdown, memory, cursor, PC
<1>4. CASE decodeInstruction
  <2>1. byte' \in Byte /\ address' \in Nat
    BY <1>1, <1>4, FetchType DEF TypeOK, decodeInstruction
  <2>2. prefixes' \in Prefixes /\ instr' \in Instructions
    BY <1>4, FreshInstructionType DEF decodeInstruction, Prefixes, NoPrefixes
  <2> QED  BY <1>4, <2>1, <2>2 DEF TypeOK, decodeInstruction, memory, flags, PC
<1>5. CASE Handle_Prefix \/ Handle_REX
  <2>1. byte' \in Byte /\ address' \in Nat
    BY <1>1, <1>5, FetchType DEF TypeOK, Handle_Prefix, Handle_REX, FetchNextByte
  <2>2. CASE Handle_Prefix
    <3>1. (prefixes.opsize \/ byte = 102) \in BOOLEAN
      OBVIOUS
    <3>2. prefixes' \in Prefixes
      BY <2>2, <3>1 DEF TypeOK, Handle_Prefix, Prefixes
    <3> QED  BY <2>1, <2>2, <3>2
             DEF TypeOK, Handle_Prefix, FetchNextByte, memory, flags, PC
  <2>3. CASE Handle_REX
    <3>1. prefixes' \in Prefixes
      BY <2>3, PrefixHandlers DEF TypeOK, Handle_REX, Prefixes
    <3> QED  BY <2>1, <2>3, <3>1
             DEF TypeOK, Handle_REX, FetchNextByte, memory, flags, PC
  <2> QED  BY <1>5, <2>2, <2>3
<1>6. CASE HandleOpcode
  <2>1. instr' \in Instructions
    BY <1>1, <1>6, DecodeOpcodeType DEF TypeOK, HandleOpcode
  <2>2. address' \in Nat
    BY <1>1, <1>6, AddressAdvanceType DEF TypeOK, HandleOpcode
  <2> QED  BY <1>6, <2>1, <2>2 DEF TypeOK, HandleOpcode, memory, flags, PC
<1>7. CASE ThrowUndefinedOpcode
  BY <1>7 DEF TypeOK, ThrowUndefinedOpcode, memory, cursor, flags, PC
<1>8. CASE ReadPastMemory
  BY <1>8 DEF TypeOK, ReadPastMemory, memory, cursor, flags, PC
<1>9. CASE IncrementRIP
  <2>1. rip' \in Nat
    BY <1>9 DEF TypeOK, IncrementRIP, Instructions
  <2> QED  BY <1>9, <2>1 DEF TypeOK, IncrementRIP, memory, cursor, flags, PC
<1>10. CASE ExecuteOperation
  <2>1. regs' \in [Registers -> Word64]
    BY <1>10, EffectType DEF TypeOK, ExecuteOperation
  <2> QED  BY <1>10, <2>1 DEF TypeOK, ExecuteOperation, memory, cursor, flags, PC
<1>11. CASE Handle_NOP
  BY <1>11 DEF TypeOK, Handle_NOP, memory, cursor, flags, PC
<1>12. CASE Handle_UD
  BY <1>12 DEF TypeOK, Handle_UD, memory, cursor, flags, PC
<1>13. CASE Shutdown
  BY <1>13 DEF TypeOK, Shutdown, memory, cursor, PC
<1>14. CASE UNCHANGED vars
  BY <1>14 DEF TypeOK, vars
<1> QED
  BY <1>2, <1>3, <1>4, <1>5, <1>6, <1>7, <1>8, <1>9, <1>10, <1>11, <1>12, <1>13, <1>14
     DEF Next, CoreStep, Decode, Execute

(* Registers, immediates and the instruction under construction keep the    *)
(* shape of their C++ types through any program.                            *)
THEOREM TypeInvariance == Spec => []TypeOK
  BY TypeInit, TypeStep, PTL DEF Spec

----------------------------------------------------------------------------
(* The prefixes of an instruction. *)

(* Machine is an instance of a module that extends Executor.  Expanded, its *)
(* copies of the operators are the operators used here.                     *)
LEMMA MachineOperators ==
  ASSUME NEW m, NEW mode, NEW p, NEW a, NEW b, NEW h, NEW R, NEW i
  PROVE  /\ Machine!Byte = Byte
         /\ Machine!Zero = Zero
         /\ Machine!Registers = Registers
         /\ Machine!Modes = Modes
         /\ Machine!Fetch(m, a) = Fetch(m, a)
         /\ Machine!Handler(b) = Handler(b)
         /\ Machine!HandlerReads(m, mode, p, a, h) = HandlerReads(m, mode, p, a, h)
         /\ Machine!Throws(m, mode, a, h) = Throws(m, mode, a, h)
         /\ Machine!DecodeOpcode(m, mode, p, a, b) = DecodeOpcode(m, mode, p, a, b)
         /\ Machine!Effect(R, i) = Effect(R, i)
<1> USE DEF Machine!Byte, Byte, Machine!Lane, Lane, Machine!Zero, Zero,
      Machine!Fetch, Fetch, Machine!FetchBytes, FetchBytes, Machine!Handler,
      Handler, Machine!ModRM_mod, ModRM_mod, Machine!ModRM_reg, ModRM_reg,
      Machine!ModRM_rm, ModRM_rm, Machine!ModRMAndSIB, ModRMAndSIB,
      Machine!ModRMHandlers, ModRMHandlers, Machine!ImmediateBytes, ImmediateBytes,
      Machine!RexW, RexW, Machine!HasRex, HasRex, Machine!OperandSize, OperandSize,
      Machine!GetDefaultOperandSize, GetDefaultOperandSize
<1>1. Machine!Byte = Byte /\ Machine!Zero = Zero
  OBVIOUS
<1>2. Machine!Registers = Registers /\ Machine!Modes = Modes
  BY DEF Machine!Registers, Registers, Machine!Modes, Modes
<1>3. Machine!Fetch(m, a) = Fetch(m, a) /\ Machine!Handler(b) = Handler(b)
  OBVIOUS
<1>4. Machine!HandlerReads(m, mode, p, a, h) = HandlerReads(m, mode, p, a, h)
  BY DEF Machine!HandlerReads, HandlerReads
<1>5. Machine!Throws(m, mode, a, h) = Throws(m, mode, a, h)
  BY DEF Machine!Throws, Throws
<1>6. Machine!DecodeOpcode(m, mode, p, a, b) = DecodeOpcode(m, mode, p, a, b)
  BY DEF Machine!DecodeOpcode, DecodeOpcode, Machine!Handler_rm8_r8, Handler_rm8_r8,
     Machine!Handle_r8_rm8, Handle_r8_rm8, Machine!Handler_rm_r, Handler_rm_r,
     Machine!Handle_r_rm, Handle_r_rm, Machine!Handle_AL_imm8, Handle_AL_imm8,
     Machine!Handle_AxEaxRax_imm, Handle_AxEaxRax_imm, Machine!Handle_GROUP1,
     Handle_GROUP1, Machine!Handle_MOV_imm, Handle_MOV_imm, Machine!InstructionType,
     InstructionType, Machine!RexB, RexB, Machine!RexR, RexR,
     Machine!DecodeTargetRegister, DecodeTargetRegister,
     Machine!GetTargetRegisterFromAdditiveID, GetTargetRegisterFromAdditiveID,
     Machine!DecodeTarget8BitRegister, DecodeTarget8BitRegister,
     Machine!IsHighRegister, IsHighRegister, Machine!HighRegisters, HighRegisters,
     Machine!RegisterOrder, RegisterOrder, Machine!RegisterOperand, RegisterOperand,
     Machine!ImmediateOperand, ImmediateOperand, Machine!NoOperand, NoOperand,
     Machine!Instruction, Instruction, Machine!GetRegister, GetRegister
<1>7. Machine!Effect(R, i) = Effect(R, i)
  BY DEF Machine!Effect, Effect, Machine!RegisterBytes, RegisterBytes,
     Machine!SourceValue, SourceValue, Machine!Write, Write, Machine!Result, Result,
     Machine!GetLow, GetLow, Machine!GetHigh8Bits, GetHigh8Bits,
     Machine!SetHigh8Bits, SetHigh8Bits, Machine!SetLow, SetLow,
     Machine!SetLow32Bits, SetLow32Bits, Machine!Add, Add, Machine!Carry, Carry,
     Machine!Subtract, Subtract, Machine!Borrow, Borrow, Machine!Or, Or,
     Machine!OrByte, OrByte, Machine!OrBit, OrBit
<1> QED  BY <1>1, <1>2, <1>3, <1>4, <1>5, <1>6, <1>7

(* What the handlers of the bytes from .. a - 1 leave in the prefixes,      *)
(* without the CHOOSE of ISA: no byte was a REX, or one of them was the last.*)
Collected(p, from, a) ==
  /\ p.opsize <=> \E k \in from .. a - 1 : Fetch(mem, k) = 102
  /\ \/ p.rex = 0 /\ \A k \in from .. a - 1 : ~Machine!IsRex(k)
     \/ \E k \in from .. a - 1 :
          /\ Machine!IsRex(k)
          /\ p.rex = Fetch(mem, k)
          /\ \A j \in k + 1 .. a - 1 : ~Machine!IsRex(j)

(* The strengthening of PrefixesReflectBytes: the byte dispatched lies in    *)
(* the image and everything between RIP and it was a prefix.                 *)
Collecting ==
  pc = "dispatch" =>
    /\ rip < address
    /\ address <= Len(mem)
    /\ byte = Fetch(mem, address - 1)
    /\ \A k \in rip .. address - 2 : Machine!IsPrefix(k)
    /\ Collected(prefixes, rip, address - 1)

LEMMA CollectedIsPrefixesBefore ==
  ASSUME TypeOK, pc # "execute", NEW a \in Nat, NEW p \in Prefixes, Collected(p, rip, a)
  PROVE  p = Machine!PrefixesBefore(a)
<1> DEFINE S == rip .. a - 1
           Last(k) == Machine!IsRex(k) /\ \A j \in k + 1 .. a - 1 : ~Machine!IsRex(j)
           o == \E k \in S : Fetch(mem, k) = 102
           r == IF \E k \in S : Machine!IsRex(k)
                  THEN Fetch(mem, CHOOSE k \in S : Last(k)) ELSE 0
<1>1. Machine!PrefixesBefore(a) = [opsize |-> o, rex |-> r]
  BY MachineOperators DEF Machine!PrefixesBefore, Machine!IsRex
<1>2. p.opsize = o
  <2>1. p.opsize \in BOOLEAN /\ o \in BOOLEAN
    BY DEF Prefixes
  <2> QED  BY <2>1 DEF Collected
<1>3. p.rex = r
  <2>1. CASE p.rex = 0 /\ \A k \in S : ~Machine!IsRex(k)
    BY <2>1
  <2>2. ASSUME NEW k \in S, p.rex = Fetch(mem, k), Last(k)
        PROVE  p.rex = r
    <3> DEFINE c == CHOOSE n \in S : Last(n)
    <3>1. c \in S /\ Last(c)
      BY <2>2
    <3>2. k \in Int /\ c \in Int /\ rip \in Int
      BY <3>1 DEF TypeOK
    <3>3. ~(c < k) /\ ~(k < c)
      <4>1. c < k => k \in c + 1 .. a - 1
        BY <3>1, <3>2, <2>2
      <4>2. k < c => c \in k + 1 .. a - 1
        BY <3>1, <3>2, <2>2
      <4> QED  BY <3>1, <2>2, <4>1, <4>2
    <3>4. c = k
      BY <3>2, <3>3
    <3>5. r = Fetch(mem, c)
      BY <2>2
    <3> QED  BY <2>2, <3>4, <3>5
  <2> QED  BY <2>1, <2>2 DEF Collected
<1>4. p = [opsize |-> p.opsize, rex |-> p.rex]
  BY DEF Prefixes
<1> HIDE DEF o, r
<1> QED  BY <1>1, <1>2, <1>3, <1>4

(* A handler that does not finish the instruction passes the byte at a over; *)
(* q are the prefixes it leaves.                                             *)
LEMMA CollectedNext ==
  ASSUME TypeOK, NEW a \in Nat, rip <= a, NEW p \in Prefixes, NEW q \in Prefixes,
         Collected(p, rip, a),
         \/ /\ Handler(Fetch(mem, a)) = "Handle_Prefix"
            /\ q.rex = p.rex /\ q.opsize = (p.opsize \/ Fetch(mem, a) = 102)
         \/ /\ Handler(Fetch(mem, a)) = "Handle_REX"
            /\ q.rex = Fetch(mem, a) /\ q.opsize = p.opsize
  PROVE  Collected(q, rip, a + 1)
<1> DEFINE F(k) == Fetch(mem, k)
           Rex(k) == Machine!IsRex(k)
<1>1. a + 1 - 1 = a /\ rip \in Int /\ a \in rip .. a
  BY DEF TypeOK
<1>2. \A k : k \in rip .. a <=> k \in rip .. a - 1 \/ k = a
  BY <1>1
<1>3. \A k : Rex(k) <=> Handler(F(k)) = "Handle_REX"
  BY MachineOperators DEF Machine!IsRex
<1>4. Handler(F(a)) = "Handle_REX" => F(a) # 102
  BY PrefixHandlers
<1>5. q.opsize <=> \E k \in rip .. a : F(k) = 102
  <2>1. p.opsize <=> \E k \in rip .. a - 1 : F(k) = 102
    BY DEF Collected
  <2>2. p.opsize \in BOOLEAN /\ q.opsize \in BOOLEAN
    BY DEF Prefixes
  <2>3. q.opsize <=> p.opsize \/ F(a) = 102
    BY <1>4, <2>2
  <2> HIDE DEF F
  <2> QED  BY <1>2, <2>1, <2>3
<1>6. \/ q.rex = 0 /\ \A k \in rip .. a : ~Rex(k)
      \/ \E k \in rip .. a :
           Rex(k) /\ q.rex = F(k) /\ \A j \in k + 1 .. a : ~Rex(j)
  <2>1. CASE Rex(a)
    <3>1. q.rex = F(a)
      BY <2>1, <1>3
    <3>2. \A j \in a + 1 .. a : ~Rex(j)
      OBVIOUS
    <3> QED  BY <2>1, <3>1, <3>2, <1>1
  <2>2. CASE ~Rex(a)
    <3>1. q.rex = p.rex
      BY <2>2, <1>3
    <3>2. CASE p.rex = 0 /\ \A k \in rip .. a - 1 : ~Rex(k)
      BY <3>1, <3>2, <2>2, <1>2
    <3>3. ASSUME NEW k \in rip .. a - 1, Rex(k), p.rex = F(k),
                 \A j \in k + 1 .. a - 1 : ~Rex(j)
          PROVE  \E n \in rip .. a :
                   Rex(n) /\ q.rex = F(n) /\ \A j \in n + 1 .. a : ~Rex(j)
      <4>1. \A j \in k + 1 .. a : j \in k + 1 .. a - 1 \/ j = a
        BY <1>1
      <4>2. \A j \in k + 1 .. a : ~Rex(j)
        BY <4>1, <3>3, <2>2
      <4> QED  BY <3>1, <3>3, <4>2, <1>2
    <3> QED  BY <3>2, <3>3 DEF Collected
  <2> QED  BY <2>1, <2>2
<1> QED  BY <1>1, <1>5, <1>6 DEF Collected

LEMMA CollectingStep == TypeOK /\ TypeOK' /\ Collecting /\ [Next]_vars => Collecting'
<1> SUFFICES ASSUME TypeOK, TypeOK', Collecting, [Next]_vars, pc' = "dispatch"
             PROVE  Collecting'
  BY DEF Collecting
<1>1. CASE decodeInstruction
  <2>1. rip' = rip /\ address' = rip + 1 /\ mem' = mem /\ rip \in Nat
    BY <1>1 DEF decodeInstruction, memory, TypeOK
  <2>2. rip' < address' /\ address' <= Len(mem') /\ byte' = Fetch(mem', address' - 1)
    BY <1>1, <2>1, ImageType DEF decodeInstruction
  <2>3. rip' .. address' - 2 = {}
    BY <2>1
  <2>4. prefixes'.rex = 0 /\ ~prefixes'.opsize
    BY <1>1 DEF decodeInstruction, NoPrefixes
  <2>5. Collected(prefixes, rip, address - 1)'
    BY <2>1, <2>3, <2>4 DEF Collected
  <2> QED  BY <2>2, <2>3, <2>5 DEF Collecting
<1>2. CASE Handle_Prefix \/ Handle_REX
  <2> DEFINE b == address - 1
  <2>1. /\ mem' = mem /\ PE' = PE /\ LMA' = LMA /\ rip' = rip /\ address' = address + 1
        /\ byte' = Fetch(mem, address) /\ address < Len(mem) /\ pc = "dispatch"
        /\ pc' = pc /\ instr' = instr
    BY <1>2 DEF Handle_Prefix, Handle_REX, FetchNextByte, memory
  <2>2. /\ rip < address /\ address \in Nat /\ rip \in Nat /\ Len(mem) \in Nat
        /\ byte = Fetch(mem, b)
        /\ \A k \in rip .. address - 2 : Machine!IsPrefix(k)
        /\ Collected(prefixes, rip, b)
    BY <2>1, ImageType DEF Collecting, TypeOK
  <2>3. Machine!IsPrefix(b)
    BY <1>2, <2>2, MachineOperators DEF Machine!IsPrefix, Handle_Prefix, Handle_REX
  <2>4. \A k \in rip' .. address' - 2 : Machine!IsPrefix(k)
    <3>1. \A k \in rip .. address - 1 : k \in rip .. address - 2 \/ k = b
      BY <2>2
    <3> QED  BY <3>1, <2>1, <2>2, <2>3
  <2>5. \A k \in rip' .. address' - 2 : Machine!IsPrefix(k)'
    BY <2>1, <2>4 DEF Machine!IsPrefix, getMode
  <2>6. \/ /\ Handler(byte) = "Handle_Prefix"
           /\ prefixes'.rex = prefixes.rex
           /\ prefixes'.opsize = (prefixes.opsize \/ byte = 102)
        \/ /\ Handler(byte) = "Handle_REX"
           /\ prefixes'.rex = byte /\ prefixes'.opsize = prefixes.opsize
    <3>1. CASE Handle_Prefix
      BY <3>1 DEF Handle_Prefix, TypeOK, Prefixes
    <3>2. CASE Handle_REX
      BY <3>2 DEF Handle_REX, TypeOK, Prefixes
    <3> QED  BY <1>2, <3>1, <3>2
  <2>7. Collected(prefixes', rip, b + 1)
    <3>1. b \in Nat /\ rip <= b
      BY <2>2
    <3>2. prefixes \in Prefixes /\ prefixes' \in Prefixes
      BY DEF TypeOK
    <3> HIDE DEF b
    <3> QED  BY <2>2, <2>6, <3>1, <3>2, CollectedNext
  <2>8. Collected(prefixes, rip, address - 1)'
    <3>1. b + 1 = address' - 1
      BY <2>1, <2>2
    <3>2. \A k : Machine!IsRex(k)' <=> Machine!IsRex(k)
      BY <2>1 DEF Machine!IsRex
    <3> QED  BY <2>1, <2>7, <3>1, <3>2 DEF Collected
  <2>9. rip' < address' /\ address' <= Len(mem') /\ byte' = Fetch(mem', address' - 1)
    BY <2>1, <2>2
  <2> QED  BY <2>5, <2>8, <2>9 DEF Collecting
<1>3. CASE UNCHANGED vars
  BY <1>3 DEF Collecting, Collected, vars, Machine!IsPrefix, Machine!IsRex, getMode
<1>4. ~HandleOpcode /\ ~StartCore /\ ~ClearShutdown /\ ~ThrowUndefinedOpcode
      /\ ~ReadPastMemory /\ ~IncrementRIP /\ ~Execute /\ ~Shutdown
  BY DEF HandleOpcode, StartCore, ClearShutdown, ThrowUndefinedOpcode, ReadPastMemory,
     IncrementRIP, Execute, ExecuteOperation, Handle_NOP, Handle_UD, Shutdown
<1> QED  BY <1>1, <1>2, <1>3, <1>4 DEF Next, CoreStep, Decode

LEMMA CollectingInit == Init => Collecting
  BY DEF Init, Collecting

LEMMA CollectingReflects == TypeOK /\ Collecting => PrefixesReflectBytes
<1> SUFFICES ASSUME TypeOK, Collecting, pc = "dispatch"
             PROVE  PrefixesReflectBytes
  BY DEF PrefixesReflectBytes
<1>1. address - 1 \in Nat /\ address > rip
  BY DEF TypeOK, Collecting
<1>2. prefixes = Machine!PrefixesBefore(address - 1)
  BY <1>1, CollectedIsPrefixesBefore DEF TypeOK, Collecting
<1> QED  BY <1>1, <1>2 DEF PrefixesReflectBytes, Collecting

(* An instruction's prefixes are the bytes between RIP and its opcode, and  *)
(* nothing of the instruction before: decodeInstruction starts from fresh   *)
(* Prefixes, and each Handle_Prefix or Handle_REX adds its own byte.        *)
THEOREM PrefixesExact == Spec => []PrefixesReflectBytes
<1>1. Init => TypeOK /\ Collecting
  BY TypeInit, CollectingInit
<1>2. TypeOK /\ Collecting /\ [Next]_vars => (TypeOK /\ Collecting)'
  BY TypeStep, CollectingStep
<1>3. TypeOK /\ Collecting => PrefixesReflectBytes
  BY CollectingReflects
<1> QED  BY <1>1, <1>2, <1>3, PTL DEF Spec

----------------------------------------------------------------------------
(* The decoded instruction. *)

(* The address the instruction in progress was decoded from. *)
Origin == IF pc = "execute" THEN rip - instr.len ELSE rip

(* PrefixesBefore with its variables as parameters. *)
PrefixesOf(m, from, a) ==
  [opsize |-> \E k \in from .. a - 1 : Fetch(m, k) = 102,
   rex |-> IF \E k \in from .. a - 1 : Handler(Fetch(m, k)) = "Handle_REX"
             THEN Fetch(m, CHOOSE k \in from .. a - 1 :
                             /\ Handler(Fetch(m, k)) = "Handle_REX"
                             /\ \A j \in k + 1 .. a - 1 : ~(Handler(Fetch(m, j)) = "Handle_REX"))
             ELSE 0]

(* From the last byte of an instruction until it took effect: some byte of  *)
(* the image is its opcode, the handlers read within the image, and what    *)
(* they built is what the machine decodes there.                            *)
Decoding ==
  pc \in {"decoded", "execute"} =>
    \E a \in Origin .. Len(mem) - 1 :
       /\ Machine!Complete(a)
       /\ ~Machine!Faults(a)
       /\ instr = Machine!Decoded(a)
       /\ a < address
       /\ byte = Fetch(mem, a)
       /\ prefixes = Machine!PrefixesBefore(a)

LEMMA SameInstruction ==
  ASSUME memory' = memory, Origin' = Origin, NEW a
  PROVE  /\ Machine!Complete(a)' <=> Machine!Complete(a)
         /\ Machine!Faults(a)' <=> Machine!Faults(a)
         /\ Machine!Decoded(a)' = Machine!Decoded(a)
         /\ Machine!PrefixesBefore(a)' = Machine!PrefixesBefore(a)
<1>1. mem' = mem /\ getMode' = getMode
  BY DEF memory, getMode
<1>2. Machine!PrefixesBefore(a) = PrefixesOf(mem, Origin, a)
  BY DEF Machine!PrefixesBefore, Machine!IsRex, PrefixesOf, Origin, Machine!Fetch, Fetch,
     Machine!Handler, Handler
<1>3. Machine!PrefixesBefore(a)' = PrefixesOf(mem', Origin', a)
  BY DEF Machine!PrefixesBefore, Machine!IsRex, PrefixesOf, Origin, Machine!Fetch, Fetch,
     Machine!Handler, Handler
<1>4. Machine!PrefixesBefore(a)' = Machine!PrefixesBefore(a)
  BY <1>1, <1>2, <1>3
<1>5. \A k : Machine!IsPrefix(k)' <=> Machine!IsPrefix(k)
  BY <1>1 DEF Machine!IsPrefix
<1>6. Machine!OpcodeAt(a)' <=> Machine!OpcodeAt(a)
  <2>1. Machine!OpcodeAt(a) <=> /\ a < Len(mem) /\ ~Machine!IsPrefix(a)
                                /\ \A k \in Origin .. a - 1 : Machine!IsPrefix(k)
    BY DEF Machine!OpcodeAt, Origin
  <2>2. Machine!OpcodeAt(a)' <=> /\ a < Len(mem') /\ ~Machine!IsPrefix(a)'
                                 /\ \A k \in Origin' .. a - 1 : Machine!IsPrefix(k)'
    BY DEF Machine!OpcodeAt, Origin
  <2> QED  BY <1>1, <1>5, <2>1, <2>2
<1>7. Machine!Reads(a)' = Machine!Reads(a)
  BY <1>1, <1>4 DEF Machine!Reads
<1>8. Machine!Complete(a)' <=> Machine!Complete(a)
  BY <1>1, <1>6, <1>7 DEF Machine!Complete
<1>9. Machine!Faults(a)' <=> Machine!Faults(a)
  BY <1>1 DEF Machine!Faults
<1>10. Machine!Decoded(a)' = Machine!Decoded(a)
  BY <1>1, <1>4 DEF Machine!Decoded
<1> QED  BY <1>4, <1>8, <1>9, <1>10

(* The byte being dispatched, when it is no prefix, is the only opcode the  *)
(* machine can find from RIP on.                                            *)
LEMMA OpcodeReached ==
  ASSUME TypeOK, Collecting, pc = "dispatch", ~Machine!IsPrefix(address - 1)
  PROVE  /\ address - 1 \in rip .. Len(mem) - 1
         /\ Machine!OpcodeAt(address - 1)
         /\ prefixes = Machine!PrefixesBefore(address - 1)
         /\ Machine!Complete(address - 1) <=> ReadsInRange
         /\ Machine!Faults(address - 1) <=> Throws(mem, getMode, address, Handler(byte))
         /\ Machine!Decoded(address - 1) = DecodeOpcode(mem, getMode, prefixes, address, byte)
         /\ \A n \in rip .. Len(mem) - 1 : Machine!Complete(n) => n = address - 1
<1> DEFINE a == address - 1
<1>1. /\ rip \in Nat /\ address \in Nat /\ Len(mem) \in Nat /\ rip < address
      /\ address <= Len(mem) /\ byte = Fetch(mem, a) /\ a + 1 = address
      /\ \A k \in rip .. a - 1 : Machine!IsPrefix(k)
  BY ImageType DEF TypeOK, Collecting
<1>2. a \in rip .. Len(mem) - 1 /\ a < Len(mem) /\ a \in Nat
  BY <1>1
<1>3. Machine!OpcodeAt(a)
  BY <1>1, <1>2 DEF Machine!OpcodeAt
<1>4. prefixes = Machine!PrefixesBefore(a)
  BY CollectingReflects DEF PrefixesReflectBytes
<1>5. Machine!Reads(a) = HandlerReads(mem, getMode, prefixes, address, Handler(byte))
  BY <1>1, <1>4, MachineOperators DEF Machine!Reads
<1>6. Machine!Complete(a) <=> ReadsInRange
  BY <1>1, <1>3, <1>5 DEF Machine!Complete, ReadsInRange
<1>7. Machine!Faults(a) <=> Throws(mem, getMode, address, Handler(byte))
  BY <1>1, MachineOperators DEF Machine!Faults
<1>8. Machine!Decoded(a) = DecodeOpcode(mem, getMode, prefixes, address, byte)
  BY <1>1, <1>4, MachineOperators DEF Machine!Decoded
<1>9. ASSUME NEW n \in rip .. Len(mem) - 1, Machine!Complete(n)
      PROVE  n = a
  <2>1. ~Machine!IsPrefix(n) /\ \A k \in rip .. n - 1 : Machine!IsPrefix(k)
    BY <1>9 DEF Machine!Complete, Machine!OpcodeAt
  <2>2. ~(n < a)
    <3>1. n < a => n \in rip .. a - 1
      BY <1>1
    <3> QED  BY <1>1, <2>1, <3>1
  <2>3. ~(a < n)
    <3>1. a < n => a \in rip .. n - 1
      BY <1>1, <1>2
    <3> QED  BY <2>1, <3>1
  <2> QED  BY <1>1, <1>2, <2>2, <2>3
<1> QED  BY <1>2, <1>3, <1>4, <1>6, <1>7, <1>8, <1>9

LEMMA NoPrefixAtOpcode ==
  ASSUME TypeOK, Collecting, pc = "dispatch",
         Handler(byte) # "Handle_Prefix",
         ~(Handler(byte) = "Handle_REX" /\ getMode = "long")
  PROVE  ~Machine!IsPrefix(address - 1)
BY MachineOperators DEF Collecting, Machine!IsPrefix

LEMMA DecodingStep == TypeOK /\ Collecting /\ Decoding /\ [Next]_vars => Decoding'
<1> SUFFICES ASSUME TypeOK, Collecting, Decoding, [Next]_vars,
                    pc' \in {"decoded", "execute"}
             PROVE  Decoding'
  BY DEF Decoding
<1>1. CASE HandleOpcode
  <2>0. PICK a \in Int : a = address - 1
    BY DEF TypeOK
  <2>1. pc = "dispatch" /\ ~Machine!IsPrefix(address - 1)
    BY <1>1, NoPrefixAtOpcode DEF HandleOpcode
  <2>2. /\ a \in rip .. Len(mem) - 1 /\ prefixes = Machine!PrefixesBefore(a)
        /\ Machine!Complete(a) /\ ~Machine!Faults(a) /\ instr' = Machine!Decoded(a)
    BY <1>1, <2>0, <2>1, OpcodeReached DEF HandleOpcode
  <2>3. memory' = memory /\ Origin = rip /\ Origin' = Origin /\ mem' = mem
    BY <1>1 DEF HandleOpcode, Origin, memory
  <2>4. a < address'
    <3>1. address' = address + AddressAdvance(mem, getMode, prefixes, address, Handler(byte))
      BY <1>1 DEF HandleOpcode
    <3>2. AddressAdvance(mem, getMode, prefixes, address, Handler(byte)) \in Nat
      BY ModeType, AddressAdvanceType DEF TypeOK
    <3> QED  BY <2>0, <3>1, <3>2 DEF TypeOK
  <2>5. byte' = Fetch(mem', a) /\ prefixes' = prefixes /\ pc' = "decoded"
    BY <1>1, <2>0, <2>1, <2>3 DEF HandleOpcode, Collecting
  <2>6. /\ Machine!Complete(a)' /\ ~Machine!Faults(a)' /\ instr' = Machine!Decoded(a)'
        /\ prefixes' = Machine!PrefixesBefore(a)'
    BY <2>2, <2>3, <2>5, SameInstruction
  <2>7. a \in Origin' .. Len(mem') - 1
    BY <2>2, <2>3
  <2> QED  BY <2>4, <2>5, <2>6, <2>7 DEF Decoding
<1>2. CASE IncrementRIP \/ UNCHANGED vars
  <2>1. memory' = memory /\ instr' = instr /\ mem' = mem
    BY <1>2 DEF IncrementRIP, vars, memory
  <2>2. Origin' = Origin
    <3>1. rip \in Int /\ instr.len \in Int
      BY DEF TypeOK, Instructions
    <3> QED  BY <1>2, <3>1 DEF IncrementRIP, vars, Origin
  <2>3. pc \in {"decoded", "execute"}
    BY <1>2 DEF IncrementRIP, vars
  <2>4. PICK a \in Origin .. Len(mem) - 1 :
           /\ Machine!Complete(a)
           /\ ~Machine!Faults(a)
           /\ instr = Machine!Decoded(a)
           /\ a < address
           /\ byte = Fetch(mem, a)
           /\ prefixes = Machine!PrefixesBefore(a)
    BY <2>3 DEF Decoding
  <2>5. /\ Machine!Complete(a)' /\ ~Machine!Faults(a)' /\ instr' = Machine!Decoded(a)'
        /\ Machine!PrefixesBefore(a)' = Machine!PrefixesBefore(a)
    BY <2>1, <2>2, <2>4, SameInstruction
  <2>6. a < address' /\ byte' = Fetch(mem', a) /\ prefixes' = Machine!PrefixesBefore(a)'
    BY <1>2, <2>1, <2>4, <2>5 DEF IncrementRIP, vars, cursor
  <2>7. a \in Origin' .. Len(mem') - 1
    BY <2>1, <2>2
  <2> QED  BY <2>5, <2>6, <2>7 DEF Decoding
<1>3. ~StartCore /\ ~ClearShutdown /\ ~decodeInstruction /\ ~Handle_Prefix /\ ~Handle_REX
      /\ ~ThrowUndefinedOpcode /\ ~ReadPastMemory /\ ~Execute /\ ~Shutdown
  BY DEF StartCore, ClearShutdown, decodeInstruction, Handle_Prefix, Handle_REX,
     FetchNextByte, ThrowUndefinedOpcode, ReadPastMemory, Execute, ExecuteOperation,
     Handle_NOP, Handle_UD, Shutdown
<1> QED  BY <1>1, <1>2, <1>3 DEF Next, CoreStep, Decode

VCoreInv == TypeOK /\ Collecting /\ Decoding

LEMMA VCoreInvInit == Init => VCoreInv
  BY TypeInit, CollectingInit DEF VCoreInv, Init, Decoding

LEMMA VCoreInvStep == VCoreInv /\ [Next]_vars => VCoreInv'
  BY TypeStep, CollectingStep, DecodingStep DEF VCoreInv

LEMMA Invariance == Spec => []VCoreInv
  BY VCoreInvInit, VCoreInvStep, PTL DEF Spec

(* IncrementRIP moves RIP by the opcode byte and the bytes the handler       *)
(* fetched after it, whatever the encoding: the length each handler adds up  *)
(* by hand and the bytes it fetches agree.  The prefixes are not in it.      *)
THEOREM LengthExact == Spec => []LengthCountsFromOpcode
<1>1. ASSUME VCoreInv, pc = "decoded"
      PROVE  LengthCountsFromOpcode
  <2>1. PICK a \in Origin .. Len(mem) - 1 :
           /\ Machine!Complete(a)
           /\ ~Machine!Faults(a)
           /\ instr = Machine!Decoded(a)
           /\ a < address
           /\ byte = Fetch(mem, a)
           /\ prefixes = Machine!PrefixesBefore(a)
    BY <1>1 DEF VCoreInv, Decoding
  <2>2. Origin = rip /\ rip \in Nat /\ address \in Nat
    BY <1>1 DEF Origin, VCoreInv, TypeOK
  <2>3. a \in Nat /\ a + 1 \in Nat /\ a \in rip .. address - 1
    BY <2>1, <2>2
  <2>4. Machine!OpcodeAt(a)
    BY <2>1 DEF Machine!Complete
  <2>5. ~Throws(mem, getMode, a + 1, Handler(byte))
    BY <2>1, MachineOperators DEF Machine!Faults
  <2>6. Handler(byte) \notin {"Handle_Prefix", "Handle_REX"}
    <3>1. ~Machine!IsPrefix(a)
      BY <2>4 DEF Machine!OpcodeAt
    <3>2. Handler(byte) # "Handle_Prefix" /\ ~(Handler(byte) = "Handle_REX" /\ getMode = "long")
      BY <2>1, <3>1, MachineOperators DEF Machine!IsPrefix
    <3>3. ~(Handler(byte) = "Handle_REX" /\ getMode # "long")
      BY <2>5 DEF Throws
    <3> QED  BY <3>2, <3>3
  <2>7. instr = DecodeOpcode(mem, getMode, prefixes, a + 1, byte)
    BY <2>1, MachineOperators DEF Machine!Decoded
  <2>8. mem \in Seq(Byte) /\ prefixes \in Prefixes /\ byte \in Byte
    BY <1>1, ImageType DEF VCoreInv, TypeOK
  <2>9. instr.len = 1 + HandlerReads(mem, getMode, prefixes, a + 1, Handler(byte))
    BY <2>3, <2>5, <2>6, <2>7, <2>8, ModeType, LengthIsBytesRead
  <2> QED  BY <2>3, <2>4, <2>9 DEF LengthCountsFromOpcode
<1>2. VCoreInv => LengthCountsFromOpcode
  BY <1>1 DEF LengthCountsFromOpcode
<1> QED  BY <1>2, Invariance, PTL

----------------------------------------------------------------------------
(* Partial registers. *)

LEMMA ExecutedInstruction ==
  ASSUME VCoreInv, pc = "execute", instr.type \in Operations
  PROVE  instr.op0.size \in {8, 16, 32} /\ instr.op0.reg \in Registers
<1>1. PICK a \in Origin .. Len(mem) - 1 :
         /\ Machine!Complete(a)
         /\ ~Machine!Faults(a)
         /\ instr = Machine!Decoded(a)
         /\ a < address
         /\ byte = Fetch(mem, a)
         /\ prefixes = Machine!PrefixesBefore(a)
  BY DEF VCoreInv, Decoding
<1>2. instr = DecodeOpcode(mem, getMode, prefixes, a + 1, byte)
  BY <1>1, MachineOperators DEF Machine!Decoded
<1>3. prefixes \in Prefixes /\ instr \in Instructions
  BY DEF VCoreInv, TypeOK
<1>4. instr.op0.reg \in Registers
  BY <1>3 DEF Instructions, Operand
<1>5. instr.op0.size \in {8, 16, 32}
  BY <1>2, <1>3, ModeType, DestinationSize
<1> QED  BY <1>4, <1>5

(* Of a register only the bytes the operand size names are written, but a   *)
(* 32-bit store also clears the upper half, whatever was decoded: no        *)
(* handler reaches a 64-bit operand, because REX.W is never accepted.       *)
THEOREM NarrowWrites == Spec => NarrowWritesKeepHighBytes
<1> DEFINE Kept(r) ==
      regs'[r] # regs[r] =>
        /\ \A q \in Registers \ {r} : regs'[q] = regs[q]
        /\ \/ \A i \in 4 .. 7 : regs'[r][i] = 0 /\ instr.op0.size = 32
           \/ \A i \in 2 .. 7 : regs'[r][i] = regs[r][i] /\ instr.op0.size = 16
           \/ \E k \in {0, 1} : /\ \A i \in Lane \ {k} : regs'[r][i] = regs[r][i]
                               /\ instr.op0.size = 8 /\ instr.op0.high = (k = 1)
<1>1. ASSUME VCoreInv, [Next]_vars, NEW r \in Registers, regs'[r] # regs[r]
      PROVE  Kept(r)
  <2> DEFINE op == instr.op0
             v == Result(instr.type, RegisterBytes(regs, op), SourceValue(regs, instr.op1))
  <2>1. ExecuteOperation
    BY <1>1 DEF Next, CoreStep, Decode, Execute, StartCore, ClearShutdown, decodeInstruction,
       Handle_Prefix, Handle_REX, FetchNextByte, HandleOpcode, ThrowUndefinedOpcode,
       ReadPastMemory, IncrementRIP, Handle_NOP, Handle_UD, Shutdown, vars
  <2>2. op.size \in {8, 16, 32} /\ op.reg \in Registers
    BY <1>1, <2>1, ExecutedInstruction DEF ExecuteOperation
  <2>3. op.high \in BOOLEAN
    BY <1>1 DEF VCoreInv, TypeOK, Instructions, Operand
  <2>4. regs' = [regs EXCEPT ![op.reg] = Write(regs, op, v)]
    BY <2>1 DEF ExecuteOperation, Effect
  <2>5. regs \in [Registers -> Word64]
    BY <1>1 DEF VCoreInv, TypeOK
  <2> HIDE DEF op, v
  <2>6. r = op.reg /\ regs'[r] = Write(regs, op, v)
    BY <1>1, <2>2, <2>4, <2>5
  <2>7. \A q \in Registers \ {r} : regs'[q] = regs[q]
    BY <2>4, <2>5, <2>6
  <2>8. \/ op.size = 32 /\ \A i \in 4 .. 7 : regs'[r][i] = 0
        \/ op.size = 16 /\ \A i \in 2 .. 7 : regs'[r][i] = regs[r][i]
        \/ op.size = 8 /\ op.high /\ \A i \in Lane \ {1} : regs'[r][i] = regs[r][i]
        \/ op.size = 8 /\ ~op.high /\ \A i \in Lane \ {0} : regs'[r][i] = regs[r][i]
    BY <2>2, <2>3, <2>5, <2>6, NarrowWrite
  <2>9. CASE op.size = 32 \/ op.size = 16
    BY <2>7, <2>8, <2>9 DEF op
  <2>10. CASE op.size = 8 /\ op.high
    <3>1. \A i \in Lane \ {1} : regs'[r][i] = regs[r][i]
      BY <2>8, <2>10
    <3>2. op.high = (1 = 1)
      BY <2>10, <2>3
    <3> QED  BY <2>7, <2>10, <3>1, <3>2 DEF op
  <2>11. CASE op.size = 8 /\ ~op.high
    <3>1. \A i \in Lane \ {0} : regs'[r][i] = regs[r][i]
      BY <2>8, <2>11
    <3>2. op.high = (0 = 1)
      BY <2>11, <2>3
    <3> QED  BY <2>7, <2>11, <3>1, <3>2 DEF op
  <2> QED  BY <2>2, <2>9, <2>10, <2>11
<1>2. VCoreInv /\ [Next]_vars => [\A r \in Registers : Kept(r)]_vars
  BY <1>1
<1> QED  BY <1>2, Invariance, PTL DEF Spec, NarrowWritesKeepHighBytes

----------------------------------------------------------------------------
(* The core implements the atomic machine. *)

Status ==
  CASE pc \in {"decode", "dispatch", "decoded", "execute"} -> "running"
    [] pc = "undefined" -> "undefined"
    [] OTHER -> "stopped"

LEMMA MachineInit == Init => Machine!Init
<1> SUFFICES ASSUME Init
             PROVE  Machine!Init
  OBVIOUS
<1>1. mem \in Seq(Byte) /\ rip \in Nat
  BY ImagesAssumption, ResetVectorAssumption DEF Init
<1>2. Origin = rip /\ Status = "stopped"
  BY DEF Init, Origin, Status
<1>3. regs = [r \in Registers |-> Zero] /\ getMode \in Modes
  BY ModeType DEF Init
<1> QED  BY <1>1, <1>2, <1>3, MachineOperators DEF Machine!Init, Origin, Status

(* The machine does not see a step that leaves these alone. *)
LEMMA MachineStutter ==
  ASSUME memory' = memory, regs' = regs, Origin' = Origin, Status' = Status
  PROVE  UNCHANGED Machine!vars
<1>1. mem' = mem /\ getMode' = getMode
  BY DEF memory, getMode
<1> QED  BY <1>1 DEF Machine!vars, Origin, Status

(* The dispatch of the byte that makes the machine fault. *)
LEMMA MachineFault ==
  ASSUME VCoreInv, ThrowUndefinedOpcode
  PROVE  Machine!Step
<1>1. /\ pc = "dispatch" /\ pc' = "caught" /\ mem' = mem /\ getMode' = getMode
      /\ regs' = regs /\ rip' = rip
      /\ ReadsInRange /\ Throws(mem, getMode, address, Handler(byte))
  BY DEF ThrowUndefinedOpcode, memory, getMode
<1>2. Handler(byte) # "Handle_Prefix" /\ ~(Handler(byte) = "Handle_REX" /\ getMode = "long")
  BY <1>1 DEF Throws, ModRMHandlers
<1>3. PICK a \in Int : a = address - 1
  BY DEF VCoreInv, TypeOK
<1>4. a \in rip .. Len(mem) - 1 /\ Machine!Complete(a) /\ Machine!Faults(a)
  BY <1>1, <1>2, <1>3, NoPrefixAtOpcode, OpcodeReached DEF VCoreInv
<1>5. Origin = rip /\ Origin' = rip /\ Status = "running" /\ Status' = "stopped"
  BY <1>1 DEF Origin, Status
<1>6. Machine!Fault(a)
  BY <1>1, <1>4, <1>5 DEF Machine!Fault, Origin, Status
<1>7. a \in Origin .. Len(mem) - 1
  BY <1>4, <1>5
<1> QED  BY <1>6, <1>7 DEF Machine!Step, Origin

(* The execution of the decoded instruction is the machine's whole step. *)
LEMMA MachineRetire ==
  ASSUME VCoreInv, Execute
  PROVE  Machine!Step
<1>1. pc = "execute" /\ mem' = mem /\ getMode' = getMode /\ rip' = rip /\ instr' = instr
  BY DEF Execute, ExecuteOperation, Handle_NOP, Handle_UD, memory, getMode
<1>2. PICK a \in Origin .. Len(mem) - 1 :
         Machine!Complete(a) /\ ~Machine!Faults(a) /\ instr = Machine!Decoded(a)
  BY <1>1 DEF VCoreInv, Decoding
<1>3. Origin' = Origin + instr.len
  <2>1. rip \in Int /\ instr.len \in Int
    BY DEF VCoreInv, TypeOK, Instructions
  <2>2. pc' # "execute"
    BY DEF Execute, ExecuteOperation, Handle_NOP, Handle_UD
  <2> QED  BY <1>1, <2>1, <2>2 DEF Origin
<1>4. Status = "running"
  BY <1>1 DEF Status
<1>5. CASE ExecuteOperation \/ Handle_NOP
  <2>1. Status' = "running"
    BY <1>5 DEF ExecuteOperation, Handle_NOP, Status
  <2>2. instr.type # "UD"
    BY <1>5 DEF ExecuteOperation, Handle_NOP, Operations
  <2>3. regs' = IF instr.type = "NOP" THEN regs ELSE Effect(regs, instr)
    BY <1>5 DEF ExecuteOperation, Handle_NOP, Operations
  <2>4. regs' = IF instr.type = "NOP" THEN regs ELSE Machine!Effect(regs, instr)
    BY <2>3, MachineOperators
  <2>5. Machine!Retire(a)
    BY <1>1, <1>2, <1>3, <1>4, <2>1, <2>2, <2>4 DEF Machine!Retire, Origin, Status
  <2> QED  BY <2>5 DEF Machine!Step, Origin
<1>6. CASE Handle_UD
  <2>1. Status' = "stopped" /\ instr.type = "UD" /\ regs' = regs
    BY <1>6 DEF Handle_UD, Status
  <2>2. Machine!Trap(a)
    BY <1>1, <1>2, <1>3, <1>4, <2>1 DEF Machine!Trap, Origin, Status
  <2> QED  BY <2>2 DEF Machine!Step, Origin
<1> QED  BY <1>5, <1>6 DEF Execute

(* No instruction ends inside the image when a read leaves it. *)
LEMMA MachineLeave ==
  ASSUME VCoreInv, ReadPastMemory
  PROVE  Machine!Leave
<1>1. /\ pc \in {"decode", "dispatch"} /\ pc' = "undefined" /\ mem' = mem
      /\ getMode' = getMode /\ regs' = regs /\ rip' = rip
  BY DEF ReadPastMemory, memory, getMode
<1>2. Origin = rip /\ Origin' = rip /\ Status = "running" /\ Status' = "undefined"
  BY <1>1 DEF Origin, Status
<1>3. rip \in Nat /\ address \in Nat /\ Len(mem) \in Nat
  BY ImageType DEF VCoreInv, TypeOK
<1>4. ASSUME NEW n \in rip .. Len(mem) - 1, Machine!Complete(n)
      PROVE  FALSE
  <2>1. CASE pc = "decode"
    BY <1>3, <1>4, <2>1 DEF ReadPastMemory
  <2>2. CASE pc = "dispatch" /\ Machine!IsPrefix(address - 1)
    <3>1. Collecting
      BY DEF VCoreInv
    <3>2. /\ address <= Len(mem) /\ byte = Fetch(mem, address - 1)
          /\ \A k \in rip .. address - 2 : Machine!IsPrefix(k)
      BY <2>2, <3>1 DEF Collecting
    <3>3. Handler(byte) \in {"Handle_Prefix", "Handle_REX"}
      BY <2>2, <3>2, MachineOperators DEF Machine!IsPrefix
    <3>4. ReadsInRange
      BY <1>3, <3>2, <3>3 DEF ReadsInRange, HandlerReads, ImmediateBytes, ModRMHandlers
    <3>5. address = Len(mem)
      BY <1>3, <2>2, <3>2, <3>4 DEF ReadPastMemory
    <3>6. Machine!IsPrefix(n)
      <4>1. n \in rip .. address - 2 \/ n = address - 1
        BY <1>3, <3>5
      <4> QED  BY <4>1, <2>2, <3>2
    <3> QED  BY <1>4, <3>6 DEF Machine!Complete, Machine!OpcodeAt
  <2>3. CASE pc = "dispatch" /\ ~Machine!IsPrefix(address - 1)
    <3>1. n = address - 1 /\ (Machine!Complete(address - 1) <=> ReadsInRange)
      BY <1>4, <2>3, OpcodeReached DEF VCoreInv
    <3>2. byte = Fetch(mem, address - 1)
      BY <2>3 DEF VCoreInv, Collecting
    <3>3. Handler(byte) # "Handle_Prefix" /\ ~(Handler(byte) = "Handle_REX" /\ getMode = "long")
      BY <2>3, <3>2, MachineOperators DEF Machine!IsPrefix
    <3>4. ~ReadsInRange
      BY <2>3, <3>3 DEF ReadPastMemory
    <3> QED  BY <1>4, <3>1, <3>4
  <2> QED  BY <1>1, <2>1, <2>2, <2>3
<1>5. ~ \E n \in Origin .. Len(mem) - 1 : Machine!Complete(n)
  BY <1>2, <1>4
<1> QED  BY <1>1, <1>2, <1>5 DEF Machine!Leave, Origin, Status

LEMMA MachineStep == VCoreInv /\ [Next]_vars => [Machine!Next]_(Machine!vars)
<1> SUFFICES ASSUME VCoreInv, [Next]_vars
             PROVE  [Machine!Next]_(Machine!vars)
  OBVIOUS
<1>1. CASE ClearShutdown
  <2>1. mem' = mem /\ getMode' = getMode /\ regs' = regs /\ rip' = rip
    BY <1>1 DEF ClearShutdown, memory, getMode
  <2>2. Origin = rip /\ Origin' = rip /\ Status = "stopped" /\ Status' = "running"
    BY <1>1 DEF ClearShutdown, Origin, Status
  <2>3. Machine!Start
    BY <2>1, <2>2 DEF Machine!Start, Origin, Status
  <2> QED  BY <2>3 DEF Machine!Next
<1>2. CASE ThrowUndefinedOpcode
  BY <1>2, MachineFault DEF Machine!Next
<1>3. CASE Execute
  BY <1>3, MachineRetire DEF Machine!Next
<1>4. CASE ReadPastMemory
  BY <1>4, MachineLeave DEF Machine!Next
<1>5. CASE IncrementRIP
  <2>1. rip \in Int /\ instr.len \in Int
    BY DEF VCoreInv, TypeOK, Instructions
  <2>2. Origin' = Origin /\ Status' = Status
    BY <1>5, <2>1 DEF IncrementRIP, Origin, Status
  <2>3. memory' = memory /\ regs' = regs
    BY <1>5 DEF IncrementRIP
  <2> QED  BY <2>2, <2>3, MachineStutter
<1>6. CASE \/ StartCore \/ decodeInstruction \/ Handle_Prefix \/ Handle_REX \/ HandleOpcode
           \/ Shutdown
  <2>1. memory' = memory /\ regs' = regs /\ rip' = rip
    BY <1>6 DEF StartCore, decodeInstruction, Handle_Prefix, Handle_REX, FetchNextByte,
       HandleOpcode, Shutdown
  <2>2. pc # "execute" /\ pc' # "execute" /\ Status' = Status
    BY <1>6 DEF StartCore, decodeInstruction, Handle_Prefix, Handle_REX, FetchNextByte,
       HandleOpcode, Shutdown, Status
  <2>3. Origin' = Origin
    BY <2>1, <2>2 DEF Origin
  <2> QED  BY <2>1, <2>2, <2>3, MachineStutter
<1>7. CASE UNCHANGED vars
  BY <1>7, MachineStutter DEF vars, memory, Origin, Status
<1> QED
  BY <1>1, <1>2, <1>3, <1>4, <1>5, <1>6, <1>7 DEF Next, CoreStep, Decode

(* Byte-by-byte decoding, the early advance of RIP and the exits through    *)
(* exceptions cannot be seen from outside: every behaviour of StartCore, for *)
(* any image, reset vector and mode, is one of the atomic machine, in which  *)
(* an instruction takes effect in one step or leaves all as it was.          *)
THEOREM ImplementsMachine == Spec => ImplementsISA
<1>1. Init => Machine!Init
  BY MachineInit
<1>2. VCoreInv /\ [Next]_vars => [Machine!Next]_(Machine!vars)
  BY MachineStep
<1> QED  BY <1>1, <1>2, Invariance, PTL DEF Spec, ImplementsISA, Machine!Spec

----------------------------------------------------------------------------
(* ADD and SUB compute modulo the width of their operand, for all operand   *)
(* values: the carries between the bytes of a register are right.           *)

CarryBit == {0, 1}

(* Two bytes added with a carry into the lower one.                         *)
Adds(x0, x1, y0, y1, c, c1, c2, t) ==
  /\ c1 = 1 <=> x0 + y0 + c > 255
  /\ c2 = 1 <=> x1 + y1 + c1 > 255
  /\ t = x0 + 256 * x1 + y0 + 256 * y1 + c

IsSum(x0, x1, y0, y1, c, c1, c2, t) ==
  /\ ((x0 + y0 + c) % 256) + 256 * ((x1 + y1 + c1) % 256) = t % 65536
  /\ t \div 65536 = c2

LEMMA HalfSum ==
  ASSUME NEW x0 \in Byte, NEW x1 \in Byte, NEW y0 \in Byte, NEW y1 \in Byte,
         NEW c \in CarryBit, NEW c1 \in CarryBit, NEW c2 \in CarryBit,
         NEW t \in Int, Adds(x0, x1, y0, y1, c, c1, c2, t)
  PROVE  IsSum(x0, x1, y0, y1, c, c1, c2, t)
<1> DEFINE l == x0 + y0 + c - 256 * c1
           h == x1 + y1 + c1 - 256 * c2
<1>1. x0 \in 0 .. 255 /\ x1 \in 0 .. 255 /\ y0 \in 0 .. 255 /\ y1 \in 0 .. 255
  BY DEF Byte
<1>2. l \in 0 .. 255
  BY <1>1 DEF Adds, CarryBit
<1>3. h \in 0 .. 255
  BY <1>1 DEF Adds, CarryBit
<1>4. t = 65536 * (c2) + (l + 256 * h)
  BY <1>1 DEF Adds, CarryBit
<1>5. (x0 + y0 + c) % 256 = l
  BY <1>1, <1>2 DEF CarryBit
<1>6. (x1 + y1 + c1) % 256 = h
  BY <1>1, <1>3 DEF CarryBit
<1> HIDE DEF l, h
<1>7. PICK e \in Int : e = c2
  BY DEF CarryBit
<1>8. t = 65536 * e + (l + 256 * h)
  BY <1>4, <1>7
<1>9. t % 65536 = l + 256 * h /\ t \div 65536 = e
  BY <1>2, <1>3, <1>8
<1> QED  BY <1>5, <1>6, <1>7, <1>9 DEF IsSum

(* Two bytes subtracted with a borrow from the lower one.                   *)
Subtracts(x0, x1, y0, y1, c, c1, c2, t) ==
  /\ c1 = 1 <=> x0 - y0 - c < 0
  /\ c2 = 1 <=> x1 - y1 - c1 < 0
  /\ t = (x0 + 256 * x1) - (y0 + 256 * y1) - c

IsDifference(x0, x1, y0, y1, c, c1, c2, t) ==
  /\ ((x0 - y0 - c) % 256) + 256 * ((x1 - y1 - c1) % 256) = t % 65536
  /\ t \div 65536 = 0 - c2

LEMMA HalfDifference ==
  ASSUME NEW x0 \in Byte, NEW x1 \in Byte, NEW y0 \in Byte, NEW y1 \in Byte,
         NEW c \in CarryBit, NEW c1 \in CarryBit, NEW c2 \in CarryBit,
         NEW t \in Int, Subtracts(x0, x1, y0, y1, c, c1, c2, t)
  PROVE  IsDifference(x0, x1, y0, y1, c, c1, c2, t)
<1> DEFINE l == x0 - y0 - c + 256 * c1
           h == x1 - y1 - c1 + 256 * c2
<1>1. x0 \in 0 .. 255 /\ x1 \in 0 .. 255 /\ y0 \in 0 .. 255 /\ y1 \in 0 .. 255
  BY DEF Byte
<1>2. l \in 0 .. 255
  BY <1>1 DEF Subtracts, CarryBit
<1>3. h \in 0 .. 255
  BY <1>1 DEF Subtracts, CarryBit
<1>4. t = 65536 * (0 - c2) + (l + 256 * h)
  BY <1>1 DEF Subtracts, CarryBit
<1>5. (x0 - y0 - c) % 256 = l
  BY <1>1, <1>2 DEF CarryBit
<1>6. (x1 - y1 - c1) % 256 = h
  BY <1>1, <1>3 DEF CarryBit
<1> HIDE DEF l, h
<1>7. PICK e \in Int : e = 0 - c2
  BY DEF CarryBit
<1>8. t = 65536 * e + (l + 256 * h)
  BY <1>4, <1>7
<1>9. t % 65536 = l + 256 * h /\ t \div 65536 = e
  BY <1>2, <1>3, <1>8
<1> QED  BY <1>5, <1>6, <1>7, <1>9 DEF IsDifference

----------------------------------------------------------------------------
(* Carries and borrows from byte to byte. *)

CarryIn(a, b, i) == IF Carry(a, b, i) THEN 1 ELSE 0
BorrowIn(a, b, i) == IF Borrow(a, b, i) THEN 1 ELSE 0

LEMMA CarryStep ==
  ASSUME NEW a \in Word64, NEW b \in Word64, NEW i \in 0 .. 6
  PROVE  CarryIn(a, b, i + 1) = 1 <=> a[i] + b[i] + CarryIn(a, b, i) > 255
<1>1. \A k \in Lane : a[k] \in Byte /\ b[k] \in Byte
  BY DEF Word64
<1>2. i \in Lane
  BY DEF Lane
<1>3. Carry(a, b, i + 1) <=>
        a[i] + b[i] > 255 \/ (a[i] + b[i] >= 255 /\ Carry(a, b, i))
  <2>1. ASSUME Carry(a, b, i + 1)
        PROVE  a[i] + b[i] > 255 \/ (a[i] + b[i] >= 255 /\ Carry(a, b, i))
    <3>1. PICK j \in Lane : /\ j < i + 1 /\ a[j] + b[j] > 255
                            /\ \A k \in Lane : j < k /\ k < i + 1 => a[k] + b[k] >= 255
      BY <2>1 DEF Carry
    <3>2. CASE j = i
      BY <3>1, <3>2
    <3>3. CASE j < i
      <4>1. a[i] + b[i] >= 255
        BY <1>2, <3>1, <3>3
      <4>2. \A k \in Lane : j < k /\ k < i => a[k] + b[k] >= 255
        BY <3>1 DEF Lane
      <4> QED  BY <3>1, <3>3, <4>1, <4>2 DEF Carry
    <3> QED  BY <3>1, <3>2, <3>3 DEF Lane
  <2>2. ASSUME a[i] + b[i] > 255 PROVE Carry(a, b, i + 1)
    <3>1. i < i + 1 /\ \A k \in Lane : ~ (i < k /\ k < i + 1)
      BY DEF Lane
    <3> QED  BY <1>2, <2>2, <3>1 DEF Carry
  <2>3. ASSUME a[i] + b[i] >= 255, Carry(a, b, i) PROVE Carry(a, b, i + 1)
    <3>1. PICK j \in Lane : /\ j < i /\ a[j] + b[j] > 255
                            /\ \A k \in Lane : j < k /\ k < i => a[k] + b[k] >= 255
      BY <2>3 DEF Carry
    <3>2. j < i + 1
      BY <3>1 DEF Lane
    <3>3. \A k \in Lane : j < k /\ k < i + 1 => a[k] + b[k] >= 255
      <4> TAKE k \in Lane
      <4>1. k < i + 1 => k = i \/ k < i
        BY DEF Lane
      <4> QED  BY <2>3, <3>1, <4>1
    <3> QED  BY <3>1, <3>2, <3>3 DEF Carry
  <2> QED  BY <2>1, <2>2, <2>3
<1>4. PICK s \in Int, c \in {0, 1} : s = a[i] + b[i] /\ c = CarryIn(a, b, i)
  <2>1. a[i] \in Int /\ b[i] \in Int
    BY <1>1, <1>2, SMTT(30) DEF Byte
  <2>2. PICK x \in Int, y \in Int : x = a[i] /\ y = b[i]
    BY <2>1
  <2>3. x + y \in Int
    OBVIOUS
  <2>4. CarryIn(a, b, i) \in {0, 1}
    BY DEF CarryIn, CarryBit
  <2> QED  BY <2>2, <2>3, <2>4
<1>5. (c = 1 <=> Carry(a, b, i)) /\ (CarryIn(a, b, i + 1) = 1 <=> Carry(a, b, i + 1))
  BY <1>4 DEF CarryIn
<1>6. s > 255 \/ (s >= 255 /\ c = 1) <=> s + c > 255
  BY <1>4
<1> QED  BY <1>3, <1>4, <1>5, <1>6

LEMMA BorrowStep ==
  ASSUME NEW a \in Word64, NEW b \in Word64, NEW i \in 0 .. 6
  PROVE  BorrowIn(a, b, i + 1) = 1 <=> a[i] - b[i] - BorrowIn(a, b, i) < 0
<1>1. \A k \in Lane : a[k] \in Byte /\ b[k] \in Byte
  BY DEF Word64
<1>2. i \in Lane
  BY DEF Lane
<1>3. Borrow(a, b, i + 1) <=> a[i] < b[i] \/ (a[i] <= b[i] /\ Borrow(a, b, i))
  <2>1. ASSUME Borrow(a, b, i + 1)
        PROVE  a[i] < b[i] \/ (a[i] <= b[i] /\ Borrow(a, b, i))
    <3>1. PICK j \in Lane : /\ j < i + 1 /\ a[j] < b[j]
                            /\ \A k \in Lane : j < k /\ k < i + 1 => a[k] <= b[k]
      BY <2>1 DEF Borrow
    <3>2. CASE j = i
      BY <3>1, <3>2
    <3>3. CASE j < i
      <4>1. a[i] <= b[i]
        BY <1>2, <3>1, <3>3
      <4>2. \A k \in Lane : j < k /\ k < i => a[k] <= b[k]
        BY <3>1 DEF Lane
      <4> QED  BY <3>1, <3>3, <4>1, <4>2 DEF Borrow
    <3> QED  BY <3>1, <3>2, <3>3 DEF Lane
  <2>2. ASSUME a[i] < b[i] PROVE Borrow(a, b, i + 1)
    <3>1. i < i + 1 /\ \A k \in Lane : ~ (i < k /\ k < i + 1)
      BY DEF Lane
    <3> QED  BY <1>2, <2>2, <3>1 DEF Borrow
  <2>3. ASSUME a[i] <= b[i], Borrow(a, b, i) PROVE Borrow(a, b, i + 1)
    <3>1. PICK j \in Lane : /\ j < i /\ a[j] < b[j]
                            /\ \A k \in Lane : j < k /\ k < i => a[k] <= b[k]
      BY <2>3 DEF Borrow
    <3>2. j < i + 1
      BY <3>1 DEF Lane
    <3>3. \A k \in Lane : j < k /\ k < i + 1 => a[k] <= b[k]
      <4> TAKE k \in Lane
      <4>1. k < i + 1 => k = i \/ k < i
        BY DEF Lane
      <4> QED  BY <2>3, <3>1, <4>1
    <3> QED  BY <3>1, <3>2, <3>3 DEF Borrow
  <2> QED  BY <2>1, <2>2, <2>3
<1>4. PICK x \in Int, y \in Int, c \in {0, 1} : x = a[i] /\ y = b[i] /\ c = BorrowIn(a, b, i)
  <2>1. a[i] \in Int /\ b[i] \in Int
    BY <1>1, <1>2, SMTT(30) DEF Byte
  <2>2. BorrowIn(a, b, i) \in {0, 1}
    BY DEF BorrowIn, CarryBit
  <2> QED  BY <2>1, <2>2
<1>5. (c = 1 <=> Borrow(a, b, i)) /\ (BorrowIn(a, b, i + 1) = 1 <=> Borrow(a, b, i + 1))
  BY <1>4 DEF BorrowIn
<1>6. x < y \/ (x <= y /\ c = 1) <=> x - y - c < 0
  BY <1>4
<1> QED  BY <1>3, <1>4, <1>5, <1>6

(* The two low halves of a sum and of a difference. *)
LEMMA AddHalves ==
  ASSUME NEW a \in Word64, NEW b \in Word64
  PROVE  /\ Half(Add(a, b), 0) = (Half(a, 0) + Half(b, 0)) % 65536
         /\ Half(Add(a, b), 2) =
              (Half(a, 2) + Half(b, 2) + (Half(a, 0) + Half(b, 0)) \div 65536) % 65536
<1>1. PICK x0 \in Byte, x1 \in Byte, x2 \in Byte, x3 \in Byte :
        x0 = a[0] /\ x1 = a[1] /\ x2 = a[2] /\ x3 = a[3]
  BY DEF Word64, Lane
<1>2. PICK y0 \in Byte, y1 \in Byte, y2 \in Byte, y3 \in Byte :
        y0 = b[0] /\ y1 = b[1] /\ y2 = b[2] /\ y3 = b[3]
  BY DEF Word64, Lane
<1>3. PICK k0 \in CarryBit, k1 \in CarryBit, k2 \in CarryBit, k3 \in CarryBit, k4 \in CarryBit :
        /\ k0 = CarryIn(a, b, 0) /\ k1 = CarryIn(a, b, 1) /\ k2 = CarryIn(a, b, 2)
        /\ k3 = CarryIn(a, b, 3) /\ k4 = CarryIn(a, b, 4)
  BY DEF CarryIn, CarryBit
<1>4. k0 = 0
  <2>1. ~Carry(a, b, 0)
    BY DEF Carry, Lane
  <2> QED  BY <1>3, <2>1 DEF CarryIn
<1>5. /\ k1 = 1 <=> x0 + y0 + k0 > 255
      /\ k2 = 1 <=> x1 + y1 + k1 > 255
      /\ k3 = 1 <=> x2 + y2 + k2 > 255
      /\ k4 = 1 <=> x3 + y3 + k3 > 255
  <2>1. \A i \in 0 .. 6 : CarryIn(a, b, i + 1) = 1 <=> a[i] + b[i] + CarryIn(a, b, i) > 255
    BY CarryStep
  <2>2. CarryIn(a, b, 0 + 1) = 1 <=> a[0] + b[0] + CarryIn(a, b, 0) > 255
    BY <2>1
  <2>3. CarryIn(a, b, 1 + 1) = 1 <=> a[1] + b[1] + CarryIn(a, b, 1) > 255
    BY <2>1
  <2>4. CarryIn(a, b, 2 + 1) = 1 <=> a[2] + b[2] + CarryIn(a, b, 2) > 255
    BY <2>1
  <2>5. CarryIn(a, b, 3 + 1) = 1 <=> a[3] + b[3] + CarryIn(a, b, 3) > 255
    BY <2>1
  <2> QED  BY <1>1, <1>2, <1>3, <2>2, <2>3, <2>4, <2>5
<1>6. /\ Add(a, b)[0] = (x0 + y0 + k0) % 256 /\ Add(a, b)[1] = (x1 + y1 + k1) % 256
      /\ Add(a, b)[2] = (x2 + y2 + k2) % 256 /\ Add(a, b)[3] = (x3 + y3 + k3) % 256
  BY <1>1, <1>2, <1>3 DEF Add, CarryIn, Lane
<1>7. PICK t \in Int : t = x0 + 256 * x1 + y0 + 256 * y1 + k0
  BY <1>1, <1>2, <1>3 DEF Byte, CarryBit
<1>8. PICK u \in Int : u = x2 + 256 * x3 + y2 + 256 * y3 + k2
  BY <1>1, <1>2, <1>3 DEF Byte, CarryBit
<1>14. /\ x0 \in Byte /\ x1 \in Byte /\ x2 \in Byte /\ x3 \in Byte
       /\ y0 \in Byte /\ y1 \in Byte /\ y2 \in Byte /\ y3 \in Byte
       /\ k0 \in CarryBit /\ k1 \in CarryBit /\ k2 \in CarryBit /\ k3 \in CarryBit /\ k4 \in CarryBit
       /\ t \in Int /\ u \in Int
  OBVIOUS
<1>9. /\ ((x0 + y0 + k0) % 256) + 256 * ((x1 + y1 + k1) % 256) = t % 65536
      /\ t \div 65536 = k2
  <2>1. Adds(x0, x1, y0, y1, k0, k1, k2, t)
    BY <1>5, <1>7 DEF Adds
  <2>2. IsSum(x0, x1, y0, y1, k0, k1, k2, t)
    BY <1>14, <2>1, Zenon, HalfSum
  <2> QED  BY <2>2 DEF IsSum
<1>10. ((x2 + y2 + k2) % 256) + 256 * ((x3 + y3 + k3) % 256) = u % 65536
  <2>1. Adds(x2, x3, y2, y3, k2, k3, k4, u)
    BY <1>5, <1>8 DEF Adds
  <2>2. IsSum(x2, x3, y2, y3, k2, k3, k4, u)
    BY <1>14, <2>1, Zenon, HalfSum
  <2> QED  BY <2>2 DEF IsSum
<1>11. /\ Half(a, 0) = x0 + 256 * x1 /\ Half(b, 0) = y0 + 256 * y1
       /\ Half(a, 2) = x2 + 256 * x3 /\ Half(b, 2) = y2 + 256 * y3
       /\ Half(Add(a, b), 0) = Add(a, b)[0] + 256 * Add(a, b)[1]
       /\ Half(Add(a, b), 2) = Add(a, b)[2] + 256 * Add(a, b)[3]
  <2>1. 0 + 1 = 1 /\ 2 + 1 = 3
    OBVIOUS
  <2> QED  BY <1>1, <1>2, <2>1 DEF Half
<1>12. t = Half(a, 0) + Half(b, 0)
  BY <1>1, <1>2, <1>4, <1>7, <1>11 DEF Byte, CarryBit
<1>13. u = Half(a, 2) + Half(b, 2) + k2
  BY <1>1, <1>2, <1>3, <1>8, <1>11 DEF Byte, CarryBit
<1> QED  BY <1>6, <1>9, <1>10, <1>11, <1>12, <1>13

LEMMA SubtractHalves ==
  ASSUME NEW a \in Word64, NEW b \in Word64
  PROVE  /\ Half(Subtract(a, b), 0) = (Half(a, 0) - Half(b, 0)) % 65536
         /\ Half(Subtract(a, b), 2) =
              (Half(a, 2) - Half(b, 2) + (Half(a, 0) - Half(b, 0)) \div 65536) % 65536
<1>1. PICK x0 \in Byte, x1 \in Byte, x2 \in Byte, x3 \in Byte :
        x0 = a[0] /\ x1 = a[1] /\ x2 = a[2] /\ x3 = a[3]
  BY DEF Word64, Lane
<1>2. PICK y0 \in Byte, y1 \in Byte, y2 \in Byte, y3 \in Byte :
        y0 = b[0] /\ y1 = b[1] /\ y2 = b[2] /\ y3 = b[3]
  BY DEF Word64, Lane
<1>3. PICK k0 \in CarryBit, k1 \in CarryBit, k2 \in CarryBit, k3 \in CarryBit, k4 \in CarryBit :
        /\ k0 = BorrowIn(a, b, 0) /\ k1 = BorrowIn(a, b, 1) /\ k2 = BorrowIn(a, b, 2)
        /\ k3 = BorrowIn(a, b, 3) /\ k4 = BorrowIn(a, b, 4)
  BY DEF BorrowIn, CarryBit
<1>4. k0 = 0
  <2>1. ~Borrow(a, b, 0)
    BY DEF Borrow, Lane
  <2> QED  BY <1>3, <2>1 DEF BorrowIn
<1>5. /\ k1 = 1 <=> x0 - y0 - k0 < 0
      /\ k2 = 1 <=> x1 - y1 - k1 < 0
      /\ k3 = 1 <=> x2 - y2 - k2 < 0
      /\ k4 = 1 <=> x3 - y3 - k3 < 0
  <2>1. \A i \in 0 .. 6 : BorrowIn(a, b, i + 1) = 1 <=> a[i] - b[i] - BorrowIn(a, b, i) < 0
    BY BorrowStep
  <2>2. BorrowIn(a, b, 0 + 1) = 1 <=> a[0] - b[0] - BorrowIn(a, b, 0) < 0
    BY <2>1
  <2>3. BorrowIn(a, b, 1 + 1) = 1 <=> a[1] - b[1] - BorrowIn(a, b, 1) < 0
    BY <2>1
  <2>4. BorrowIn(a, b, 2 + 1) = 1 <=> a[2] - b[2] - BorrowIn(a, b, 2) < 0
    BY <2>1
  <2>5. BorrowIn(a, b, 3 + 1) = 1 <=> a[3] - b[3] - BorrowIn(a, b, 3) < 0
    BY <2>1
  <2> QED  BY <1>1, <1>2, <1>3, <2>2, <2>3, <2>4, <2>5
<1>6. /\ Subtract(a, b)[0] = (x0 - y0 - k0) % 256 /\ Subtract(a, b)[1] = (x1 - y1 - k1) % 256
      /\ Subtract(a, b)[2] = (x2 - y2 - k2) % 256 /\ Subtract(a, b)[3] = (x3 - y3 - k3) % 256
  BY <1>1, <1>2, <1>3 DEF Subtract, BorrowIn, Lane
<1>7. PICK t \in Int : t = (x0 + 256 * x1) - (y0 + 256 * y1) - k0
  BY <1>1, <1>2, <1>3 DEF Byte, CarryBit
<1>8. PICK u \in Int : u = (x2 + 256 * x3) - (y2 + 256 * y3) - k2
  BY <1>1, <1>2, <1>3 DEF Byte, CarryBit
<1>14. /\ x0 \in Byte /\ x1 \in Byte /\ x2 \in Byte /\ x3 \in Byte
       /\ y0 \in Byte /\ y1 \in Byte /\ y2 \in Byte /\ y3 \in Byte
       /\ k0 \in CarryBit /\ k1 \in CarryBit /\ k2 \in CarryBit /\ k3 \in CarryBit /\ k4 \in CarryBit
       /\ t \in Int /\ u \in Int
  OBVIOUS
<1>9. /\ ((x0 - y0 - k0) % 256) + 256 * ((x1 - y1 - k1) % 256) = t % 65536
      /\ t \div 65536 = (0 - k2)
  <2>1. Subtracts(x0, x1, y0, y1, k0, k1, k2, t)
    BY <1>5, <1>7 DEF Subtracts
  <2>2. IsDifference(x0, x1, y0, y1, k0, k1, k2, t)
    BY <1>14, <2>1, Zenon, HalfDifference
  <2> QED  BY <2>2 DEF IsDifference
<1>10. ((x2 - y2 - k2) % 256) + 256 * ((x3 - y3 - k3) % 256) = u % 65536
  <2>1. Subtracts(x2, x3, y2, y3, k2, k3, k4, u)
    BY <1>5, <1>8 DEF Subtracts
  <2>2. IsDifference(x2, x3, y2, y3, k2, k3, k4, u)
    BY <1>14, <2>1, Zenon, HalfDifference
  <2> QED  BY <2>2 DEF IsDifference
<1>11. /\ Half(a, 0) = x0 + 256 * x1 /\ Half(b, 0) = y0 + 256 * y1
       /\ Half(a, 2) = x2 + 256 * x3 /\ Half(b, 2) = y2 + 256 * y3
       /\ Half(Subtract(a, b), 0) = Subtract(a, b)[0] + 256 * Subtract(a, b)[1]
       /\ Half(Subtract(a, b), 2) = Subtract(a, b)[2] + 256 * Subtract(a, b)[3]
  <2>1. 0 + 1 = 1 /\ 2 + 1 = 3
    OBVIOUS
  <2> QED  BY <1>1, <1>2, <2>1 DEF Half
<1>12. t = Half(a, 0) - Half(b, 0)
  BY <1>1, <1>2, <1>4, <1>7, <1>11 DEF Byte, CarryBit
<1>13. u = Half(a, 2) - Half(b, 2) + (0 - k2)
  BY <1>1, <1>2, <1>3, <1>8, <1>11 DEF Byte, CarryBit
<1> QED  BY <1>6, <1>9, <1>10, <1>11, <1>12, <1>13

----------------------------------------------------------------------------
(* From the operand to the register it is stored in. *)

(* A word or doubleword operand is the low bytes of its register, and its   *)
(* low bytes are those of the value stored.                                 *)
LEMMA OperandHalves ==
  ASSUME NEW R \in [Registers -> Word64], NEW op, NEW v \in Word64,
         op.reg \in Registers, op.size \in {16, 32}
  PROVE  /\ Half(RegisterBytes(R, op), 0) = Half(R[op.reg], 0)
         /\ Half(Write(R, op, v), 0) = Half(v, 0)
         /\ op.size = 32 =>
              /\ Half(RegisterBytes(R, op), 2) = Half(R[op.reg], 2)
              /\ Half(Write(R, op, v), 2) = Half(v, 2)
<1>1. 0 \in Lane /\ 1 \in Lane /\ 2 \in Lane /\ 3 \in Lane
  BY DEF Lane
<1>2. 0 + 1 = 1 /\ 2 + 1 = 3
  OBVIOUS
<1>3. CASE op.size = 16
  <2>1. RegisterBytes(R, op) = GetLow(R[op.reg], 2) /\ Write(R, op, v) = SetLow(R[op.reg], 2, v)
    BY <1>3 DEF RegisterBytes, Write
  <2> QED  BY <1>1, <1>2, <1>3, <2>1 DEF Half, GetLow, SetLow
<1>4. CASE op.size = 32
  <2>1. RegisterBytes(R, op) = GetLow(R[op.reg], 4) /\ Write(R, op, v) = GetLow(v, 4)
    BY <1>4 DEF RegisterBytes, Write, SetLow32Bits
  <2> QED  BY <1>1, <1>2, <2>1 DEF Half, GetLow
<1> QED  BY <1>3, <1>4

(* A byte operand is the low or the high byte of its register, and what is   *)
(* stored there is the low byte of the value.                                *)
LEMMA OperandByte ==
  ASSUME NEW R \in [Registers -> Word64], NEW op, NEW v \in Word64,
         op.reg \in Registers, op.size = 8, op.high \in BOOLEAN
  PROVE  /\ RegisterBytes(R, op)[0] = R[op.reg][LowByte(op)]
         /\ Write(R, op, v)[LowByte(op)] = v[0]
<1>1. 0 \in Lane /\ 1 \in Lane /\ R[op.reg] \in Word64
  BY DEF Lane
<1>2. CASE op.high
  <2>1. /\ RegisterBytes(R, op) = GetHigh8Bits(R[op.reg])
        /\ Write(R, op, v) = SetHigh8Bits(R[op.reg], v) /\ LowByte(op) = 1
    BY <1>2 DEF RegisterBytes, Write, LowByte
  <2> QED  BY <1>1, <2>1 DEF GetHigh8Bits, SetHigh8Bits, Zero, Word64
<1>3. CASE ~op.high
  <2>1. /\ RegisterBytes(R, op) = GetLow(R[op.reg], 1)
        /\ Write(R, op, v) = SetLow(R[op.reg], 1, v) /\ LowByte(op) = 0
    BY <1>3 DEF RegisterBytes, Write, LowByte
  <2> QED  BY <1>1, <2>1 DEF GetLow, SetLow
<1> QED  BY <1>2, <1>3

(* Nothing is carried into the lowest byte. *)
LEMMA LowestByte ==
  ASSUME NEW x \in Word64, NEW y \in Word64
  PROVE  /\ Add(x, y)[0] = (x[0] + y[0]) % 256
         /\ Subtract(x, y)[0] = (x[0] - y[0]) % 256
<1>1. 0 \in Lane /\ x[0] \in Byte /\ y[0] \in Byte
  BY DEF Lane, Word64
<1>2. ~Carry(x, y, 0) /\ ~Borrow(x, y, 0)
  BY DEF Carry, Borrow, Lane
<1>3. \A p, q \in Byte : p + q + 0 = p + q /\ p - q - 0 = p - q
  BY DEF Byte
<1>4. /\ Add(x, y)[0] = (x[0] + y[0] + (IF Carry(x, y, 0) THEN 1 ELSE 0)) % 256
      /\ Subtract(x, y)[0] = (x[0] - y[0] - (IF Borrow(x, y, 0) THEN 1 ELSE 0)) % 256
  BY <1>1 DEF Add, Subtract
<1>5. /\ (IF Carry(x, y, 0) THEN 1 ELSE 0) = 0
      /\ (IF Borrow(x, y, 0) THEN 1 ELSE 0) = 0
  BY <1>2
<1> QED  BY <1>1, <1>3, <1>4, <1>5

Wraps ==
  LET op == instr.op0
      d == regs[op.reg]
      s == SourceValue(regs, instr.op1)
      r == regs'[op.reg]
      k == LowByte(op)
      sum == Half(d, 0) + Half(s, 0)
      diff == Half(d, 0) - Half(s, 0)
  IN /\ instr.type = "ADD" =>
          /\ op.size = 8 => r[k] = (d[k] + s[0]) % 256
          /\ op.size \in {16, 32} => Half(r, 0) = sum % 65536
          /\ op.size = 32 =>
               Half(r, 2) = (Half(d, 2) + Half(s, 2) + sum \div 65536) % 65536
     /\ instr.type = "SUB" =>
          /\ op.size = 8 => r[k] = (d[k] - s[0]) % 256
          /\ op.size \in {16, 32} => Half(r, 0) = diff % 65536
          /\ op.size = 32 =>
               Half(r, 2) = (Half(d, 2) - Half(s, 2) + diff \div 65536) % 65536

LEMMA ExecutionWraps ==
  ASSUME VCoreInv, ExecuteOperation
  PROVE  Wraps
<1> DEFINE op == instr.op0
           x == RegisterBytes(regs, op)
           s == SourceValue(regs, instr.op1)
           v == Result(instr.type, x, s)
           d == regs[op.reg]
           r == regs'[op.reg]
           k == LowByte(op)
<1>1. regs \in [Registers -> Word64] /\ op \in Operand /\ instr.op1 \in Operand
  BY DEF VCoreInv, TypeOK, Instructions
<1>2. op.reg \in Registers
  BY <1>1 DEF Operand
<1>3. x \in Word64 /\ s \in Word64
  BY <1>1, RegisterBytesType DEF SourceValue, Operand
<1>4. v \in Word64
  BY <1>3, AddType, SubtractType, OrType DEF Result
<1>5. r = Write(regs, op, v)
  BY <1>1, <1>2 DEF ExecuteOperation, Effect
<1>6. /\ instr.type = "ADD" => v = Add(x, s)
      /\ instr.type = "SUB" => v = Subtract(x, s)
  BY DEF Result
<1>7. op.high \in BOOLEAN
  BY <1>1 DEF Operand
<1> HIDE DEF op, x, s, v, d, r, k
<1>8. /\ op.size = 8 => x[0] = d[k] /\ r[k] = v[0]
      /\ op.size \in {16, 32} => Half(x, 0) = Half(d, 0) /\ Half(r, 0) = Half(v, 0)
      /\ op.size = 32 => Half(x, 2) = Half(d, 2) /\ Half(r, 2) = Half(v, 2)
  <2>1. CASE op.size = 8
    BY <1>1, <1>2, <1>4, <1>5, <1>7, <2>1, OperandByte DEF x, d, k
  <2>2. CASE op.size \in {16, 32}
    BY <1>1, <1>2, <1>4, <1>5, <2>2, OperandHalves DEF x, d
  <2> QED  BY <2>1, <2>2
<1>9. CASE instr.type = "ADD"
  <2>1. v = Add(x, s) /\ instr.type # "SUB"
    BY <1>6, <1>9
  <2>2. /\ v[0] = (x[0] + s[0]) % 256
        /\ Half(v, 0) = (Half(x, 0) + Half(s, 0)) % 65536
        /\ Half(v, 2) = (Half(x, 2) + Half(s, 2) + (Half(x, 0) + Half(s, 0)) \div 65536) % 65536
    BY <1>3, <2>1, AddHalves, LowestByte
  <2>3. /\ op.size = 8 => r[k] = (d[k] + s[0]) % 256
        /\ op.size \in {16, 32} => Half(r, 0) = (Half(d, 0) + Half(s, 0)) % 65536
        /\ op.size = 32 => Half(r, 2) =
             (Half(d, 2) + Half(s, 2) + (Half(d, 0) + Half(s, 0)) \div 65536) % 65536
    BY <1>8, <2>2
  <2> QED  BY <2>1, <2>3 DEF Wraps, op, s, d, r, k
<1>10. CASE instr.type = "SUB"
  <2>1. v = Subtract(x, s) /\ instr.type # "ADD"
    BY <1>6, <1>10
  <2>2. /\ v[0] = (x[0] - s[0]) % 256
        /\ Half(v, 0) = (Half(x, 0) - Half(s, 0)) % 65536
        /\ Half(v, 2) = (Half(x, 2) - Half(s, 2) + (Half(x, 0) - Half(s, 0)) \div 65536) % 65536
    BY <1>3, <2>1, SubtractHalves, LowestByte
  <2>3. /\ op.size = 8 => r[k] = (d[k] - s[0]) % 256
        /\ op.size \in {16, 32} => Half(r, 0) = (Half(d, 0) - Half(s, 0)) % 65536
        /\ op.size = 32 => Half(r, 2) =
             (Half(d, 2) - Half(s, 2) + (Half(d, 0) - Half(s, 0)) \div 65536) % 65536
    BY <1>8, <2>2
  <2> QED  BY <2>1, <2>3 DEF Wraps, op, s, d, r, k
<1> QED  BY <1>9, <1>10 DEF Wraps

(* The carries of ADD and the borrows of SUB run through all the bytes of   *)
(* the operand and no further, for every pair of values: the destination    *)
(* holds the sum or the difference modulo 2^8, 2^16 or 2^32.                *)
THEOREM Arithmetic == Spec => ArithmeticWraps
<1>1. VCoreInv /\ [Next]_vars =>
        [ExecuteOperation => Wraps]_vars
  BY ExecutionWraps
<1> QED  BY <1>1, Invariance, PTL DEF Spec, ArithmeticWraps, Wraps

----------------------------------------------------------------------------
(* The two threads of CPU::Start. *)

(* What the two program counters and the flags say about each other. *)
CPUInv ==
  /\ HostTypeOK
  /\ pc \in PC
  /\ hasShutdown \in BOOLEAN /\ isRunning \in BOOLEAN
  /\ thread = "none" <=> host \in {"idle", "destroyed"}
  /\ thread \in {"none", "created"} => pc \in {"constructed", "returned"}
  /\ thread = "exited" => pc = "returned"
  /\ pc = "returned" => hasShutdown
  /\ pc = "starting" => isRunning
  /\ FlagClearedWhileActive

(* Every step of the core as a move of its program counter and its flags. *)
LEMMA CoreStepEffect ==
  ASSUME CoreStep
  PROVE  \/ /\ pc = "starting" /\ pc' = "decode"
            /\ hasShutdown' = FALSE /\ isRunning' = isRunning
         \/ /\ pc \in {"decode", "dispatch", "decoded", "execute"}
            /\ pc' \in {"decode", "dispatch", "decoded", "execute", "caught", "undefined"}
            /\ hasShutdown' = hasShutdown /\ isRunning' = isRunning
         \/ /\ pc = "caught" /\ pc' = "returned"
            /\ hasShutdown' = TRUE /\ isRunning' = isRunning
<1>1. CASE ClearShutdown
  BY <1>1 DEF ClearShutdown
<1>2. CASE Decode
  BY <1>2 DEF Decode, decodeInstruction, Handle_Prefix, Handle_REX, FetchNextByte,
              HandleOpcode, ThrowUndefinedOpcode, ReadPastMemory, flags
<1>3. CASE IncrementRIP
  BY <1>3 DEF IncrementRIP, flags
<1>4. CASE Execute
  BY <1>4 DEF Execute, ExecuteOperation, Handle_NOP, Handle_UD, flags
<1>5. CASE Shutdown
  BY <1>5 DEF Shutdown
<1> QED  BY <1>1, <1>2, <1>3, <1>4, <1>5 DEF CoreStep

LEMMA CPUInvInit == CPUInit => CPUInv
  BY DEF CPUInit, Init, CPUInv, HostTypeOK, PC, FlagClearedWhileActive, CoreActive

LEMMA CPUInvStep == CPUInv /\ [CPUNext]_allVars => CPUInv'
<1> SUFFICES ASSUME CPUInv, [CPUNext]_allVars
             PROVE  CPUInv'
  OBVIOUS
<1> USE DEF CPUInv, HostTypeOK, FlagClearedWhileActive, CoreActive, PC
<1>1. CASE Start
  BY <1>1 DEF Start, vars
<1>2. CASE Poll
  BY <1>2 DEF Poll, vars
<1>3. CASE Wake
  BY <1>3 DEF Wake, vars
<1>4. CASE Join
  BY <1>4 DEF Join, vars
<1>5. CASE Destroy
  BY <1>5 DEF Destroy
<1>6. CASE Enter
  BY <1>6 DEF Enter, StartCore
<1>7. CASE Run
  <2>1. thread = "live" /\ host' = host /\ thread' = thread
    BY <1>7 DEF Run
  <2>2. CoreStep
    BY <1>7 DEF Run
  <2>3. /\ pc # "constructed" /\ pc # "returned"
        /\ pc' \in PC
        /\ pc' = "returned" => hasShutdown'
        /\ pc' # "starting"
    BY <2>2, CoreStepEffect
  <2>4. hasShutdown' \in BOOLEAN /\ isRunning' \in BOOLEAN
    BY <2>2, CoreStepEffect
  <2>5. FlagClearedWhileActive'
    <3>1. CASE pc = "starting"
      BY <3>1, <2>2, CoreStepEffect
    <3>2. CASE pc \in {"decode", "dispatch", "decoded", "execute"}
      BY <3>2, <2>2, CoreStepEffect
    <3>3. CASE pc = "caught"
      BY <3>3, <2>2, CoreStepEffect
    <3> QED  BY <3>1, <3>2, <3>3, <2>2, CoreStepEffect
  <2> QED  BY <2>1, <2>3, <2>4, <2>5
<1>8. CASE Exit
  BY <1>8 DEF Exit, vars
<1>9. CASE UNCHANGED allVars
  BY <1>9 DEF allVars, vars
<1> QED
  BY <1>1, <1>2, <1>3, <1>4, <1>5, <1>6, <1>7, <1>8, <1>9
     DEF CPUNext, HostStep, ThreadStep

LEMMA CPUInvariance == CPUSpec => []CPUInv
  BY CPUInvInit, CPUInvStep, PTL DEF CPUSpec

(* The two threads are always in a known state: no step of either leaves    *)
(* the states CPU::Start and std::thread have.                              *)
THEOREM HostTypeInvariance == CPUSpec => []HostTypeOK
<1>1. CPUInv => HostTypeOK
  BY DEF CPUInv
<1> QED  BY <1>1, CPUInvariance, PTL

(* While the core decodes and executes, hasShutdown is FALSE and isRunning  *)
(* TRUE (VCORE.cpp, StartCore's stores), whatever the host thread does.     *)
THEOREM FlagTruthful == CPUSpec => []FlagClearedWhileActive
<1>1. CPUInv => FlagClearedWhileActive
  BY DEF CPUInv
<1> QED  BY <1>1, CPUInvariance, PTL

(* When CPU::Start has returned, and when the CPU is destroyed, no core     *)
(* thread is left and the core has stopped.                                 *)
THEOREM StartLeavesNothing == CPUSpec => []QuietOutsideStart
<1>1. CPUInv => QuietOutsideStart
  BY DEF CPUInv, QuietOutsideStart
<1> QED  BY <1>1, CPUInvariance, PTL

(* CPU::Start implements a synchronous call (the safety part of             *)
(* SyncStart!Spec): one whole run of the core per call, inside the call.    *)
THEOREM StartIsSynchronous == CPUSpec => Caller!Init /\ [][Caller!Next]_Caller!vars
<1>1. CPUInit => Caller!Init
  BY DEF CPUInit, Caller!Init
<1>2. CPUInv /\ [CPUNext]_allVars => [Caller!Next]_Caller!vars
  <2> SUFFICES ASSUME CPUInv, [CPUNext]_allVars
               PROVE  [Caller!Next]_Caller!vars
    OBVIOUS
  <2> USE DEF CPUInv, HostTypeOK, Caller!Next, Caller!vars
  <2>1. CASE Start
    BY <2>1 DEF Start, Caller!Call
  <2>2. CASE Poll \/ Wake
    BY <2>2 DEF Poll, Wake
  <2>3. CASE Join
    BY <2>3 DEF Join, Caller!Return
  <2>4. CASE Destroy
    BY <2>4 DEF Destroy, Caller!Destroy
  <2>5. CASE Enter
    BY <2>5 DEF Enter, Caller!Begin
  <2>6. CASE Run
    BY <2>6 DEF Run
  <2>7. CASE Exit
    BY <2>7 DEF Exit, Caller!End
  <2>8. CASE UNCHANGED allVars
    BY <2>8 DEF allVars
  <2> QED
    BY <2>1, <2>2, <2>3, <2>4, <2>5, <2>6, <2>7, <2>8 DEF CPUNext, HostStep, ThreadStep
<1> QED  BY <1>1, <1>2, CPUInvariance, PTL DEF CPUSpec
=============================================================================
