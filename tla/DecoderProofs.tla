---------------------------- MODULE DecoderProofs ----------------------------
(***************************************************************************)
(* What the decoding and execution engines return for every memory image,  *)
(* mode and sequence of prefixes: well-formed instructions, of the length  *)
(* the handlers read, and registers of eight bytes.                        *)
(***************************************************************************)
EXTENDS Executor, TLAPS

----------------------------------------------------------------------------
(* Registers and values stay eight bytes wide. *)

LEMMA GetLowType ==
  ASSUME NEW r \in Word64, NEW n \in Int
  PROVE  GetLow(r, n) \in Word64
BY DEF GetLow, Word64, Lane, Byte

LEMMA GetHighType ==
  ASSUME NEW r \in Word64
  PROVE  GetHigh8Bits(r) \in Word64
BY DEF GetHigh8Bits, Zero, Word64, Lane, Byte

LEMMA AddType ==
  ASSUME NEW a \in Word64, NEW b \in Word64
  PROVE  Add(a, b) \in Word64
<1> SUFFICES ASSUME NEW i \in Lane
             PROVE  (a[i] + b[i] + (IF Carry(a, b, i) THEN 1 ELSE 0)) % 256 \in Byte
  BY DEF Add, Word64
<1>1. a[i] \in Int /\ b[i] \in Int
  BY DEF Word64, Byte
<1>2. (IF Carry(a, b, i) THEN 1 ELSE 0) \in Int
  OBVIOUS
<1> QED  BY <1>1, <1>2 DEF Byte

LEMMA SubtractType ==
  ASSUME NEW a \in Word64, NEW b \in Word64
  PROVE  Subtract(a, b) \in Word64
<1> SUFFICES ASSUME NEW i \in Lane
             PROVE  (a[i] - b[i] - (IF Borrow(a, b, i) THEN 1 ELSE 0)) % 256 \in Byte
  BY DEF Subtract, Word64
<1>1. a[i] \in Int /\ b[i] \in Int
  BY DEF Word64, Byte
<1>2. (IF Borrow(a, b, i) THEN 1 ELSE 0) \in Int
  OBVIOUS
<1> QED  BY <1>1, <1>2 DEF Byte

LEMMA OrType ==
  ASSUME NEW a \in Word64, NEW b \in Word64
  PROVE  Or(a, b) \in Word64
<1>1. ASSUME NEW x, NEW y
      PROVE  OrByte(x, y) \in Byte
  BY DEF OrByte, OrBit, Byte
<1> QED  BY <1>1 DEF Or, Word64

LEMMA WriteType ==
  ASSUME NEW regs \in [Registers -> Word64], NEW op \in Operand, NEW v \in Word64
  PROVE  Write(regs, op, v) \in Word64
<1>1. regs[op.reg] \in Word64
  BY DEF Operand
<1>2. SetHigh8Bits(regs[op.reg], v) \in Word64
  BY <1>1 DEF SetHigh8Bits, Word64, Lane
<1>3. ASSUME NEW n \in Int
      PROVE  SetLow(regs[op.reg], n, v) \in Word64
  BY <1>1 DEF SetLow, Word64
<1>4. SetLow32Bits(v) \in Word64
  BY GetLowType DEF SetLow32Bits
<1> QED  BY <1>2, <1>3, <1>4 DEF Write

LEMMA RegisterBytesType ==
  ASSUME NEW regs \in [Registers -> Word64], NEW op \in Operand
  PROVE  RegisterBytes(regs, op) \in Word64
<1>1. regs[op.reg] \in Word64 /\ op.size \div 8 \in Int
  BY DEF Operand
<1> QED  BY <1>1, GetLowType, GetHighType DEF RegisterBytes

(* Executing an instruction leaves sixteen registers of eight bytes. *)
LEMMA EffectType ==
  ASSUME NEW regs \in [Registers -> Word64], NEW i \in Instructions
  PROVE  Effect(regs, i) \in [Registers -> Word64]
<1>1. i.op0 \in Operand /\ i.op1 \in Operand
  BY DEF Instructions
<1>2. SourceValue(regs, i.op1) \in Word64
  BY <1>1, RegisterBytesType DEF SourceValue, Operand
<1>3. RegisterBytes(regs, i.op0) \in Word64
  BY <1>1, RegisterBytesType
<1>4. Result(i.type, RegisterBytes(regs, i.op0), SourceValue(regs, i.op1)) \in Word64
  BY <1>2, <1>3, AddType, SubtractType, OrType DEF Result
<1> QED  BY <1>1, <1>4, WriteType DEF Effect

----------------------------------------------------------------------------
(* Fields of the encoding. *)

LEMMA RexBits ==
  ASSUME NEW p \in Prefixes
  PROVE  RexB(p) \in 0 .. 1 /\ RexR(p) \in 0 .. 1 /\ RexW(p) = 0
BY DEF Prefixes, RexB, RexR, RexW

LEMMA ModRMFields ==
  ASSUME NEW m \in Byte
  PROVE  ModRM_reg(m) \in 0 .. 7 /\ ModRM_rm(m) \in 0 .. 7
BY DEF Byte, ModRM_reg, ModRM_rm

LEMMA OperandSizes ==
  ASSUME NEW mode \in Modes, NEW p \in Prefixes
  PROVE  OperandSize(mode, p) \in {16, 32}
BY RexBits DEF OperandSize, GetDefaultOperandSize

LEMMA FetchType ==
  ASSUME NEW mem \in Seq(Byte), NEW a \in Nat
  PROVE  Fetch(mem, a) \in Byte
<1>1. CASE a < Len(mem)
  <2>1. a + 1 \in 1 .. Len(mem)
    BY <1>1
  <2>2. mem[a + 1] \in Byte
    BY <2>1
  <2> QED  BY <1>1, <2>2 DEF Fetch
<1>2. CASE ~(a < Len(mem))
  BY <1>2 DEF Fetch, Byte
<1> QED  BY <1>1, <1>2

LEMMA FetchBytesType ==
  ASSUME NEW mem \in Seq(Byte), NEW a \in Nat, NEW n \in Int
  PROVE  FetchBytes(mem, a, n) \in Word64
<1> SUFFICES ASSUME NEW i \in Lane
             PROVE  (IF i < n THEN Fetch(mem, a + i) ELSE 0) \in Byte
  BY DEF FetchBytes, Word64
<1>1. a + i \in Nat
  BY DEF Lane
<1>2. Fetch(mem, a + i) \in Byte
  BY <1>1, FetchType
<1> QED  BY <1>2 DEF Byte

LEMMA RegisterSelectors ==
  ASSUME NEW s \in 0 .. 15
  PROVE  RegisterOrder[s + 1] \in Registers
BY DEF RegisterOrder, Registers

LEMMA TargetRegister ==
  ASSUME NEW s \in 0 .. 15
  PROVE  DecodeTargetRegister(s) \in Registers
BY RegisterSelectors DEF DecodeTargetRegister

LEMMA TargetRegister8 ==
  ASSUME NEW s \in 0 .. 15, NEW mode, NEW hasRex \in BOOLEAN
  PROVE  GetRegister(DecodeTarget8BitRegister(mode, s, hasRex)) \in Registers
<1>1. DecodeTarget8BitRegister(mode, s, hasRex) \in Registers \cup HighRegisters
  BY RegisterSelectors DEF DecodeTarget8BitRegister, HighRegisters
<1> QED  BY <1>1 DEF GetRegister, Registers, HighRegisters

----------------------------------------------------------------------------
(* Instructions. *)

LEMMA RegisterOperandType ==
  ASSUME NEW size \in {8, 16, 32, 64}, NEW high \in BOOLEAN,
         NEW name, GetRegister(name) \in Registers
  PROVE  RegisterOperand(name, size, high) \in Operand
BY DEF RegisterOperand, Operand, Word64, Zero, Lane, Byte

LEMMA ImmediateOperandType ==
  ASSUME NEW size \in {8, 16, 32, 64}, NEW v \in Word64
  PROVE  ImmediateOperand(v, size) \in Operand
BY DEF ImmediateOperand, Operand, Registers

LEMMA GetRegisterFull ==
  ASSUME NEW name \in Registers
  PROVE  GetRegister(name) = name
BY DEF GetRegister, Registers

LEMMA InstructionFields ==
  ASSUME NEW type \in InstructionTypes, NEW len \in 0 .. 9,
         NEW op0 \in Operand, NEW op1 \in Operand
  PROVE  Instruction(type, len, op0, op1) \in Instructions
BY DEF Instruction, Instructions

LEMMA NoOperandType == NoOperand \in Operand
BY DEF NoOperand, Operand, Registers, Word64, Zero, Lane, Byte

LEMMA FreshInstructionType == FreshInstruction \in Instructions
BY NoOperandType, InstructionFields DEF FreshInstruction, InstructionTypes

(* A register selected by a ModRM field and its REX bit. *)
LEMMA SelectedRegister ==
  ASSUME NEW p \in Prefixes, NEW f \in 0 .. 7, NEW bit \in {RexB(p), RexR(p)}, NEW mode
  PROVE  /\ GetRegister(DecodeTargetRegister(f + 8 * bit)) \in Registers
         /\ GetRegister(DecodeTarget8BitRegister(mode, f + 8 * bit, HasRex(p))) \in Registers
<1>1. f + 8 * bit \in 0 .. 15
  BY RexBits
<1>2. HasRex(p) \in BOOLEAN
  BY DEF HasRex
<1> QED  BY <1>1, <1>2, TargetRegister, GetRegisterFull, TargetRegister8

LEMMA Decode8BitType ==
  ASSUME NEW mem \in Seq(Byte), NEW mode, NEW p \in Prefixes, NEW a \in Nat,
         NEW type \in InstructionTypes
  PROVE  /\ Handler_rm8_r8(mem, mode, p, a, type) \in Instructions
         /\ Handle_r8_rm8(mem, mode, p, a, type) \in Instructions
<1> DEFINE m == Fetch(mem, a)
           r == DecodeTarget8BitRegister(mode, ModRM_reg(m) + 8 * RexR(p), HasRex(p))
           b == DecodeTarget8BitRegister(mode, ModRM_rm(m) + 8 * RexB(p), HasRex(p))
<1>1. ModRM_reg(m) \in 0 .. 7 /\ ModRM_rm(m) \in 0 .. 7
  BY FetchType, ModRMFields
<1>2. GetRegister(r) \in Registers /\ GetRegister(b) \in Registers
  BY <1>1, SelectedRegister
<1> HIDE DEF r, b
<1>3. IsHighRegister(r) \in BOOLEAN /\ IsHighRegister(b) \in BOOLEAN
  BY DEF IsHighRegister
<1>4. \A h \in BOOLEAN : /\ RegisterOperand(r, 8, h) \in Operand
                         /\ RegisterOperand(b, 8, h) \in Operand
  BY <1>2, RegisterOperandType
<1>5. Handler_rm8_r8(mem, mode, p, a, type)
        = Instruction(type, 2, RegisterOperand(b, 8, IsHighRegister(b)),
                               RegisterOperand(r, 8, IsHighRegister(r)))
  BY DEF Handler_rm8_r8, r, b
<1>6. Handle_r8_rm8(mem, mode, p, a, type)
        = Instruction(type, 2, RegisterOperand(r, 8, IsHighRegister(r)),
                               RegisterOperand(b, 8, IsHighRegister(r)))
  BY DEF Handle_r8_rm8, r, b
<1> QED  BY <1>3, <1>4, <1>5, <1>6, InstructionFields

LEMMA DecodeWideType ==
  ASSUME NEW mem \in Seq(Byte), NEW mode \in Modes, NEW p \in Prefixes, NEW a \in Nat,
         NEW type \in InstructionTypes
  PROVE  /\ Handler_rm_r(mem, mode, p, a, type) \in Instructions
         /\ Handle_r_rm(mem, mode, p, a, type) \in Instructions
<1> DEFINE m == Fetch(mem, a)
           r == DecodeTargetRegister(ModRM_reg(m) + 8 * RexR(p))
           b == DecodeTargetRegister(ModRM_rm(m) + 8 * RexB(p))
           size == OperandSize(mode, p)
<1>1. ModRM_reg(m) \in 0 .. 7 /\ ModRM_rm(m) \in 0 .. 7
  BY FetchType, ModRMFields
<1>2. GetRegister(r) \in Registers /\ GetRegister(b) \in Registers
  BY <1>1, SelectedRegister
<1>3. size \in {8, 16, 32, 64}
  BY OperandSizes
<1> DEFINE R == RegisterOperand(r, size, FALSE)
           B == RegisterOperand(b, size, FALSE)
<1>4. R \in Operand /\ B \in Operand
  BY <1>2, <1>3, RegisterOperandType, ZenonT(30)
<1>5. Handler_rm_r(mem, mode, p, a, type) = Instruction(type, 2, B, R)
  BY DEF Handler_rm_r
<1>6. Handle_r_rm(mem, mode, p, a, type) = Instruction(type, 2, R, B)
  BY DEF Handle_r_rm
<1> HIDE DEF R, B
<1> QED  BY <1>4, <1>5, <1>6, InstructionFields

LEMMA DecodeImmediateType ==
  ASSUME NEW mem \in Seq(Byte), NEW mode \in Modes, NEW p \in Prefixes, NEW a \in Nat,
         NEW b \in Byte, NEW type \in InstructionTypes
  PROVE  /\ Handle_AL_imm8(mem, a, type) \in Instructions
         /\ Handle_AxEaxRax_imm(mem, mode, p, a, type) \in Instructions
         /\ Handle_MOV_imm(mem, mode, p, a, b) \in Instructions
<1> DEFINE size == OperandSize(mode, p)
           n == IF size = 16 THEN 2 ELSE 4
           dst == GetTargetRegisterFromAdditiveID(b % 8)
<1>1. size \in {16, 32} /\ size \div 8 \in {2, 4} /\ n \in {2, 4}
  BY OperandSizes
<1>2. GetRegister(dst) \in Registers /\ GetRegister("RAX") \in Registers
  <2>1. b % 8 \in 0 .. 15
    BY DEF Byte
  <2>2. dst \in Registers
    BY <2>1, RegisterSelectors DEF GetTargetRegisterFromAdditiveID
  <2>3. "RAX" \in Registers
    BY DEF Registers
  <2> QED  BY <2>2, <2>3, GetRegisterFull
<1>3. ASSUME NEW k \in Int, NEW s \in {8, 16, 32, 64}
      PROVE  ImmediateOperand(FetchBytes(mem, a, k), s) \in Operand
  BY FetchBytesType, ImmediateOperandType
<1>4. Handle_AL_imm8(mem, a, type) \in Instructions
  <2> DEFINE D == RegisterOperand("RAX", 8, FALSE)
             I == ImmediateOperand(FetchBytes(mem, a, 1), 8)
  <2>1. D \in Operand
    BY <1>2, RegisterOperandType
  <2>2. I \in Operand
    BY <1>3
  <2>3. Handle_AL_imm8(mem, a, type) = Instruction(type, 2, D, I)
    BY DEF Handle_AL_imm8
  <2> HIDE DEF D, I
  <2> QED  BY <2>1, <2>2, <2>3, InstructionFields
<1>5. Handle_AxEaxRax_imm(mem, mode, p, a, type) \in Instructions
  <2> DEFINE D == RegisterOperand("RAX", size, TRUE)
             s == IF size = 64 THEN 64 ELSE 32
             I == ImmediateOperand(FetchBytes(mem, a, n), s)
  <2>1. D \in Operand
    BY <1>1, <1>2, RegisterOperandType
  <2>2. s \in {32, 64} /\ n \in Int /\ 1 + size \div 8 \in 0 .. 9
    BY <1>1
  <2>3. I \in Operand
    <3> HIDE DEF n, s
    <3> QED  BY <2>2, <1>3
  <2>4. Handle_AxEaxRax_imm(mem, mode, p, a, type) = Instruction(type, 1 + size \div 8, D, I)
    BY DEF Handle_AxEaxRax_imm
  <2> HIDE DEF D, I, size
  <2> QED  BY <2>1, <2>2, <2>3, <2>4, InstructionFields
<1>6. Handle_MOV_imm(mem, mode, p, a, b) \in Instructions
  <2> DEFINE D == RegisterOperand(dst, size, FALSE)
             I == ImmediateOperand(FetchBytes(mem, a, size \div 8), size)
  <2>1. D \in Operand
    BY <1>1, <1>2, RegisterOperandType
  <2>2. 1 + size \div 8 \in 0 .. 9 /\ size \div 8 \in Int
    BY <1>1
  <2>3. I \in Operand
    <3> HIDE DEF size
    <3> QED  BY <1>1, <1>3, <2>2
  <2>4. Handle_MOV_imm(mem, mode, p, a, b) = Instruction("MOV", 1 + size \div 8, D, I)
    BY DEF Handle_MOV_imm
  <2>5. "MOV" \in InstructionTypes
    BY DEF InstructionTypes
  <2> HIDE DEF D, I, size
  <2> QED  BY <2>1, <2>2, <2>3, <2>4, <2>5, InstructionFields
<1> QED  BY <1>4, <1>5, <1>6

LEMMA DecodeGroup1Type ==
  ASSUME NEW mem \in Seq(Byte), NEW mode \in Modes, NEW p \in Prefixes, NEW a \in Nat
  PROVE  Handle_GROUP1(mem, mode, p, a) \in Instructions
<1> DEFINE m == Fetch(mem, a)
           dst == DecodeTargetRegister(ModRM_rm(m) + 8 * RexB(p))
           size == OperandSize(mode, p)
           type == CASE ModRM_reg(m) = 0 -> "ADD"
                     [] ModRM_reg(m) = 1 -> "OR"
                     [] OTHER -> "SUB"
           len == 2 + ModRMAndSIB(m)
           D == RegisterOperand(dst, size, FALSE)
           I == ImmediateOperand(FetchBytes(mem, a + ModRMAndSIB(m), 1), size)
<1>1. ModRM_rm(m) \in 0 .. 7
  BY FetchType, ModRMFields
<1>2. GetRegister(dst) \in Registers
  BY <1>1, SelectedRegister
<1>3. size \in {8, 16, 32, 64}
  BY OperandSizes
<1>4. ModRMAndSIB(m) \in 1 .. 2
  BY DEF ModRMAndSIB
<1>5. D \in Operand
  BY <1>2, <1>3, RegisterOperandType
<1>6. I \in Operand
  <2>1. a + ModRMAndSIB(m) \in Nat
    BY <1>4
  <2>2. FetchBytes(mem, a + ModRMAndSIB(m), 1) \in Word64
    BY <2>1, FetchBytesType
  <2> QED  BY <1>3, <2>2, ImmediateOperandType
<1>7. type \in InstructionTypes
  BY DEF InstructionTypes
<1>8. len \in 0 .. 9
  BY <1>4
<1>9. Handle_GROUP1(mem, mode, p, a) = Instruction(type, len, D, I)
  BY DEF Handle_GROUP1
<1> HIDE DEF D, I, type, len
<1> QED  BY <1>5, <1>6, <1>7, <1>8, <1>9, InstructionFields

(* Whatever bytes follow the prefixes, the decoder leaves an instruction the *)
(* execution engine has a case for.                                          *)
LEMMA DecodeOpcodeType ==
  ASSUME NEW mem \in Seq(Byte), NEW mode \in Modes, NEW p \in Prefixes, NEW a \in Nat,
         NEW b \in Byte
  PROVE  DecodeOpcode(mem, mode, p, a, b) \in Instructions
<1>1. InstructionType(b) \in InstructionTypes
  BY DEF InstructionType, InstructionTypes
<1>2. Instruction("NOP", 1, NoOperand, NoOperand) \in Instructions
  BY NoOperandType, InstructionFields DEF InstructionTypes
<1>3. Instruction("UD", 1, NoOperand, NoOperand) \in Instructions
  BY NoOperandType, InstructionFields DEF InstructionTypes
<1> QED
  BY <1>1, <1>2, <1>3, Decode8BitType, DecodeWideType, DecodeImmediateType,
     DecodeGroup1Type DEF DecodeOpcode

----------------------------------------------------------------------------
(* The bytes of an instruction. *)

LEMMA PrefixHandlers ==
  /\ Handler(102) = "Handle_Prefix"
  /\ \A b \in Byte : Handler(b) = "Handle_REX" <=> b \in 64 .. 71
BY DEF Handler, Byte

LEMMA HandlerReadsType ==
  ASSUME NEW mem, NEW mode \in Modes, NEW p \in Prefixes, NEW a, NEW h
  PROVE  HandlerReads(mem, mode, p, a, h) \in Nat
<1>1. ModRMAndSIB(Fetch(mem, a)) \in Nat
  BY DEF ModRMAndSIB
<1>2. ImmediateBytes(mode, p, h) \in Nat
  BY OperandSizes DEF ImmediateBytes
<1> QED  BY <1>1, <1>2 DEF HandlerReads

LEMMA AddressAdvanceType ==
  ASSUME NEW mem, NEW mode \in Modes, NEW p \in Prefixes, NEW a, NEW h
  PROVE  AddressAdvance(mem, mode, p, a, h) \in Nat
<1>1. ModRMAndSIB(Fetch(mem, a)) \in Nat
  BY DEF ModRMAndSIB
<1>2. ImmediateBytes(mode, p, h) \in Nat
  BY OperandSizes DEF ImmediateBytes
<1> QED  BY <1>1, <1>2 DEF AddressAdvance

(* The length each handler counts is the opcode byte and what it fetched    *)
(* after it.  Without REX.W no operand is 64 bits wide, the one width at     *)
(* which Handle_AxEaxRax_imm16imm32 counts more bytes than it reads.         *)
LEMMA LengthIsBytesRead ==
  ASSUME NEW mem \in Seq(Byte), NEW mode \in Modes, NEW p \in Prefixes, NEW a \in Nat,
         NEW b \in Byte,
         Handler(b) \notin {"Handle_Prefix", "Handle_REX"},
         ~Throws(mem, mode, a, Handler(b))
  PROVE  DecodeOpcode(mem, mode, p, a, b).len
           = 1 + HandlerReads(mem, mode, p, a, Handler(b))
<1> DEFINE h == Handler(b)
           m == Fetch(mem, a)
<1>1. OperandSize(mode, p) \in {16, 32}
  BY OperandSizes
<1>2. h \in ModRMHandlers => ModRMAndSIB(m) = 1
  BY DEF Throws, ModRMAndSIB
<1>3. h \in {"Handler_rm8_r8", "Handle_r8_rm8", "Handler_rm_r", "Handle_MOV_rm_r",
             "Handle_r_rm", "Handle_AL_imm8", "Handle_AxEaxRax_imm", "Handle_GROUP1",
             "Handle_MOV_imm", "Handle_NOP", "Handle_UD"}
  BY DEF Handler, Throws
<1>4. CASE h \in {"Handler_rm8_r8", "Handle_r8_rm8", "Handler_rm_r", "Handle_MOV_rm_r", "Handle_r_rm"}
  BY <1>2, <1>4 DEF DecodeOpcode, HandlerReads, ImmediateBytes, ModRMHandlers, Instruction,
     Handler_rm8_r8, Handle_r8_rm8, Handler_rm_r, Handle_r_rm
<1>5. CASE h = "Handle_AL_imm8"
  BY <1>5 DEF DecodeOpcode, HandlerReads, ImmediateBytes, ModRMHandlers, Instruction,
     Handle_AL_imm8
<1>6. CASE h = "Handle_AxEaxRax_imm"
  BY <1>1, <1>6 DEF DecodeOpcode, HandlerReads, ImmediateBytes, ModRMHandlers, Instruction,
     Handle_AxEaxRax_imm
<1>7. CASE h = "Handle_GROUP1"
  BY <1>2, <1>7 DEF DecodeOpcode, HandlerReads, ImmediateBytes, ModRMHandlers, Instruction,
     Handle_GROUP1
<1>8. CASE h = "Handle_MOV_imm"
  BY <1>1, <1>8 DEF DecodeOpcode, HandlerReads, ImmediateBytes, ModRMHandlers, Instruction,
     Handle_MOV_imm
<1>9. CASE h \in {"Handle_NOP", "Handle_UD"}
  BY <1>9 DEF DecodeOpcode, HandlerReads, ImmediateBytes, ModRMHandlers, Instruction
<1> QED  BY <1>3, <1>4, <1>5, <1>6, <1>7, <1>8, <1>9

(* Without REX.W every operand is at most 32 bits wide. *)
LEMMA DestinationSize ==
  ASSUME NEW mem, NEW mode \in Modes, NEW p \in Prefixes, NEW a, NEW b,
         DecodeOpcode(mem, mode, p, a, b).type \in Operations
  PROVE  DecodeOpcode(mem, mode, p, a, b).op0.size \in {8, 16, 32}
<1>1. OperandSize(mode, p) \in {16, 32}
  BY OperandSizes
<1>2. "NOP" \notin Operations /\ "UD" \notin Operations
  BY DEF Operations
<1> DEFINE t == InstructionType(b)
<1>3. /\ Handler_rm8_r8(mem, mode, p, a, t).op0.size = 8
      /\ Handle_r8_rm8(mem, mode, p, a, t).op0.size = 8
      /\ Handle_AL_imm8(mem, a, t).op0.size = 8
  BY DEF Handler_rm8_r8, Handle_r8_rm8, Handle_AL_imm8, Instruction, RegisterOperand
<1>4. /\ Handler_rm_r(mem, mode, p, a, t).op0.size = OperandSize(mode, p)
      /\ Handle_r_rm(mem, mode, p, a, t).op0.size = OperandSize(mode, p)
      /\ Handle_AxEaxRax_imm(mem, mode, p, a, t).op0.size = OperandSize(mode, p)
  BY DEF Handler_rm_r, Handle_r_rm, Handle_AxEaxRax_imm, Instruction, RegisterOperand
<1>5. /\ Handle_GROUP1(mem, mode, p, a).op0.size = OperandSize(mode, p)
      /\ Handle_MOV_imm(mem, mode, p, a, b).op0.size = OperandSize(mode, p)
  BY DEF Handle_GROUP1, Handle_MOV_imm, Instruction, RegisterOperand
<1>6. /\ Instruction("NOP", 1, NoOperand, NoOperand).type \notin Operations
      /\ Instruction("UD", 1, NoOperand, NoOperand).type \notin Operations
  BY <1>2 DEF Instruction
<1> HIDE DEF t
<1> QED
  BY <1>1, <1>3, <1>4, <1>5, <1>6 DEF DecodeOpcode, t

(* The bytes of a register a store leaves alone or clears. *)
LEMMA NarrowWrite ==
  ASSUME NEW R \in [Registers -> Word64], NEW op, op.reg \in Registers,
         op.high \in BOOLEAN, op.size \in {8, 16, 32}, NEW v
  PROVE  \/ op.size = 32 /\ \A i \in 4 .. 7 : Write(R, op, v)[i] = 0
         \/ op.size = 16 /\ \A i \in 2 .. 7 : Write(R, op, v)[i] = R[op.reg][i]
         \/ /\ op.size = 8 /\ op.high
            /\ \A i \in Lane \ {1} : Write(R, op, v)[i] = R[op.reg][i]
         \/ /\ op.size = 8 /\ ~op.high
            /\ \A i \in Lane \ {0} : Write(R, op, v)[i] = R[op.reg][i]
<1>1. R[op.reg] \in [Lane -> Byte]
  BY DEF Word64
<1>2. CASE op.size = 32
  BY <1>2 DEF Write, SetLow32Bits, GetLow, Lane
<1>3. CASE op.size = 16
  BY <1>3 DEF Write, SetLow, Lane
<1>4. CASE op.size = 8 /\ op.high
  <2>1. Write(R, op, v) = [R[op.reg] EXCEPT ![1] = v[0]]
    BY <1>4 DEF Write, SetHigh8Bits
  <2> QED  BY <1>1, <1>4, <2>1
<1>5. CASE op.size = 8 /\ ~op.high
  <2>1. Write(R, op, v) = SetLow(R[op.reg], 1, v)
    BY <1>5 DEF Write
  <2>2. \A i \in Lane \ {0} : ~(i < 1)
    BY DEF Lane
  <2> QED  BY <1>5, <2>1, <2>2 DEF SetLow
<1> QED  BY <1>2, <1>3, <1>4, <1>5
=============================================================================
