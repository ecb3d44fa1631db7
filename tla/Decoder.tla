------------------------------ MODULE Decoder ------------------------------
(***************************************************************************)
(* The decoding engine: the 256-entry handler table of VCORE.cpp and the   *)
(* handlers it points to.  A handler gets the byte it was selected by and  *)
(* `a', the address one past that byte.  The operators below say, for a    *)
(* memory image, a mode and the prefixes seen so far, which bytes the      *)
(* handler reads, whether it throws UNDEFINED_OPCODE and which instruction *)
(* it builds otherwise.                                                    *)
(*                                                                         *)
(* A memory image is the byte sequence the bus returns from address 0 on.  *)
(* Of an instruction the execution engine uses only the type, the length,  *)
(* Operand0 and Operand1: opcode bytes, Prefix1, Prefix2 and the           *)
(* address-size override are recorded by the code and never read.          *)
(***************************************************************************)
EXTENDS GPR, Sequences

Modes == {"real", "protected", "long"}

(* TargetRegister in the order of the 3-bit and 4-bit encodings. *)
RegisterOrder ==
  << "RAX", "RCX", "RDX", "RBX", "RSP", "RBP", "RSI", "RDI",
     "R8", "R9", "R10", "R11", "R12", "R13", "R14", "R15" >>

Registers ==
  {"RAX", "RCX", "RDX", "RBX", "RSP", "RBP", "RSI", "RDI",
   "R8", "R9", "R10", "R11", "R12", "R13", "R14", "R15"}

HighRegisters == {"AH", "CH", "DH", "BH"}

(* VirtualCore::GetRegister: a high-byte name denotes its full register. *)
GetRegister(name) ==
  CASE name = "AH" -> "RAX"
    [] name = "CH" -> "RCX"
    [] name = "DH" -> "RDX"
    [] name = "BH" -> "RBX"
    [] OTHER -> name

IsHighRegister(name) == name \in HighRegisters

DecodeTargetRegister(selector) == RegisterOrder[selector + 1]

DecodeTarget8BitRegister(mode, selector, hasRex) ==
  IF selector \in 4 .. 7 /\ ~(hasRex /\ mode = "long")
    THEN << "AH", "CH", "DH", "BH" >>[selector - 3]
    ELSE RegisterOrder[selector + 1]

GetTargetRegisterFromAdditiveID(selector) == RegisterOrder[selector + 1]

----------------------------------------------------------------------------
(* Prefixes, REX bits and the ModRM fields. *)

Prefixes == [opsize : BOOLEAN, rex : {0} \cup 64 .. 71]

NoPrefixes == [opsize |-> FALSE, rex |-> 0]

RexB(p) == p.rex % 2
RexR(p) == (p.rex \div 4) % 2
RexW(p) == (p.rex \div 8) % 2
(* std::bit_cast<bool> of the REX byte: the handlers test it for nonzero.  *)
HasRex(p) == p.rex # 0

ModRM_mod(m) == m \div 64
ModRM_reg(m) == (m \div 8) % 8
ModRM_rm(m) == m % 8

GetDefaultOperandSize(mode) == IF mode = "real" THEN 16 ELSE 32

(* The operand size every 16/32/64-bit handler computes. *)
OperandSize(mode, p) ==
  IF HasRex(p) /\ RexW(p) = 1
    THEN 64
    ELSE IF p.opsize THEN 48 - GetDefaultOperandSize(mode)
                     ELSE GetDefaultOperandSize(mode)

(* Bytes of memory.  Fetch is meaningful below Len(mem) only: every action *)
(* that uses it checks the range of what it reads first.                   *)
Fetch(mem, a) == IF a < Len(mem) THEN mem[a + 1] ELSE 0
FetchBytes(mem, a, n) == [i \in Lane |-> IF i < n THEN Fetch(mem, a + i) ELSE 0]

(* Bytes digestModRMAndSIB consumes. *)
ModRMAndSIB(m) == IF ModRM_mod(m) # 3 /\ ModRM_rm(m) = 4 THEN 2 ELSE 1

----------------------------------------------------------------------------
(* HandlerFuncs. *)

Handler(b) ==
  CASE b \in {240, 242, 243, 46, 54, 62, 38, 100, 101, 102, 103} -> "Handle_Prefix"
    [] b \in 64 .. 71 -> "Handle_REX"
    [] b \in {0, 6, 40} -> "Handler_rm8_r8"
    [] b = 41 -> "Handler_rm_r"
    [] b \in {2, 10, 42} -> "Handle_r8_rm8"
    [] b \in {1, 3, 9, 11, 43} -> "Handle_r_rm"
    [] b \in {4, 12, 44} -> "Handle_AL_imm8"
    [] b \in {5, 13, 45} -> "Handle_AxEaxRax_imm"
    [] b = 131 -> "Handle_GROUP1"
    [] b = 137 -> "Handle_MOV_rm_r"
    [] b \in 184 .. 191 -> "Handle_MOV_imm"
    [] b = 144 -> "Handle_NOP"
    [] b = 214 -> "Handle_UD"
    [] OTHER -> "ThrowUndefinedOpcode"

(* The InstructionType each table entry's template is instantiated with. *)
InstructionType(b) ==
  CASE b \in 0 .. 5 -> "ADD"
    [] b \in {6} \cup 9 .. 13 -> "OR"
    [] b \in 40 .. 45 -> "SUB"
    [] OTHER -> "MOV"

ModRMHandlers ==
  {"Handler_rm8_r8", "Handler_rm_r", "Handle_r8_rm8", "Handle_r_rm",
   "Handle_GROUP1", "Handle_MOV_rm_r"}

(* Bytes of immediate a handler reads. *)
ImmediateBytes(mode, p, h) ==
  CASE h \in {"Handle_AL_imm8", "Handle_GROUP1"} -> 1
    [] h = "Handle_AxEaxRax_imm" -> IF OperandSize(mode, p) = 16 THEN 2 ELSE 4
    [] h = "Handle_MOV_imm" -> OperandSize(mode, p) \div 8
    [] OTHER -> 0

(* All the bytes a handler reads from `a' on. *)
HandlerReads(mem, mode, p, a, h) ==
  (IF h \in ModRMHandlers THEN ModRMAndSIB(Fetch(mem, a)) ELSE 0)
    + ImmediateBytes(mode, p, h)

(* How far a handler moves its `address' argument: the immediates of GROUP1 *)
(* and of MOV are read without moving it.                                   *)
AddressAdvance(mem, mode, p, a, h) ==
  (IF h \in ModRMHandlers THEN ModRMAndSIB(Fetch(mem, a)) ELSE 0)
    + (IF h \in {"Handle_GROUP1", "Handle_MOV_imm"} THEN 0
                                                    ELSE ImmediateBytes(mode, p, h))

(* A handler throws on its table default, on a memory operand, on a GROUP1 *)
(* operation that is not ADD, OR or SUB and on REX outside long mode.      *)
Throws(mem, mode, a, h) ==
  \/ h = "ThrowUndefinedOpcode"
  \/ h = "Handle_REX" /\ mode # "long"
  \/ h \in ModRMHandlers /\ ModRM_mod(Fetch(mem, a)) # 3
  \/ h = "Handle_GROUP1" /\ ModRM_reg(Fetch(mem, a)) \notin {0, 1, 5}

----------------------------------------------------------------------------
(* Instructions. *)

InstructionTypes == {"ADD", "SUB", "OR", "MOV", "NOP", "UD"}

Operand ==
  [kind : {"Register", "Immediate", "None"}, reg : Registers,
   size : {0, 8, 16, 32, 64}, high : BOOLEAN, value : Word64]

Instructions ==
  [type : InstructionTypes, len : 0 .. 9, op0 : Operand, op1 : Operand]

RegisterOperand(name, size, high) ==
  [kind |-> "Register", reg |-> GetRegister(name), size |-> size,
   high |-> high, value |-> Zero]

ImmediateOperand(v, size) ==
  [kind |-> "Immediate", reg |-> "RAX", size |-> size, high |-> FALSE, value |-> v]

Instruction(type, len, op0, op1) ==
  [type |-> type, len |-> len, op0 |-> op0, op1 |-> op1]

(* OperandType::None. *)
NoOperand == [kind |-> "None", reg |-> "RAX", size |-> 0, high |-> FALSE, value |-> Zero]

(* The default member initialisers of struct Instruction. *)
FreshInstruction == Instruction("UD", 0, NoOperand, NoOperand)

Handler_rm8_r8(mem, mode, p, a, type) ==
  LET m == Fetch(mem, a)
      src == DecodeTarget8BitRegister(mode, ModRM_reg(m) + 8 * RexR(p), HasRex(p))
      dst == DecodeTarget8BitRegister(mode, ModRM_rm(m) + 8 * RexB(p), HasRex(p))
  IN Instruction(type, 2, RegisterOperand(dst, 8, IsHighRegister(dst)),
                          RegisterOperand(src, 8, IsHighRegister(src)))

(* The source operand takes its high-byte flag from the destination. *)
Handle_r8_rm8(mem, mode, p, a, type) ==
  LET m == Fetch(mem, a)
      dst == DecodeTarget8BitRegister(mode, ModRM_reg(m) + 8 * RexR(p), HasRex(p))
      src == DecodeTarget8BitRegister(mode, ModRM_rm(m) + 8 * RexB(p), HasRex(p))
  IN Instruction(type, 2, RegisterOperand(dst, 8, IsHighRegister(dst)),
                          RegisterOperand(src, 8, IsHighRegister(dst)))

(* 0x29 and MOV 0x89: the rm operand is the destination. *)
Handler_rm_r(mem, mode, p, a, type) ==
  LET m == Fetch(mem, a)
      src == DecodeTargetRegister(ModRM_reg(m) + 8 * RexR(p))
      dst == DecodeTargetRegister(ModRM_rm(m) + 8 * RexB(p))
      size == OperandSize(mode, p)
  IN Instruction(type, 2, RegisterOperand(dst, size, FALSE),
                          RegisterOperand(src, size, FALSE))

Handle_r_rm(mem, mode, p, a, type) ==
  LET m == Fetch(mem, a)
      dst == DecodeTargetRegister(ModRM_reg(m) + 8 * RexR(p))
      src == DecodeTargetRegister(ModRM_rm(m) + 8 * RexB(p))
      size == OperandSize(mode, p)
  IN Instruction(type, 2, RegisterOperand(dst, size, FALSE),
                          RegisterOperand(src, size, FALSE))

(* Faulty variant: the immediate is not counted. *)
Handle_AL_imm8Uncounted(mem, a, type) ==
  Instruction(type, 1, RegisterOperand("RAX", 8, FALSE),
                       ImmediateOperand(FetchBytes(mem, a, 1), 8))

Handle_AL_imm8(mem, a, type) ==
  Instruction(type, 2, RegisterOperand("RAX", 8, FALSE),
                       ImmediateOperand(FetchBytes(mem, a, 1), 8))

(* The length counts eight bytes for the 64-bit form, which reads four. *)
Handle_AxEaxRax_imm(mem, mode, p, a, type) ==
  LET size == OperandSize(mode, p)
      n == IF size = 16 THEN 2 ELSE 4
  IN Instruction(type, 1 + size \div 8, RegisterOperand("RAX", size, TRUE),
                 ImmediateOperand(FetchBytes(mem, a, n), IF size = 64 THEN 64 ELSE 32))

(* The immediate byte is zero extended to the operand size. *)
Handle_GROUP1(mem, mode, p, a) ==
  LET m == Fetch(mem, a)
      dst == DecodeTargetRegister(ModRM_rm(m) + 8 * RexB(p))
      size == OperandSize(mode, p)
      type == CASE ModRM_reg(m) = 0 -> "ADD"
                [] ModRM_reg(m) = 1 -> "OR"
                [] OTHER -> "SUB"
  IN Instruction(type, 2 + ModRMAndSIB(m), RegisterOperand(dst, size, FALSE),
                 ImmediateOperand(FetchBytes(mem, a + ModRMAndSIB(m), 1), size))

(* The register is taken from the opcode's low bits alone, without REX.B. *)
Handle_MOV_imm(mem, mode, p, a, b) ==
  LET size == OperandSize(mode, p)
      dst == GetTargetRegisterFromAdditiveID(b % 8)
  IN Instruction("MOV", 1 + size \div 8, RegisterOperand(dst, size, FALSE),
                 ImmediateOperand(FetchBytes(mem, a, size \div 8), size))

(* The instruction a finishing handler leaves behind. *)
DecodeOpcode(mem, mode, p, a, b) ==
  LET h == Handler(b)
      type == InstructionType(b)
  IN CASE h = "Handler_rm8_r8" -> Handler_rm8_r8(mem, mode, p, a, type)
       [] h = "Handle_r8_rm8" -> Handle_r8_rm8(mem, mode, p, a, type)
       [] h \in {"Handler_rm_r", "Handle_MOV_rm_r"} -> Handler_rm_r(mem, mode, p, a, type)
       [] h = "Handle_r_rm" -> Handle_r_rm(mem, mode, p, a, type)
       [] h = "Handle_AL_imm8" -> Handle_AL_imm8(mem, a, type)
       [] h = "Handle_AxEaxRax_imm" -> Handle_AxEaxRax_imm(mem, mode, p, a, type)
       [] h = "Handle_GROUP1" -> Handle_GROUP1(mem, mode, p, a)
       [] h = "Handle_MOV_imm" -> Handle_MOV_imm(mem, mode, p, a, b)
       [] h = "Handle_NOP" -> Instruction("NOP", 1, NoOperand, NoOperand)
       [] OTHER -> Instruction("UD", 1, NoOperand, NoOperand)
=============================================================================
