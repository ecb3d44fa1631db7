------------------------------- MODULE VCore -------------------------------
(***************************************************************************)
(* One virtual core (VCORE.cpp): construction, and the loop of StartCore,  *)
(* which decodes one instruction byte by byte, advances RIP and executes.  *)
(*                                                                         *)
(* The memory behind the bus is an image the core reads and never writes:  *)
(* no handler calls WriteBytes.  Reading past the image indexes            *)
(* MemoryPages outside its bounds, which is undefined behaviour; the core  *)
(* then is "undefined" and nothing is claimed about it any more.           *)
(***************************************************************************)
EXTENDS Executor

CONSTANTS
  Images,        \* the memory images a core may be started on
  ResetVector,   \* the initial RIP
  StartupModes   \* the startup modes explored

ASSUME ImagesAssumption == Images \subseteq Seq(Byte)
ASSUME ResetVectorAssumption == ResetVector \in Nat
ASSUME StartupModesAssumption == StartupModes \subseteq Modes

VARIABLES
  mem,          \* what the bus returns, from address 0 on
  PE,           \* CR0.PE
  LMA,          \* EFER.LMA
  regs,         \* the sixteen general purpose registers
  rip,          \* RIP
  pc,           \* where StartCore is
  address,      \* decodeInstruction's cursor
  byte,         \* the byte being dispatched
  prefixes,     \* the prefixes collected for the instruction
  instr,        \* the instruction being built
  isRunning,
  hasShutdown

memory == << mem, PE, LMA >>
flags == << isRunning, hasShutdown >>
cursor == << address, byte, prefixes >>
vars == << mem, PE, LMA, regs, rip, pc, address, byte, prefixes, instr,
           isRunning, hasShutdown >>

PC == {"constructed", "starting", "decode", "dispatch", "decoded", "execute", 
       "caught", "returned", "undefined"}

getMode ==
  CASE LMA /\ ~PE -> "long"
    [] ~LMA /\ PE -> "protected"
    [] OTHER -> "real"

(* The constructor. *)
Init ==
  /\ mem \in Images
  /\ \E startupMode \in StartupModes :
        /\ PE = (startupMode = "protected")
        /\ LMA = (startupMode = "long")
  /\ regs = [r \in Registers |-> Zero]
  /\ rip = ResetVector
  /\ pc = "constructed"
  /\ address = 0
  /\ byte = 0
  /\ prefixes = NoPrefixes
  /\ instr = FreshInstruction
  /\ isRunning = FALSE
  /\ hasShutdown = FALSE

(* StartCore is entered; CPU::Start may call it again after it returned.   *)
(* Its two stores are separate: a reader may see the old hasShutdown with   *)
(* the new isRunning.                                                       *)
StartCore ==
  /\ pc \in {"constructed", "returned"}
  /\ isRunning' = TRUE
  /\ pc' = "starting"
  /\ UNCHANGED << memory, regs, rip, cursor, instr, hasShutdown >>

(* Faulty variant: the flag of the previous call survives. *)
ClearShutdownForgotten ==
  /\ pc = "starting"
  /\ pc' = "decode"
  /\ UNCHANGED << memory, regs, rip, cursor, instr, flags >>

ClearShutdown ==
  /\ pc = "starting"
  /\ hasShutdown' = FALSE
  /\ pc' = "decode"
  /\ UNCHANGED << memory, regs, rip, cursor, instr, isRunning >>

(* Faulty variant: the prefixes outlive their instruction. *)
decodeInstructionStalePrefixes ==
  /\ pc = "decode"
  /\ rip < Len(mem)
  /\ byte' = Fetch(mem, rip)
  /\ address' = rip + 1
  /\ instr' = FreshInstruction
  /\ pc' = "dispatch"
  /\ UNCHANGED << memory, regs, rip, prefixes, flags >>

(* A fresh Instruction and fresh Prefixes, and the first byte. *)
decodeInstruction ==
  /\ pc = "decode"
  /\ rip < Len(mem)
  /\ byte' = Fetch(mem, rip)
  /\ address' = rip + 1
  /\ prefixes' = NoPrefixes
  /\ instr' = FreshInstruction
  /\ pc' = "dispatch"
  /\ UNCHANGED << memory, regs, rip, flags >>

(* Faulty variant: the cursor stays. *)
FetchSameByte ==
  /\ address < Len(mem)
  /\ byte' = Fetch(mem, address)
  /\ UNCHANGED << memory, regs, rip, pc, address, instr, flags >>

(* The handler returned false: the loop of decodeInstruction fetches on. *)
FetchNextByte ==
  /\ address < Len(mem)
  /\ byte' = Fetch(mem, address)
  /\ address' = address + 1
  /\ UNCHANGED << memory, regs, rip, pc, instr, flags >>

Handle_Prefix ==
  /\ pc = "dispatch"
  /\ Handler(byte) = "Handle_Prefix"
  /\ prefixes' = [prefixes EXCEPT !.opsize = @ \/ byte = 102]
  /\ FetchNextByte

Handle_REX ==
  /\ pc = "dispatch"
  /\ Handler(byte) = "Handle_REX"
  /\ getMode = "long"
  /\ prefixes' = [prefixes EXCEPT !.rex = byte]
  /\ FetchNextByte

(* Everything the selected handler reads lies in the image. *)
ReadsInRange ==
  address + HandlerReads(mem, getMode, prefixes, address, Handler(byte)) <= Len(mem)

(* A handler that finishes the instruction. *)
HandleOpcode ==
  /\ pc = "dispatch"
  /\ Handler(byte) \notin {"Handle_Prefix", "Handle_REX"}
  /\ ReadsInRange
  /\ ~Throws(mem, getMode, address, Handler(byte))
  /\ instr' = DecodeOpcode(mem, getMode, prefixes, address, byte)
  /\ address' = address + AddressAdvance(mem, getMode, prefixes, address, Handler(byte))
  /\ pc' = "decoded"
  /\ UNCHANGED << memory, regs, rip, byte, prefixes, flags >>

(* Faulty variant: RIP follows the cursor of the rejected instruction. *)
ThrowPastOpcode ==
  /\ pc = "dispatch"
  /\ ReadsInRange
  /\ Throws(mem, getMode, address, Handler(byte))
  /\ pc' = "caught"
  /\ rip' = address
  /\ UNCHANGED << memory, regs, cursor, instr, flags >>

(* A handler that throws: StartCore's catch block. *)
ThrowUndefinedOpcode ==
  /\ pc = "dispatch"
  /\ ReadsInRange
  /\ Throws(mem, getMode, address, Handler(byte))
  /\ pc' = "caught"
  /\ UNCHANGED << memory, regs, rip, cursor, instr, flags >>

IncrementRIP ==
  /\ pc = "decoded"
  /\ rip' = rip + instr.len
  /\ pc' = "execute"
  /\ UNCHANGED << memory, regs, cursor, instr, flags >>

ExecuteOperation ==
  /\ pc = "execute"
  /\ instr.type \in Operations
  /\ regs' = Effect(regs, instr)
  /\ pc' = "decode"
  /\ UNCHANGED << memory, rip, cursor, instr, flags >>

Handle_NOP ==
  /\ pc = "execute"
  /\ instr.type = "NOP"
  /\ pc' = "decode"
  /\ UNCHANGED << memory, regs, rip, cursor, instr, flags >>

Handle_UD ==
  /\ pc = "execute"
  /\ instr.type = "UD"
  /\ pc' = "caught"
  /\ UNCHANGED << memory, regs, rip, cursor, instr, flags >>

----------------------------------------------------------------------------

(* Faulty variant: the loop is left without raising the flag. *)
ShutdownSilently ==
  /\ pc = "caught"
  /\ pc' = "returned"
  /\ UNCHANGED << memory, regs, rip, cursor, instr, flags >>

(* After the catch block. *)
Shutdown ==
  /\ pc = "caught"
  /\ hasShutdown' = TRUE
  /\ pc' = "returned"
  /\ UNCHANGED << memory, regs, rip, cursor, instr, isRunning >>

(* The next read of the decoder leaves the image. *)
ReadPastMemory ==
  /\ \/ pc = "decode" /\ rip >= Len(mem)
     \/ pc = "dispatch" /\ ~ReadsInRange
     \/ /\ pc = "dispatch"
        /\ \/ Handler(byte) = "Handle_Prefix"
           \/ Handler(byte) = "Handle_REX" /\ getMode = "long"
        /\ address >= Len(mem)
  /\ pc' = "undefined"
  /\ UNCHANGED << memory, regs, rip, cursor, instr, flags >>

Decode ==
  \/ decodeInstruction \/ Handle_Prefix \/ Handle_REX \/ HandleOpcode
  \/ ThrowUndefinedOpcode \/ ReadPastMemory

Execute == ExecuteOperation \/ Handle_NOP \/ Handle_UD

(* The steps of the thread inside StartCore. *)
CoreStep == ClearShutdown \/ Decode \/ IncrementRIP \/ Execute \/ Shutdown

Next == StartCore \/ CoreStep

Spec == Init /\ [][Next]_vars

(* The operating system keeps scheduling the core's thread. *)
FairSpec == Spec /\ WF_vars(CoreStep)

----------------------------------------------------------------------------
(* Properties. *)

(* Every value keeps the width its C++ type has: registers and immediates  *)
(* are eight bytes whatever arithmetic the handlers did, and an operand     *)
(* names a register and a size the execution handlers have a case for.      *)
TypeOK ==
  /\ mem \in Images
  /\ PE \in BOOLEAN /\ LMA \in BOOLEAN
  /\ regs \in [Registers -> Word64]
  /\ rip \in Nat /\ address \in Nat
  /\ pc \in PC
  /\ byte \in Byte
  /\ prefixes \in Prefixes
  /\ instr \in Instructions
  /\ isRunning \in BOOLEAN /\ hasShutdown \in BOOLEAN

(* The atomic machine the core implements. *)
Machine ==
  INSTANCE ISA WITH
    mode <- getMode,
    rip <- IF pc = "execute" THEN rip - instr.len ELSE rip,
    status <- CASE pc \in {"decode", "dispatch", "decoded", "execute"} -> "running"
                [] pc = "undefined" -> "undefined"
                [] OTHER -> "stopped"

(* Decoding byte by byte, moving RIP before execution and stopping through *)
(* an exception never shows: every run of the core is a run of the atomic   *)
(* machine, whatever prefixes, restarts or faults happen on the way.        *)
ImplementsISA == Machine!Spec

(* While bytes are dispatched the cursor has passed prefixes only, and the  *)
(* collected prefixes are exactly those of this instruction: nothing leaks  *)
(* from the instruction before, a later REX replaces an earlier one.        *)
PrefixesReflectBytes ==
  pc = "dispatch" =>
    /\ address > rip
    /\ byte = Fetch(mem, address - 1)
    /\ \A k \in rip .. address - 2 : Machine!IsPrefix(k)
    /\ prefixes = Machine!PrefixesBefore(address - 1)

(* The length a finishing handler records, which IncrementRIP trusts, is    *)
(* the opcode byte plus every ModRM, SIB and immediate byte it read: the    *)
(* handlers count the length and move the cursor separately.                *)
LengthCountsFromOpcode ==
  pc = "decoded" =>
    \E a \in rip .. address - 1 :
       /\ Machine!OpcodeAt(a)
       /\ instr.len = 1 + HandlerReads(mem, getMode, prefixes, a + 1, Handler(byte))

(* A step changes at most one register, and of it either one of the two low *)
(* bytes, the low two, or all low four with the upper half cleared: the     *)
(* partial-register rules of the GPR setters under every operand size.      *)
NarrowWritesKeepHighBytes ==
  [][\A r \in Registers : regs'[r] # regs[r] =>
        /\ \A q \in Registers \ {r} : regs'[q] = regs[q]
        /\ \/ \A i \in 4 .. 7 : regs'[r][i] = 0 /\ instr.op0.size = 32
           \/ \A i \in 2 .. 7 : regs'[r][i] = regs[r][i] /\ instr.op0.size = 16
           \/ \E k \in {0, 1} : /\ \A i \in Lane \ {k} : regs'[r][i] = regs[r][i]
                               /\ instr.op0.size = 8 /\ instr.op0.high = (k = 1)]_vars

(* Bytes lo and lo + 1 of a register as a number. *)
Half(r, lo) == r[lo] + 256 * r[lo + 1]

(* The byte of its register an operand begins at. *)
LowByte(op) == IF op.size = 8 /\ op.high THEN 1 ELSE 0

(* The carries of ADD and the borrows of SUB run through all the bytes of   *)
(* the operand and no further: at each width the decoder produces (it has   *)
(* no entry for REX.W) the stored result is the sum or difference modulo    *)
(* 2^8, in the low or the high byte, 2^16 or 2^32.                          *)
ArithmeticWraps ==
  [][ExecuteOperation =>
       LET op == instr.op0
           d == regs[op.reg]
           s == SourceValue(regs, instr.op1)
           r == regs'[op.reg]
           k == LowByte(op)
           sum == Half(d, 0) + Half(s, 0)
           diff == Half(d, 0) - Half(s, 0)
       IN /\ instr.type = "ADD" =>
               /\ op.size = 8 => r[k] = (d[k] + s[0]) % 256
               /\ op.size \in {16, 32} => Half(r, 0) = sum % 65536
               /\ op.size = 32 =>
                    Half(r, 2) = (Half(d, 2) + Half(s, 2) + sum \div 65536) % 65536
          /\ instr.type = "SUB" =>
               /\ op.size = 8 => r[k] = (d[k] - s[0]) % 256
               /\ op.size \in {16, 32} => Half(r, 0) = diff % 65536
               /\ op.size = 32 =>
                    Half(r, 2) = (Half(d, 2) - Half(s, 2) + diff \div 65536) % 65536
    ]_vars

(* The decoder's loop ends: a run of prefixes is followed by an opcode, an  *)
(* exception or the end of memory.                                          *)
DecodeTerminates == pc = "decode" ~> pc \in {"execute", "returned", "undefined"}

----------------------------------------------------------------------------
(* A statement of the repository the code does not meet. *)

(* DECODING_ENGINE_TEST.cpp:55 counts the REX prefix in the length, so that *)
(* RIP is past the last byte read when the instruction executes.            *)
RipReachesNextInstruction ==
  pc = "execute" =>
    \E a \in rip - instr.len .. Len(mem) - 1 :
       /\ Machine!OpcodeAt(a)
       /\ rip = a + 1 + Machine!Reads(a)
=============================================================================
