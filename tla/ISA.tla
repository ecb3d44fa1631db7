-------------------------------- MODULE ISA --------------------------------
(***************************************************************************)
(* What a virtual core promises its program: an instruction takes effect   *)
(* in one step.  The machine has no cursor, no collected prefixes and no   *)
(* half-decoded instruction; an instruction that faults while it is        *)
(* decoded changes neither a register nor RIP.                             *)
(***************************************************************************)
EXTENDS Executor

VARIABLES
  mem,      \* the bytes of memory, from address 0 on
  mode,     \* "real", "protected" or "long"
  regs,     \* the general purpose registers
  rip,      \* the address the next instruction is decoded at
  status    \* "stopped", "running" or "undefined"

vars == << mem, mode, regs, rip, status >>

Init ==
  /\ mem \in Seq(Byte)
  /\ mode \in Modes
  /\ regs = [r \in Registers |-> Zero]
  /\ rip \in Nat
  /\ status = "stopped"

(* A byte that only modifies the instruction that follows it. *)
IsPrefix(a) ==
  \/ Handler(Fetch(mem, a)) = "Handle_Prefix"
  \/ Handler(Fetch(mem, a)) = "Handle_REX" /\ mode = "long"

(* The opcode of the instruction at RIP is the byte at a. *)
OpcodeAt(a) ==
  /\ a < Len(mem)
  /\ ~IsPrefix(a)
  /\ \A k \in rip .. a - 1 : IsPrefix(k)

IsRex(a) == Handler(Fetch(mem, a)) = "Handle_REX"

(* The last REX byte wins, an operand-size override anywhere counts. *)
PrefixesBefore(a) ==
  [opsize |-> \E k \in rip .. a - 1 : Fetch(mem, k) = 102,
   rex |-> IF \E k \in rip .. a - 1 : IsRex(k)
             THEN Fetch(mem, CHOOSE k \in rip .. a - 1 :
                               IsRex(k) /\ \A j \in k + 1 .. a - 1 : ~IsRex(j))
             ELSE 0]

Reads(a) == HandlerReads(mem, mode, PrefixesBefore(a), a + 1, Handler(Fetch(mem, a)))
Complete(a) == OpcodeAt(a) /\ a + 1 + Reads(a) <= Len(mem)
Faults(a) == Throws(mem, mode, a + 1, Handler(Fetch(mem, a)))
Decoded(a) == DecodeOpcode(mem, mode, PrefixesBefore(a), a + 1, Fetch(mem, a))

Start ==
  /\ status = "stopped"
  /\ status' = "running"
  /\ UNCHANGED << mem, mode, regs, rip >>

(* An instruction takes effect and RIP moves past it, at once. *)
Retire(a) ==
  /\ status = "running"
  /\ Complete(a)
  /\ ~Faults(a)
  /\ Decoded(a).type # "UD"
  /\ regs' = IF Decoded(a).type = "NOP" THEN regs ELSE Effect(regs, Decoded(a))
  /\ rip' = rip + Decoded(a).len
  /\ UNCHANGED << mem, mode, status >>

(* An encoding the decoder rejects. *)
Fault(a) ==
  /\ status = "running"
  /\ Complete(a)
  /\ Faults(a)
  /\ status' = "stopped"
  /\ UNCHANGED << mem, mode, regs, rip >>

(* The UD instruction: RIP is past it when the machine stops. *)
Trap(a) ==
  /\ status = "running"
  /\ Complete(a)
  /\ ~Faults(a)
  /\ Decoded(a).type = "UD"
  /\ status' = "stopped"
  /\ rip' = rip + Decoded(a).len
  /\ UNCHANGED << mem, mode, regs >>

(* The instruction at RIP does not end inside memory. *)
Leave ==
  /\ status = "running"
  /\ ~ \E a \in rip .. Len(mem) - 1 : Complete(a)
  /\ status' = "undefined"
  /\ UNCHANGED << mem, mode, regs, rip >>

Step == \E a \in rip .. Len(mem) - 1 : Retire(a) \/ Fault(a) \/ Trap(a)

Next == Start \/ Step \/ Leave

Spec == Init /\ [][Next]_vars
=============================================================================
