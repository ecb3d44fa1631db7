------------------------------ MODULE Executor ------------------------------
(***************************************************************************)
(* The execution engine: what Handle_ADD, Handle_SUB, Handle_OR and        *)
(* Handle_MOV do to the general purpose registers.  The four handlers have *)
(* one shape: fetch Operand1 into a uint64_t, combine it with Operand0 at  *)
(* the width of Operand0, store the result at that width.                  *)
(***************************************************************************)
EXTENDS Decoder

Operations == {"ADD", "SUB", "OR", "MOV"}

RegisterBytes(regs, op) ==
  IF op.size = 8 /\ op.high THEN GetHigh8Bits(regs[op.reg])
                            ELSE GetLow(regs[op.reg], op.size \div 8)

(* Operand1 as the uint64_t sourceVal. *)
SourceValue(regs, op) ==
  IF op.kind = "Immediate" THEN op.value ELSE RegisterBytes(regs, op)

(* The high-byte flag counts for 8-bit operands only. *)
Write(regs, op, v) ==
  CASE op.size = 8 /\ op.high -> SetHigh8Bits(regs[op.reg], v)
    [] op.size = 8 /\ ~op.high -> SetLow(regs[op.reg], 1, v)
    [] op.size = 16 -> SetLow(regs[op.reg], 2, v)
    [] op.size = 32 -> SetLow32Bits(v)
    [] OTHER -> v

Result(type, d, s) ==
  CASE type = "ADD" -> Add(d, s)
    [] type = "SUB" -> Subtract(d, s)
    [] type = "OR" -> Or(d, s)
    [] OTHER -> s

(* The registers after executing i. *)
Effect(regs, i) ==
  [regs EXCEPT ![i.op0.reg] =
     Write(regs, i.op0, Result(i.type, RegisterBytes(regs, i.op0),
                                       SourceValue(regs, i.op1)))]
=============================================================================
