------------------------ MODULE MCControlRegisters ------------------------
(***************************************************************************)
(* The arguments of SetValue have bits on both sides of the reserved ranges  *)
(* 6..15 and 19..28, a run of low bits a borrow goes through, one reserved    *)
(* bit of each kind, PE, PG, and bit 40, which the mask leaves out.  Those of *)
(* EFER's are no bits, long mode and two bits EFER has no name for.           *)
(***************************************************************************)
EXTENDS ControlRegisters

MCValues ==
  { low \cup high : low \in { {}, {0}, 1 .. 5, 0 .. 5, {6} },
                    high \in SUBSET {16, 17, 31, 40} }

MCEFERValues == { {}, {LME, LMA}, {5, 63} }
=============================================================================
