------------------------------ MODULE MCVCore ------------------------------
(***************************************************************************)
(* Programs for the model checker: two prefixed instructions and an ending.  *)
(* Operand bytes are chosen for the edges of the arithmetic (carry and       *)
(* borrow through 0xFF and 0x00 bytes, immediates with the top bit set) and  *)
(* of the encodings (high-byte registers, REX.B and REX.R, the SIB form).    *)
(***************************************************************************)
EXTENDS VCore

PrefixBytes == { << >>, << 102 >>, << 65 >>, << 102, 65 >>, << 69, 64, 242 >> }

Load == { << 184, 255, 255, 0, 0 >>,        \* mov eax, 0000FFFF
          << 188, 128, 255 >>,              \* mov sp, FF80; esp needs more bytes
          << 5, 255, 128, 255, 127 >> }     \* add eax, 7FFF80FF

Operate == { << 0, 224 >>, << 2, 196 >>, << 1, 193 >>, << 41, 200 >>, << 43, 193 >>,
             << 40, 196 >>, << 131, 192, 1 >>, << 131, 232, 128 >>, << 131, 201, 128 >>,
             << 12, 129 >>, << 45, 1, 0, 1, 0 >>, << 137, 196 >>,
             << 131, 216, 1 >>, << 1, 4, 36 >>, << 8, 192 >> }

Ending == { << >>, << 144, 214 >>, << 102 >> }

MCImages ==
  { p \o l \o q \o o \o e :
      p \in PrefixBytes, l \in Load, q \in { << >>, << 102 >>, << 69, 64, 242 >> },
      o \in Operate, e \in Ending }
=============================================================================
