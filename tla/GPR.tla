-------------------------------- MODULE GPR --------------------------------
(***************************************************************************)
(* A general purpose register (GPR.h) as its eight bytes, least            *)
(* significant first, so the 64-bit storage keeps its exact width.  An     *)
(* operand value (the uint64_t sourceVal of the execution handlers) has    *)
(* the same shape; a setter that takes a narrower argument uses only its   *)
(* low bytes, which is what the static_cast at each call site does.        *)
(***************************************************************************)
EXTENDS Integers

Byte == 0 .. 255
Lane == 0 .. 7
Word64 == [Lane -> Byte]

Zero == [i \in Lane |-> 0]

(* GetLow8Bits, GetLow16Bits, GetLow32Bits and GetValue for n = 1, 2, 4, 8: *)
(* the low n bytes, zero extended by the conversion to uint64_t.            *)
GetLow(r, n) == [i \in Lane |-> IF i < n THEN r[i] ELSE 0]

GetHigh8Bits(r) == [Zero EXCEPT ![0] = r[1]]

(* Faulty variant: a narrow store clears the rest of the register. *)
SetLowClearing(r, n, v) == [i \in Lane |-> IF i < n THEN v[i] ELSE 0]

(* SetLow8Bits and SetLow16Bits for n = 1, 2: the other bytes survive. *)
SetLow(r, n, v) == [i \in Lane |-> IF i < n THEN v[i] ELSE r[i]]

(* SetLow32Bits stores its uint32_t argument: the upper half becomes zero. *)
SetLow32Bits(v) == GetLow(v, 4)

SetHigh8Bits(r, v) == [r EXCEPT ![1] = v[0]]

(* Faulty variant: a carry does not run through a byte sum of 255. *)
CarryFromNextByte(a, b, i) == i > 0 /\ a[i - 1] + b[i - 1] > 255

(* Carry into byte i of a + b: some lower byte generates it and every byte *)
(* in between passes it on.                                                *)
Carry(a, b, i) ==
  \E j \in Lane :
     /\ j < i
     /\ a[j] + b[j] > 255
     /\ \A k \in Lane : j < k /\ k < i => a[k] + b[k] >= 255

(* Faulty variant: the bytes of the sum are not reduced. *)
AddUnreduced(a, b) ==
  [i \in Lane |-> a[i] + b[i] + (IF Carry(a, b, i) THEN 1 ELSE 0)]

(* uint64_t addition modulo 2^64. *)
Add(a, b) ==
  [i \in Lane |-> (a[i] + b[i] + (IF Carry(a, b, i) THEN 1 ELSE 0)) % 256]

(* Borrow out of the bytes below i of a - b. *)
Borrow(a, b, i) ==
  \E j \in Lane :
     /\ j < i
     /\ a[j] < b[j]
     /\ \A k \in Lane : j < k /\ k < i => a[k] <= b[k]

(* uint64_t subtraction modulo 2^64. *)
Subtract(a, b) ==
  [i \in Lane |-> (a[i] - b[i] - (IF Borrow(a, b, i) THEN 1 ELSE 0)) % 256]

(* The bit of weight w in the bitwise or of two bytes. *)
OrBit(x, y, w) ==
  IF (x \div w) % 2 = 1 \/ (y \div w) % 2 = 1 THEN w ELSE 0

OrByte(x, y) ==
  OrBit(x, y, 1) + OrBit(x, y, 2) + OrBit(x, y, 4) + OrBit(x, y, 8)
    + OrBit(x, y, 16) + OrBit(x, y, 32) + OrBit(x, y, 64) + OrBit(x, y, 128)

Or(a, b) == [i \in Lane |-> OrByte(a[i], b[i])]
=============================================================================
