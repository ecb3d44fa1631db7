----------------------- MODULE ControlRegistersProofs -----------------------
(***************************************************************************)
(* What holds of CR0 and EFER for every set of SetValue arguments.         *)
(***************************************************************************)
EXTENDS ControlRegisters, WellFoundedInduction, TLAPS

----------------------------------------------------------------------------
(* The arithmetic difference. *)

(* A set of bits that is not empty has a highest one. *)
LEMMA HighestBit ==
  ASSUME NEW S \in SUBSET Bit, S # {}
  PROVE  \E j \in S : \A k \in S : k <= j
<1> DEFINE Reversed == {n \in Nat : n <= 63 /\ 63 - n \in S}
<1>1. Reversed \subseteq Nat
  OBVIOUS
<1>2. PICK i \in S : TRUE
  OBVIOUS
<1>3. i \in Nat /\ i <= 63
  BY DEF Bit
<1>4. 63 - i \in Nat /\ 63 - (63 - i) = i /\ 63 - i <= 63
  BY <1>3
<1>5. 63 - i \in Reversed
  BY <1>2, <1>4
<1>6. PICK n \in Reversed : \A m \in Reversed : ~ (<< m, n >> \in OpToRel(<, Nat))
  <2> HIDE DEF Reversed
  <2> QED BY <1>1, <1>5, WFMin, NatLessThanWellFounded
<1>7. ASSUME NEW k \in S PROVE k <= 63 - n
  <2>1. k \in Nat /\ k <= 63
    BY DEF Bit
  <2>2. 63 - k \in Nat /\ 63 - (63 - k) = k /\ 63 - k <= 63
    BY <2>1
  <2>3. 63 - k \in Reversed
    BY <2>2
  <2>4. n \in Nat
    BY <1>6
  <2>5. ~(63 - k < n)
    BY <1>6, <2>2, <2>3, <2>4 DEF OpToRel
  <2> QED BY <2>1, <2>2, <2>4, <2>5
<1>8. 63 - n \in S
  BY <1>6
<1> QED BY <1>7, <1>8

(* Nothing is borrowed from a value whose bits include the other's. *)
LEMMA MinusOfSuperset ==
  ASSUME NEW a \in SUBSET Bit, NEW b \in SUBSET Bit, b \subseteq a
  PROVE  Minus(a, b) = a \ b
<1>1. \A i \in Bit : ~Borrow(a, b, i)
  BY DEF Borrow
<1> QED BY <1>1 DEF Minus

LEMMA BorrowOfSubset ==
  ASSUME NEW a \in SUBSET Bit, NEW b \in SUBSET Bit, a \subseteq b, a # b
  PROVE  Borrow(a, b, 64)
<1>1. Changed(a, b) = b \ a
  BY DEF Changed
<1>2. b \ a \in SUBSET Bit /\ b \ a # {}
  OBVIOUS
<1>3. PICK j \in b \ a : \A k \in b \ a : k <= j
  BY <1>2, HighestBit
<1>4. j < 64
  BY <1>2 DEF Bit
<1> QED BY <1>1, <1>3, <1>4 DEF Borrow

(* HELPERS::Diff finds exactly the changed bits of a one-way write. *)
LEMMA DiffOneWay ==
  ASSUME NEW a \in SUBSET Bit, NEW b \in SUBSET Bit, a \subseteq b \/ b \subseteq a
  PROVE  Diff(a, b) = Changed(a, b)
<1>1. CASE b \subseteq a
  <2>1. ~Borrow(a, b, 64)
    BY <1>1 DEF Borrow
  <2>2. Minus(a, b) = a \ b
    BY <1>1, MinusOfSuperset
  <2> QED BY <1>1, <2>1, <2>2 DEF Diff, Changed
<1>2. CASE a \subseteq b /\ a # b
  <2>1. Borrow(a, b, 64)
    BY <1>2, BorrowOfSubset
  <2>2. Minus(b, a) = b \ a
    BY <1>2, MinusOfSuperset
  <2> QED BY <1>2, <2>1, <2>2 DEF Diff, Changed
<1> QED BY <1>1, <1>2

----------------------------------------------------------------------------
(* The invariants. *)

(* CR0 and EFER stay 64-bit values, whatever SetValue stores in them and     *)
(* whichever bits the named setters shift to.                                *)
THEOREM TypeInvariance == Spec => []TypeOK
<1>1. Init => TypeOK
  <2> SUFFICES ASSUME Init PROVE TypeOK
    OBVIOUS
  <2>1. cr0 \subseteq {PE} /\ efer \subseteq {LME, LMA} /\ fault = FALSE
    BY DEF Init
  <2>2. {PE} \subseteq Bit /\ {LME, LMA} \subseteq Bit
    BY DEF Bit, PE, LME, LMA
  <2> QED BY <2>1, <2>2 DEF TypeOK
<1>2. TypeOK /\ [Next]_vars => TypeOK'
  <2> SUFFICES ASSUME TypeOK, [Next]_vars PROVE TypeOK'
    OBVIOUS
  <2>1. ASSUME NEW value \in Values, CR0SetValue(value) PROVE TypeOK'
    BY <2>1, ValuesAssumption DEF CR0SetValue, TypeOK
  <2>2. ASSUME NEW bit \in SetterBits, NEW enabled \in BOOLEAN, CR0SetBit(bit, enabled)
        PROVE  TypeOK'
    <3>1. bit \in Bit
      BY SetterBitsAssumption DEF CR0Bits, Bit
    <3> QED BY <2>2, <3>1 DEF CR0SetBit, SetBit, TypeOK
  <2>3. ASSUME NEW bit \in EFERBits, NEW enabled \in BOOLEAN, EFERSetBit(bit, enabled)
        PROVE  TypeOK'
    <3>1. bit \in Bit
      BY DEF EFERBits, Bit
    <3> QED BY <2>3, <3>1 DEF EFERSetBit, SetBit, TypeOK
  <2>4. ASSUME NEW value \in EFERValues, EFERSetValue(value)
        PROVE  TypeOK'
    BY <2>4, EFERValuesAssumption DEF EFERSetValue, TypeOK
  <2>5. CASE UNCHANGED vars
    BY <2>5 DEF vars, TypeOK
  <2> QED BY <2>1, <2>2, <2>3, <2>4, <2>5 DEF Next
<1> QED BY <1>1, <1>2, PTL DEF Spec

(* A write in one direction is judged by the bits it changes, whatever CR0  *)
(* holds: the subtraction of ValidateInput is harmless there.               *)
THEOREM OneWayExact == Spec => []OneWayWritesJudgedExactly
<1>1. TypeOK => OneWayWritesJudgedExactly
  <2> SUFFICES ASSUME TypeOK, NEW value \in Values, value \subseteq cr0 \/ cr0 \subseteq value
               PROVE  ValidateInput(cr0, value) = "ReservedBitAccesed"
                        <=> Changed(cr0, value) \cap ReservedEntriesMask # {}
    BY DEF OneWayWritesJudgedExactly
  <2>1. cr0 \in SUBSET Bit /\ value \in SUBSET Bit
    BY ValuesAssumption DEF TypeOK
  <2>2. Diff(cr0, value) = Changed(cr0, value)
    BY <2>1, DiffOneWay
  <2> QED BY <2>2 DEF ValidateInput
<1> QED BY <1>1, TypeInvariance, PTL

(* Paging and protected mode can be left with two accepted writes.          *)
THEOREM PagingLeft == Spec => []PagingCanBeLeft
<1>1. ASSUME NEW a \in SUBSET Bit, NEW b \in {PE, PG}, PG \notin a \ {b}
      PROVE  ValidateInput(a, a \ {b}) = "Valid"
  <2>1. a \ {b} \in SUBSET Bit
    OBVIOUS
  <2>2. Diff(a, a \ {b}) = Changed(a, a \ {b})
    BY <2>1, DiffOneWay
  <2>3. Changed(a, a \ {b}) \subseteq {b}
    BY DEF Changed
  <2>4. b \notin ReservedEntriesMask
    BY DEF PE, PG, ReservedEntriesMask
  <2> QED BY <1>1, <2>2, <2>3, <2>4 DEF ValidateInput
<1>2. TypeOK => PagingCanBeLeft
  <2> SUFFICES ASSUME TypeOK PROVE PagingCanBeLeft
    OBVIOUS
  <2>1. cr0 \in SUBSET Bit /\ cr0 \ {PG} \in SUBSET Bit
    BY DEF TypeOK
  <2>2. (cr0 \ {PG}) \ {PE} = cr0 \ {PG, PE}
    OBVIOUS
  <2>3. ValidateInput(cr0, cr0 \ {PG}) = "Valid"
    BY <1>1, <2>1
  <2>4. ValidateInput(cr0 \ {PG}, (cr0 \ {PG}) \ {PE}) = "Valid"
    BY <1>1, <2>1
  <2> QED BY <2>2, <2>3, <2>4 DEF PagingCanBeLeft
<1> QED BY <1>2, TypeInvariance, PTL
=============================================================================
