-------------------------- MODULE ControlRegisters --------------------------
(***************************************************************************)
(* CR0 and EFER, the two registers that hold a core's mode (CR0.cpp,       *)
(* CR0_INL.h, EFER_DEC.h).  A 64-bit value is the set of its bits that are *)
(* one.                                                                    *)
(*                                                                         *)
(* SetValue is the instruction-level write: it validates its argument      *)
(* against the stored value and throws #GP, which leaves the register      *)
(* alone.  The named setters write one bit and validate nothing; EFER's    *)
(* SetValue stores what it is given, also in bits EFER has no name for.    *)
(***************************************************************************)
EXTENDS Integers

CONSTANTS
  Values,        \* the arguments of SetValue explored
  EFERValues,    \* the arguments of EFER's SetValue explored
  SetterBits,    \* the bits the named setters of CR0 are explored with
  StartupModes   \* the startup modes explored

Bit == 0 .. 63

(* SetPE, SetMP, SetEM, SetTS, SetET, SetNE, SetWP, SetAM, SetNW, SetCD, SetPG. *)
CR0Bits == 0 .. 5 \cup {16, 18, 29, 30, 31}

(* SetSCE, SetLME, SetLMA, SetNXE. *)
EFERBits == {0, 8, 10, 11}

ASSUME ValuesAssumption == Values \subseteq SUBSET Bit
ASSUME EFERValuesAssumption == EFERValues \subseteq SUBSET Bit
ASSUME SetterBitsAssumption == SetterBits \subseteq CR0Bits
ASSUME StartupModesAssumption == StartupModes \subseteq {"real", "protected", "long"}

VARIABLES
  cr0,     \* CR0::storage
  efer,    \* EFER::storage
  fault    \* the last SetValue threw #GP

vars == << cr0, efer, fault >>

PE == 0
PG == 31
LME == 8
LMA == 10

----------------------------------------------------------------------------
(* Validation. *)

ReservedEntriesMask == 6 .. 15 \cup {17} \cup 19 .. 28

(* The bits in which two values differ. *)
Changed(a, b) == (a \ b) \cup (b \ a)

(* The highest bit below i in which a and b differ is one in b. *)
Borrow(a, b, i) ==
  \E j \in b \ a : j < i /\ \A k \in Changed(a, b) : k < i => k <= j

(* a - b modulo 2^64: an odd number of the two bits and the borrow is one. *)
Minus(a, b) ==
  {i \in Bit : (i \in a) <=> ((i \in b) <=> Borrow(a, b, i))}

(* Faulty variant: the difference is taken without its sign. *)
DiffUnordered(a, b) == Minus(a, b)

(* HELPERS::Diff: the larger minus the smaller, as numbers. *)
Diff(a, b) == IF Borrow(a, b, 64) THEN Minus(b, a) ELSE Minus(a, b)

(* Faulty variant: PG is looked for in the stored value. *)
ValidateInputStoredPG(stored, value) ==
  CASE Diff(stored, value) \cap ReservedEntriesMask # {} -> "ReservedBitAccesed"
    [] PG \in stored /\ PE \notin value -> "PeInactiveOnPgEnable"
    [] OTHER -> "Valid"

ValidateInput(stored, value) ==
  IF Diff(stored, value) \cap ReservedEntriesMask # {} THEN "ReservedBitAccesed"
  ELSE IF PG \in value /\ PE \notin stored THEN "PeInactiveOnPgEnable"
  ELSE "Valid"

(* Faulty variant: bits are counted from the top, which has no bit 0. *)
SetBitFromTop(value, bit, set) ==
  IF set THEN value \cup {64 - bit} ELSE value \ {64 - bit}

SetBit(value, bit, set) == IF set THEN value \cup {bit} ELSE value \ {bit}

----------------------------------------------------------------------------
(* Operations. *)

(* The constructor of VirtualCore uses the named setters. *)
Init ==
  /\ \E startupMode \in StartupModes :
       /\ cr0 = IF startupMode = "protected" THEN {PE} ELSE {}
       /\ efer = IF startupMode = "long" THEN {LME, LMA} ELSE {}
  /\ fault = FALSE

CR0SetValue(value) ==
  /\ cr0' = IF ValidateInput(cr0, value) = "Valid" THEN value ELSE cr0
  /\ fault' = (ValidateInput(cr0, value) # "Valid")
  /\ UNCHANGED efer

CR0SetBit(bit, enabled) ==
  /\ cr0' = SetBit(cr0, bit, enabled)
  /\ UNCHANGED << efer, fault >>

EFERSetBit(bit, enabled) ==
  /\ efer' = SetBit(efer, bit, enabled)
  /\ UNCHANGED << cr0, fault >>

EFERSetValue(value) ==
  /\ efer' = value
  /\ UNCHANGED << cr0, fault >>

Next ==
  \/ \E value \in Values : CR0SetValue(value)
  \/ \E bit \in SetterBits, enabled \in BOOLEAN : CR0SetBit(bit, enabled)
  \/ \E bit \in EFERBits, enabled \in BOOLEAN : EFERSetBit(bit, enabled)
  \/ \E value \in EFERValues : EFERSetValue(value)

Spec == Init /\ [][Next]_vars

----------------------------------------------------------------------------
(* Properties. *)

(* CR0 and EFER stay 64-bit values, whichever setters wrote them: no mask a  *)
(* setter shifts leaves the register.                                        *)
TypeOK ==
  /\ cr0 \subseteq Bit
  /\ efer \subseteq Bit
  /\ fault \in BOOLEAN

(* Validation subtracts where it should compare bits.  A write that only    *)
(* sets bits or only clears bits is judged exactly all the same, because    *)
(* nothing is borrowed: it faults on the reserved bits iff it changes one.  *)
OneWayWritesJudgedExactly ==
  \A value \in Values :
     value \subseteq cr0 \/ cr0 \subseteq value =>
       (ValidateInput(cr0, value) = "ReservedBitAccesed"
          <=> Changed(cr0, value) \cap ReservedEntriesMask # {})

(* Whatever wrote CR0 before, a core can leave paging and protected mode    *)
(* with two validated writes: clearing PG never faults, and clearing PE     *)
(* after it does not either.                                                *)
PagingCanBeLeft ==
  /\ ValidateInput(cr0, cr0 \ {PG}) = "Valid"
  /\ ValidateInput(cr0 \ {PG}, cr0 \ {PG, PE}) = "Valid"

----------------------------------------------------------------------------
(* A statement of the repository the code does not meet. *)

(* CR0.cpp:21 says that reserved bits are checked for, CR0_DEC.h:9 that     *)
(* SetValue validates: an accepted SetValue leaves every reserved bit.      *)
ReservedBitsKept ==
  [][(\E value \in Values : CR0SetValue(value)) =>
       Changed(cr0, cr0') \cap ReservedEntriesMask = {}]_vars
=============================================================================
