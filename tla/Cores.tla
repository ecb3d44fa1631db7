-------------------------------- MODULE Cores --------------------------------
(***************************************************************************)
(* CPU::CPU (CPU_STATE.cpp) fills its vector of cores: each is constructed *)
(* in a local variable, moved to the end of the vector and destroyed where *)
(* it was.  When the vector is full, push_back moves all cores to a larger *)
(* buffer first; how much larger is the library's choice.  VirtualCore     *)
(* writes its move constructor by hand (VCORE.cpp), member by member; its  *)
(* copy constructor and assignments have no caller.                        *)
(*                                                                         *)
(* Three registers stand for all of them: the constructors treat all alike. *)
(***************************************************************************)
EXTENDS Integers, Sequences, FiniteSets

CONSTANTS
  MaxCores,      \* bound on the cores asked for
  MaxCapacity,   \* bound on the capacity of the vector
  ResetVectors   \* the start addresses a command line may ask for

ASSUME BoundsAssumption == MaxCores \in Nat /\ MaxCapacity \in Nat /\ MaxCores <= MaxCapacity
ASSUME ResetVectorsAssumption == ResetVectors \subseteq Nat

VARIABLES
  args,      \* what the CPU was asked for: cores, vector, mode
  made,      \* i, the iterations of the loop done
  pc,        \* "loop", "push", "relocate", "pushed", "ready"
  local,     \* the loop's variable: a sequence of at most one core
  cores,     \* the vector's elements
  capacity,  \* of the vector's buffer
  grown      \* the larger buffer while it is filled: position |-> core

vars == << args, made, pc, local, cores, capacity, grown >>

Modes == {"real", "protected", "long"}
GPRs == {"RAX", "RDX", "RSI"}

(* Faulty variant: the mode is asked for but not active. *)
VirtualCoreNotActive(vector, mode) ==
  [ regs |-> [r \in GPRs |-> 0],
    RIP |-> vector,
    EFER |-> [LME |-> mode = "long", LMA |-> FALSE],
    CR0 |-> mode = "protected",
    isRunning |-> FALSE, hasShutdown |-> FALSE, isEnabled |-> FALSE,
    memoryBus |-> "bus" ]

(* VirtualCore(resetVector, memBus, startupMode). *)
VirtualCore(vector, mode) ==
  [ regs |-> [r \in GPRs |-> 0],
    RIP |-> vector,
    EFER |-> [LME |-> mode = "long", LMA |-> mode = "long"],
    CR0 |-> mode = "protected",
    isRunning |-> FALSE, hasShutdown |-> FALSE, isEnabled |-> FALSE,
    memoryBus |-> "bus" ]

getMode(c) ==
  CASE c.EFER.LMA /\ ~c.CR0 -> "long"
    [] ~c.EFER.LMA /\ c.CR0 -> "protected"
    [] OTHER -> "real"

(* Faulty variant: a move that shares the bus. *)
MovedSharing(c) == c

(* The move constructor: the new core, and what it leaves of the old one.   *)
(* Registers and flags are copied; only the pointer to the bus moves.       *)
MoveConstruct(other) == other
MovedFrom(other) == [other EXCEPT !.memoryBus = "null"]

----------------------------------------------------------------------------
NoCores == [k \in {} |-> 0]

Init ==
  /\ args \in [cores : 0 .. MaxCores, vector : ResetVectors, mode : Modes]
  /\ made = 0
  /\ pc = "loop"
  /\ local = << >>
  /\ cores = << >>
  /\ capacity = 0
  /\ grown = NoCores

(* Faulty variant: the loop runs once more. *)
ConstructOneMore ==
  /\ pc = "loop"
  /\ made <= args.cores
  /\ local' = << VirtualCore(args.vector, args.mode) >>
  /\ pc' = "push"
  /\ UNCHANGED << args, made, cores, capacity, grown >>

(* VirtualCore core(ResetVector, memoryBus, startupMode). *)
Construct ==
  /\ pc = "loop"
  /\ made < args.cores
  /\ local' = << VirtualCore(args.vector, args.mode) >>
  /\ pc' = "push"
  /\ UNCHANGED << args, made, cores, capacity, grown >>

(* push_back with room left. *)
PushBack ==
  /\ pc = "push"
  /\ Len(cores) < capacity
  /\ cores' = Append(cores, MoveConstruct(local[1]))
  /\ local' = << MovedFrom(local[1]) >>
  /\ pc' = "pushed"
  /\ UNCHANGED << args, made, capacity, grown >>

(* push_back without: the new core is the first in the larger buffer. *)
Grow ==
  /\ pc = "push"
  /\ Len(cores) = capacity
  /\ capacity' \in capacity + 1 .. MaxCapacity
  /\ grown' = [k \in {Len(cores) + 1} |-> MoveConstruct(local[1])]
  /\ local' = << MovedFrom(local[1]) >>
  /\ pc' = "relocate"
  /\ UNCHANGED << args, made, cores >>

(* The move constructor is noexcept, so the elements are moved, in order.   *)
Relocate ==
  /\ pc = "relocate"
  /\ \E k \in DOMAIN cores :
       /\ DOMAIN grown = 1 .. k - 1 \cup {Len(cores) + 1}
       /\ grown' = [n \in DOMAIN grown \cup {k} |->
                      IF n = k THEN MoveConstruct(cores[k]) ELSE grown[n]]
       /\ cores' = [cores EXCEPT ![k] = MovedFrom(@)]
  /\ UNCHANGED << args, made, pc, local, capacity >>

(* The moved-from elements are destroyed and their buffer is freed. *)
Replace ==
  /\ pc = "relocate"
  /\ DOMAIN grown = 1 .. Len(cores) + 1
  /\ cores' = [k \in 1 .. Len(cores) + 1 |-> grown[k]]
  /\ grown' = NoCores
  /\ pc' = "pushed"
  /\ UNCHANGED << args, made, local, capacity >>

(* ~VirtualCore of the local, whose flags nobody sees again; i++. *)
DestroyLocal ==
  /\ pc = "pushed"
  /\ local' = << >>
  /\ made' = made + 1
  /\ pc' = "loop"
  /\ UNCHANGED << args, cores, capacity, grown >>

Finish ==
  /\ pc = "loop"
  /\ made = args.cores
  /\ pc' = "ready"
  /\ UNCHANGED << args, made, local, cores, capacity, grown >>

Next == Construct \/ PushBack \/ Grow \/ Relocate \/ Replace \/ DestroyLocal \/ Finish

Spec == Init /\ [][Next]_vars

----------------------------------------------------------------------------
(* Properties. *)

(* Every core alive, with the places they are in. *)
Alive ==
  { << "local", k, local[k] >> : k \in DOMAIN local }
    \cup { << "vector", k, cores[k] >> : k \in DOMAIN cores }
    \cup { << "grown", k, grown[k] >> : k \in DOMAIN grown }

Owners == { x \in Alive : x[3].memoryBus = "bus" }

Core == [ regs : [GPRs -> Nat], RIP : Nat, EFER : [LME : BOOLEAN, LMA : BOOLEAN],
          CR0 : BOOLEAN, isRunning : BOOLEAN, hasShutdown : BOOLEAN, isEnabled : BOOLEAN,
          memoryBus : {"bus", "null"} ]

(* Every place holds a core, and the vector never more than it has room for. *)
CoresTypeOK ==
  /\ args \in [cores : 0 .. MaxCores, vector : ResetVectors, mode : Modes]
  /\ made \in 0 .. args.cores
  /\ \A x \in Alive : x[3] \in Core
  /\ Len(local) <= 1
  /\ Len(cores) <= capacity

(* Between two iterations the vector holds the cores asked for so far, and  *)
(* each, however often push_back moved it, would start in the startup mode, *)
(* at the reset vector, with a bus and cleared flags: the mode lives in EFER *)
(* and CR0, which both hand-written assignments forget.                     *)
CoresReady ==
  pc \in {"loop", "ready"} =>
    /\ Len(cores) = made
    /\ \A k \in DOMAIN cores :
         /\ getMode(cores[k]) = args.mode
         /\ cores[k].RIP = args.vector
         /\ cores[k].memoryBus = "bus"
         /\ ~cores[k].isRunning /\ ~cores[k].hasShutdown

(* At every moment, the ones in the middle of a relocation included, each   *)
(* core made owns the bus exactly once: a moved-from core holds no share,   *)
(* and no core with a share is ever destroyed.                              *)
OneShareEach ==
  Cardinality(Owners) = made + (IF pc \in {"push", "relocate", "pushed"} THEN 1 ELSE 0)
=============================================================================
