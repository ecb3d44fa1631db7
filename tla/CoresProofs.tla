---------------------------- MODULE CoresProofs ----------------------------
(***************************************************************************)
(* The vector of cores for every number of cores, every reset vector and   *)
(* every growth policy of the vector: what CPU::CPU leaves behind, and     *)
(* where the shares of the bus are while it is at work.                    *)
(***************************************************************************)
EXTENDS Cores, FiniteSetTheorems, TLAPS

(* A core of this CPU that was never moved, and what a move leaves of it. *)
Fresh == VirtualCore(args.vector, args.mode)
Husk == MovedFrom(Fresh)

(* The loop's variable while push_back has not been called, and after. *)
LocalInv ==
  /\ pc \in {"loop", "ready"} => local = << >>
  /\ pc = "push" => local = << Fresh >>
  /\ pc \in {"relocate", "pushed"} => local = << Husk >>

(* Outside a relocation no element of the vector has been moved from. *)
Settled ==
  /\ grown = NoCores
  /\ cores = [k \in 1 .. IF pc = "pushed" THEN made + 1 ELSE made |-> Fresh]

(* In it the first m have been, and are in the larger buffer, where the new *)
(* core came before them.                                                   *)
Moved(m) ==
  /\ grown = [k \in 1 .. m \cup {made + 1} |-> Fresh]
  /\ cores = [k \in 1 .. made |-> IF k <= m THEN Husk ELSE Fresh]

CoresInv ==
  /\ args \in [cores : 0 .. MaxCores, vector : ResetVectors, mode : Modes]
  /\ pc \in {"loop", "push", "relocate", "pushed", "ready"}
  /\ made \in 0 .. args.cores
  /\ pc \in {"push", "relocate", "pushed"} => made < args.cores
  /\ pc = "ready" => made = args.cores
  /\ capacity \in Nat
  /\ (IF pc = "pushed" THEN made + 1 ELSE made) <= capacity
  /\ pc = "relocate" => made < capacity
  /\ LocalInv
  /\ pc # "relocate" => Settled
  /\ pc = "relocate" => \E m \in 0 .. made : Moved(m)

LEMMA InitCoresInv == Init => CoresInv
<1> SUFFICES ASSUME Init PROVE CoresInv
  OBVIOUS
<1>1. args.cores \in Nat /\ args \in [cores : 0 .. MaxCores, vector : ResetVectors, mode : Modes]
  BY BoundsAssumption DEF Init
<1>2. grown = NoCores /\ cores = << >> /\ made = 0 /\ pc = "loop"
  BY DEF Init
<1>3. Settled
  BY <1>2 DEF Settled, NoCores
<1> QED  BY <1>1, <1>3 DEF Init, CoresInv, LocalInv

(* What follows from the invariant about the lengths of the sequences. *)
LEMMA Lengths ==
  ASSUME CoresInv
  PROVE  /\ made \in Nat /\ args.cores \in Nat
         /\ cores \in Seq({Fresh, Husk})
         /\ Len(cores) = IF pc = "pushed" THEN made + 1 ELSE made
<1>1. args.cores \in Nat /\ made \in Nat
  BY BoundsAssumption DEF CoresInv
<1>2. CASE pc = "relocate"
  <2>1. PICK m \in 0 .. made : Moved(m)
    BY <1>2 DEF CoresInv
  <2>2. cores \in [1 .. made -> {Fresh, Husk}]
    BY <2>1, Zenon DEF Moved
  <2> QED  BY <1>1, <1>2, <2>2
<1>3. CASE pc # "relocate"
  <2> DEFINE n == IF pc = "pushed" THEN made + 1 ELSE made
  <2>1. n \in Nat
    BY <1>1
  <2>2. cores = [k \in 1 .. n |-> Fresh]
    BY <1>3 DEF CoresInv, Settled
  <2> HIDE DEF n
  <2>3. cores \in [1 .. n -> {Fresh, Husk}]
    BY <2>2
  <2>4. cores \in Seq({Fresh, Husk}) /\ Len(cores) = n
    BY <2>1, <2>3
  <2> QED  BY <1>1, <2>4 DEF n
<1> QED  BY <1>2, <1>3

LEMMA FreshUnchanged ==
  ASSUME args' = args
  PROVE  Fresh' = Fresh /\ Husk' = Husk
BY DEF Fresh, Husk

LEMMA ConstructStep ==
  ASSUME CoresInv, Construct
  PROVE  CoresInv'
<1>1. args' = args /\ local' = << Fresh >> /\ pc = "loop" /\ pc' = "push"
  BY DEF Construct, Fresh
<1>2. local' = << Fresh' >>
  BY <1>1, FreshUnchanged
<1>3. LocalInv'
  BY <1>1, <1>2 DEF LocalInv
<1>4. Settled'
  BY <1>1, FreshUnchanged DEF CoresInv, Settled, Construct, NoCores
<1>5. made < args.cores
  BY DEF Construct
<1> QED  BY <1>1, <1>3, <1>4, <1>5 DEF CoresInv, Construct

(* The new core is appended; what is left of the local one is a husk. *)
LEMMA PushBackStep ==
  ASSUME CoresInv, PushBack
  PROVE  CoresInv'
<1>1. pc = "push" /\ pc' = "pushed" /\ made < args.cores /\ Settled /\ local = << Fresh >>
  BY DEF PushBack, CoresInv, LocalInv
<1>2. /\ args' = args /\ made' = made /\ capacity' = capacity /\ grown' = grown
      /\ cores' = Append(cores, Fresh) /\ local' = << Husk >>
  BY <1>1 DEF PushBack, MoveConstruct, Husk
<1>3. /\ made \in Nat /\ args.cores \in Nat /\ capacity \in Nat
      /\ cores \in Seq({Fresh, Husk}) /\ Len(cores) = made
  BY <1>1, Lengths DEF CoresInv
<1>4. made + 1 <= capacity
  BY <1>3 DEF PushBack
<1>5. cores = [k \in 1 .. made |-> Fresh]
  BY <1>1 DEF Settled
<1>6. Append(cores, Fresh) = [k \in 1 .. made + 1 |-> Fresh]
  BY <1>3, <1>5
<1>7. Settled'
  BY <1>1, <1>2, <1>6, FreshUnchanged DEF Settled, NoCores
<1>8. LocalInv'
  BY <1>1, <1>2, FreshUnchanged DEF LocalInv
<1> QED  BY <1>1, <1>2, <1>3, <1>4, <1>7, <1>8 DEF CoresInv

(* The new core is alone in the larger buffer. *)
LEMMA GrowStep ==
  ASSUME CoresInv, Grow
  PROVE  CoresInv'
<1>1. pc = "push" /\ pc' = "relocate" /\ made < args.cores /\ Settled /\ local = << Fresh >>
  BY DEF Grow, CoresInv, LocalInv
<1>2. /\ made \in Nat /\ args.cores \in Nat /\ capacity \in Nat
      /\ Len(cores) = made /\ made = capacity
  BY <1>1, Lengths DEF CoresInv, Grow
<1>3. /\ args' = args /\ made' = made /\ cores' = cores
      /\ grown' = [k \in {made + 1} |-> Fresh] /\ local' = << Husk >>
  BY <1>1, <1>2 DEF Grow, MoveConstruct, Husk
<1>4. capacity' \in Nat /\ capacity' > made
  BY <1>2, BoundsAssumption DEF Grow
<1>5. Moved(0)'
  <2>1. 1 .. 0 \cup {made + 1} = {made + 1}
    OBVIOUS
  <2>2. cores = [k \in 1 .. made |-> IF k <= 0 THEN Husk ELSE Fresh]
    BY <1>1, <1>2 DEF Settled
  <2> QED  BY <1>3, <2>1, <2>2, FreshUnchanged DEF Moved
<1>6. \E m \in 0 .. made' : Moved(m)'
  <2>1. 0 \in 0 .. made'
    BY <1>2, <1>3
  <2> QED  BY <1>5, <2>1
<1>7. LocalInv'
  BY <1>1, <1>3, FreshUnchanged DEF LocalInv
<1> QED  BY <1>1, <1>2, <1>3, <1>4, <1>6, <1>7 DEF CoresInv

(* One more element is moved: the first that has not been. *)
LEMMA RelocateStep ==
  ASSUME CoresInv, Relocate
  PROVE  CoresInv'
<1>1. pc = "relocate" /\ pc' = "relocate" /\ made < args.cores /\ made < capacity
  BY DEF Relocate, CoresInv
<1>2. /\ args' = args /\ made' = made /\ local' = local /\ capacity' = capacity
  BY DEF Relocate
<1>3. made \in Nat /\ args.cores \in Nat /\ Len(cores) = made /\ DOMAIN cores = 1 .. made
  BY <1>1, Lengths
<1>4. PICK m \in 0 .. made : Moved(m)
  BY <1>1 DEF CoresInv
<1>5. PICK k \in 1 .. made :
        /\ DOMAIN grown = 1 .. k - 1 \cup {made + 1}
        /\ grown' = [n \in DOMAIN grown \cup {k} |->
                       IF n = k THEN MoveConstruct(cores[k]) ELSE grown[n]]
        /\ cores' = [cores EXCEPT ![k] = MovedFrom(@)]
  BY <1>3 DEF Relocate
<1>6. k = m + 1
  <2>1. 1 .. k - 1 \cup {made + 1} = 1 .. m \cup {made + 1}
    BY <1>4, <1>5 DEF Moved
  <2>2. ~ (k <= m)
    <3> SUFFICES ASSUME k <= m PROVE FALSE
      OBVIOUS
    <3>1. k \notin 1 .. k - 1 \cup {made + 1}
      BY <1>3
    <3>2. k \in 1 .. m \cup {made + 1}
      BY <1>3
    <3> QED  BY <2>1, <3>1, <3>2
  <2>3. ~ (m + 1 < k)
    <3>1. m + 1 \notin 1 .. m \cup {made + 1} \/ m = made
      BY <1>3
    <3> QED  BY <1>3, <2>1, <3>1
  <2> QED  BY <1>3, <2>2, <2>3
<1>7. cores[k] = Fresh
  BY <1>3, <1>4, <1>6 DEF Moved
<1>8. grown' = [n \in 1 .. k \cup {made + 1} |-> Fresh]
  <2>1. grown = [n \in 1 .. k - 1 \cup {made + 1} |-> Fresh]
    BY <1>3, <1>4, <1>6 DEF Moved
  <2>2. (1 .. k - 1 \cup {made + 1}) \cup {k} = 1 .. k \cup {made + 1}
    BY <1>3
  <2> QED  BY <1>5, <1>7, <2>1, <2>2 DEF MoveConstruct
<1>9. cores' = [n \in 1 .. made |-> IF n <= k THEN Husk ELSE Fresh]
  <2>1. cores = [n \in 1 .. made |-> IF n <= m THEN Husk ELSE Fresh]
    BY <1>4 DEF Moved
  <2>2. cores' = [cores EXCEPT ![k] = Husk]
    BY <1>5, <1>7 DEF Husk
  <2> QED  BY <1>3, <1>6, <2>1, <2>2
<1>10. Moved(k)'
  BY <1>2, <1>8, <1>9, FreshUnchanged DEF Moved
<1>11. \E n \in 0 .. made' : Moved(n)'
  <2>1. k \in 0 .. made'
    BY <1>2, <1>3
  <2> QED  BY <1>10, <2>1
<1>12. LocalInv'
  BY <1>1, <1>2, FreshUnchanged DEF LocalInv, CoresInv
<1> QED  BY <1>1, <1>2, <1>3, <1>11, <1>12 DEF CoresInv

(* All have been: the larger buffer is the vector's. *)
LEMMA ReplaceStep ==
  ASSUME CoresInv, Replace
  PROVE  CoresInv'
<1>1. pc = "relocate" /\ pc' = "pushed" /\ made < args.cores /\ made < capacity
  BY DEF Replace, CoresInv
<1>2. made \in Nat /\ args.cores \in Nat /\ Len(cores) = made /\ capacity \in Nat
  BY <1>1, Lengths DEF CoresInv
<1>3. /\ args' = args /\ made' = made /\ local' = local /\ capacity' = capacity
      /\ grown' = NoCores /\ cores' = [k \in 1 .. made + 1 |-> grown[k]]
      /\ DOMAIN grown = 1 .. made + 1
  BY <1>2 DEF Replace
<1>4. PICK m \in 0 .. made : Moved(m)
  BY <1>1 DEF CoresInv
<1>5. \A k \in 1 .. made + 1 : grown[k] = Fresh
  BY <1>3, <1>4 DEF Moved
<1>6. Settled'
  BY <1>1, <1>3, <1>5, FreshUnchanged DEF Settled, NoCores
<1>7. LocalInv'
  BY <1>1, <1>3, FreshUnchanged DEF LocalInv, CoresInv
<1>8. made + 1 <= capacity
  BY <1>1, <1>2
<1> QED  BY <1>1, <1>2, <1>3, <1>6, <1>7, <1>8 DEF CoresInv

LEMMA DestroyLocalStep ==
  ASSUME CoresInv, DestroyLocal
  PROVE  CoresInv'
<1>1. /\ pc = "pushed" /\ pc' = "loop" /\ local' = << >> /\ made' = made + 1
      /\ args' = args /\ capacity' = capacity /\ grown' = grown /\ cores' = cores
  BY DEF DestroyLocal
<1>2. /\ made \in Nat /\ args.cores \in Nat /\ made < args.cores /\ made + 1 <= capacity
      /\ Settled
  BY <1>1, Lengths DEF CoresInv
<1>3. Settled'
  BY <1>1, <1>2, FreshUnchanged DEF Settled, NoCores
<1>4. LocalInv'
  BY <1>1 DEF LocalInv
<1> QED  BY <1>1, <1>2, <1>3, <1>4 DEF CoresInv

LEMMA FinishStep ==
  ASSUME CoresInv, Finish
  PROVE  CoresInv'
<1>1. Settled' /\ LocalInv'
  BY FreshUnchanged DEF Finish, CoresInv, Settled, LocalInv, NoCores
<1> QED  BY <1>1 DEF Finish, CoresInv

LEMMA CoresInvariance == Spec => []CoresInv
<1>1. CoresInv /\ [Next]_vars => CoresInv'
  <2> SUFFICES ASSUME CoresInv, [Next]_vars PROVE CoresInv'
    OBVIOUS
  <2>1. CASE UNCHANGED vars
    <3>1. Settled' = Settled /\ LocalInv' = LocalInv /\ (\A m : Moved(m)' = Moved(m))
      BY <2>1, FreshUnchanged DEF vars, Settled, LocalInv, NoCores, Moved
    <3> QED  BY <2>1, <3>1 DEF vars, CoresInv
  <2>2. CASE Next
    BY <2>2, ConstructStep, PushBackStep, GrowStep, RelocateStep, ReplaceStep,
       DestroyLocalStep, FinishStep DEF Next
  <2> QED  BY <2>1, <2>2
<1> QED  BY <1>1, InitCoresInv, PTL DEF Spec

----------------------------------------------------------------------------
(* What follows from it. *)

(* Every core alive is one of this CPU's, or what a move left of one. *)
LEMMA AliveCores ==
  ASSUME CoresInv
  PROVE  /\ \A x \in Alive : x[3] \in {Fresh, Husk}
         /\ Fresh \in Core /\ Husk \in Core
<1>1. args.vector \in Nat /\ args.mode \in Modes
  BY ResetVectorsAssumption DEF CoresInv
<1>2. Fresh \in Core
  BY <1>1 DEF Fresh, VirtualCore, Core
<1>3. Husk \in Core
  BY <1>2 DEF Husk, MovedFrom, Core
<1>4. \A k \in DOMAIN local : local[k] \in {Fresh, Husk}
  BY DEF CoresInv, LocalInv
<1>5. \A k \in DOMAIN cores : cores[k] \in {Fresh, Husk}
  BY Lengths
<1>6. \A k \in DOMAIN grown : grown[k] \in {Fresh, Husk}
  BY DEF CoresInv, Settled, NoCores, Moved
<1> QED  BY <1>2, <1>3, <1>4, <1>5, <1>6 DEF Alive

(* Every place a core can be in holds one, and the vector never has more    *)
(* elements than its buffer has room for.                                   *)
THEOREM CoresTypeInvariance == Spec => []CoresTypeOK
<1>1. CoresInv => CoresTypeOK
  <2> SUFFICES ASSUME CoresInv PROVE CoresTypeOK
    OBVIOUS
  <2>1. \A x \in Alive : x[3] \in Core
    BY AliveCores
  <2>2. Len(local) <= 1
    <3>1. local = << >> \/ local = << Fresh >> \/ local = << Husk >>
      BY DEF CoresInv, LocalInv
    <3>2. Len(<< >>) = 0 /\ Len(<< Fresh >>) = 1 /\ Len(<< Husk >>) = 1
      OBVIOUS
    <3>3. Len(local) \in {0, 1}
      BY <3>1, <3>2, Zenon
    <3>4. \A n \in {0, 1} : n <= 1
      OBVIOUS
    <3> QED  BY <3>3, <3>4, Zenon
  <2>3. Len(cores) <= capacity
    BY Lengths DEF CoresInv
  <2> QED  BY <2>1, <2>2, <2>3 DEF CoresInv, CoresTypeOK
<1> QED  BY <1>1, CoresInvariance, PTL

(* Whenever an iteration of the loop in CPU_STATE.cpp is over, the vector   *)
(* has a core per iteration, each in the startup mode, at the reset vector  *)
(* and with the bus, for every growth of the vector on the way.             *)
THEOREM CoresReadiness == Spec => []CoresReady
<1>1. CoresInv => CoresReady
  <2> SUFFICES ASSUME CoresInv, pc \in {"loop", "ready"}
               PROVE  /\ Len(cores) = made
                      /\ \A k \in DOMAIN cores :
                           /\ getMode(cores[k]) = args.mode
                           /\ cores[k].RIP = args.vector
                           /\ cores[k].memoryBus = "bus"
                           /\ ~cores[k].isRunning /\ ~cores[k].hasShutdown
    BY DEF CoresReady
  <2>1. Len(cores) = made
    BY Lengths
  <2>2. \A k \in DOMAIN cores : cores[k] = Fresh
    BY DEF CoresInv, Settled
  <2>3. args.mode \in Modes
    BY DEF CoresInv
  <2>4. getMode(Fresh) = args.mode
    BY <2>3 DEF Fresh, VirtualCore, getMode, Modes
  <2>5. /\ Fresh.RIP = args.vector /\ Fresh.memoryBus = "bus"
        /\ ~Fresh.isRunning /\ ~Fresh.hasShutdown
    BY DEF Fresh, VirtualCore
  <2> QED  BY <2>1, <2>2, <2>4, <2>5
<1> QED  BY <1>1, CoresInvariance, PTL

Holds(core) == core.memoryBus = "bus"

LEMMA OnlyFreshHolds == Holds(Fresh) /\ ~Holds(Husk)
BY DEF Holds, Fresh, Husk, VirtualCore, MovedFrom

(* A set that lists a place for each of n cores, no place twice, has n      *)
(* elements.                                                                *)
LEMMA CountPlaces ==
  ASSUME NEW n \in Nat, NEW S, NEW place \in [1 .. n -> S],
         \A x \in S : \E k \in 1 .. n : x = place[k],
         \A j, k \in 1 .. n : place[j] = place[k] => j = k
  PROVE  Cardinality(S) = n
<1>1. place \in Bijection(1 .. n, S)
  BY DEF Bijection, Injection, IsInjective, Surjection
<1>2. ExistsBijection(1 .. n, S)
  BY <1>1 DEF ExistsBijection
<1> QED  BY <1>2, FS_CountingElements

(* At every moment of the construction the shares of the bus are as many as *)
(* the cores made, however far a relocation has come (push_back on a full   *)
(* vector, CPU_STATE.cpp).                                                  *)
THEOREM OneShareEachInvariance == Spec => []OneShareEach
<1>1. CoresInv => OneShareEach
  <2> SUFFICES ASSUME CoresInv PROVE OneShareEach
    OBVIOUS
  <2> DEFINE n == IF pc \in {"push", "relocate", "pushed"} THEN made + 1 ELSE made
  <2>1. made \in Nat /\ n \in Nat
    BY Lengths
  <2>2. Owners = { << "local", k, local[k] >> : k \in {i \in DOMAIN local : Holds(local[i])} }
          \cup { << "vector", k, cores[k] >> : k \in {i \in DOMAIN cores : Holds(cores[i])} }
          \cup { << "grown", k, grown[k] >> : k \in {i \in DOMAIN grown : Holds(grown[i])} }
    BY DEF Owners, Alive, Holds
  <2>3. CASE pc \in {"loop", "ready", "pushed"}
    <3> DEFINE place == [k \in 1 .. n |-> << "vector", k, Fresh >>]
    <3>1. /\ grown = NoCores /\ cores = [k \in 1 .. n |-> Fresh]
      BY <2>3 DEF CoresInv, Settled
    <3>2. \A k \in DOMAIN local : ~Holds(local[k])
      BY <2>3, OnlyFreshHolds DEF CoresInv, LocalInv
    <3>3. Owners = { << "vector", k, Fresh >> : k \in 1 .. n }
      BY <2>2, <3>1, <3>2, OnlyFreshHolds DEF NoCores
    <3>4. place \in [1 .. n -> Owners]
      BY <3>3
    <3>5. \A x \in Owners : \E k \in 1 .. n : x = place[k]
      BY <3>3
    <3>6. \A j, k \in 1 .. n : place[j] = place[k] => j = k
      OBVIOUS
    <3> HIDE DEF place, n
    <3>7. Cardinality(Owners) = n
      BY <2>1, <3>4, <3>5, <3>6, CountPlaces
    <3> QED  BY <2>1, <3>7 DEF OneShareEach, n
  <2>4. CASE pc = "push"
    <3> DEFINE place == [k \in 1 .. n |-> IF k <= made THEN << "vector", k, Fresh >>
                                                       ELSE << "local", 1, Fresh >>]
    <3>1. /\ grown = NoCores /\ cores = [k \in 1 .. made |-> Fresh] /\ local = << Fresh >>
      BY <2>4 DEF CoresInv, Settled, LocalInv
    <3>2. Owners = { << "vector", k, Fresh >> : k \in 1 .. made } \cup { << "local", 1, Fresh >> }
      BY <2>2, <3>1, OnlyFreshHolds DEF NoCores
    <3>3. n = made + 1
      BY <2>4
    <3> HIDE DEF n
    <3>4. place \in [1 .. n -> Owners]
      BY <2>1, <3>2, <3>3
    <3>5. \A x \in Owners : \E k \in 1 .. n : x = place[k]
      <4>1. ASSUME NEW k \in 1 .. made
            PROVE  k \in 1 .. n /\ place[k] = << "vector", k, Fresh >>
        BY <2>1, <3>3
      <4>2. n \in 1 .. n /\ place[n] = << "local", 1, Fresh >>
        BY <2>1, <3>3
      <4> HIDE DEF place
      <4> QED  BY <3>2, <4>1, <4>2
    <3>6. \A j, k \in 1 .. n : place[j] = place[k] => j = k
      BY <2>1, <3>3
    <3> HIDE DEF place
    <3>7. Cardinality(Owners) = n
      BY <2>1, <3>4, <3>5, <3>6, CountPlaces
    <3> QED  BY <2>1, <2>4, <3>7 DEF OneShareEach, n
  <2>5. CASE pc = "relocate"
    <3>1. PICK m \in 0 .. made : Moved(m)
      BY <2>5 DEF CoresInv
    <3> DEFINE place == [k \in 1 .. n |-> IF k \in m + 1 .. made
                                            THEN << "vector", k, Fresh >>
                                            ELSE << "grown", k, Fresh >>]
    <3>2. /\ grown = [k \in 1 .. m \cup {made + 1} |-> Fresh]
          /\ cores = [k \in 1 .. made |-> IF k <= m THEN Husk ELSE Fresh]
          /\ local = << Husk >>
      BY <2>5, <3>1 DEF Moved, CoresInv, LocalInv
    <3>3. {i \in DOMAIN cores : Holds(cores[i])} = m + 1 .. made
      BY <2>1, <3>2, OnlyFreshHolds
    <3>4. {i \in DOMAIN grown : Holds(grown[i])} = 1 .. m \cup {made + 1}
      BY <3>2, OnlyFreshHolds
    <3>5. {i \in DOMAIN local : Holds(local[i])} = {}
      BY <3>2, OnlyFreshHolds
    <3>6. /\ \A k \in m + 1 .. made : cores[k] = Fresh
          /\ \A k \in 1 .. m \cup {made + 1} : grown[k] = Fresh
      BY <2>1, <3>2
    <3>7. Owners = { << "vector", k, Fresh >> : k \in m + 1 .. made }
                     \cup { << "grown", k, Fresh >> : k \in 1 .. m \cup {made + 1} }
      <4>1. { << "vector", k, cores[k] >> : k \in m + 1 .. made }
              = { << "vector", k, Fresh >> : k \in m + 1 .. made }
        BY <3>6
      <4>2. { << "grown", k, grown[k] >> : k \in 1 .. m \cup {made + 1} }
              = { << "grown", k, Fresh >> : k \in 1 .. m \cup {made + 1} }
        BY <3>6
      <4>3. { << "local", k, local[k] >> : k \in {} } = {}
        OBVIOUS
      <4> QED  BY <2>2, <3>3, <3>4, <3>5, <4>1, <4>2, <4>3, Zenon
    <3>8. n = made + 1 /\ 1 .. n = m + 1 .. made \cup (1 .. m \cup {made + 1})
      BY <2>1, <2>5
    <3> HIDE DEF n
    <3>9. place \in [1 .. n -> Owners]
      BY <3>7, <3>8
    <3>10. \A x \in Owners : \E k \in 1 .. n : x = place[k]
      <4>1. ASSUME NEW k \in m + 1 .. made
            PROVE  k \in 1 .. n /\ place[k] = << "vector", k, Fresh >>
        BY <3>8
      <4>2. ASSUME NEW k \in 1 .. m \cup {made + 1}
            PROVE  k \in 1 .. n /\ place[k] = << "grown", k, Fresh >>
        BY <2>1, <3>8
      <4> HIDE DEF place
      <4> QED  BY <3>7, <4>1, <4>2
    <3>11. \A j, k \in 1 .. n : place[j] = place[k] => j = k
      OBVIOUS
    <3> HIDE DEF place
    <3>12. Cardinality(Owners) = n
      BY <2>1, <3>9, <3>10, <3>11, CountPlaces
    <3> QED  BY <2>1, <2>5, <3>12 DEF OneShareEach, n
  <2> QED  BY <2>3, <2>4, <2>5 DEF CoresInv
<1> QED  BY <1>1, CoresInvariance, PTL
=============================================================================
