------------------------------- MODULE RomProofs -------------------------------
(***************************************************************************)
(* What is read of a ROM, for every page size, every reset vector and      *)
(* every list of devices: the reset ROM whole at the reset vector, a       *)
(* firmware whole at its base or not at all, and whole in any case if it   *)
(* is mapped at the start of a page of memory.  A page is a list whose     *)
(* order decides, so the invariants are about the order of its sections:   *)
(* sorting keeps the elements and their multiplicity, pruning keeps the    *)
(* order and the reset ROM, what a mapping leaves of a page hides no ROM   *)
(* in it, and what begins a page stays its first section.                  *)
(***************************************************************************)
EXTENDS MemoryBusProofs, SequenceTheorems

----------------------------------------------------------------------------
(* Sorting and pruning keep the order of a page. *)

(* The elements of K, each at the place that is the number of those below it. *)
Places(K, B) == [n \in 1 .. Cardinality(K) |-> CHOOSE i \in K : Cardinality(B[i]) = n - 1]

(* The element at place n is the one with n - 1 elements below it; all places *)
(* are taken, in the order of B.                                             *)
LEMMA PlacesOrdered ==
  ASSUME NEW K, IsFiniteSet(K), NEW B \in [K -> SUBSET K],
         \A i \in K : i \notin B[i],
         \A i, j \in K : j \in B[i] => B[j] \subseteq B[i],
         \A i, j \in K : i # j => i \in B[j] \/ j \in B[i]
  PROVE  /\ Places(K, B) \in [1 .. Cardinality(K) -> K]
         /\ \A i \in K : \E n \in 1 .. Cardinality(K) : Places(K, B)[n] = i
         /\ \A m, n \in 1 .. Cardinality(K) :
              m < n => Places(K, B)[m] \in B[Places(K, B)[n]]
<1> DEFINE N == Cardinality(K)
           at == Places(K, B)
<1>1. N \in Nat
  BY FS_CardinalityType
<1>2. ASSUME NEW i \in K
      PROVE  IsFiniteSet(B[i]) /\ Cardinality(B[i]) \in Nat /\ Cardinality(B[i]) < N
  <2>1. B[i] \in SUBSET K /\ B[i] # K
    OBVIOUS
  <2>2. IsFiniteSet(B[i]) /\ Cardinality(B[i]) <= N /\ N # Cardinality(B[i])
    BY <2>1, FS_Subset
  <2>3. Cardinality(B[i]) \in Nat
    BY <2>2, FS_CardinalityType
  <2> QED  BY <1>1, <2>2, <2>3
<1>3. ASSUME NEW i \in K, NEW j \in K, j \in B[i]
      PROVE  Cardinality(B[j]) < Cardinality(B[i])
  <2>1. B[j] \in SUBSET B[i] /\ B[i] # B[j]
    BY <1>3
  <2>2. Cardinality(B[j]) <= Cardinality(B[i]) /\ Cardinality(B[i]) # Cardinality(B[j])
    BY <1>2, <2>1, FS_Subset
  <2> QED  BY <1>2, <2>2
<1>4. ASSUME NEW n \in 1 .. N
      PROVE  at[n] \in K /\ Cardinality(B[at[n]]) = n - 1
  <2>1. PICK i \in K : Cardinality(B[i]) = n - 1
    BY <1>4, PlacesTaken
  <2>2. at[n] = CHOOSE j \in K : Cardinality(B[j]) = n - 1
    BY <1>4 DEF Places
  <2> HIDE DEF at
  <2> QED  BY <2>1, <2>2
<1>5. at \in [1 .. N -> K]
  <2>1. at = [n \in 1 .. N |-> at[n]]
    BY DEF Places
  <2> HIDE DEF at
  <2> QED  BY <1>4, <2>1
<1> HIDE DEF at
<1>6. ASSUME NEW i \in K PROVE \E n \in 1 .. N : at[n] = i
  <2> DEFINE n == Cardinality(B[i]) + 1
  <2>1. n \in 1 .. N /\ n - 1 = Cardinality(B[i])
    BY <1>1, <1>2
  <2>2. at[n] \in K /\ Cardinality(B[at[n]]) = Cardinality(B[i])
    BY <1>4, <2>1
  <2> HIDE DEF n
  <2>3. at[n] = i
    <3> SUFFICES ASSUME at[n] # i PROVE FALSE
      OBVIOUS
    <3>1. PICK x \in K, y \in K : x \in B[y] /\ Cardinality(B[x]) = Cardinality(B[y])
      BY <2>2
    <3>2. Cardinality(B[x]) < Cardinality(B[y])
      BY <1>3, <3>1
    <3> QED  BY <1>2, <3>1, <3>2
  <2> QED  BY <2>1, <2>3
<1>7. ASSUME NEW m \in 1 .. N, NEW n \in 1 .. N, m < n
      PROVE  at[m] \in B[at[n]]
  <2>1. /\ at[m] \in K /\ at[n] \in K
        /\ Cardinality(B[at[m]]) = m - 1 /\ Cardinality(B[at[n]]) = n - 1
    BY <1>4
  <2>2. m - 1 < n - 1 /\ m - 1 # n - 1 /\ ~ (n - 1 < m - 1)
    BY <1>1, <1>7
  <2>3. at[m] # at[n]
    BY <2>1, <2>2
  <2>4. at[n] \notin B[at[m]]
    BY <1>3, <2>1, <2>2
  <2> QED  BY <2>1, <2>3, <2>4
<1> QED  BY <1>5, <1>6, <1>7 DEF at

----------------------------------------------------------------------------
(* Sorting and pruning as choices of elements. *)

Sorted(s) == \A i, j \in DOMAIN s : i < j => s[i].pageOffset <= s[j].pageOffset

(* t has elements of s, each place of s at most once. *)
Selects(s, t) ==
  \E at \in [DOMAIN t -> DOMAIN s] :
    /\ \A n \in DOMAIN t : t[n] = s[at[n]]
    /\ \A m, n \in DOMAIN t : at[m] = at[n] => m = n

(* A page sorted by in-page offset has all its sections, in order. *)
LEMMA SortOrders ==
  ASSUME NEW G, \A g \in G : g.pageOffset \in Nat, NEW s \in Seq(G)
  PROVE  /\ Selects(s, SortSections(s))
         /\ Range(SortSections(s)) = Range(s)
         /\ Sorted(SortSections(s))
<1> DEFINE D == DOMAIN s
           Below(i) == {j \in D : \/ s[j].pageOffset < s[i].pageOffset
                                  \/ s[j].pageOffset = s[i].pageOffset /\ j < i}
           B == [i \in D |-> Below(i)]
           at == Places(D, B)
           t == SortSections(s)
<1>1. D = 1 .. Len(s) /\ Len(s) \in Nat /\ IsFiniteSet(D) /\ Cardinality(D) = Len(s)
  BY IndicesFinite
<1>2. \A i \in D : i \in Nat /\ s[i] \in G /\ s[i].pageOffset \in Nat
  BY <1>1
<1>3. B \in [D -> SUBSET D] /\ \A i \in D : i \notin B[i]
  BY <1>2
<1>4. \A i, j \in D : j \in B[i] => B[j] \subseteq B[i]
  BY <1>2
<1>5. \A i, j \in D : i # j => i \in B[j] \/ j \in B[i]
  BY <1>2
<1>6. /\ at \in [1 .. Len(s) -> D]
      /\ \A i \in D : \E n \in 1 .. Len(s) : at[n] = i
      /\ \A m, n \in 1 .. Len(s) : m < n => at[m] \in B[at[n]]
  <2> HIDE DEF B, D
  <2>2. IsFiniteSet(D) /\ Cardinality(D) = Len(s)
    BY <1>1
  <2>3. /\ at \in [1 .. Cardinality(D) -> D]
        /\ \A i \in D : \E n \in 1 .. Cardinality(D) : at[n] = i
        /\ \A m, n \in 1 .. Cardinality(D) : m < n => at[m] \in B[at[n]]
    BY <2>2, <1>3, <1>4, <1>5, PlacesOrdered, Zenon
  <2> QED  BY <2>2, <2>3
<1>7. t = [n \in 1 .. Len(s) |-> s[at[n]]]
  <2>1. t = [k \in 1 .. Cardinality(D) |->
               s[CHOOSE i \in D : Cardinality(Below(i)) = k - 1]]
    BY DEF SortSections, Arrange
  <2>2. \A k \in 1 .. Len(s) :
          at[k] = CHOOSE i \in D : Cardinality(Below(i)) = k - 1
    <3>1. \A i \in D : B[i] = Below(i)
      OBVIOUS
    <3> HIDE DEF B, Below, D
    <3> QED  BY <1>1, <3>1 DEF at, Places
  <2> HIDE DEF D, Below, at
  <2> QED  BY <1>1, <2>1, <2>2
<1>8. \A m, n \in 1 .. Len(s) : m < n =>
         /\ at[m] # at[n]
         /\ s[at[m]].pageOffset <= s[at[n]].pageOffset
  <2> SUFFICES ASSUME NEW m \in 1 .. Len(s), NEW n \in 1 .. Len(s), m < n
               PROVE  at[m] # at[n] /\ s[at[m]].pageOffset <= s[at[n]].pageOffset
    OBVIOUS
  <2> HIDE DEF at
  <2>1. PICK x \in D, y \in D : x = at[m] /\ y = at[n] /\ x \in B[y]
    <3> HIDE DEF B, D
    <3> QED  BY <1>6
  <2>2. x # y /\ s[x].pageOffset <= s[y].pageOffset
    BY <1>2, <1>3, <2>1
  <2> QED  BY <2>1, <2>2
<1> HIDE DEF at, B, D, Below, t
<1>9. DOMAIN t = 1 .. Len(s) /\ D = DOMAIN s
  BY <1>7 DEF D
<1>10. Selects(s, t)
  <2>1. \A m, n \in 1 .. Len(s) : at[m] = at[n] => m = n
    BY <1>1, <1>8
  <2>2. at \in [DOMAIN t -> DOMAIN s]
    BY <1>6, <1>9
  <2>3. \A n \in DOMAIN t : t[n] = s[at[n]]
    BY <1>7, <1>9
  <2>4. \A m, n \in DOMAIN t : at[m] = at[n] => m = n
    BY <1>9, <2>1
  <2> QED  BY <2>2, <2>3, <2>4, Zenon DEF Selects
<1>11. Range(t) = Range(s)
  <2>1. ASSUME NEW i \in D PROVE \E n \in DOMAIN t : t[n] = s[i]
    BY <1>6, <1>7, <1>9
  <2>2. ASSUME NEW n \in DOMAIN t PROVE t[n] = s[at[n]] /\ at[n] \in D
    BY <1>6, <1>7, <1>9
  <2> QED  BY <1>9, <2>1, <2>2 DEF Range
<1>12. Sorted(t)
  BY <1>7, <1>8, <1>9 DEF Sorted
<1> QED  BY <1>10, <1>11, <1>12 DEF t

(* Pruning keeps the order, and every section but those behind an empty one. *)
LEMMA PruneOrders ==
  ASSUME NEW G, NEW s \in Seq(G)
  PROVE  /\ Selects(s, PruneEmptySections(s))
         /\ Sorted(s) => Sorted(PruneEmptySections(s))
         /\ \A i \in DOMAIN s :
              i = 1 \/ s[i - 1].size # 0 => s[i] \in Range(PruneEmptySections(s))
         /\ Len(s) > 0 => PruneEmptySections(s)[1] = s[1]
<1> DEFINE D == DOMAIN s \ {i + 1 : i \in EmptySections(s)}
           Below(i) == {j \in D : j < i}
           B == [i \in D |-> Below(i)]
           N == Cardinality(D)
           at == Places(D, B)
           t == PruneEmptySections(s)
<1>1. DOMAIN s = 1 .. Len(s) /\ Len(s) \in Nat /\ IsFiniteSet(D) /\ N \in Nat
  BY IndicesFinite
<1>2. D \subseteq DOMAIN s /\ \A i \in D : i \in Nat
  BY <1>1
<1>3. B \in [D -> SUBSET D] /\ \A i \in D : i \notin B[i]
  BY <1>2
<1>4. \A i, j \in D : j \in B[i] => B[j] \subseteq B[i]
  BY <1>2
<1>5. \A i, j \in D : i # j => i \in B[j] \/ j \in B[i]
  BY <1>2
<1>6. /\ at \in [1 .. N -> D]
      /\ \A i \in D : \E n \in 1 .. N : at[n] = i
      /\ \A m, n \in 1 .. N : m < n => at[m] \in B[at[n]]
  <2> HIDE DEF B, D
  <2>2. IsFiniteSet(D)
    BY <1>1
  <2> QED  BY <2>2, <1>3, <1>4, <1>5, PlacesOrdered, Zenon
<1>7. t = [n \in 1 .. N |-> s[at[n]]]
  <2>1. t = [k \in 1 .. Cardinality(D) |->
               s[CHOOSE i \in D : Cardinality(Below(i)) = k - 1]]
    BY DEF PruneEmptySections, Arrange
  <2>2. \A k \in 1 .. N :
          at[k] = CHOOSE i \in D : Cardinality(Below(i)) = k - 1
    <3>1. \A i \in D : B[i] = Below(i)
      OBVIOUS
    <3> HIDE DEF B, Below, D
    <3> QED  BY <1>1, <3>1 DEF at, Places
  <2> HIDE DEF D, Below, at
  <2> QED  BY <1>1, <2>1, <2>2
<1>8. \A m, n \in 1 .. N : m < n => at[m] < at[n]
  <2> SUFFICES ASSUME NEW m \in 1 .. N, NEW n \in 1 .. N, m < n
               PROVE  at[m] < at[n]
    OBVIOUS
  <2> HIDE DEF at
  <2>1. PICK x \in D, y \in D : x = at[m] /\ y = at[n] /\ x \in B[y]
    <3> HIDE DEF B, D, N
    <3> QED  BY <1>6
  <2>2. x < y
    BY <2>1
  <2> QED  BY <2>1, <2>2
<1> HIDE DEF at, B, Below, t, N
<1>9. DOMAIN t = 1 .. N /\ at \in [1 .. N -> DOMAIN s]
  <2> HIDE DEF D
  <2> QED  BY <1>2, <1>6, <1>7
<1>10. Selects(s, t)
  <2> HIDE DEF D
  <2>1. \A m, n \in 1 .. N : at[m] = at[n] => m = n
    <3> SUFFICES ASSUME NEW m \in 1 .. N, NEW n \in 1 .. N, m # n
                 PROVE  at[m] # at[n]
      OBVIOUS
    <3>1. at[m] \in Nat /\ at[n] \in Nat
      BY <1>2, <1>6
    <3>2. m < n \/ n < m
      BY <1>1
    <3> QED  BY <1>8, <3>1, <3>2
  <2>2. at \in [DOMAIN t -> DOMAIN s]
    BY <1>9
  <2>3. \A n \in DOMAIN t : t[n] = s[at[n]]
    BY <1>7, <1>9
  <2>4. \A m, n \in DOMAIN t : at[m] = at[n] => m = n
    BY <1>9, <2>1
  <2> QED  BY <2>2, <2>3, <2>4, Zenon DEF Selects
<1>11. ASSUME Sorted(s) PROVE Sorted(t)
  <2> HIDE DEF D
  <2> QED  BY <1>7, <1>8, <1>9, <1>11 DEF Sorted
<1>12. ASSUME NEW i \in DOMAIN s, i = 1 \/ s[i - 1].size # 0
       PROVE  s[i] \in Range(t)
  <2>1. i \in D
    <3> SUFFICES ASSUME NEW j \in EmptySections(s), i = j + 1
                 PROVE  FALSE
      OBVIOUS
    <3>1. j \in 1 .. Len(s) /\ s[j].size = 0
      BY <1>1 DEF EmptySections
    <3>2. i # 1 /\ i - 1 = j
      BY <1>1, <3>1
    <3> QED  BY <1>12, <3>1, <3>2
  <2> HIDE DEF D
  <2>2. PICK n \in 1 .. N : at[n] = i
    BY <1>6, <2>1
  <2> QED  BY <1>7, <1>9, <2>2 DEF Range
<1>13. ASSUME Len(s) > 0 PROVE t[1] = s[1]
  <2>1. 1 \in D
    <3>1. \A j \in EmptySections(s) : 1 # j + 1
      BY <1>1 DEF EmptySections
    <3> QED  BY <1>1, <1>13, <3>1
  <2>2. PICK n \in 1 .. N : at[n] = 1
    BY <1>6, <2>1
  <2>3. n = 1
    <3> SUFFICES ASSUME 1 < n PROVE FALSE
      BY <1>1
    <3>1. 1 \in 1 .. N /\ at[1] < at[n] /\ at[1] \in 1 .. Len(s)
      BY <1>1, <1>8, <1>9
    <3> QED  BY <2>2, <3>1
  <2> QED  BY <1>7, <2>2, <2>3
<1> HIDE DEF D
<1> QED  BY <1>10, <1>11, <1>12, <1>13 DEF t

----------------------------------------------------------------------------
(* One page of the devices D with the reset ROM at v: its sections s. *)

RomSection(v, r) == Section(r, TRUE, 0, InPageOffset(v), ResetRomSize)
FirmwareSection(D, k) == Section(k, TRUE, 0, InPageOffset(D[k].base), D[k].size)
Home(D, k) == GetPageNumber(D[k].base) + 1

(* The pages MapResetRom walks, if there is a reset ROM. *)
RomPages(v) == {q + 1 : q \in GetPageNumber(v) .. GetPageNumber(v + ResetRomSize)}
Ruled(D, v, p) == p \in RomPages(v) /\ \E r \in DOMAIN D : D[r].kind = "RESET_ROM"

Sound(v) ==
  \/ InPageOffset(v) = 0
  \/ InPageOffset(v) + ResetRomSize = PageSize
  \/ 2 * InPageOffset(v) >= PageSize /\ InPageOffset(v) + ResetRomSize < PageSize

(* A ROM has only the section made for it, on its own pages. *)
RomsAtHome(D, v, p, s) ==
  \A g \in Range(s) :
    /\ D[g.device].kind = "FIRMWARE" => p = Home(D, g.device) /\ g = FirmwareSection(D, g.device)
    /\ D[g.device].kind = "RESET_ROM" => Ruled(D, v, p) /\ g = RomSection(v, g.device)

(* A section other than the reset ROM ends before it, not empty, so that    *)
(* pruning does not take the ROM for it, or begins behind it, so that the    *)
(* ROM is found first.                                                       *)
EndsBefore(v, g) == g.size > 0 /\ g.pageOffset + g.size <= InPageOffset(v)
BeginsBehind(v, g) == g.pageOffset > InPageOffset(v)

RomShown(D, v, p, s) ==
  Ruled(D, v, p) /\ Sound(v) =>
    \A r \in DOMAIN D : D[r].kind = "RESET_ROM" =>
      /\ RomSection(v, r) \in Range(s)
      /\ \A g \in Range(s) : \/ g = RomSection(v, r)
                             \/ EndsBefore(v, g) \/ BeginsBehind(v, g)

(* The memory of a page is a head before the reset ROM and one tail, in      *)
(* which firmware can be mapped; a reset ROM at the end of a page leaves no  *)
(* tail.                                                                     *)
HeadOf(D, v, p, g) ==
  Ruled(D, v, p) /\ g.pageOffset = 0 /\ g.size <= InPageOffset(v)
TailOf(D, v, p, g) == D[g.device].kind = "MEMORY" /\ ~HeadOf(D, v, p, g)

OneTail(D, v, p, s) ==
  (Ruled(D, v, p) => Sound(v)) =>
    /\ \A i, j \in DOMAIN s :
         TailOf(D, v, p, s[i]) /\ TailOf(D, v, p, s[j]) => i = j
    /\ Ruled(D, v, p) /\ InPageOffset(v) + ResetRomSize = PageSize =>
         \A g \in Range(s) : ~TailOf(D, v, p, g)

(* The firmware that is promised to be mapped whole, if it is mapped. *)
Mapped(D, k) == IF D[k].kind = "RESET_ROM" THEN ResetRomSize ELSE D[k].size
Apart(D, j, k) ==
  D[j].base + Mapped(D, j) <= D[k].base \/ D[k].base + Mapped(D, k) <= D[j].base

Whole(D, v, k) ==
  /\ D[k].kind = "FIRMWARE"
  /\ InPageOffset(D[k].base) + D[k].size <= PageSize
  /\ \A j \in DOMAIN D : D[j].kind # "MEMORY" /\ j # k => Apart(D, j, k)
  /\ Ruled(D, v, Home(D, k)) => Sound(v)

ClearOf(g, f) == g.pageOffset + g.size <= f.pageOffset \/ f.pageOffset + f.size <= g.pageOffset

FirmwareClear(D, v, p, s) ==
  \A k \in DOMAIN D :
    Whole(D, v, k) /\ p = Home(D, k) /\ FirmwareSection(D, k) \in Range(s) =>
      \A g \in Range(s) : g = FirmwareSection(D, k) \/ ClearOf(g, FirmwareSection(D, k))

AllApart(D) ==
  \A j, k \in DOMAIN D :
    D[j].kind # "MEMORY" /\ D[k].kind # "MEMORY" /\ j # k => Apart(D, j, k)

MemoryHead(D, v, p, g) == D[g.device].kind = "MEMORY" /\ HeadOf(D, v, p, g)

(* The memory of a page has one head at most, and its tail begins where the  *)
(* reset ROM ends or behind it, unless a firmware was put into the ROM.      *)
MemoryAround(D, v, p, s) ==
  Ruled(D, v, p) /\ Sound(v) =>
    /\ \A i, j \in DOMAIN s :
         MemoryHead(D, v, p, s[i]) /\ MemoryHead(D, v, p, s[j]) => i = j
    /\ AllApart(D) => \A g \in Range(s) :
         TailOf(D, v, p, g) => InPageOffset(v) + ResetRomSize <= g.pageOffset

PageInv(D, v, p, s) ==
  /\ RomsAtHome(D, v, p, s)
  /\ RomShown(D, v, p, s)
  /\ OneTail(D, v, p, s)
  /\ FirmwareClear(D, v, p, s)
  /\ MemoryAround(D, v, p, s)

(* A page of one section of memory, that no reset ROM was mapped to. *)
LEMMA PlainPage ==
  ASSUME NEW D, NEW v, NEW p, ~Ruled(D, v, p), NEW g, D[g.device].kind = "MEMORY"
  PROVE  Sorted(<< g >>) /\ PageInv(D, v, p, << g >>)
<1>1. DOMAIN << g >> = {1} /\ Range(<< g >>) = {g} /\ << g >>[1] = g
  BY DEF Range
<1> HIDE DEF Range
<1>2. PICK s : s = << g >>
  OBVIOUS
<1>3. DOMAIN s = {1} /\ Range(s) = {g} /\ s[1] = g
  BY <1>1, <1>2
<1>4. Sorted(s)
  BY <1>3 DEF Sorted
<1>5. \A k : FirmwareSection(D, k).device = k
  BY DEF FirmwareSection, Section
<1>6. FirmwareClear(D, v, p, s)
  BY <1>3, <1>5 DEF FirmwareClear, Whole
<1>7. OneTail(D, v, p, s)
  BY <1>3 DEF OneTail
<1>8. RomsAtHome(D, v, p, s)
  BY <1>3 DEF RomsAtHome
<1>9. RomShown(D, v, p, s)
  BY DEF RomShown
<1>10. MemoryAround(D, v, p, s)
  BY DEF MemoryAround
<1> QED  BY <1>2, <1>4, <1>6, <1>7, <1>8, <1>9, <1>10 DEF PageInv

(* Any choice of sections of a page is as good, if the reset ROM is chosen. *)
LEMMA ChosenPage ==
  ASSUME NEW D, NEW v, NEW p, NEW s, NEW t, PageInv(D, v, p, s), Selects(s, t),
         Ruled(D, v, p) /\ Sound(v) =>
           \A r \in DOMAIN D : D[r].kind = "RESET_ROM" => RomSection(v, r) \in Range(t)
  PROVE  PageInv(D, v, p, t)
<1>1. PICK at \in [DOMAIN t -> DOMAIN s] :
         /\ \A n \in DOMAIN t : t[n] = s[at[n]]
         /\ \A m, n \in DOMAIN t : at[m] = at[n] => m = n
  BY DEF Selects
<1>2. \A g \in Range(t) : g \in Range(s)
  BY <1>1 DEF Range
<1>3. RomsAtHome(D, v, p, t)
  BY <1>2 DEF PageInv, RomsAtHome
<1>4. RomShown(D, v, p, t)
  BY <1>2 DEF PageInv, RomShown
<1>5. OneTail(D, v, p, t)
  BY <1>1, <1>2 DEF PageInv, OneTail
<1>6. FirmwareClear(D, v, p, t)
  BY <1>2 DEF PageInv, FirmwareClear
<1>7. MemoryAround(D, v, p, t)
  BY <1>1, <1>2 DEF PageInv, MemoryAround
<1> QED  BY <1>3, <1>4, <1>5, <1>6, <1>7 DEF PageInv

(* Sorting and pruning a page. *)
LEMMA SortPage ==
  ASSUME NEW D, NEW v, NEW p, NEW n, NEW s \in Seq(SectionType(n)), PageInv(D, v, p, s)
  PROVE  Sorted(SortSections(s)) /\ PageInv(D, v, p, SortSections(s))
<1>1. \A g \in SectionType(n) : g.pageOffset \in Nat
  BY ConstantsNat DEF SectionType
<1>2. PICK G : G = SectionType(n)
  OBVIOUS
<1>3. /\ Selects(s, SortSections(s)) /\ Sorted(SortSections(s))
      /\ Range(SortSections(s)) = Range(s)
  BY <1>1, <1>2, SortOrders
<1>4. Ruled(D, v, p) /\ Sound(v) =>
        \A r \in DOMAIN D : D[r].kind = "RESET_ROM" => RomSection(v, r) \in Range(s)
  BY DEF PageInv, RomShown
<1> QED  BY <1>3, <1>4, ChosenPage

LEMMA PrunePage ==
  ASSUME NEW D, NEW v \in Nat, NEW p, NEW n, NEW s \in Seq(SectionType(n)),
         Sorted(s), PageInv(D, v, p, s)
  PROVE  Sorted(PruneEmptySections(s)) /\ PageInv(D, v, p, PruneEmptySections(s))
<1>1. PICK G : G = SectionType(n)
  OBVIOUS
<1>2. /\ Selects(s, PruneEmptySections(s)) /\ Sorted(PruneEmptySections(s))
      /\ \A i \in DOMAIN s :
           i = 1 \/ s[i - 1].size # 0 => s[i] \in Range(PruneEmptySections(s))
  BY <1>1, PruneOrders
<1>3. ASSUME Ruled(D, v, p), Sound(v), NEW r \in DOMAIN D, D[r].kind = "RESET_ROM"
      PROVE  RomSection(v, r) \in Range(PruneEmptySections(s))
  <2>1. PICK i \in DOMAIN s : s[i] = RomSection(v, r)
    BY <1>3 DEF PageInv, RomShown, Range
  <2>2. SUFFICES ASSUME i # 1 PROVE s[i - 1].size # 0
    BY <1>2, <2>1
  <2>3. i - 1 \in DOMAIN s /\ i - 1 < i /\ s[i - 1] \in SectionType(n)
    BY <2>2
  <2>4. s[i - 1].pageOffset \in Nat /\ s[i - 1].size \in Nat /\ InPageOffset(v) \in Nat
    <3>1. PICK g \in SectionType(n) : g = s[i - 1]
      BY <2>3
    <3>2. g.pageOffset \in Nat /\ g.size \in Nat
      BY ConstantsNat DEF SectionType
    <3>3. InPageOffset(v) \in Nat
      BY OffsetInPage
    <3> QED  BY <3>1, <3>2, <3>3, Zenon
  <2>5. s[i].pageOffset = InPageOffset(v)
    BY <2>1 DEF RomSection, Section
  <2>6. s[i - 1].pageOffset <= InPageOffset(v)
    BY <2>3, <2>5 DEF Sorted
  <2>7. s[i - 1] = RomSection(v, r) \/ EndsBefore(v, s[i - 1]) \/ BeginsBehind(v, s[i - 1])
    BY <1>3, <2>3 DEF PageInv, RomShown, Range
  <2>8. RomSection(v, r).size # 0
    BY ResetRomSizeAssumption DEF RomSection, Section
  <2> QED  BY <2>4, <2>6, <2>7, <2>8 DEF EndsBefore, BeginsBehind
<1> QED  BY <1>2, <1>3, ChosenPage

----------------------------------------------------------------------------
(* In-page offsets. *)

(* Inside a page the page number stays, the offset grows. *)
LEMMA WithinPage ==
  ASSUME NEW a \in Nat, NEW i \in Nat, InPageOffset(a) + i < PageSize
  PROVE  /\ GetPageNumber(a + i) = GetPageNumber(a) /\ GetPageNumber(a) \in Nat
         /\ InPageOffset(a + i) = InPageOffset(a) + i
<1>1. PICK P \in Nat \ {0} : P = PageSize
  BY PageSizeAssumption
<1>2. PICK q \in Nat, o \in Nat :
         q = a \div P /\ o = a % P /\ a = P * q + o /\ o < P
  BY <1>1
<1>3. PICK x \in Nat, y \in Nat :
         x = (a + i) \div P /\ y = (a + i) % P /\ a + i = P * x + y /\ y < P
  BY <1>1
<1>4. o + i < P
  BY <1>1, <1>2 DEF InPageOffset
<1>5. x = q
  <2>1. CASE x < q
    <3>1. P * x + P <= P * q
      <4>1. P * (x + 1) <= P * q
        BY <1>1, <1>2, <1>3, <2>1
      <4>2. P * (x + 1) = P * x + P
        BY <1>1, <1>3
      <4> QED  BY <4>1, <4>2
    <3>2. PICK m \in Nat, n \in Nat : m = P * x /\ n = P * q
      BY <1>1, <1>2, <1>3
    <3> QED  BY <1>1, <1>2, <1>3, <1>4, <3>1, <3>2
  <2>2. CASE q < x
    <3>1. P * q + P <= P * x
      <4>1. P * (q + 1) <= P * x
        BY <1>1, <1>2, <1>3, <2>2
      <4>2. P * (q + 1) = P * q + P
        BY <1>1, <1>2
      <4> QED  BY <4>1, <4>2
    <3>2. PICK m \in Nat, n \in Nat : m = P * x /\ n = P * q
      BY <1>1, <1>2, <1>3
    <3> QED  BY <1>1, <1>2, <1>3, <1>4, <3>1, <3>2
  <2> QED  BY <1>2, <1>3, <2>1, <2>2
<1>6. y = o + i
  <2>1. PICK m \in Nat : m = P * x /\ m = P * q
    BY <1>1, <1>3, <1>5
  <2> QED  BY <1>2, <1>3, <2>1
<1> QED  BY <1>1, <1>2, <1>3, <1>5, <1>6 DEF GetPageNumber, InPageOffset

(* Of two addresses of one page the difference is that of their offsets. *)
LEMMA SamePage ==
  ASSUME NEW a \in Nat, NEW b \in Nat, GetPageNumber(a) = GetPageNumber(b)
  PROVE  a - b = InPageOffset(a) - InPageOffset(b)
<1>1. PICK P \in Nat \ {0} : P = PageSize
  BY PageSizeAssumption
<1>2. PICK q \in Nat, o \in Nat : q = a \div P /\ o = a % P /\ a = P * q + o /\ o < P
  BY <1>1
<1>3. PICK x \in Nat, y \in Nat : x = b \div P /\ y = b % P /\ b = P * x + y /\ y < P
  BY <1>1
<1>4. q = x
  BY <1>1, <1>2, <1>3 DEF GetPageNumber
<1>5. PICK m \in Nat : m = P * q /\ m = P * x
  BY <1>1, <1>2, <1>4
<1> QED  BY <1>1, <1>2, <1>3, <1>5 DEF InPageOffset

LEMMA Unwrapped ==
  ASSUME NEW x \in Nat, x < Wrap
  PROVE  x % Wrap = x
  BY WrapAssumption

----------------------------------------------------------------------------
(* The page the reset ROM is mapped to. *)

LEMMA Concatenated ==
  ASSUME NEW a, NEW b, NEW c
  PROVE  << a >> \o << b >> = << a, b >> /\ << a >> \o << b, c >> = << a, b, c >>
<1>1. << a >> \in Seq({a, b, c}) /\ << b >> \in Seq({a, b, c}) /\ << b, c >> \in Seq({a, b, c})
  OBVIOUS
<1>2. PICK s, t, u \in Seq({a, b, c}) :
        /\ s = << a >> /\ t = << b >> /\ u = << b, c >>
        /\ Len(s) = 1 /\ Len(t) = 1 /\ Len(u) = 2
        /\ s[1] = a /\ t[1] = b /\ u[1] = b /\ u[2] = c
  BY <1>1
<1>3. s \o t = << a, b >>
  <2>1. s \o t \in Seq({a, b, c}) /\ Len(s \o t) = 2 /\ (s \o t)[1] = a /\ (s \o t)[2] = b
    BY <1>2
  <2>2. PICK w \in Seq({a, b, c}) : w = s \o t
    BY <2>1
  <2>3. Len(w) = 2 /\ w[1] = a /\ w[2] = b
    BY <2>1, <2>2
  <2>4. w = << a, b >>
    BY <2>3
  <2> QED  BY <2>2, <2>4
<1>4. s \o u = << a, b, c >>
  <2>1. /\ s \o u \in Seq({a, b, c}) /\ Len(s \o u) = 3
        /\ (s \o u)[1] = a /\ (s \o u)[2] = b /\ (s \o u)[3] = c
    BY <1>2
  <2>2. PICK w \in Seq({a, b, c}) : w = s \o u
    BY <2>1
  <2>3. Len(w) = 3 /\ w[1] = a /\ w[2] = b /\ w[3] = c
    BY <2>1, <2>2
  <2>4. w = << a, b, c >>
    BY <2>3
  <2> QED  BY <2>2, <2>4
<1> QED  BY <1>2, <1>3, <1>4

(* The reset ROM among memory that ends before it or begins behind it. *)
LEMMA RomAndMemory ==
  ASSUME NEW D, NEW v, NEW p \in RomPages(v), NEW n \in DOMAIN D,
         D[n].kind = "RESET_ROM", \A k \in DOMAIN D : k # n => D[k].kind = "MEMORY",
         NEW u, NEW m \in Nat, DOMAIN u = 1 .. m, m >= 1, u[1] = RomSection(v, n),
         \A i \in 2 .. m : D[u[i].device].kind = "MEMORY",
         Sound(v) => \A i \in 2 .. m :
           /\ EndsBefore(v, u[i]) \/ BeginsBehind(v, u[i])
           /\ \/ HeadOf(D, v, p, u[i]) /\ i = 2
              \/ /\ i = m /\ InPageOffset(v) + ResetRomSize # PageSize
                 /\ u[i].pageOffset # 0 /\ InPageOffset(v) + ResetRomSize <= u[i].pageOffset
  PROVE  PageInv(D, v, p, u)
<1>1. u[1].device = n /\ Ruled(D, v, p)
  BY DEF RomSection, Section, Ruled
<1>2. \A g \in Range(u) : g = RomSection(v, n) \/ \E i \in 2 .. m : g = u[i]
  BY DEF Range
<1>3. RomSection(v, n) \in Range(u)
  BY DEF Range
<1>4. RomsAtHome(D, v, p, u)
  BY <1>1, <1>2 DEF RomsAtHome
<1>5. RomShown(D, v, p, u)
  BY <1>2, <1>3 DEF RomShown
<1>6. OneTail(D, v, p, u)
  <2> SUFFICES ASSUME Sound(v)
               PROVE  /\ \A i \in 1 .. m : TailOf(D, v, p, u[i]) => i = m
                      /\ InPageOffset(v) + ResetRomSize = PageSize =>
                           \A i \in 1 .. m : ~TailOf(D, v, p, u[i])
    BY <1>1 DEF OneTail, Range
  <2>1. ~TailOf(D, v, p, u[1])
    BY <1>1 DEF TailOf
  <2>2. \A i \in 2 .. m : TailOf(D, v, p, u[i]) =>
           i = m /\ InPageOffset(v) + ResetRomSize # PageSize
    BY DEF TailOf
  <2> QED  BY <2>1, <2>2
<1>7. FirmwareClear(D, v, p, u)
  BY DEF FirmwareClear, Whole
<1>8. MemoryAround(D, v, p, u)
  <2> SUFFICES ASSUME Sound(v)
               PROVE  /\ \A i \in 1 .. m : MemoryHead(D, v, p, u[i]) => i = 2
                      /\ \A g \in Range(u) : TailOf(D, v, p, g) =>
                           InPageOffset(v) + ResetRomSize <= g.pageOffset
    BY DEF MemoryAround
  <2>1. ~MemoryHead(D, v, p, u[1]) /\ ~TailOf(D, v, p, u[1])
    BY <1>1 DEF MemoryHead, TailOf
  <2>2. \A i \in 2 .. m : MemoryHead(D, v, p, u[i]) => i = 2
    BY DEF MemoryHead, HeadOf
  <2>3. \A i \in 2 .. m : TailOf(D, v, p, u[i]) =>
           InPageOffset(v) + ResetRomSize <= u[i].pageOffset
    BY DEF TailOf
  <2>4. \A i \in 1 .. m : i = 1 \/ i \in 2 .. m
    OBVIOUS
  <2>5. u[1] = RomSection(v, n)
    OBVIOUS
  <2> QED  BY <1>2, <2>1, <2>2, <2>3, <2>4, <2>5
<1> QED  BY <1>4, <1>5, <1>6, <1>7, <1>8 DEF PageInv

(* What MapResetRom makes of a page of memory. *)
LEMMA ResetRomPage ==
  ASSUME NEW v \in Nat, v = resetVector, NEW D, NEW p \in RomPages(v),
         NEW n \in DOMAIN D,
         D[n].kind = "RESET_ROM", \A k \in DOMAIN D : k # n => D[k].kind = "MEMORY",
         NEW g, g.device \in DOMAIN D \ {n}
  PROVE  \E u : /\ SplitForResetRom(<< g >>, n) = SortSections(u)
                /\ PageInv(D, v, p, u)
                /\ \E o \in Nat, z \in Int, x \in Nat, y \in Int :
                     \/ u = << RomSection(v, n), Remainder(g, o, z) >>
                     \/ u = << RomSection(v, n), Remainder(g, o, z), Remainder(g, x, y) >>
<1> DEFINE o == InPageOffset(v)
           end == o + ResetRomSize
           rom == RomSection(v, n)
<1>1. /\ o \in Nat /\ o < PageSize /\ PageSize \in Nat /\ PageSize < Wrap /\ Wrap \in Nat
      /\ ResetRomSize \in Nat /\ ResetRomSize > 0 /\ ResetRomSize < PageSize /\ end \in Nat
  BY OffsetInPage, ConstantsNat, ResetRomSizeAssumption
<1>2. [<< g >> EXCEPT ![1] = rom] = << rom >>
  <2> HIDE DEF rom
  <2> QED  OBVIOUS
<1>3. Ruled(D, v, p)
  BY DEF Ruled
<1>4. \A x, z : LET r == Remainder(g, x, z)
                IN r.device = g.device /\ r.pageOffset = x % Wrap /\ r.size = z % Wrap
  BY DEF Remainder, Section
<1>5. D[g.device].kind = "MEMORY"
  OBVIOUS
<1>6. /\ PageSize - ResetRomSize \in Int /\ PageSize - o \in Int /\ PageSize - end \in Int
      /\ end + 1 \in Nat /\ 0 \in Nat
  BY <1>1
<1>7. ASSUME o = 0
      PROVE  SplitForResetRom(<< g >>, n) =
               SortSections(<< rom, Remainder(g, ResetRomSize, PageSize - ResetRomSize) >>)
  <2> DEFINE around == << Remainder(g, ResetRomSize, PageSize - ResetRomSize) >>
  <2>1. << rom >> \o around = << rom, Remainder(g, ResetRomSize, PageSize - ResetRomSize) >>
    BY Concatenated
  <2>2. SplitForResetRom(<< g >>, n) = SortSections([<< g >> EXCEPT ![1] = rom] \o around)
    BY <1>7 DEF SplitForResetRom, RomSection
  <2> QED  BY <1>2, <2>1, <2>2
<1>8. ASSUME o # 0, end = PageSize
      PROVE  SplitForResetRom(<< g >>, n) =
               SortSections(<< rom, Remainder(g, 0, PageSize - ResetRomSize) >>)
  <2> DEFINE around == << Remainder(g, 0, PageSize - ResetRomSize) >>
  <2>1. << rom >> \o around = << rom, Remainder(g, 0, PageSize - ResetRomSize) >>
    BY Concatenated
  <2>2. SplitForResetRom(<< g >>, n) = SortSections([<< g >> EXCEPT ![1] = rom] \o around)
    BY <1>8 DEF SplitForResetRom, RomSection
  <2> QED  BY <1>2, <2>1, <2>2
<1>9. ASSUME o # 0, end # PageSize
      PROVE  SplitForResetRom(<< g >>, n) =
               SortSections(<< rom, Remainder(g, 0, PageSize - o),
                               Remainder(g, end + 1, PageSize - end) >>)
  <2> DEFINE around == << Remainder(g, 0, PageSize - o), Remainder(g, end + 1, PageSize - end) >>
  <2>1. << rom >> \o around = << rom, Remainder(g, 0, PageSize - o),
                                 Remainder(g, end + 1, PageSize - end) >>
    BY Concatenated
  <2>2. SplitForResetRom(<< g >>, n) = SortSections([<< g >> EXCEPT ![1] = rom] \o around)
    BY <1>9 DEF SplitForResetRom, RomSection
  <2> QED  BY <1>2, <2>1, <2>2
<1> HIDE DEF rom
<1>10. CASE o = 0
  <2>1. PICK x : x = Remainder(g, ResetRomSize, PageSize - ResetRomSize)
    OBVIOUS
  <2>2. x.device = g.device /\ x.pageOffset = ResetRomSize
    BY <1>1, <1>4, <2>1, Unwrapped
  <2>3. PICK u : u = << rom, x >>
    OBVIOUS
  <2>4. DOMAIN u = 1 .. 2 /\ u[1] = rom /\ u[2] = x /\ \A i \in 2 .. 2 : i = 2
    BY <2>3
  <2>5. /\ BeginsBehind(v, x) /\ InPageOffset(v) + ResetRomSize # PageSize
        /\ x.pageOffset # 0 /\ InPageOffset(v) + ResetRomSize <= x.pageOffset
    BY <1>1, <1>10, <2>2 DEF BeginsBehind
  <2>6. D[u[2].device].kind = "MEMORY"
    BY <1>5, <2>2, <2>4
  <2>7. PageInv(D, v, p, u)
    <3> HIDE DEF o, end
    <3>1. \A i \in 2 .. 2 : D[u[i].device].kind = "MEMORY"
      BY <2>4, <2>6
    <3>2. \A i \in 2 .. 2 :
           /\ EndsBefore(v, u[i]) \/ BeginsBehind(v, u[i])
           /\ \/ HeadOf(D, v, p, u[i]) /\ i = 2
              \/ /\ i = 2 /\ InPageOffset(v) + ResetRomSize # PageSize
                 /\ u[i].pageOffset # 0 /\ InPageOffset(v) + ResetRomSize <= u[i].pageOffset
      BY <2>4, <2>5
    <3> QED  BY <2>4, <3>1, <3>2, RomAndMemory, 2 \in Nat, 2 >= 1, Zenon DEF rom
  <2> QED  BY <1>1, <1>6, <1>7, <1>10, <2>1, <2>3, <2>7 DEF rom
<1>11. CASE o # 0 /\ end = PageSize
  <2>1. PICK x : x = Remainder(g, 0, PageSize - ResetRomSize)
    OBVIOUS
  <2>2. x.device = g.device /\ x.pageOffset = 0 /\ x.size = o
    <3>1. PageSize - ResetRomSize = o /\ 0 < Wrap /\ o < Wrap
      BY <1>1, <1>11
    <3> QED  BY <1>1, <1>4, <2>1, <3>1, Unwrapped
  <2>3. PICK u : u = << rom, x >>
    OBVIOUS
  <2>4. DOMAIN u = 1 .. 2 /\ u[1] = rom /\ u[2] = x /\ \A i \in 2 .. 2 : i = 2
    BY <2>3
  <2>5. EndsBefore(v, x) /\ HeadOf(D, v, p, x)
    BY <1>1, <1>3, <1>11, <2>2 DEF EndsBefore, HeadOf
  <2>6. D[u[2].device].kind = "MEMORY"
    BY <1>5, <2>2, <2>4
  <2>7. PageInv(D, v, p, u)
    <3> HIDE DEF o, end
    <3>1. \A i \in 2 .. 2 : D[u[i].device].kind = "MEMORY"
      BY <2>4, <2>6
    <3>2. \A i \in 2 .. 2 :
           /\ EndsBefore(v, u[i]) \/ BeginsBehind(v, u[i])
           /\ \/ HeadOf(D, v, p, u[i]) /\ i = 2
              \/ /\ i = 2 /\ InPageOffset(v) + ResetRomSize # PageSize
                 /\ u[i].pageOffset # 0 /\ InPageOffset(v) + ResetRomSize <= u[i].pageOffset
      BY <2>4, <2>5
    <3> QED  BY <2>4, <3>1, <3>2, RomAndMemory, 2 \in Nat, 2 >= 1, Zenon DEF rom
  <2> QED  BY <1>1, <1>6, <1>8, <1>11, <2>1, <2>3, <2>7 DEF rom
<1>12. CASE o # 0 /\ end # PageSize
  <2>1. PICK x, y : x = Remainder(g, 0, PageSize - o) /\ y = Remainder(g, end + 1, PageSize - end)
    OBVIOUS
  <2>2. x.device = g.device /\ x.pageOffset = 0 /\ x.size = PageSize - o
    <3>1. PageSize - o \in Nat /\ PageSize - o < Wrap /\ 0 < Wrap
      BY <1>1
    <3> QED  BY <1>1, <1>4, <2>1, <3>1, Unwrapped
  <2>3. y.device = g.device /\ (Sound(v) => y.pageOffset = end + 1)
    <3>1. Sound(v) => end + 1 \in Nat /\ end + 1 < Wrap
      BY <1>1, <1>12 DEF Sound
    <3> QED  BY <1>4, <2>1, <3>1, Unwrapped
  <2>4. PICK u : u = << rom, x, y >>
    OBVIOUS
  <2>5. /\ DOMAIN u = 1 .. 3 /\ u[1] = rom /\ u[2] = x /\ u[3] = y
        /\ \A i \in 2 .. 3 : i = 2 \/ i = 3
    BY <2>4
  <2>6. Sound(v) =>
          /\ EndsBefore(v, x) /\ HeadOf(D, v, p, x) /\ BeginsBehind(v, y)
          /\ y.pageOffset # 0 /\ InPageOffset(v) + ResetRomSize <= y.pageOffset
    BY <1>1, <1>3, <1>12, <2>2, <2>3 DEF EndsBefore, HeadOf, BeginsBehind, Sound
  <2>7. InPageOffset(v) + ResetRomSize # PageSize
    BY <1>12
  <2>8. PageInv(D, v, p, u)
    <3> HIDE DEF o, end
    <3>1. \A i \in 2 .. 3 : D[u[i].device].kind = "MEMORY"
      BY <1>5, <2>2, <2>3, <2>5
    <3>2. Sound(v) => \A i \in 2 .. 3 :
           /\ EndsBefore(v, u[i]) \/ BeginsBehind(v, u[i])
           /\ \/ HeadOf(D, v, p, u[i]) /\ i = 2
              \/ /\ i = 3 /\ InPageOffset(v) + ResetRomSize # PageSize
                 /\ u[i].pageOffset # 0 /\ InPageOffset(v) + ResetRomSize <= u[i].pageOffset
      BY <2>5, <2>6, <2>7
    <3> QED  BY <2>5, <3>1, <3>2, RomAndMemory, 3 \in Nat, 3 >= 1, Zenon DEF rom
  <2> HIDE DEF o, end
  <2> QED  BY <1>6, <1>9, <1>12, <2>1, <2>4, <2>8 DEF rom
<1> QED  BY <1>10, <1>11, <1>12

----------------------------------------------------------------------------
(* The page a firmware is mapped to, and all others. *)

LEMMA RangeIn ==
  ASSUME NEW G, NEW s \in Seq(G)
  PROVE  /\ \A g \in Range(s) : g \in G
         /\ DOMAIN s = 1 .. Len(s) /\ Len(s) \in Nat
         /\ \A i \in DOMAIN s : s[i] \in Range(s) /\ s[i] \in G
<1>1. \A i \in DOMAIN s : s[i] \in G
  OBVIOUS
<1> QED  BY <1>1 DEF Range

(* Registering a firmware changes no page. *)
LEMMA FirmwareRegistered ==
  ASSUME NEW D \in Seq(DeviceType), NEW d \in DeviceType, d.kind = "FIRMWARE",
         NEW v, NEW p, NEW s \in Seq(SectionType(Len(D))), PageInv(D, v, p, s)
  PROVE  PageInv(Append(D, d), v, p, s)
<1> DEFINE N == Len(D)
<1>1. PICK E : E = Append(D, d)
  OBVIOUS
<1>2. /\ N \in Nat /\ DOMAIN D = 1 .. N /\ DOMAIN E = 1 .. N + 1
      /\ \A k \in 1 .. N : E[k] = D[k] /\ E[N + 1] = d
  BY <1>1
<1>3. E[N + 1] = d
  BY <1>1
<1>4. \A g \in Range(s) : g.device \in 1 .. N
  <2>1. \A g \in Range(s) : g \in SectionType(N)
    BY RangeIn
  <2> QED  BY <2>1 DEF SectionType
<1>5. \A k \in 1 .. N : Home(E, k) = Home(D, k) /\ FirmwareSection(E, k) = FirmwareSection(D, k)
  BY <1>2 DEF Home, FirmwareSection
<1>6. Ruled(E, v, p) <=> Ruled(D, v, p)
  <2>1. (\E r \in 1 .. N + 1 : E[r].kind = "RESET_ROM")
          <=> (\E r \in 1 .. N : D[r].kind = "RESET_ROM")
    <3>1. \A r \in 1 .. N + 1 : r \in 1 .. N \/ r = N + 1
      BY <1>2
    <3>2. 1 .. N \subseteq 1 .. N + 1
      BY <1>2
    <3> HIDE DEF N
    <3> QED  BY <1>2, <1>3, <3>1, <3>2
  <2> QED  BY <1>2, <2>1 DEF Ruled
<1> HIDE DEF N
<1>7. RomsAtHome(E, v, p, s)
  BY <1>2, <1>4, <1>5, <1>6 DEF PageInv, RomsAtHome
<1>8. \A r \in 1 .. N + 1 : E[r].kind = "RESET_ROM" => r \in 1 .. N /\ D[r].kind = "RESET_ROM"
  BY <1>2, <1>3
<1>9. RomShown(E, v, p, s)
  BY <1>2, <1>6, <1>8 DEF PageInv, RomShown
<1>10. \A g \in Range(s) : TailOf(E, v, p, g) <=> TailOf(D, v, p, g)
  BY <1>2, <1>4, <1>6 DEF TailOf, HeadOf
<1>11. OneTail(E, v, p, s)
  <2>1. \A i \in DOMAIN s : TailOf(E, v, p, s[i]) <=> TailOf(D, v, p, s[i])
    BY <1>10 DEF Range
  <2>2. OneTail(D, v, p, s)
    BY DEF PageInv
  <2> QED  BY <1>6, <1>10, <2>1, <2>2 DEF OneTail
<1>12. ASSUME NEW k \in 1 .. N + 1, Whole(E, v, k), p = Home(E, k), FirmwareSection(E, k) \in Range(s)
       PROVE  \A g \in Range(s) : g = FirmwareSection(E, k) \/ ClearOf(g, FirmwareSection(E, k))
  <2>1. FirmwareSection(E, k).device = k
    BY DEF FirmwareSection, Section
  <2>2. k \in 1 .. N
    BY <1>4, <1>12, <2>1
  <2>3. \A j \in 1 .. N : Apart(E, j, k) <=> Apart(D, j, k)
    BY <1>2, <2>2 DEF Apart, Mapped
  <2>4. Home(E, k) = Home(D, k) /\ FirmwareSection(E, k) = FirmwareSection(D, k) /\ E[k] = D[k]
    BY <1>2, <1>5, <2>2
  <2>5. Whole(D, v, k)
    <3>1. Ruled(D, v, Home(D, k)) => Sound(v)
      BY <1>6, <1>12, <2>4 DEF Whole
    <3>2. \A j \in 1 .. N : D[j].kind # "MEMORY" /\ j # k => Apart(D, j, k)
      <4> SUFFICES ASSUME NEW j \in 1 .. N, D[j].kind # "MEMORY", j # k PROVE Apart(D, j, k)
        OBVIOUS
      <4>1. j \in 1 .. N + 1 /\ E[j] = D[j]
        BY <1>2
      <4> QED  BY <1>2, <1>12, <2>3, <4>1 DEF Whole
    <3> QED  BY <1>2, <1>12, <2>4, <3>1, <3>2 DEF Whole
  <2>6. FirmwareClear(D, v, p, s)
    BY DEF PageInv
  <2> QED  BY <1>2, <1>12, <2>2, <2>4, <2>5, <2>6 DEF FirmwareClear
<1>13. FirmwareClear(E, v, p, s)
  BY <1>2, <1>12 DEF FirmwareClear
<1>14. ASSUME AllApart(E) PROVE AllApart(D)
  <2> SUFFICES ASSUME NEW j \in 1 .. N, NEW k \in 1 .. N,
                      D[j].kind # "MEMORY", D[k].kind # "MEMORY", j # k
               PROVE  Apart(D, j, k)
    BY <1>2 DEF AllApart
  <2>1. /\ j \in 1 .. N + 1 /\ k \in 1 .. N + 1
        /\ E[j] = D[j] /\ E[k] = D[k]
    BY <1>2
  <2>2. Apart(E, j, k)
    BY <1>2, <1>14, <2>1 DEF AllApart
  <2> QED  BY <2>1, <2>2 DEF Apart, Mapped
<1>15. MemoryAround(E, v, p, s)
  <2>1. \A i \in DOMAIN s : MemoryHead(E, v, p, s[i]) <=> MemoryHead(D, v, p, s[i])
    BY <1>2, <1>4, <1>6 DEF MemoryHead, HeadOf, Range
  <2>2. MemoryAround(D, v, p, s)
    BY DEF PageInv
  <2> QED  BY <1>6, <1>10, <1>14, <2>1, <2>2 DEF MemoryAround
<1> QED  BY <1>1, <1>7, <1>9, <1>11, <1>13, <1>15 DEF PageInv

(* The sections of a page after SplitForFirmware in its last section: f and *)
(* the rest in its place.                                                   *)
SplitLast(s, t, f, rest) ==
  /\ DOMAIN t = 1 .. Len(s) + 1
  /\ \A j \in 1 .. Len(s) - 1 : t[j] = s[j]
  /\ t[Len(s)] = f
  /\ t[Len(s) + 1] = rest

LEMMA SplitShape ==
  ASSUME NEW G, NEW s \in Seq(G), Len(s) > 0, NEW n, NEW size, NEW base
  PROVE  SplitLast(s, SplitForFirmware(s, Len(s), n, size, base),
                   Section(n, TRUE, 0, InPageOffset(base), size),
                   Remainder(s[Len(s)], InPageOffset(base) + size,
                             PageSize - (InPageOffset(base) + size)))
<1> DEFINE o == InPageOffset(base)
<1>1. PICK f, rest : /\ f = Section(n, TRUE, 0, o, size)
                     /\ rest = Remainder(s[Len(s)], o + size, PageSize - (o + size))
  OBVIOUS
<1>2. SplitForFirmware(s, Len(s), n, size, base) = [s EXCEPT ![Len(s)] = f] \o << rest >>
  BY <1>1 DEF SplitForFirmware
<1>3. PICK H : G \subseteq H /\ f \in H /\ rest \in H
  <2>1. G \subseteq G \cup {f, rest} /\ f \in G \cup {f, rest} /\ rest \in G \cup {f, rest}
    OBVIOUS
  <2> QED  BY <2>1
<1>4. s \in Seq(H)
  BY <1>3
<1>5. PICK u : u = [s EXCEPT ![Len(s)] = f]
  OBVIOUS
<1>6. /\ u \in Seq(H) /\ Len(u) = Len(s) /\ Len(s) \in Nat /\ DOMAIN s = 1 .. Len(s)
      /\ u[Len(s)] = f /\ \A j \in 1 .. Len(s) - 1 : u[j] = s[j]
  BY <1>3, <1>4, <1>5
<1>7. PICK w : w = << rest >>
  OBVIOUS
<1>8. w \in Seq(H) /\ Len(w) = 1 /\ w[1] = rest
  BY <1>3, <1>7
<1>9. /\ u \o w \in Seq(H) /\ Len(u \o w) = Len(u) + Len(w)
      /\ \A j \in 1 .. Len(u) + Len(w) :
           (u \o w)[j] = IF j <= Len(u) THEN u[j] ELSE w[j - Len(u)]
  <2>1. u \in Seq(H) /\ w \in Seq(H)
    BY <1>6, <1>8
  <2> QED  BY <2>1, ConcatProperties, Zenon
<1>10. \A j \in 1 .. Len(s) : (u \o w)[j] = u[j]
  BY <1>6, <1>8, <1>9
<1>11. (u \o w)[Len(s) + 1] = rest
  BY <1>6, <1>8, <1>9
<1>12. PICK t \in Seq(H) : t = u \o w
  BY <1>9
<1>13. /\ DOMAIN t = 1 .. Len(s) + 1 /\ t[Len(s)] = f /\ t[Len(s) + 1] = rest
       /\ \A j \in 1 .. Len(s) - 1 : t[j] = s[j]
  <2>1. Len(t) = Len(s) + 1 /\ DOMAIN t = 1 .. Len(t)
    BY <1>6, <1>8, <1>9, <1>12
  <2>2. \A j \in 1 .. Len(s) : t[j] = u[j]
    BY <1>10, <1>12
  <2>3. Len(s) \in 1 .. Len(s) /\ \A j \in 1 .. Len(s) - 1 : j \in 1 .. Len(s)
    BY <1>6
  <2> QED  BY <1>6, <1>11, <1>12, <2>1, <2>2, <2>3
<1>14. SplitForFirmware(s, Len(s), n, size, base) = t
  BY <1>2, <1>5, <1>7, <1>12
<1>15. SplitLast(s, t, f, rest)
  BY <1>13 DEF SplitLast
<1> QED  BY <1>1, <1>14, <1>15

(* Two ROMs of one page that are apart are apart in the page. *)
LEMMA ApartInPage ==
  ASSUME NEW D, NEW j \in DOMAIN D, NEW k \in DOMAIN D,
         D[j].base \in Nat, D[k].base \in Nat, Mapped(D, j) \in Nat, Mapped(D, k) \in Nat,
         GetPageNumber(D[j].base) = GetPageNumber(D[k].base),
         Apart(D, j, k), InPageOffset(D[j].base) < InPageOffset(D[k].base)
  PROVE  InPageOffset(D[j].base) + Mapped(D, j) <= InPageOffset(D[k].base)
<1>1. D[j].base - D[k].base = InPageOffset(D[j].base) - InPageOffset(D[k].base)
  BY SamePage
<1>2. InPageOffset(D[j].base) \in Int /\ InPageOffset(D[k].base) \in Int
  BY OffsetInPage
<1> QED  BY <1>1, <1>2 DEF Apart

(* The last page of the reset ROM, if no byte is in it, has no memory left. *)
LEMMA RomPage ==
  ASSUME NEW v \in Nat, NEW p \in RomPages(v),
         InPageOffset(v) + ResetRomSize < PageSize
  PROVE  p = GetPageNumber(v) + 1
<1>1. GetPageNumber(v + ResetRomSize) = GetPageNumber(v) /\ GetPageNumber(v) \in Nat
  BY WithinPage, ConstantsNat
<1> QED  BY <1>1 DEF RomPages

(* Mapping the last device, a firmware, in the last section of a page. *)
LEMMA FirmwareMapped ==
  ASSUME NEW D \in Seq(DeviceType), NEW v \in Nat, NEW p,
         \A r \in DOMAIN D : D[r].kind = "RESET_ROM" => D[r].base = v,
         NEW n \in DOMAIN D, D[n].kind = "FIRMWARE", p = Home(D, n),
         InPageOffset(D[n].base) + D[n].size < Wrap,
         NEW s \in Seq(SectionType(Len(D))), Len(s) > 0,
         \A g \in Range(s) : g.device # n,
         PageInv(D, v, p, s),
         D[s[Len(s)].device].kind = "MEMORY",
         s[Len(s)].pageOffset >= InPageOffset(D[n].base),
         \A j \in 1 .. Len(s) - 1 : s[j].pageOffset < InPageOffset(D[n].base)
  PROVE  PageInv(D, v, p, SplitForFirmware(s, Len(s), n, D[n].size, D[n].base))
<1> DEFINE o == InPageOffset(D[n].base)
           ov == InPageOffset(v)
           z == D[n].size
<1>1. PICK i, t, f, rest :
        /\ i = Len(s) /\ t = SplitForFirmware(s, i, n, z, D[n].base)
        /\ f = FirmwareSection(D, n) /\ rest = Remainder(s[i], o + z, PageSize - (o + z))
  OBVIOUS
<1>2. /\ i \in Nat /\ i > 0 /\ DOMAIN s = 1 .. i /\ DOMAIN t = 1 .. i + 1
      /\ \A j \in 1 .. i - 1 : t[j] = s[j]
      /\ t[i] = f /\ t[i + 1] = rest
  <2>1. Len(s) \in Nat /\ DOMAIN s = 1 .. Len(s)
    BY RangeIn
  <2>2. SplitLast(s, t, f, rest)
    <3>1. SplitLast(s, SplitForFirmware(s, Len(s), n, z, D[n].base),
                    Section(n, TRUE, 0, o, z),
                    Remainder(s[Len(s)], o + z, PageSize - (o + z)))
      BY SplitShape
    <3>2. f = Section(n, TRUE, 0, o, z)
      BY <1>1 DEF FirmwareSection
    <3> HIDE DEF o, z
    <3> QED  BY <1>1, <3>1, <3>2
  <2> HIDE DEF o, z
  <2> QED  BY <1>1, <2>1, <2>2 DEF SplitLast
<1>3. \A r \in DOMAIN D : /\ D[r].kind \in {"MEMORY", "RESET_ROM", "FIRMWARE"}
                          /\ D[r].size \in Nat /\ D[r].base \in Nat /\ Mapped(D, r) \in Nat
  <2>1. \A r \in DOMAIN D : D[r] \in DeviceType
    OBVIOUS
  <2> QED  BY <2>1, ConstantsNat DEF DeviceType, Kinds, Mapped
<1>4. o \in Nat /\ ov \in Nat /\ z \in Nat /\ ResetRomSize \in Nat /\ ResetRomSize > 0
  <2>1. D[n].base \in Nat /\ D[n].size \in Nat
    BY <1>3
  <2>2. o \in Nat /\ ov \in Nat
    <3> HIDE DEF o, ov
    <3> QED  BY <2>1, OffsetNat DEF o, ov
  <2> QED  BY <2>1, <2>2, ResetRomSizeAssumption
<1>5. /\ f.device = n /\ f.pageOffset = o /\ f.size = z
      /\ rest.device = s[i].device /\ rest.pageOffset = o + z
  <2>1. (o + z) % Wrap = o + z
    BY <1>4, Unwrapped
  <2> QED  BY <1>1, <2>1 DEF FirmwareSection, Remainder, Section
<1>6. \A g \in Range(s) : /\ g.device \in DOMAIN D /\ g.pageOffset \in Nat /\ g.size \in Nat
  <2>1. \A g \in Range(s) : g \in SectionType(Len(D))
    BY RangeIn
  <2>2. DOMAIN D = 1 .. Len(D)
    OBVIOUS
  <2>3. 0 .. Wrap - 1 \subseteq Nat
    BY ConstantsNat
  <2>4. \A g \in SectionType(Len(D)) :
          g.device \in 1 .. Len(D) /\ g.pageOffset \in 0 .. Wrap - 1 /\ g.size \in 0 .. Wrap - 1
    BY DEF SectionType
  <2> QED  BY <2>1, <2>2, <2>3, <2>4
<1>7. \A j \in 1 .. i - 1 : s[j] \in Range(s) /\ s[j].pageOffset < o
  BY <1>1, <1>2 DEF Range
<1>8. s[i] \in Range(s) /\ D[s[i].device].kind = "MEMORY" /\ s[i].pageOffset >= o
  BY <1>1, <1>2 DEF Range
<1>9. \A g \in Range(t) : g = f \/ g = rest \/ \E j \in 1 .. i - 1 : g = s[j]
  BY <1>2 DEF Range
<1>10. \A g \in Range(s) : D[g.device].kind # "MEMORY" =>
         g \in Range(t) /\ \E j \in 1 .. i - 1 : g = s[j]
  <2> SUFFICES ASSUME NEW j \in 1 .. i, D[s[j].device].kind # "MEMORY"
               PROVE  j \in 1 .. i - 1 /\ s[j] \in Range(t)
    BY <1>2 DEF Range
  <2>1. j # i
    BY <1>8
  <2>2. j \in 1 .. i - 1 /\ j \in 1 .. i + 1
    BY <1>2, <2>1
  <2>3. t[j] = s[j]
    BY <1>2, <2>2
  <2> QED  BY <1>2, <2>2, <2>3 DEF Range
<1>11. ASSUME Ruled(D, v, p), Sound(v)
       PROVE  ov < o
  <2>1. PICK r \in DOMAIN D : D[r].kind = "RESET_ROM"
    BY <1>11 DEF Ruled
  <2>2. RomSection(v, r) \in Range(s)
    BY <1>11, <2>1 DEF PageInv, RomShown
  <2>3. RomSection(v, r).device = r /\ RomSection(v, r).pageOffset = ov
    BY DEF RomSection, Section
  <2>4. \E j \in 1 .. i - 1 : RomSection(v, r) = s[j]
    BY <1>10, <2>1, <2>2, <2>3
  <2> QED  BY <1>7, <2>3, <2>4
<1>12. ASSUME Ruled(D, v, p) => Sound(v)
       PROVE  /\ TailOf(D, v, p, s[i])
              /\ \A j \in 1 .. i - 1 : ~TailOf(D, v, p, s[j])
              /\ Ruled(D, v, p) => ov + ResetRomSize # PageSize
              /\ ~TailOf(D, v, p, f)
  <2>1. TailOf(D, v, p, s[i])
    BY <1>4, <1>6, <1>8, <1>11, <1>12 DEF TailOf, HeadOf
  <2>2. OneTail(D, v, p, s)
    BY DEF PageInv
  <2>3. \A j \in 1 .. i - 1 : ~TailOf(D, v, p, s[j])
    <3> SUFFICES ASSUME NEW j \in 1 .. i - 1, TailOf(D, v, p, s[j]) PROVE FALSE
      OBVIOUS
    <3>1. j \in 1 .. i /\ i \in 1 .. i /\ j # i
      BY <1>2
    <3> QED  BY <1>2, <1>12, <2>1, <2>2, <3>1 DEF OneTail
  <2>4. Ruled(D, v, p) => ov + ResetRomSize # PageSize
    BY <1>8, <1>12, <2>1, <2>2 DEF OneTail
  <2>5. ~TailOf(D, v, p, f)
    BY <1>5 DEF TailOf
  <2> QED  BY <2>1, <2>3, <2>4, <2>5
<1> HIDE DEF z
<1>13. RomsAtHome(D, v, p, t)
  <2> SUFFICES ASSUME NEW g \in Range(t)
               PROVE  /\ D[g.device].kind = "FIRMWARE" =>
                           p = Home(D, g.device) /\ g = FirmwareSection(D, g.device)
                      /\ D[g.device].kind = "RESET_ROM" =>
                           Ruled(D, v, p) /\ g = RomSection(v, g.device)
    BY DEF RomsAtHome
  <2>1. CASE g = f
    BY <1>1, <1>5, <2>1
  <2>2. CASE g = rest
    BY <1>5, <1>8, <2>2
  <2>3. CASE \E j \in 1 .. i - 1 : g = s[j]
    BY <1>7, <2>3 DEF PageInv, RomsAtHome
  <2> QED  BY <1>9, <2>1, <2>2, <2>3
<1>14. RomShown(D, v, p, t)
  <2> SUFFICES ASSUME Ruled(D, v, p), Sound(v), NEW r \in DOMAIN D, D[r].kind = "RESET_ROM"
               PROVE  /\ RomSection(v, r) \in Range(t)
                      /\ \A g \in Range(t) : \/ g = RomSection(v, r)
                                             \/ EndsBefore(v, g) \/ BeginsBehind(v, g)
    BY DEF RomShown
  <2>1. /\ RomSection(v, r) \in Range(s)
        /\ \A g \in Range(s) : \/ g = RomSection(v, r)
                               \/ EndsBefore(v, g) \/ BeginsBehind(v, g)
    BY DEF PageInv, RomShown
  <2>2. RomSection(v, r).device = r
    BY DEF RomSection, Section
  <2>3. BeginsBehind(v, f) /\ BeginsBehind(v, rest)
    BY <1>4, <1>5, <1>11 DEF BeginsBehind
  <2>4. RomSection(v, r) \in Range(t)
    BY <1>10, <2>1, <2>2
  <2> QED  BY <1>7, <1>9, <2>1, <2>3, <2>4
<1>15. OneTail(D, v, p, t)
  <2> SUFFICES ASSUME Ruled(D, v, p) => Sound(v)
               PROVE  /\ \A j \in 1 .. i + 1 : TailOf(D, v, p, t[j]) => j = i + 1
                      /\ ~ (Ruled(D, v, p) /\ ov + ResetRomSize = PageSize)
    BY <1>2 DEF OneTail
  <2>1. \A j \in 1 .. i + 1 : j \in 1 .. i - 1 \/ j = i \/ j = i + 1
    BY <1>2
  <2> QED  BY <1>2, <1>12, <2>1
<1>16. ASSUME NEW k \in DOMAIN D, Whole(D, v, k), p = Home(D, k), NEW g \in Range(t),
              FirmwareSection(D, k) \in Range(t), g # FirmwareSection(D, k)
       PROVE  ClearOf(g, FirmwareSection(D, k))
  <2> DEFINE fk == FirmwareSection(D, k)
  <2>1. fk.device = k /\ fk.pageOffset = InPageOffset(D[k].base) /\ fk.size = D[k].size
    BY DEF FirmwareSection, Section
  <2>2. /\ Ruled(D, v, p) => Sound(v)
        /\ D[k].kind = "FIRMWARE" /\ Mapped(D, k) = D[k].size
        /\ \A j \in DOMAIN D : D[j].kind # "MEMORY" /\ j # k => Apart(D, j, k)
    BY <1>16 DEF Whole, Mapped
  <2>3. CASE k = n
    <3>1. fk = f
      BY <1>1, <2>3
    <3>2. CASE g = rest
      BY <1>4, <1>5, <3>1, <3>2 DEF ClearOf
    <3>3. CASE \E j \in 1 .. i - 1 : g = s[j]
      <4>1. g \in Range(s) /\ g.pageOffset < o /\ ~TailOf(D, v, p, g)
        BY <1>7, <1>12, <2>2, <3>3
      <4>2. g.pageOffset + g.size <= o
        <5>1. CASE D[g.device].kind = "MEMORY"
          <6>1. HeadOf(D, v, p, g)
            BY <4>1, <5>1 DEF TailOf
          <6> QED  BY <1>4, <1>6, <1>11, <2>2, <4>1, <6>1 DEF HeadOf
        <5>2. CASE D[g.device].kind = "RESET_ROM"
          <6>1. Ruled(D, v, p) /\ g = RomSection(v, g.device) /\ g.device \in DOMAIN D
            BY <1>6, <4>1, <5>2 DEF PageInv, RomsAtHome
          <6>2. g.pageOffset = ov /\ g.size = ResetRomSize
            BY <6>1 DEF RomSection, Section
          <6>3. ov + ResetRomSize < PageSize
            BY <1>4, <1>12, <2>2, <6>1, ConstantsNat DEF Sound
          <6>4. p = GetPageNumber(v) + 1 /\ p = GetPageNumber(D[n].base) + 1
            BY <6>1, <6>3, RomPage DEF Ruled, Home
          <6>5. GetPageNumber(v) = GetPageNumber(D[n].base)
            <7>1. GetPageNumber(v) \in Int /\ GetPageNumber(D[n].base) \in Int
              BY <1>3, PageSizeAssumption DEF GetPageNumber
            <7> QED  BY <6>4, <7>1
          <6>6. D[g.device].base = v /\ Mapped(D, g.device) = ResetRomSize
            BY <5>2, <6>1 DEF Mapped
          <6>7. Apart(D, g.device, n)
            BY <2>2, <2>3, <5>2, <6>1
          <6>8. ov + ResetRomSize <= o
            BY <1>3, <1>11, <2>2, <6>1, <6>5, <6>6, <6>7, ApartInPage
          <6> QED  BY <6>2, <6>8
        <5>3. CASE D[g.device].kind = "FIRMWARE"
          <6>1. g = FirmwareSection(D, g.device) /\ p = Home(D, g.device) /\ g.device \in DOMAIN D
            BY <1>6, <4>1, <5>3 DEF PageInv, RomsAtHome
          <6>2. /\ g.pageOffset = InPageOffset(D[g.device].base)
                /\ g.size = D[g.device].size /\ Mapped(D, g.device) = g.size
            <7>1. PICK d : d = g.device
              OBVIOUS
            <7> QED  BY <5>3, <6>1, <7>1 DEF FirmwareSection, Section, Mapped
          <6>3. GetPageNumber(D[g.device].base) = GetPageNumber(D[n].base)
            <7>1. GetPageNumber(D[g.device].base) \in Int /\ GetPageNumber(D[n].base) \in Int
              BY <1>3, <6>1, PageSizeAssumption, SMTT(30) DEF GetPageNumber
            <7> QED  BY <6>1, <7>1 DEF Home
          <6>4. Apart(D, g.device, n)
            BY <2>2, <2>3, <4>1, <5>3, <6>1
          <6>5. InPageOffset(D[g.device].base) + Mapped(D, g.device) <= o
            BY <1>3, <4>1, <6>1, <6>2, <6>3, <6>4, ApartInPage
          <6> QED  BY <6>2, <6>5
        <5> QED  BY <1>3, <1>6, <4>1, <5>1, <5>2, <5>3
      <4> QED  BY <1>5, <3>1, <4>2 DEF ClearOf
    <3> QED  BY <1>9, <1>16, <3>1, <3>2, <3>3
  <2>4. CASE k # n
    <3>1. fk \in Range(s) /\ fk.pageOffset < o
      <4>1. \E j \in 1 .. i - 1 : fk = s[j]
        BY <1>5, <1>8, <1>9, <1>16, <2>1, <2>2, <2>4
      <4> QED  BY <1>7, <4>1
    <3>2. fk.pageOffset + fk.size <= o
      <4>1. GetPageNumber(D[k].base) = GetPageNumber(D[n].base)
        <5>1. GetPageNumber(D[k].base) \in Int /\ GetPageNumber(D[n].base) \in Int
          BY <1>3, PageSizeAssumption DEF GetPageNumber
        <5> QED  BY <1>16, <5>1 DEF Home
      <4>2. Apart(D, k, n)
        <5>1. Apart(D, n, k)
          BY <2>2, <2>4
        <5> QED  BY <5>1 DEF Apart
      <4>3. InPageOffset(D[k].base) + Mapped(D, k) <= o
        BY <1>3, <2>1, <3>1, <4>1, <4>2, ApartInPage
      <4> QED  BY <2>1, <2>2, <4>3
    <3>3. CASE g = f
      BY <1>5, <3>2, <3>3 DEF ClearOf
    <3>4. CASE g = rest
      <4>1. fk.pageOffset + fk.size <= o + z
        <5>1. fk.pageOffset \in Nat /\ fk.size \in Nat
          BY <1>6, <3>1
        <5> QED  BY <1>4, <3>2, <5>1
      <4> QED  BY <1>5, <3>4, <4>1 DEF ClearOf
    <3>5. CASE \E j \in 1 .. i - 1 : g = s[j]
      <4>1. g \in Range(s)
        BY <1>7, <3>5
      <4> QED  BY <1>16, <3>1, <4>1 DEF PageInv, FirmwareClear
    <3> QED  BY <1>9, <3>3, <3>4, <3>5
  <2> QED  BY <2>3, <2>4
<1>17. FirmwareClear(D, v, p, t)
  BY <1>16 DEF FirmwareClear
<1>18. ASSUME Ruled(D, v, p), Sound(v), AllApart(D)
       PROVE  ov + ResetRomSize <= o
  <2>1. PICK r \in DOMAIN D : D[r].kind = "RESET_ROM"
    BY <1>18 DEF Ruled
  <2>2. ov + ResetRomSize < PageSize
    BY <1>4, <1>12, <1>18, ConstantsNat, ResetRomSizeAssumption DEF Sound
  <2>3. p = GetPageNumber(v) + 1 /\ p = GetPageNumber(D[n].base) + 1
    BY <1>18, <2>2, RomPage DEF Ruled, Home
  <2>4. GetPageNumber(v) = GetPageNumber(D[n].base)
    <3>1. GetPageNumber(v) \in Int /\ GetPageNumber(D[n].base) \in Int
      BY <1>3, PageSizeAssumption DEF GetPageNumber
    <3> QED  BY <2>3, <3>1
  <2>5. D[r].base = v /\ Mapped(D, r) = ResetRomSize /\ r # n
    BY <2>1 DEF Mapped
  <2>6. Apart(D, r, n)
    BY <1>18, <2>1, <2>5 DEF AllApart
  <2> QED  BY <1>3, <1>11, <1>18, <2>4, <2>5, <2>6, ApartInPage
<1>19. MemoryAround(D, v, p, t)
  <2> SUFFICES ASSUME Ruled(D, v, p), Sound(v)
               PROVE  /\ \A j, k \in 1 .. i + 1 :
                           MemoryHead(D, v, p, t[j]) /\ MemoryHead(D, v, p, t[k]) => j = k
                      /\ AllApart(D) => \A g \in Range(t) :
                           TailOf(D, v, p, g) => ov + ResetRomSize <= g.pageOffset
    BY <1>2 DEF MemoryAround
  <2>1. ~MemoryHead(D, v, p, f) /\ ~MemoryHead(D, v, p, rest)
    BY <1>4, <1>5, <1>11 DEF MemoryHead, HeadOf
  <2>2. \A j \in 1 .. i + 1 : MemoryHead(D, v, p, t[j]) =>
          j \in 1 .. i /\ t[j] = s[j]
    <3>1. \A j \in 1 .. i + 1 : j \in 1 .. i - 1 \/ j = i \/ j = i + 1
      BY <1>2
    <3>2. \A j \in 1 .. i - 1 : j \in 1 .. i
      BY <1>2
    <3> QED  BY <1>2, <2>1, <3>1, <3>2
  <2>3. \A j, k \in 1 .. i :
          MemoryHead(D, v, p, s[j]) /\ MemoryHead(D, v, p, s[k]) => j = k
    BY <1>2 DEF PageInv, MemoryAround
  <2>4. ASSUME AllApart(D), NEW g \in Range(t), TailOf(D, v, p, g)
        PROVE  ov + ResetRomSize <= g.pageOffset
    <3>1. g = rest
      BY <1>9, <1>12, <2>4
    <3> QED  BY <1>4, <1>5, <1>18, <2>4, <3>1
  <2> QED  BY <2>2, <2>3, <2>4
<1> QED  BY <1>1, <1>13, <1>14, <1>15, <1>17, <1>19 DEF PageInv, z

----------------------------------------------------------------------------
(* The whole page table, and the steps that keep it. *)

PagesInv(D, v, pages) ==
  /\ (\A k \in DOMAIN D : D[k].kind = "MEMORY") => \A p \in DOMAIN pages : Len(pages[p]) = 1
  /\ (\E r \in DOMAIN D : D[r].kind = "RESET_ROM") => RomPages(v) \subseteq DOMAIN pages
  /\ \A p \in DOMAIN pages : Sorted(pages[p]) /\ PageInv(D, v, p, pages[p])

RomInv ==
  /\ \A k \in Devices : Is(k, "RESET_ROM") => Base(k) = resetVector
  /\ Usable /\ ResetRomFirst /\ FirmwareEndsFit =>
       PagesInv(RegisteredDevices, resetVector, MemoryPages)

(* What is known of a device that is registered, and the devices then.      *)
Admitted(d) ==
  /\ ResetRomFirst /\ FirmwareEndsFit
  /\ d.kind = "MEMORY" => \A j \in Devices : ~Is(j, "RESET_ROM")
  /\ d.kind = "RESET_ROM" => \A j \in Devices : Is(j, "MEMORY")
  /\ d.kind = "FIRMWARE" => InPageOffset(d.base) + d.size < Wrap

(* The conditions on the devices held before, if they hold after.           *)
LEMMA FirstBefore ==
  ASSUME RegisteredDevices \in Seq(DeviceType), NEW d \in DeviceType,
         RegisteredDevices' = Append(RegisteredDevices, d),
         ResetRomFirst', FirmwareEndsFit'
  PROVE  Admitted(d)
<1> DEFINE N == Len(RegisteredDevices)
<1>1. N \in Nat /\ Devices = 1 .. N /\ Devices' = 1 .. N + 1
  BY DEF Devices
<1>2. \A k \in 1 .. N : RegisteredDevices'[k] = RegisteredDevices[k]
  BY <1>1
<1>3. RegisteredDevices'[N + 1] = d
  BY <1>1
<1>4. ResetRomFirst
  BY <1>1, <1>2 DEF ResetRomFirst, Is
<1>5. FirmwareEndsFit
  BY <1>1, <1>2 DEF FirmwareEndsFit, Is, Base, Size
<1>6. ASSUME d.kind = "MEMORY", NEW j \in 1 .. N, RegisteredDevices[j].kind = "RESET_ROM"
      PROVE  FALSE
  <2>1. RegisteredDevices'[j].kind = "RESET_ROM" /\ RegisteredDevices'[N + 1].kind = "MEMORY"
    BY <1>2, <1>3, <1>6
  <2>2. N + 1 < j
    BY <1>1, <2>1 DEF ResetRomFirst, Is
  <2> QED  BY <1>1, <2>2
<1>7. ASSUME d.kind = "RESET_ROM", NEW j \in 1 .. N
      PROVE  RegisteredDevices[j].kind = "MEMORY"
  <2>1. RegisteredDevices'[N + 1].kind = "RESET_ROM"
    BY <1>3, <1>7
  <2>2. j < N + 1 <=> RegisteredDevices'[j].kind = "MEMORY"
    BY <1>1, <2>1 DEF ResetRomFirst, Is
  <2> QED  BY <1>1, <1>2, <2>2
<1>8. d.kind = "FIRMWARE" => InPageOffset(d.base) + d.size < Wrap
  BY <1>1, <1>3 DEF FirmwareEndsFit, Is, Base, Size
<1> QED  BY <1>1, <1>4, <1>5, <1>6, <1>7, <1>8 DEF Is, Admitted

RomsAt(D, v) == \A r \in DOMAIN D : D[r].kind = "RESET_ROM" => D[r].base = v

(* Registering a device keeps the invariant if it keeps that of the pages.  *)
LEMMA RomRegistered ==
  ASSUME BusInv, RomInv, NEW d \in DeviceType, Register(d),
         d.kind = "RESET_ROM" => d.base = resetVector,
         ASSUME Usable', Admitted(d), RomsAt(Append(RegisteredDevices, d), resetVector),
                PagesInv(RegisteredDevices, resetVector, MemoryPages)
         PROVE  PagesInv(Append(RegisteredDevices, d), resetVector, MemoryPages')
  PROVE  RomInv'
<1> DEFINE N == Len(RegisteredDevices)
           E == Append(RegisteredDevices, d)
<1>1. /\ RegisteredDevices \in Seq(DeviceType) /\ RegisteredDevices' = E
      /\ resetVector' = resetVector /\ status = "constructing"
  BY DEF BusInv, Register
<1>2. /\ N \in Nat /\ Devices = 1 .. N /\ DOMAIN E = 1 .. N + 1
      /\ \A k \in 1 .. N : E[k] = RegisteredDevices[k]
      /\ E[N + 1] = d
  BY <1>1 DEF Devices
<1>3. \A k \in 1 .. N + 1 : k \in 1 .. N \/ k = N + 1
  BY <1>2
<1> HIDE DEF N, E
<1>4. RomsAt(E, resetVector)
  BY <1>2, <1>3 DEF RomInv, Is, Base, RomsAt
<1>5. \A k \in Devices' : Is(k, "RESET_ROM")' => Base(k)' = resetVector'
  BY <1>1, <1>4 DEF Devices, Is, Base, RomsAt
<1>6. ASSUME Usable', ResetRomFirst', FirmwareEndsFit'
      PROVE  PagesInv(RegisteredDevices', resetVector', MemoryPages')
  <2>1. Admitted(d)
    BY <1>1, <1>6, FirstBefore DEF E
  <2>2. PagesInv(RegisteredDevices, resetVector, MemoryPages)
    BY <1>1, <2>1 DEF RomInv, Usable, Admitted
  <2> QED  BY <1>1, <1>4, <1>6, <2>1, <2>2 DEF E
<1> QED  BY <1>5, <1>6 DEF RomInv

LEMMA RomMemoryStep ==
  ASSUME BusInv, RomInv, NEW size \in MemorySizes, RegisterMemoryDevice(size)
  PROVE  RomInv'
<1> DEFINE d == Device("MEMORY", size, 0)
           N == Len(RegisteredDevices)
           E == Append(RegisteredDevices, d)
<1>1. size \in Nat /\ d \in DeviceType /\ d.kind = "MEMORY"
  BY MemorySizesAssumption DEF Device, DeviceType, Kinds
<1> HIDE DEF d
<1>2. RegisteredDevices \in Seq(DeviceType) /\ N \in Nat
  BY DEF BusInv
<1>3. Register(d) /\ MemoryPages' = MainMemoryPages(N + 1, size)
  BY DEF RegisterMemoryDevice, Number, d
<1>4. ASSUME \A j \in Devices : ~Is(j, "RESET_ROM")
      PROVE  PagesInv(E, resetVector, MemoryPages')
  <2>1. /\ DOMAIN E = 1 .. N + 1 /\ E[N + 1] = d /\ Devices = 1 .. N
        /\ \A k \in 1 .. N : E[k] = RegisteredDevices[k]
    BY <1>2 DEF Devices
  <2>2. \A r \in DOMAIN E : E[r].kind # "RESET_ROM"
    <3>1. \A r \in 1 .. N + 1 : r \in 1 .. N \/ r = N + 1
      BY <1>2
    <3> HIDE DEF E, N
    <3> QED  BY <1>1, <1>4, <2>1, <3>1 DEF Is
  <2>3. ASSUME NEW p \in DOMAIN MemoryPages'
        PROVE  Len(MemoryPages'[p]) = 1 /\ Sorted(MemoryPages'[p])
                 /\ PageInv(E, resetVector, p, MemoryPages'[p])
    <3>1. PICK g : g = Section(N + 1, TRUE, (p - 1) * PageSize, 0, PageSize)
      OBVIOUS
    <3>2. MemoryPages'[p] = << g >>
      BY <1>3, <2>3, <3>1 DEF MainMemoryPages
    <3>3. g.device = N + 1
      BY <3>1 DEF Section
    <3>4. E[g.device].kind = "MEMORY"
      BY <1>1, <2>1, <3>3
    <3>5. ~Ruled(E, resetVector, p)
      BY <2>2 DEF Ruled
    <3> HIDE DEF E
    <3>6. Sorted(<< g >>) /\ PageInv(E, resetVector, p, << g >>)
      BY <3>4, <3>5, PlainPage
    <3> QED  BY <3>2, <3>6
  <2> HIDE DEF E
  <2> QED  BY <2>2, <2>3 DEF PagesInv
<1>5. ASSUME Admitted(d) PROVE PagesInv(E, resetVector, MemoryPages')
  BY <1>1, <1>4, <1>5 DEF Admitted
<1> QED  BY <1>1, <1>3, <1>5, RomRegistered DEF E

LEMMA RomResetROMStep ==
  ASSUME BusInv, RomInv, NEW size \in ResetRomFiles, RegisterResetROMDevice(size)
  PROVE  RomInv'
<1> DEFINE d == Device("RESET_ROM", size, resetVector)
           N == Len(RegisteredDevices)
           E == Append(RegisteredDevices, d)
           touched == {p + 1 : p \in ResetRomPages}
           split == [p \in DOMAIN MemoryPages |->
                       IF p - 1 \in ResetRomPages THEN SplitForResetRom(MemoryPages[p], N + 1)
                                                  ELSE MemoryPages[p]]
<1>1. /\ RegisteredDevices \in Seq(DeviceType) /\ N \in Nat /\ resetVector \in Nat
      /\ PagesIn(MemoryPages, SectionType(N))
  BY ResetVectorsAssumption DEF BusInv
<1>2. size \in Nat /\ d \in DeviceType /\ d.kind = "RESET_ROM" /\ d.base = resetVector
  BY <1>1, ResetRomFilesAssumption, ResetRomSizeAssumption DEF Device, DeviceType, Kinds
<1>3. Register(d) /\ MapResetRom(N + 1)
  BY DEF RegisterResetROMDevice, Number
<1> HIDE DEF d
<1>4. /\ DOMAIN E = 1 .. N + 1 /\ E[N + 1] = d /\ Devices = 1 .. N
      /\ \A k \in 1 .. N : E[k] = RegisteredDevices[k]
  BY <1>1, <1>2 DEF Devices
<1>5. touched = RomPages(resetVector)
  BY DEF RomPages, ResetRomPages
<1>6. \A p : p - 1 \in ResetRomPages /\ p \in Nat <=> p \in touched
  <2>1. \A q \in ResetRomPages : q \in Nat
    BY <1>1, PageSizeAssumption DEF ResetRomPages, GetPageNumber
  <2>2. \A q \in ResetRomPages : q + 1 \in Nat /\ (q + 1) - 1 = q
    BY <2>1
  <2>3. \A p \in Nat : (p - 1) + 1 = p
    OBVIOUS
  <2> QED  BY <2>2, <2>3
<1>7. ASSUME Usable', Admitted(d), PagesInv(RegisteredDevices, resetVector, MemoryPages)
      PROVE  PagesInv(E, resetVector, MemoryPages')
  <2>1. /\ touched \subseteq DOMAIN MemoryPages
        /\ MemoryPages' = [p \in DOMAIN split |-> IF p \in touched THEN PruneEmptySections(split[p])
                                                                  ELSE split[p]]
    BY <1>3, <1>7 DEF MapResetRom, Undefined, Usable
  <2>2. /\ \A k \in 1 .. N : RegisteredDevices[k].kind = "MEMORY"
        /\ \A p \in DOMAIN MemoryPages : Len(MemoryPages[p]) = 1
    BY <1>2, <1>4, <1>7 DEF Admitted, PagesInv, Is, Devices
  <2>3. /\ E[N + 1].kind = "RESET_ROM" /\ N + 1 \in DOMAIN E
        /\ \A k \in DOMAIN E : k # N + 1 => k \in 1 .. N /\ E[k].kind = "MEMORY"
    <3>1. \A k \in 1 .. N + 1 : k # N + 1 => k \in 1 .. N
      BY <1>1
    <3>2. N + 1 \in 1 .. N + 1
      BY <1>1
    <3> HIDE DEF E, N
    <3> QED  BY <1>2, <1>4, <2>2, <3>1, <3>2
  <2>4. DOMAIN MemoryPages' = DOMAIN MemoryPages /\ DOMAIN MemoryPages \subseteq Nat
    <3>1. MemoryPages \in Seq(NonEmpty(SectionType(N)))
      BY <1>1 DEF PagesIn
    <3>2. DOMAIN MemoryPages \subseteq Nat
      BY <3>1
    <3> QED  BY <2>1, <3>2
  <2> HIDE DEF E, touched
  <2>5. ASSUME NEW p \in DOMAIN MemoryPages
        PROVE  Sorted(MemoryPages'[p]) /\ PageInv(E, resetVector, p, MemoryPages'[p])
    <3>1. PICK g \in SectionType(N) : MemoryPages[p] = << g >>
      <4>1. MemoryPages[p] \in Seq(SectionType(N)) /\ MemoryPages[p][1] \in SectionType(N)
        BY <1>1, SectionsIn
      <4>2. Len(MemoryPages[p]) = 1
        BY <2>2
      <4>3. PICK s \in Seq(SectionType(N)) : s = MemoryPages[p]
        BY <4>1
      <4>4. s = << s[1] >>
        BY <4>2, <4>3
      <4> QED  BY <4>1, <4>3, <4>4
    <3>2. g.device \in 1 .. N
      BY DEF SectionType
    <3>3. g.device \in DOMAIN E \ {N + 1} /\ E[g.device].kind = "MEMORY"
      BY <1>1, <1>4, <2>2, <3>2
    <3>4. CASE p \in touched
      <4>1. PICK v \in Nat : v = resetVector
        BY <1>1
      <4>2. MemoryPages'[p] = PruneEmptySections(SplitForResetRom(<< g >>, N + 1))
        BY <1>6, <2>1, <2>4, <3>1, <3>4
      <4>3. \E u : /\ SplitForResetRom(<< g >>, N + 1) = SortSections(u)
                   /\ PageInv(E, v, p, u)
                   /\ \E o \in Nat, z \in Int, x \in Nat, y \in Int :
                        \/ u = << RomSection(v, N + 1), Remainder(g, o, z) >>
                        \/ u = << RomSection(v, N + 1), Remainder(g, o, z), Remainder(g, x, y) >>
        <5> HIDE DEF N
        <5> QED  BY <1>5, <2>3, <3>3, <3>4, <4>1, ResetRomPage
      <4>4. PICK u : /\ SplitForResetRom(<< g >>, N + 1) = SortSections(u)
                     /\ PageInv(E, v, p, u)
                     /\ \E o \in Nat, z \in Int, x \in Nat, y \in Int :
                          \/ u = << RomSection(v, N + 1), Remainder(g, o, z) >>
                          \/ u = << RomSection(v, N + 1), Remainder(g, o, z), Remainder(g, x, y) >>
        BY <4>3
      <4>5. u \in Seq(SectionType(N + 1))
        <5>1. PICK G : G = SectionType(N + 1)
          OBVIOUS
        <5>2. g \in G
          BY <1>1, <3>1, <5>1 DEF SectionType
        <5>3. \A o \in Nat, z \in Int : Remainder(g, o, z) \in G
          BY <5>1, <5>2, RemainderType
        <5>4. RomSection(v, N + 1) \in G
          <6>1. InPageOffset(v) \in 0 .. Wrap - 1 /\ ResetRomSize \in 0 .. Wrap - 1
            BY OffsetNat, ConstantsNat, SMTT(30)
          <6>2. N + 1 \in 1 .. N + 1
            BY <1>1
          <6> QED  BY <5>1, <6>1, <6>2 DEF RomSection, Section, SectionType
        <5>5. \A a, b, c \in G : << a, b >> \in Seq(G) /\ << a, b, c >> \in Seq(G)
          OBVIOUS
        <5> QED  BY <4>4, <5>1, <5>3, <5>4, <5>5
      <4>6. SortSections(u) \in Seq(SectionType(N + 1))
        <5>1. PICK G : G = SectionType(N + 1)
          OBVIOUS
        <5>2. \A h \in G : h.pageOffset \in Nat
          BY <5>1, ConstantsNat DEF SectionType
        <5> QED  BY <4>5, <5>1, <5>2, SortKeeps
      <4>7. Sorted(SortSections(u)) /\ PageInv(E, v, p, SortSections(u))
        BY <4>4, <4>5, SortPage
      <4>8. /\ Sorted(PruneEmptySections(SortSections(u)))
            /\ PageInv(E, v, p, PruneEmptySections(SortSections(u)))
        <5>1. PICK t, n : t = SortSections(u) /\ n = N + 1
          OBVIOUS
        <5> QED  BY <4>6, <4>7, <5>1, PrunePage
      <4> QED  BY <4>1, <4>2, <4>4, <4>8
    <3>5. CASE p \notin touched
      <4>1. MemoryPages'[p] = << g >>
        BY <1>6, <2>1, <2>4, <3>1, <3>5
      <4>2. ~Ruled(E, resetVector, p)
        BY <1>5, <3>5 DEF Ruled
      <4> QED  BY <3>3, <4>1, <4>2, PlainPage
    <3> QED  BY <3>4, <3>5
  <2> QED  BY <1>5, <2>1, <2>3, <2>4, <2>5 DEF PagesInv
<1> QED  BY <1>2, <1>3, <1>7, RomRegistered DEF E

LEMMA FirstCandidateFirst ==
  ASSUME NEW G, NEW s \in NonEmpty(G), NEW base, Candidates(s, base) # {}
  PROVE  /\ FirstCandidate(s, base) \in Candidates(s, base)
         /\ \A j \in Candidates(s, base) : FirstCandidate(s, base) <= j
<1> DEFINE C == Candidates(s, base)
<1>1. C \subseteq DOMAIN s /\ C \subseteq Nat
  BY DEF Candidates, NonEmpty
<1>2. PICK i \in C : \A j \in C : ~ (<< j, i >> \in OpToRel(<, Nat))
  <2> HIDE DEF C
  <2>1. PICK k \in C : TRUE
    BY DEF C
  <2> QED  BY <1>1, <2>1, WFMin, NatLessThanWellFounded
<1>3. \A j \in C : i <= j
  <2> HIDE DEF C
  <2> TAKE j \in C
  <2>1. i \in Nat /\ j \in Nat
    BY <1>1
  <2>2. ~ (j < i)
    BY <1>2, <2>1 DEF OpToRel
  <2> QED  BY <2>1, <2>2
<1> QED  BY <1>3 DEF FirstCandidate

(* Sorting the firmware's page and pruning the later ones. *)
LEMMA FinishPages ==
  ASSUME NEW D, NEW v \in Nat, NEW n, NEW pages, PagesIn(pages, SectionType(n)),
         NEW start \in Nat,
         \A p \in DOMAIN pages : /\ PageInv(D, v, p, pages[p])
                                 /\ p # start => Sorted(pages[p]),
         FinishFirmware(pages, start), Usable'
  PROVE  /\ DOMAIN MemoryPages' = DOMAIN pages
         /\ \A p \in DOMAIN MemoryPages' :
              Sorted(MemoryPages'[p]) /\ PageInv(D, v, p, MemoryPages'[p])
<1>1. MemoryPages' = [p \in DOMAIN pages |->
                       IF p \in {q \in DOMAIN pages : q > start} THEN PruneEmptySections(pages[p])
                       ELSE IF p = start THEN SortSections(pages[p])
                       ELSE pages[p]]
  BY DEF FinishFirmware, Undefined, Usable
<1>2. DOMAIN MemoryPages' = DOMAIN pages /\ DOMAIN pages \subseteq Nat
  <2>1. pages \in Seq(NonEmpty(SectionType(n)))
    BY DEF PagesIn
  <2>2. DOMAIN pages \subseteq Nat
    BY <2>1
  <2> QED  BY <1>1, <2>2
<1>3. ASSUME NEW p \in DOMAIN pages
      PROVE  Sorted(MemoryPages'[p]) /\ PageInv(D, v, p, MemoryPages'[p])
  <2>1. pages[p] \in Seq(SectionType(n))
    BY DEF PagesIn, NonEmpty
  <2>2. PICK s \in Seq(SectionType(n)) : s = pages[p]
    BY <2>1
  <2>3. PageInv(D, v, p, s) /\ (p # start => Sorted(s))
    BY <2>2
  <2>4. CASE p = start
    <3>1. MemoryPages'[p] = SortSections(s)
      BY <1>1, <2>2, <2>4
    <3> QED  BY <2>3, <3>1, SortPage
  <2>5. CASE p # start /\ p > start
    <3>1. MemoryPages'[p] = PruneEmptySections(s)
      BY <1>1, <2>2, <2>5
    <3> QED  BY <2>3, <2>5, <3>1, PrunePage
  <2>6. CASE p # start /\ ~(p > start)
    <3>1. MemoryPages'[p] = s
      BY <1>1, <2>2, <2>6
    <3> QED  BY <2>3, <2>6, <3>1
  <2> QED  BY <2>4, <2>5, <2>6
<1> QED  BY <1>2, <1>3

LEMMA RomFirmwareStep ==
  ASSUME BusInv, RomInv, NEW size \in Nat, NEW base \in Nat, RegisterFirmwareDevice(size, base)
  PROVE  RomInv'
<1> DEFINE N == Len(RegisteredDevices)
           start == GetPageNumber(base) + 1
           s == MemoryPages[start]
           i == FirstCandidate(s, base)
           split == SplitForFirmware(s, i, N + 1, size, base)
           pages == [MemoryPages EXCEPT ![start] = split]
<1>1. /\ RegisteredDevices \in Seq(DeviceType) /\ N \in Nat /\ resetVector \in Nat
      /\ PagesIn(MemoryPages, SectionType(N))
  BY ResetVectorsAssumption DEF BusInv
<1>2. PICK d : d = Device("FIRMWARE", size, base)
  OBVIOUS
<1>3. d \in DeviceType /\ d.kind = "FIRMWARE" /\ d.size = size /\ d.base = base
  BY <1>2 DEF Device, DeviceType, Kinds
<1>4. Register(d) /\ MapFirmwareRom(N + 1, size, base)
  BY <1>2 DEF RegisterFirmwareDevice, Number
<1>5. PICK E : E = Append(RegisteredDevices, d)
  OBVIOUS
<1>6. /\ E \in Seq(DeviceType) /\ Len(E) = N + 1
      /\ DOMAIN E = 1 .. N + 1 /\ E[N + 1] = d /\ N + 1 \in DOMAIN E
      /\ \A k \in 1 .. N : E[k] = RegisteredDevices[k]
  BY <1>1, <1>3, <1>5
<1>7. start \in Nat
  BY PageSizeAssumption DEF GetPageNumber
<1>8. SectionType(N) \subseteq SectionType(N + 1)
  BY <1>1, <1>3, InsideGrows
<1>9. ASSUME Usable', Admitted(d), RomsAt(E, resetVector),
             PagesInv(RegisteredDevices, resetVector, MemoryPages)
      PROVE  PagesInv(E, resetVector, MemoryPages')
  <2>1. \A p \in DOMAIN MemoryPages :
          Sorted(MemoryPages[p]) /\ PageInv(E, resetVector, p, MemoryPages[p])
    <3> TAKE p \in DOMAIN MemoryPages
    <3>1. PICK w \in Seq(SectionType(N)) : w = MemoryPages[p]
      BY <1>1, SectionsIn
    <3>2. Sorted(w) /\ PageInv(RegisteredDevices, resetVector, p, w)
      BY <1>9, <3>1 DEF PagesInv
    <3>3. PageInv(E, resetVector, p, w)
      BY <1>1, <1>3, <1>5, <3>1, <3>2, FirmwareRegistered
    <3> QED  BY <3>1, <3>2, <3>3
  <2>2. PagesIn(MemoryPages, SectionType(N + 1))
    <3>1. PICK G, H : G = SectionType(N + 1) /\ H = SectionType(N)
      OBVIOUS
    <3> QED  BY <1>1, <1>8, <3>1, SeqSubset
  <2>3. /\ DOMAIN MemoryPages' = DOMAIN MemoryPages
        /\ \A p \in DOMAIN MemoryPages' :
             Sorted(MemoryPages'[p]) /\ PageInv(E, resetVector, p, MemoryPages'[p])
    <3>1. CASE start \notin DOMAIN MemoryPages \/ Candidates(s, base) = {}
      <4>1. FinishFirmware(MemoryPages, start)
        BY <1>4, <3>1 DEF MapFirmwareRom
      <4> HIDE DEF start, N
      <4> QED  BY <1>1, <1>7, <1>9, <2>1, <2>2, <4>1, FinishPages
    <3>2. CASE start \in DOMAIN MemoryPages /\ Candidates(s, base) # {}
      <4>1. /\ RegisteredDevices[s[i].device].kind = "MEMORY"
            /\ i = Len(s) /\ FinishFirmware(pages, start)
        BY <1>4, <1>9, <3>2 DEF MapFirmwareRom, Abort, Undefined, Usable
      <4>2. s \in NonEmpty(SectionType(N + 1)) /\ s \in Seq(SectionType(N)) /\ Len(s) > 0
        <5>1. s \in NonEmpty(SectionType(N + 1))
          BY <2>2, <3>2 DEF PagesIn
        <5>2. s \in Seq(SectionType(N)) /\ Len(s) > 0
          BY <1>1, <3>2, SectionsIn
        <5> QED  BY <5>1, <5>2
      <4>3. /\ i \in DOMAIN s /\ DOMAIN s = 1 .. i /\ i \in Nat
            /\ s[i].pageOffset >= InPageOffset(base)
            /\ \A j \in 1 .. i - 1 : s[j].pageOffset < InPageOffset(base)
        <5>1. PICK w : w = s
          OBVIOUS
        <5>2. w \in NonEmpty(SectionType(N + 1)) /\ w \in Seq(SectionType(N))
          BY <4>2, <5>1
        <5>3. PICK c : c = i
          OBVIOUS
        <5>4. DOMAIN w = 1 .. c /\ c \in Nat
          BY <4>1, <5>1, <5>2, <5>3
        <5>5. c \in Candidates(w, base) /\ \A j \in Candidates(w, base) : c <= j
          BY <3>2, <5>1, <5>2, <5>3, FirstCandidateFirst
        <5>6. c \in DOMAIN w /\ w[c].pageOffset >= InPageOffset(base)
          BY <5>5 DEF Candidates
        <5>7. ASSUME NEW j \in 1 .. c - 1 PROVE w[j].pageOffset < InPageOffset(base)
          <6>1. j \in DOMAIN w /\ ~(c <= j)
            BY <5>4
          <6>2. ~(w[j].pageOffset >= InPageOffset(base))
            BY <5>5, <6>1 DEF Candidates
          <6>3. w[j] \in SectionType(N)
            BY <5>2, <6>1
          <6>4. w[j].pageOffset \in Nat
            BY <6>3, ConstantsNat DEF SectionType
          <6> QED  BY <6>2, <6>4, OffsetNat
        <5> QED  BY <5>1, <5>3, <5>4, <5>6, <5>7
      <4>4. E[s[i].device].kind = "MEMORY" /\ \A g \in Range(s) : g.device # N + 1
        <5>1. \A g \in Range(s) : g \in SectionType(N)
          BY <4>2, RangeIn
        <5>2. s[i] \in Range(s)
          BY <4>3 DEF Range
        <5>3. \A g \in Range(s) : g.device \in 1 .. N
          BY <5>1 DEF SectionType
        <5>4. \A k \in 1 .. N : k # N + 1
          BY <1>1
        <5> QED  BY <1>6, <4>1, <5>2, <5>3, <5>4
      <4>5. PageInv(E, resetVector, start, split)
        <5>1. PICK w \in Seq(SectionType(N + 1)) : w = s
          BY <4>2 DEF NonEmpty
        <5>2. PICK n : n = N + 1
          OBVIOUS
        <5>3. /\ E \in Seq(DeviceType) /\ n \in DOMAIN E /\ E[n] = d /\ Len(E) = n
          BY <1>6, <5>2
        <5>4. start = Home(E, n)
          BY <1>3, <5>3 DEF Home
        <5>5. PageInv(E, resetVector, start, w)
          BY <2>1, <3>2, <5>1
        <5>6. InPageOffset(E[n].base) + E[n].size < Wrap
          BY <1>3, <1>9, <5>3 DEF Admitted
        <5>7. /\ Len(w) > 0 /\ Len(w) = i
              /\ E[w[Len(w)].device].kind = "MEMORY" /\ \A g \in Range(w) : g.device # n
              /\ w[Len(w)].pageOffset >= InPageOffset(E[n].base)
              /\ \A j \in 1 .. Len(w) - 1 : w[j].pageOffset < InPageOffset(E[n].base)
          BY <1>3, <4>1, <4>2, <4>3, <4>4, <5>1, <5>2, <5>3
        <5>8. \A r \in DOMAIN E : E[r].kind = "RESET_ROM" => E[r].base = resetVector
          BY <1>9 DEF RomsAt
        <5>9. PageInv(E, resetVector, start, SplitForFirmware(w, Len(w), n, E[n].size, E[n].base))
          <6> HIDE DEF start, N, i, s
          <6> QED  BY <1>1, <1>3, <5>1, <5>2, <5>3, <5>4, <5>5, <5>6, <5>7, <5>8, FirmwareMapped
        <5> QED  BY <1>3, <5>1, <5>2, <5>3, <5>7, <5>9
      <4>6. split \in NonEmpty(SectionType(N + 1))
        <5>1. PICK G : G = SectionType(N + 1)
          OBVIOUS
        <5>2. InPageOffset(base) + size < Wrap /\ InPageOffset(base) \in Nat
          BY <1>3, <1>9, OffsetNat DEF Admitted
        <5>3. Section(N + 1, TRUE, 0, InPageOffset(base), size) \in G
          <6>1. N + 1 \in 1 .. N + 1 /\ InPageOffset(base) \in 0 .. Wrap - 1 /\ size \in 0 .. Wrap - 1
            BY <1>1, <5>2, ConstantsNat
          <6> QED  BY <5>1, <6>1 DEF Section, SectionType
        <5>4. s[i] \in G
          BY <4>2, <4>3, <5>1 DEF NonEmpty
        <5>5. KeepsRemainders(G, Int, s[i]) /\ LengthsIn(Int, InPageOffset(base), size)
          <6>1. KeepsRemainders(G, Int, s[i])
            BY <5>1, <5>4, RemainderType DEF KeepsRemainders
          <6>2. LengthsIn(Int, InPageOffset(base), size)
            BY <5>2, ConstantsNat DEF LengthsIn
          <6> QED  BY <6>1, <6>2
        <5>6. PICK w, c : w = s /\ c = i
          OBVIOUS
        <5>7. SplitForFirmware(w, c, N + 1, size, base) \in NonEmpty(G)
          BY <4>2, <4>3, <5>1, <5>3, <5>5, <5>6, SplitForFirmwareKeeps
        <5> QED  BY <5>1, <5>6, <5>7
      <4> HIDE DEF split, start, N
      <4>7. /\ DOMAIN pages = DOMAIN MemoryPages /\ pages[start] = split
            /\ \A p \in DOMAIN MemoryPages : p # start => pages[p] = MemoryPages[p]
        BY <3>2
      <4>8. PagesIn(pages, SectionType(N + 1))
        <5>1. PICK H : H = NonEmpty(SectionType(N + 1))
          OBVIOUS
        <5>2. MemoryPages \in Seq(H) /\ split \in H
          BY <2>2, <4>6, <5>1 DEF PagesIn
        <5>3. [MemoryPages EXCEPT ![start] = split] \in Seq(H)
          BY <3>2, <5>2
        <5> QED  BY <5>1, <5>3 DEF PagesIn
      <4>9. PICK q : q = pages
        OBVIOUS
      <4>10. \A p \in DOMAIN q : /\ PageInv(E, resetVector, p, q[p])
                                 /\ p # start => Sorted(q[p])
        BY <2>1, <4>5, <4>7, <4>9
      <4>11. /\ DOMAIN MemoryPages' = DOMAIN q
             /\ \A p \in DOMAIN MemoryPages' :
                  Sorted(MemoryPages'[p]) /\ PageInv(E, resetVector, p, MemoryPages'[p])
        BY <1>1, <1>7, <1>9, <4>1, <4>8, <4>9, <4>10, FinishPages
      <4> QED  BY <4>7, <4>9, <4>11
    <3> QED  BY <3>1, <3>2
  <2>4. ~ \A k \in DOMAIN E : E[k].kind = "MEMORY"
    BY <1>3, <1>6
  <2>5. (\E r \in DOMAIN E : E[r].kind = "RESET_ROM")
          => RomPages(resetVector) \subseteq DOMAIN MemoryPages
    <3> SUFFICES ASSUME NEW r \in 1 .. N + 1, E[r].kind = "RESET_ROM"
                 PROVE  \E k \in 1 .. N : RegisteredDevices[k].kind = "RESET_ROM"
      BY <1>1, <1>6, <1>9 DEF PagesInv
    <3>1. r \in 1 .. N \/ r = N + 1
      BY <1>1
    <3> HIDE DEF N
    <3> QED  BY <1>3, <1>6, <3>1
  <2> QED  BY <2>3, <2>4, <2>5 DEF PagesInv
<1> QED  BY <1>3, <1>4, <1>5, <1>9, RomRegistered

LEMMA RomStutterStep ==
  ASSUME RomInv, UNCHANGED << MemoryPages, RegisteredDevices, resetVector >>,
         Usable' => Usable
  PROVE  RomInv'
<1>1. /\ ResetRomFirst' = ResetRomFirst /\ FirmwareEndsFit' = FirmwareEndsFit
      /\ Devices' = Devices
      /\ \A k : /\ Is(k, "RESET_ROM")' = Is(k, "RESET_ROM")
                /\ Base(k)' = Base(k)
  BY DEF ResetRomFirst, FirmwareEndsFit, Devices, Is, Base, Size
<1> QED  BY <1>1 DEF RomInv

(* The invariant of the ROMs is inductive. *)
LEMMA RomInvInit == Init => RomInv
<1> SUFFICES ASSUME Init PROVE RomInv
  OBVIOUS
<1>1. MemoryPages = << >> /\ RegisteredDevices = << >>
  BY DEF Init
<1>2. DOMAIN MemoryPages = {} /\ DOMAIN RegisteredDevices = {} /\ Devices = {}
  BY <1>1 DEF Devices
<1> QED  BY <1>2 DEF RomInv, PagesInv

LEMMA RomInvStep == BusInv /\ RomInv /\ [Next]_vars => RomInv'
<1> SUFFICES ASSUME BusInv, RomInv, [Next]_vars PROVE RomInv'
  OBVIOUS
<1>1. CASE \E size \in MemorySizes : RegisterMemoryDevice(size)
  BY <1>1, RomMemoryStep
<1>2. CASE \E size \in ResetRomFiles : RegisterResetROMDevice(size)
  BY <1>2, RomResetROMStep
<1>3. CASE \E f \in Firmwares : RegisterFirmwareDevice(f.size, f.base)
  <2>1. PICK f \in Firmwares : RegisterFirmwareDevice(f.size, f.base)
    BY <1>3
  <2>2. f.size \in Nat /\ f.base \in Nat
    BY FirmwaresAssumption
  <2> QED  BY <2>1, <2>2, RomFirmwareStep
<1>4. CASE RejectDescriptor
  BY <1>4, RomStutterStep DEF RejectDescriptor, Usable
<1>5. CASE Construct
  BY <1>5, RomStutterStep DEF Construct, Usable
<1>6. CASE UNCHANGED vars
  BY <1>6, RomStutterStep DEF vars, Usable
<1> QED  BY <1>1, <1>2, <1>3, <1>4, <1>5, <1>6 DEF Next

LEMMA RomInvariance == Spec => []RomInv
BY RomInvInit, RomInvStep, BusInvariance, PTL DEF Spec

----------------------------------------------------------------------------
(* What Read8 returns of a ROM. *)

Covers(g, o) == o >= g.pageOffset /\ o < g.pageOffset + g.size

(* What Read8 returns is read through the first section of the page that    *)
(* covers the offset.                                                       *)
LEMMA FirstCovering ==
  ASSUME NEW n, PagesIn(MemoryPages, SectionType(n)), NEW a \in Addresses,
         NEW s, s = MemoryPages[GetPageNumber(a) + 1],
         NEW m \in DOMAIN s, Covers(s[m], InPageOffset(a))
  PROVE  \E c \in DOMAIN s :
           /\ Covers(s[c], InPageOffset(a)) /\ c <= m
           /\ Read8(a) = [device |-> s[c].device,
                          offset |-> IF s[c].DirectAccess
                                       THEN InPageOffset(a) - s[c].pageOffset
                                       ELSE s[c].DeviceOffset + (InPageOffset(a) - s[c].pageOffset)]
<1> DEFINE C == Covering(a)
           c == CHOOSE i \in C : \A j \in C : i <= j
<1>1. GetPageNumber(a) + 1 \in DOMAIN MemoryPages
  <2>1. PICK L \in Nat, P \in Nat \ {0} :
          L = Len(MemoryPages) /\ P = PageSize /\ DOMAIN MemoryPages = 1 .. L
    BY PageSizeAssumption DEF PagesIn
  <2>2. a \in 0 .. L * P - 1
    BY <2>1 DEF Addresses
  <2>3. a \div P \in 0 .. L - 1
    BY <2>1, <2>2
  <2> QED  BY <2>1, <2>3 DEF GetPageNumber
<1>2. DOMAIN s \subseteq Nat
  <2>1. s \in Seq(SectionType(n))
    BY <1>1, SectionsIn
  <2> QED  BY <2>1
<1>3. \A i : i \in C <=> i \in DOMAIN s /\ Covers(s[i], InPageOffset(a))
  BY DEF Covering, Covers
<1> HIDE DEF C
<1>4. m \in C /\ C \subseteq DOMAIN s /\ C \subseteq Nat
  BY <1>2, <1>3
<1>5. PICK i \in C : \A j \in C : ~ (<< j, i >> \in OpToRel(<, Nat))
  BY <1>4, WFMin, NatLessThanWellFounded
<1>6. \A j \in C : i <= j
  <2> TAKE j \in C
  <2>1. i \in Nat /\ j \in Nat
    BY <1>4
  <2>2. ~ (j < i)
    BY <1>5, <2>1 DEF OpToRel
  <2> QED  BY <2>1, <2>2
<1>7. c \in C /\ c <= m
  BY <1>4, <1>6
<1>8. Read8(a) = [device |-> s[c].device,
                  offset |-> IF s[c].DirectAccess
                               THEN InPageOffset(a) - s[c].pageOffset
                               ELSE s[c].DeviceOffset + (InPageOffset(a) - s[c].pageOffset)]
  <2>1. Covering(a) # {} /\ c = CHOOSE k \in Covering(a) : \A j \in Covering(a) : k <= j
    BY <1>4 DEF C
  <2> HIDE DEF c
  <2> QED  BY <2>1 DEF Read8
<1> HIDE DEF c
<1> QED  BY <1>3, <1>7, <1>8

(* Read8 routes to a device only through a section of it. *)
LEMMA ReadThrough ==
  ASSUME NEW n, PagesIn(MemoryPages, SectionType(n)), NEW a \in Addresses,
         NEW s, s = MemoryPages[GetPageNumber(a) + 1],
         NEW k \in Nat \ {0}, Read8(a).device = k
  PROVE  \E g \in Range(s) : g.device = k /\ Covers(g, InPageOffset(a))
<1>1. Covering(a) # {}
  BY DEF Read8, NoByte
<1>2. PICK m \in DOMAIN s : Covers(s[m], InPageOffset(a))
  BY <1>1 DEF Covering, Covers
<1>3. PICK c \in DOMAIN s : Covers(s[c], InPageOffset(a)) /\ Read8(a).device = s[c].device
  <2>1. PICK c \in DOMAIN s :
           /\ Covers(s[c], InPageOffset(a)) /\ c <= m
           /\ Read8(a) = [device |-> s[c].device,
                          offset |-> IF s[c].DirectAccess
                                       THEN InPageOffset(a) - s[c].pageOffset
                                       ELSE s[c].DeviceOffset + (InPageOffset(a) - s[c].pageOffset)]
    BY <1>2, FirstCovering
  <2> QED  BY <2>1
<1> QED  BY <1>3 DEF Range

(* The addresses of a page of the page table. *)
LEMMA PageAddresses ==
  ASSUME NEW G, PagesIn(MemoryPages, G), NEW a \in Nat
  PROVE  a \in Addresses <=> GetPageNumber(a) + 1 \in DOMAIN MemoryPages
<1>1. PICK L \in Nat, P \in Nat \ {0} :
        L = Len(MemoryPages) /\ P = PageSize /\ DOMAIN MemoryPages = 1 .. L
  BY PageSizeAssumption DEF PagesIn
<1>2. PICK q \in Nat, o \in Nat : q = a \div P /\ o = a % P /\ a = P * q + o /\ o < P
  BY <1>1
<1>3. a < L * P <=> q < L
  <2>1. ASSUME q < L PROVE a < L * P
    <3>1. P * (q + 1) <= P * L
      BY <1>1, <1>2, <2>1
    <3>2. P * (q + 1) = P * q + P /\ L * P = P * L
      BY <1>1, <1>2
    <3>3. PICK x \in Nat, y \in Nat : x = P * q /\ y = P * L
      BY <1>1, <1>2
    <3> QED  BY <1>1, <1>2, <3>1, <3>2, <3>3
  <2>2. ASSUME L <= q PROVE ~(a < L * P)
    <3>1. P * L <= P * q
      BY <1>1, <1>2, <2>2
    <3>2. PICK x \in Nat, y \in Nat : x = P * q /\ y = P * L /\ y = L * P
      BY <1>1, <1>2
    <3> QED  BY <1>1, <1>2, <3>1, <3>2
  <2> QED  BY <1>1, <1>2, <2>1, <2>2
<1>4. a \in Addresses <=> a < L * P
  <2>1. PICK M \in Nat : M = L * P
    BY <1>1
  <2> QED  BY <1>1, <2>1 DEF Addresses
<1> QED  BY <1>1, <1>2, <1>3, <1>4 DEF GetPageNumber

LEMMA PageGrows ==
  ASSUME NEW a \in Nat, NEW b \in Nat
  PROVE  GetPageNumber(a) \in Nat /\ GetPageNumber(a) <= GetPageNumber(a + b)
<1>1. PICK P \in Nat \ {0} : P = PageSize
  BY PageSizeAssumption
<1>2. PICK q \in Nat, o \in Nat : q = a \div P /\ o = a % P /\ a = P * q + o /\ o < P
  BY <1>1
<1>3. PICK x \in Nat, y \in Nat :
        x = (a + b) \div P /\ y = (a + b) % P /\ a + b = P * x + y /\ y < P
  BY <1>1
<1>4. ASSUME x < q PROVE FALSE
  <2>1. P * (x + 1) <= P * q
    BY <1>1, <1>2, <1>3, <1>4
  <2>2. P * (x + 1) = P * x + P
    BY <1>1, <1>3
  <2>3. PICK m \in Nat, n \in Nat : m = P * x /\ n = P * q
    BY <1>1, <1>2, <1>3
  <2> QED  BY <1>1, <1>2, <1>3, <2>1, <2>2, <2>3
<1> QED  BY <1>1, <1>2, <1>3, <1>4 DEF GetPageNumber

(* On a page that shows it every byte of the reset ROM is read from it.      *)
LEMMA RomIsRead ==
  ASSUME BusInv, RomInv, Usable, ResetRomFirst, FirmwareEndsFit, VectorSound,
         NEW r \in Devices, Is(r, "RESET_ROM"), NEW i \in 0 .. ResetRomSize - 1
  PROVE  /\ resetVector + i \in Addresses
         /\ Read8(resetVector + i) = [device |-> r, offset |-> i]
<1> DEFINE v == resetVector
           o == InPageOffset(v)
           p == GetPageNumber(v) + 1
           s == MemoryPages[p]
           rom == RomSection(v, r)
<1>1. /\ v \in Nat /\ o \in Nat /\ o < PageSize /\ i \in Nat /\ i < ResetRomSize
      /\ ResetRomSize \in Nat /\ ResetRomSize < PageSize
  BY ResetVectorsAssumption, OffsetNat, ConstantsNat DEF BusInv
<1>2. o + ResetRomSize <= PageSize
  BY <1>1, ConstantsNat DEF VectorSound
<1>3. GetPageNumber(v + i) = GetPageNumber(v) /\ InPageOffset(v + i) = o + i
  BY <1>1, <1>2, ConstantsNat, WithinPage
<1>4. p \in RomPages(v)
  BY <1>1, PageGrows DEF RomPages
<1>5. Ruled(RegisteredDevices, v, p) /\ Sound(v) /\ RegisteredDevices[r].kind = "RESET_ROM"
  BY <1>4 DEF Ruled, Sound, VectorSound, Is, Devices
<1>6. PagesInv(RegisteredDevices, v, MemoryPages)
  BY DEF RomInv
<1>7. p \in DOMAIN MemoryPages /\ Sorted(s) /\ PageInv(RegisteredDevices, v, p, s)
  BY <1>4, <1>5, <1>6 DEF PagesInv, Devices
<1>8. PagesIn(MemoryPages, SectionType(Len(RegisteredDevices)))
  BY DEF BusInv
<1>9. v + i \in Addresses
  BY <1>1, <1>3, <1>7, <1>8, PageAddresses
<1>10. /\ rom \in Range(s)
       /\ \A g \in Range(s) : g = rom \/ EndsBefore(v, g) \/ BeginsBehind(v, g)
  BY <1>5, <1>7 DEF PageInv, RomShown, Devices
<1>11. PICK m \in DOMAIN s : s[m] = rom
  BY <1>10 DEF Range
<1>12. /\ rom.device = r /\ rom.DirectAccess = TRUE /\ rom.pageOffset = o
       /\ rom.size = ResetRomSize
  BY DEF RomSection, Section
<1> HIDE DEF rom
<1>13. Covers(s[m], o + i)
  BY <1>1, <1>11, <1>12 DEF Covers
<1>14. PICK t : t = s
  OBVIOUS
<1>15. PICK a : a = v + i
  OBVIOUS
<1>16. PICK c \in DOMAIN t :
         /\ Covers(t[c], o + i) /\ c <= m
         /\ Read8(a) = [device |-> t[c].device,
                        offset |-> IF t[c].DirectAccess
                                     THEN (o + i) - t[c].pageOffset
                                     ELSE t[c].DeviceOffset + ((o + i) - t[c].pageOffset)]
  <2>1. a \in Addresses /\ t = MemoryPages[GetPageNumber(a) + 1] /\ InPageOffset(a) = o + i
    BY <1>3, <1>9, <1>14, <1>15
  <2>2. m \in DOMAIN t /\ Covers(t[m], o + i)
    BY <1>11, <1>13, <1>14
  <2> HIDE DEF o, s, p, v
  <2> QED  BY <1>8, <2>1, <2>2, FirstCovering
<1>17. t[c].pageOffset <= o /\ t[c].pageOffset \in Nat /\ t[c].size \in Nat
  <2>1. t \in Seq(SectionType(Len(RegisteredDevices)))
    BY <1>7, <1>8, <1>14, SectionsIn
  <2>2. \A j \in DOMAIN t : t[j] \in SectionType(Len(RegisteredDevices)) /\ j \in Nat
    BY <2>1
  <2>3. t[c].pageOffset \in Nat /\ t[c].size \in Nat
    BY <2>2, ConstantsNat DEF SectionType
  <2>4. c < m \/ c = m
    BY <1>11, <1>14, <1>16, <2>2
  <2>5. t[m].pageOffset = o
    BY <1>11, <1>12, <1>14
  <2>6. t[c].pageOffset <= o
    BY <1>1, <1>7, <1>11, <1>14, <2>4, <2>5 DEF Sorted
  <2> QED  BY <2>3, <2>6
<1>18. t[c] = rom
  <2>1. t[c] = rom \/ EndsBefore(v, t[c]) \/ BeginsBehind(v, t[c])
    BY <1>10, <1>14 DEF Range
  <2> QED  BY <1>1, <1>16, <1>17, <2>1 DEF EndsBefore, BeginsBehind, Covers
<1>19. (o + i) - o = i
  BY <1>1
<1> HIDE DEF o
<1> QED  BY <1>9, <1>12, <1>15, <1>16, <1>18, <1>19

(* The reset vector reads the reset ROM (FetchInstructionBytes' first byte   *)
(* comes from it), for every page size, every sound vector and every list   *)
(* of firmwares mapped after it.                                            *)
THEOREM ResetRomVisibility == Spec => []ResetRomVisible
<1>1. BusInv /\ RomInv => ResetRomVisible
  <2> SUFFICES ASSUME BusInv, RomInv, Usable, ResetRomFirst, FirmwareEndsFit, VectorSound,
                      NEW r \in Devices, Is(r, "RESET_ROM"), NEW i \in 0 .. Extent(r) - 1
               PROVE  /\ Base(r) + i \in Addresses
                      /\ Read8(Base(r) + i) = [device |-> r, offset |-> i]
    BY DEF ResetRomVisible, ReadsWhole
  <2>1. Base(r) = resetVector /\ Extent(r) = ResetRomSize
    BY DEF RomInv, Extent
  <2> QED  BY <2>1, RomIsRead
<1> QED  BY <1>1, BusInvariance, RomInvariance, PTL

(* The promise about a firmware in the terms of the invariant. *)
LEMMA WholeFirmware ==
  ASSUME BusInv, NEW k \in Devices, Is(k, "FIRMWARE"),
         InPageOffset(Base(k)) + Size(k) <= PageSize,
         \A j \in Roms \ {k} : Disjoint(j, k), ~BesideUnsoundRom(k)
  PROVE  Whole(RegisteredDevices, resetVector, k)
<1> DEFINE D == RegisteredDevices
<1>1. \A j \in DOMAIN D : D[j].kind # "MEMORY" /\ j # k => Apart(D, j, k)
  BY DEF Roms, Devices, Is, Disjoint, Apart, Base, Extent, Mapped, Size
<1>2. Ruled(D, resetVector, Home(D, k)) => Sound(resetVector)
  <2> SUFFICES ASSUME Ruled(D, resetVector, Home(D, k)) PROVE VectorSound
    BY DEF Sound, VectorSound
  <2>1. \E r \in Devices : Is(r, "RESET_ROM")
    BY DEF Ruled, Devices, Is
  <2>2. GetPageNumber(Base(k)) \in ResetRomPages
    <3>1. PICK q \in ResetRomPages : Home(D, k) = q + 1
      BY DEF Ruled, RomPages, ResetRomPages
    <3>2. D[k].base \in Nat /\ resetVector \in Nat
      <4>1. D[k] \in DeviceType
        BY DEF BusInv, Devices
      <4> QED  BY <4>1, ResetVectorsAssumption DEF DeviceType, BusInv
    <3>3. GetPageNumber(D[k].base) \in Nat /\ q \in Nat
      BY <3>2, PageGrows, PageSizeAssumption DEF ResetRomPages, GetPageNumber
    <3> QED  BY <3>1, <3>3 DEF Home, Base
  <2> QED  BY <2>1, <2>2 DEF BesideUnsoundRom
<1> QED  BY <1>1, <1>2 DEF Whole, Is, Base, Size

(* A whole firmware that is mapped is read in every byte, one that is not    *)
(* mapped in none.                                                          *)
LEMMA FirmwareIsRead ==
  ASSUME BusInv, RomInv, Usable, ResetRomFirst, FirmwareEndsFit,
         NEW k \in Devices, Whole(RegisteredDevices, resetVector, k)
  PROVE  \/ \A i \in 0 .. Size(k) - 1 :
              /\ Base(k) + i \in Addresses
              /\ Read8(Base(k) + i) = [device |-> k, offset |-> i]
         \/ \A i \in 0 .. Size(k) - 1 :
              Base(k) + i \in Addresses => Read8(Base(k) + i).device # k
<1> DEFINE D == RegisteredDevices
           b == Base(k)
           o == InPageOffset(b)
           p == GetPageNumber(b) + 1
           s == MemoryPages[p]
           fk == FirmwareSection(D, k)
<1>1. /\ D[k].kind = "FIRMWARE" /\ o + Size(k) <= PageSize
      /\ b \in Nat /\ Size(k) \in Nat /\ o \in Nat /\ k \in Nat \ {0} /\ k \in DOMAIN D
  <2>1. D[k] \in DeviceType /\ k \in Nat \ {0}
    BY DEF BusInv, Devices
  <2>2. b \in Nat /\ Size(k) \in Nat
    BY <2>1 DEF DeviceType, Base, Size
  <2> QED  BY <2>1, <2>2, OffsetNat DEF Whole, Base, Size, Devices
<1>2. ASSUME NEW i \in 0 .. Size(k) - 1
      PROVE  /\ b + i \in Nat /\ i \in Nat
             /\ GetPageNumber(b + i) + 1 = p /\ InPageOffset(b + i) = o + i
  <2>1. i \in Nat /\ i < Size(k)
    BY <1>1, <1>2
  <2>2. InPageOffset(b) + i < PageSize
    BY <1>1, <2>1, ConstantsNat
  <2> QED  BY <1>1, <2>1, <2>2, WithinPage
<1>3. PagesIn(MemoryPages, SectionType(Len(D)))
  BY DEF BusInv
<1>4. \A i \in 0 .. Size(k) - 1 : b + i \in Addresses <=> p \in DOMAIN MemoryPages
  BY <1>2, <1>3, PageAddresses
<1>5. /\ fk.device = k /\ fk.DirectAccess = TRUE /\ fk.pageOffset = o /\ fk.size = Size(k)
      /\ p = Home(D, k)
  BY DEF FirmwareSection, Section, Base, Size, Home
<1>6. p \in DOMAIN MemoryPages => PageInv(D, resetVector, p, s)
  BY DEF RomInv, PagesInv
<1> HIDE DEF fk, b, o, p, s, D
<1>7. CASE p \in DOMAIN MemoryPages /\ fk \in Range(s)
  <2>1. \A g \in Range(s) : g = fk \/ ClearOf(g, fk)
    BY <1>1, <1>5, <1>6, <1>7 DEF PageInv, FirmwareClear, fk, D
  <2>2. PICK m \in DOMAIN s : s[m] = fk
    BY <1>7 DEF Range
  <2>3. ASSUME NEW i \in 0 .. Size(k) - 1
        PROVE  b + i \in Addresses /\ Read8(b + i) = [device |-> k, offset |-> i]
    <3>1. PICK a : a = b + i
      OBVIOUS
    <3>2. a \in Addresses /\ s = MemoryPages[GetPageNumber(a) + 1] /\ InPageOffset(a) = o + i
      BY <1>2, <1>4, <1>7, <3>1 DEF s
    <3>3. i \in Nat /\ i < Size(k)
      BY <1>1
    <3>4. Covers(s[m], o + i)
      BY <1>1, <1>5, <2>2, <3>3 DEF Covers
    <3>5. PICK c \in DOMAIN s :
            /\ Covers(s[c], o + i)
            /\ Read8(a) = [device |-> s[c].device,
                           offset |-> IF s[c].DirectAccess
                                        THEN (o + i) - s[c].pageOffset
                                        ELSE s[c].DeviceOffset + ((o + i) - s[c].pageOffset)]
      BY <1>3, <3>2, <3>4, FirstCovering
    <3>6. s[c] = fk \/ ClearOf(s[c], fk)
      BY <2>1 DEF Range
    <3>7. s[c].pageOffset \in Nat /\ s[c].size \in Nat
      <4>1. s[c] \in SectionType(Len(D))
        BY <1>3, <1>7, SectionsIn DEF s
      <4> QED  BY <4>1, ConstantsNat DEF SectionType
    <3>8. s[c] = fk
      BY <1>1, <1>5, <3>3, <3>5, <3>6, <3>7 DEF ClearOf, Covers
    <3>9. (o + i) - o = i
      BY <1>1, <3>3
    <3> QED  BY <1>5, <3>1, <3>2, <3>5, <3>8, <3>9
  <2> QED  BY <2>3 DEF b
<1>8. CASE p \in DOMAIN MemoryPages /\ fk \notin Range(s)
  <2>1. \A g \in Range(s) : g.device # k
    BY <1>1, <1>6, <1>8 DEF PageInv, RomsAtHome, fk
  <2>2. ASSUME NEW i \in 0 .. Size(k) - 1, b + i \in Addresses
        PROVE  Read8(b + i).device # k
    <3>1. PICK a : a = b + i
      OBVIOUS
    <3>2. s = MemoryPages[GetPageNumber(a) + 1]
      BY <1>2, <3>1 DEF s
    <3> QED  BY <1>1, <1>3, <2>1, <2>2, <3>1, <3>2, ReadThrough
  <2> QED  BY <2>2 DEF b
<1>9. CASE p \notin DOMAIN MemoryPages
  BY <1>4, <1>9 DEF b
<1> QED  BY <1>7, <1>8, <1>9

(* MapFirmwareRom maps a firmware whole or not at all, and no later mapping  *)
(* or pruning leaves part of it, for every page size and every list of      *)
(* devices.                                                                 *)
THEOREM FirmwareWholeness == Spec => []FirmwareWholeOrAbsent
<1>1. BusInv /\ RomInv => FirmwareWholeOrAbsent
  <2> SUFFICES ASSUME BusInv, RomInv, Usable, ResetRomFirst, FirmwareEndsFit,
                      NEW k \in Devices, Is(k, "FIRMWARE"),
                      InPageOffset(Base(k)) + Size(k) <= PageSize,
                      \A j \in Roms \ {k} : Disjoint(j, k), ~BesideUnsoundRom(k)
               PROVE  \/ ReadsWhole(k)
                      \/ \A i \in 0 .. Size(k) - 1 :
                           Base(k) + i \in Addresses => Read8(Base(k) + i).device # k
    BY DEF FirmwareWholeOrAbsent
  <2>1. Whole(RegisteredDevices, resetVector, k)
    BY WholeFirmware
  <2>2. Extent(k) = Size(k)
    BY DEF Extent, Is
  <2> QED  BY <2>1, <2>2, FirmwareIsRead DEF ReadsWhole
<1> QED  BY <1>1, BusInvariance, RomInvariance, PTL

----------------------------------------------------------------------------
(* Firmware at the start of a page. *)

(* The page begins with g, and nothing else begins there. *)
Heads(g, s) ==
  /\ Len(s) > 0 /\ s[1] = g /\ g.pageOffset = 0
  /\ \A i \in 2 .. Len(s) : s[i].pageOffset > 0

(* A choice of a page's sections that begins with its head is headed by it.  *)
LEMMA HeadStays ==
  ASSUME NEW G, NEW g, NEW s \in Seq(G), NEW t \in Seq(G),
         Heads(g, s), Selects(s, t), Len(t) > 0, t[1] = g,
         \A h \in G : h.pageOffset \in Nat
  PROVE  Heads(g, t)
<1>1. PICK at \in [DOMAIN t -> DOMAIN s] :
         /\ \A n \in DOMAIN t : t[n] = s[at[n]]
         /\ \A m, n \in DOMAIN t : at[m] = at[n] => m = n
  BY DEF Selects
<1>2. DOMAIN s = 1 .. Len(s) /\ DOMAIN t = 1 .. Len(t) /\ Len(s) \in Nat /\ Len(t) \in Nat
  OBVIOUS
<1>3. 1 \in DOMAIN t /\ at[1] \in 1 .. Len(s) /\ s[at[1]] = g
  BY <1>1, <1>2
<1>4. at[1] = 1
  <2> SUFFICES ASSUME at[1] # 1 PROVE FALSE
    OBVIOUS
  <2>1. at[1] \in 2 .. Len(s)
    BY <1>2, <1>3
  <2>2. s[at[1]].pageOffset > 0 /\ g.pageOffset = 0
    BY <2>1 DEF Heads
  <2> QED  BY <1>3, <2>2
<1>5. ASSUME NEW i \in 2 .. Len(t) PROVE t[i].pageOffset > 0
  <2>1. i \in DOMAIN t /\ i # 1
    BY <1>2
  <2>2. at[i] \in DOMAIN s /\ at[i] # 1 /\ t[i] = s[at[i]]
    BY <1>1, <1>3, <1>4, <2>1
  <2>3. at[i] \in 2 .. Len(s)
    BY <1>2, <2>2
  <2> QED  BY <2>2, <2>3 DEF Heads
<1> QED  BY <1>5 DEF Heads

(* Sorting leaves the head first: no other section begins at 0.             *)
LEMMA SortHead ==
  ASSUME NEW n, NEW s \in Seq(SectionType(n)), NEW g, Heads(g, s)
  PROVE  Heads(g, SortSections(s))
<1>1. PICK G : G = SectionType(n)
  OBVIOUS
<1>2. \A h \in G : h.pageOffset \in Nat
  BY <1>1, ConstantsNat DEF SectionType
<1>3. PICK t : t = SortSections(s)
  OBVIOUS
<1>4. t \in Seq(G) /\ Selects(s, t) /\ Range(t) = Range(s) /\ Sorted(t)
  BY <1>1, <1>2, <1>3, SortKeeps, SortOrders
<1>5. s \in Seq(G) /\ DOMAIN s = 1 .. Len(s) /\ Len(s) \in Nat /\ Len(s) > 0
  BY <1>1 DEF Heads
<1>6. DOMAIN t = 1 .. Len(t) /\ Len(t) \in Nat
  BY <1>4
<1>7. PICK m \in 1 .. Len(t) : t[m] = g
  <2>1. g \in Range(s)
    BY <1>5 DEF Heads, Range
  <2> QED  BY <1>4, <1>6, <2>1 DEF Range
<1>8. t[1] = g
  <2>1. 1 \in 1 .. Len(t) /\ t[1] \in G
    BY <1>4, <1>6, <1>7
  <2>2. t[1].pageOffset <= g.pageOffset
    <3>1. CASE m = 1
      BY <1>2, <1>7, <2>1, <3>1
    <3>2. CASE m # 1
      BY <1>4, <1>6, <1>7, <2>1, <3>2 DEF Sorted
    <3> QED  BY <3>1, <3>2
  <2>3. PICK i \in 1 .. Len(s) : t[1] = s[i]
    BY <1>4, <1>5, <1>6, <2>1 DEF Range
  <2>4. i = 1
    <3> SUFFICES ASSUME i # 1 PROVE FALSE
      OBVIOUS
    <3>1. s[i].pageOffset > 0 /\ g.pageOffset = 0
      BY <1>5 DEF Heads
    <3>2. t[1].pageOffset \in Nat
      BY <1>2, <2>1
    <3> QED  BY <2>2, <2>3, <3>1, <3>2
  <2> QED  BY <2>3, <2>4 DEF Heads
<1>9. Len(t) > 0
  BY <1>6, <1>7
<1> QED  BY <1>2, <1>3, <1>4, <1>5, <1>8, <1>9, HeadStays

(* Pruning never takes the first section.                                   *)
LEMMA PruneHead ==
  ASSUME NEW n, NEW s \in Seq(SectionType(n)), NEW g, Heads(g, s)
  PROVE  Heads(g, PruneEmptySections(s))
<1>1. PICK G : G = SectionType(n)
  OBVIOUS
<1>2. \A h \in G : h.pageOffset \in Nat
  BY <1>1, ConstantsNat DEF SectionType
<1>3. PICK t : t = PruneEmptySections(s)
  OBVIOUS
<1>4. s \in Seq(G) /\ Len(s) > 0 /\ s[1] = g
  BY <1>1 DEF Heads
<1>5. t \in Seq(G) /\ Len(t) > 0
  BY <1>3, <1>4, PruneKeeps
<1>6. Selects(s, t) /\ t[1] = g
  BY <1>3, <1>4, PruneOrders
<1> QED  BY <1>2, <1>3, <1>4, <1>5, <1>6, HeadStays

(* A firmware at the start of its page, where no reset ROM is. *)
Starts(D, v, k) ==
  /\ D[k].kind = "FIRMWARE"
  /\ InPageOffset(D[k].base) = 0 /\ D[k].size \in 1 .. PageSize
  /\ ~Ruled(D, v, Home(D, k))

(* Memory that was mapped first is as long as its pages, and a firmware at   *)
(* the start of a page heads it.                                             *)
HeadsInv(D, v, pages) ==
  /\ \A m \in DOMAIN D : m = 1 /\ D[m].kind = "MEMORY" =>
       Len(pages) = (D[m].size + PageSize - 1) \div PageSize
  /\ \A k \in DOMAIN D : Starts(D, v, k) /\ Home(D, k) \in DOMAIN pages =>
       Heads(FirmwareSection(D, k), pages[Home(D, k)])

(* Memory mapped after another device would drop what was mapped before.     *)
MemoryFirst == \A k \in Devices : Is(k, "MEMORY") => k = 1

MapInv ==
  Usable /\ FirmwareEndsFit /\ MemoryFirst =>
    HeadsInv(RegisteredDevices, resetVector, MemoryPages)

(* Of the devices registered before. *)
LEMMA StartsBefore ==
  ASSUME NEW D \in Seq(DeviceType), NEW d \in DeviceType, NEW E, E = Append(D, d),
         NEW v, NEW k \in 1 .. Len(D), Starts(E, v, k)
  PROVE  /\ Starts(D, v, k) /\ Home(E, k) = Home(D, k)
         /\ FirmwareSection(E, k) = FirmwareSection(D, k)
<1>1. /\ Len(D) \in Nat /\ DOMAIN D = 1 .. Len(D) /\ DOMAIN E = 1 .. Len(D) + 1
      /\ \A j \in 1 .. Len(D) : E[j] = D[j]
  OBVIOUS
<1>2. PICK N \in Nat : N = Len(D)
  BY <1>1
<1>3. /\ DOMAIN D = 1 .. N /\ DOMAIN E = 1 .. N + 1 /\ k \in 1 .. N
      /\ \A j \in 1 .. N : E[j] = D[j] /\ j \in 1 .. N + 1
  BY <1>1, <1>2
<1>4. \A j \in 1 .. N : Home(E, j) = Home(D, j) /\ FirmwareSection(E, j) = FirmwareSection(D, j)
  BY <1>3 DEF Home, FirmwareSection
<1>5. \A p : Ruled(D, v, p) => Ruled(E, v, p)
  BY <1>3 DEF Ruled
<1> QED  BY <1>3, <1>4, <1>5 DEF Starts

(* Registering a device keeps the invariant if the pages it leaves have it.  *)
LEMMA HeadsRegistered ==
  ASSUME BusInv, MapInv, NEW d \in DeviceType, Register(d),
         ASSUME Usable', d.kind = "MEMORY" => Len(RegisteredDevices) = 0,
                d.kind = "FIRMWARE" => InPageOffset(d.base) + d.size < Wrap,
                HeadsInv(RegisteredDevices, resetVector, MemoryPages)
         PROVE  HeadsInv(Append(RegisteredDevices, d), resetVector, MemoryPages')
  PROVE  MapInv'
<1> SUFFICES ASSUME Usable', FirmwareEndsFit', MemoryFirst'
             PROVE  HeadsInv(RegisteredDevices', resetVector', MemoryPages')
  BY DEF MapInv
<1>1. PICK E : E = Append(RegisteredDevices, d)
  OBVIOUS
<1>2. PICK N \in Nat : N = Len(RegisteredDevices)
  BY DEF BusInv
<1>3. /\ RegisteredDevices' = E /\ resetVector' = resetVector /\ status = "constructing"
  BY <1>1 DEF Register
<1>4. /\ Devices = 1 .. N /\ Devices' = 1 .. N + 1 /\ E[N + 1] = d
      /\ \A k \in 1 .. N : E[k] = RegisteredDevices[k] /\ k \in 1 .. N + 1
  BY <1>1, <1>2, <1>3 DEF BusInv, Devices
<1>5. N + 1 \in 1 .. N + 1
  OBVIOUS
<1>6. FirmwareEndsFit /\ MemoryFirst
  BY <1>3, <1>4 DEF FirmwareEndsFit, MemoryFirst, Is, Base, Size
<1>7. HeadsInv(RegisteredDevices, resetVector, MemoryPages)
  BY <1>3, <1>6 DEF MapInv, Usable
<1>8. d.kind = "MEMORY" => N = 0
  <2>1. d.kind = "MEMORY" => N + 1 = 1
    BY <1>3, <1>4, <1>5 DEF MemoryFirst, Is
  <2> QED  BY <2>1
<1>9. d.kind = "FIRMWARE" => InPageOffset(d.base) + d.size < Wrap
  BY <1>3, <1>4, <1>5 DEF FirmwareEndsFit, Is, Base, Size
<1> QED  BY <1>1, <1>2, <1>3, <1>7, <1>8, <1>9

(* Memory mapped later voids the promise; mapped first it has no firmware.  *)
LEMMA HeadsMemoryStep ==
  ASSUME BusInv, MapInv, NEW size \in MemorySizes, RegisterMemoryDevice(size)
  PROVE  MapInv'
<1>1. PICK d : d = Device("MEMORY", size, 0)
  OBVIOUS
<1>2. size \in Nat /\ d \in DeviceType /\ d.kind = "MEMORY" /\ d.size = size
  BY <1>1, MemorySizesAssumption DEF Device, DeviceType, Kinds
<1>3. /\ Register(d)
      /\ MemoryPages' = MainMemoryPages(Len(RegisteredDevices) + 1, size)
  BY <1>1 DEF RegisterMemoryDevice, Number
<1>4. ASSUME Len(RegisteredDevices) = 0
      PROVE  HeadsInv(Append(RegisteredDevices, d), resetVector, MemoryPages')
  <2>1. PICK E : E = Append(RegisteredDevices, d)
    OBVIOUS
  <2>2. DOMAIN E = {1} /\ E[1] = d
    BY <1>2, <1>4, <2>1 DEF BusInv
  <2>3. Len(MemoryPages') = (size + PageSize - 1) \div PageSize
    <3>1. PICK n \in Nat : n = (size + PageSize - 1) \div PageSize
      BY <1>2, PageSizeAssumption
    <3> QED  BY <1>3, <3>1 DEF MainMemoryPages
  <2>4. \A k \in DOMAIN E : ~Starts(E, resetVector, k)
    BY <1>2, <2>2 DEF Starts
  <2> QED  BY <1>2, <2>1, <2>2, <2>3, <2>4 DEF HeadsInv
<1> QED  BY <1>2, <1>3, <1>4, HeadsRegistered

(* MapResetRom leaves the pages alone that are not the reset ROM's.          *)
LEMMA HeadsResetROMStep ==
  ASSUME BusInv, MapInv, NEW size \in ResetRomFiles, RegisterResetROMDevice(size)
  PROVE  MapInv'
<1>1. PICK d : d = Device("RESET_ROM", size, resetVector)
  OBVIOUS
<1>2. d \in DeviceType /\ d.kind = "RESET_ROM"
  BY <1>1, ResetRomFilesAssumption, ResetRomSizeAssumption, ResetVectorsAssumption
     DEF Device, DeviceType, Kinds, BusInv
<1>3. PICK n : n = Len(RegisteredDevices) + 1
  OBVIOUS
<1>4. Register(d) /\ MapResetRom(n)
  BY <1>1, <1>3 DEF RegisterResetROMDevice, Number
<1>5. BusInv'
  BY ResetROMDeviceStep
<1>6. ASSUME Usable', HeadsInv(RegisteredDevices, resetVector, MemoryPages)
      PROVE  HeadsInv(Append(RegisteredDevices, d), resetVector, MemoryPages')
  <2>1. PICK D \in Seq(DeviceType), v \in Nat : D = RegisteredDevices /\ v = resetVector
    BY ResetVectorsAssumption DEF BusInv
  <2>2. PICK E : E = Append(D, d)
    OBVIOUS
  <2>3. PICK N \in Nat : N = Len(D)
    BY <2>1
  <2>4. /\ DOMAIN D = 1 .. N /\ DOMAIN E = 1 .. N + 1 /\ E[N + 1] = d
        /\ \A k \in 1 .. N : E[k] = D[k]
        /\ \A k \in 1 .. N + 1 : k \in 1 .. N \/ k = N + 1
    BY <2>1, <2>2, <2>3
  <2>5. /\ DOMAIN MemoryPages' = DOMAIN MemoryPages
        /\ \A p \in DOMAIN MemoryPages :
             p - 1 \notin ResetRomPages /\ p \notin {q + 1 : q \in ResetRomPages}
               => MemoryPages'[p] = MemoryPages[p]
    BY <1>4, <1>6 DEF MapResetRom, Undefined, Usable
  <2>6. Len(MemoryPages') = Len(MemoryPages)
    BY <1>5, <2>5 DEF BusInv, PagesIn
  <2>7. ASSUME NEW k \in 1 .. N + 1, Starts(E, v, k), Home(E, k) \in DOMAIN MemoryPages
        PROVE  Heads(FirmwareSection(E, k), MemoryPages'[Home(E, k)])
    <3>1. k \in 1 .. N
      BY <1>2, <2>4, <2>7 DEF Starts
    <3>2. /\ Starts(D, v, k) /\ Home(E, k) = Home(D, k)
          /\ FirmwareSection(E, k) = FirmwareSection(D, k)
      BY <1>2, <2>2, <2>3, <2>7, <3>1, StartsBefore
    <3>3. Heads(FirmwareSection(D, k), MemoryPages[Home(D, k)])
      BY <1>6, <2>1, <2>4, <2>7, <3>1, <3>2 DEF HeadsInv
    <3>4. Home(E, k) \notin RomPages(v)
      <4>1. N + 1 \in DOMAIN E /\ E[N + 1].kind = "RESET_ROM"
        BY <1>2, <2>4
      <4> QED  BY <2>7, <4>1 DEF Starts, Ruled
    <3>5. PICK p \in DOMAIN MemoryPages : p = Home(E, k)
      BY <2>7
    <3>6. p \notin {q + 1 : q \in ResetRomPages}
      BY <2>1, <3>4, <3>5 DEF RomPages, ResetRomPages
    <3>7. p - 1 \notin ResetRomPages
      <4>1. p \in Int
        BY DEF BusInv, PagesIn
      <4>2. (p - 1) + 1 = p
        BY <4>1
      <4> QED  BY <3>6, <4>2
    <3> QED  BY <2>5, <3>2, <3>3, <3>5, <3>6, <3>7
  <2>8. ASSUME NEW m \in 1 .. N + 1, m = 1, E[m].kind = "MEMORY"
        PROVE  Len(MemoryPages') = (E[m].size + PageSize - 1) \div PageSize
    <3>1. m \in 1 .. N
      BY <1>2, <2>4, <2>8
    <3> QED  BY <1>6, <2>1, <2>4, <2>6, <2>8, <3>1 DEF HeadsInv
  <2> QED  BY <2>1, <2>2, <2>4, <2>5, <2>7, <2>8 DEF HeadsInv
<1> QED  BY <1>2, <1>4, <1>6, HeadsRegistered

(* Sorting the firmware's page and pruning the later ones keep every head.   *)
LEMMA FinishHeads ==
  ASSUME NEW n, NEW pages, PagesIn(pages, SectionType(n)), NEW start,
         FinishFirmware(pages, start), Usable'
  PROVE  /\ DOMAIN MemoryPages' = DOMAIN pages
         /\ \A p \in DOMAIN pages : \A g : Heads(g, pages[p]) => Heads(g, MemoryPages'[p])
<1>1. MemoryPages' = [p \in DOMAIN pages |->
                       IF p \in {q \in DOMAIN pages : q > start} THEN PruneEmptySections(pages[p])
                       ELSE IF p = start THEN SortSections(pages[p])
                       ELSE pages[p]]
  BY DEF FinishFirmware, Undefined, Usable
<1>2. ASSUME NEW p \in DOMAIN pages, NEW g, Heads(g, pages[p])
      PROVE  Heads(g, MemoryPages'[p])
  <2>1. pages[p] \in Seq(SectionType(n))
    BY DEF PagesIn, NonEmpty
  <2>2. PICK s \in Seq(SectionType(n)) : s = pages[p]
    BY <2>1
  <2>3. MemoryPages'[p] \in {s, SortSections(s), PruneEmptySections(s)}
    BY <1>1, <2>2
  <2> QED  BY <1>2, <2>2, <2>3, SortHead, PruneHead
<1> QED  BY <1>1, <1>2

(* The sections of s but the last begin before o; t has the head of s, if    *)
(* that is not its last section.                                             *)
AllBefore(s, o) == \A j \in 1 .. Len(s) - 1 : s[j].pageOffset < o
KeepsHead(s, t) == \A g : Heads(g, s) /\ Len(s) # 1 => Heads(g, t)

(* Firmware mapped to the last section of a page heads the page if it is at  *)
(* its start, and else stays behind its head.                                *)
LEMMA SplitHead ==
  ASSUME NEW m, NEW s \in Seq(SectionType(m)), Len(s) > 0, NEW n,
         NEW size \in Nat, NEW base \in Nat, InPageOffset(base) + size < Wrap,
         AllBefore(s, InPageOffset(base)), NEW t, t = SplitForFirmware(s, Len(s), n, size, base)
  PROVE  /\ InPageOffset(base) = 0 /\ size > 0 =>
              Heads(Section(n, TRUE, 0, InPageOffset(base), size), t)
         /\ KeepsHead(s, t)
<1>1. PICK G : G = SectionType(m)
  OBVIOUS
<1>2. \A h \in G : h.pageOffset \in Nat
  BY <1>1, ConstantsNat DEF SectionType
<1>3. PICK o \in Nat, L \in Nat \ {0} : o = InPageOffset(base) /\ L = Len(s)
  BY OffsetNat
<1>4. PICK f, rest : /\ f = Section(n, TRUE, 0, o, size)
                     /\ rest = Remainder(s[Len(s)], o + size, PageSize - (o + size))
  OBVIOUS
<1>5. SplitLast(s, t, f, rest)
  BY <1>3, <1>4, SplitShape
<1>6. f.pageOffset = o /\ rest.pageOffset = o + size
  <2>1. rest.pageOffset = (o + size) % Wrap
    BY <1>4 DEF Remainder, Section
  <2>2. (o + size) % Wrap = o + size
    BY <1>3, Unwrapped
  <2> QED  BY <1>4, <2>1, <2>2 DEF Section
<1>7. /\ DOMAIN t = 1 .. L + 1 /\ t[L] = f /\ t[L + 1] = rest
      /\ \A j \in 1 .. L - 1 : t[j] = s[j] /\ s[j].pageOffset < o /\ s[j] \in G
  BY <1>1, <1>3, <1>5 DEF SplitLast, AllBefore
<1>8. Len(t) = L + 1
  <2>1. SplitForFirmware(s, Len(s), n, size, base) \in Seq(G \cup {f, rest})
    <3>1. PICK H : H = G \cup {f, rest}
      OBVIOUS
    <3>2. s \in Seq(H) /\ f \in H /\ rest \in H
      BY <1>1, <3>1
    <3>3. [s EXCEPT ![Len(s)] = f] \in Seq(H) /\ << rest >> \in Seq(H)
      BY <3>2
    <3>4. [s EXCEPT ![Len(s)] = f] \o << rest >> \in Seq(H)
      BY <3>3
    <3> QED  BY <1>3, <1>4, <3>1, <3>4 DEF SplitForFirmware
  <2>2. DOMAIN t = 1 .. Len(t) /\ Len(t) \in Nat
    BY <2>1
  <2> QED  BY <1>7, <2>2
<1>9. ASSUME o = 0, size > 0 PROVE Heads(f, t)
  <2>1. L = 1
    <3> SUFFICES ASSUME L # 1 PROVE FALSE
      OBVIOUS
    <3>1. 1 \in 1 .. L - 1
      BY <1>3
    <3>2. s[1].pageOffset < 0 /\ s[1].pageOffset \in Nat
      BY <1>2, <1>7, <1>9, <3>1
    <3> QED  BY <3>2
  <2> QED  BY <1>6, <1>7, <1>8, <1>9, <2>1 DEF Heads
<1>10. ASSUME NEW g, Heads(g, s), L # 1 PROVE Heads(g, t)
  <2>1. 1 \in 1 .. L - 1
    BY <1>3, <1>10
  <2>2. t[1] = g /\ g.pageOffset = 0 /\ 0 < o
    BY <1>7, <1>10, <2>1 DEF Heads
  <2>3. ASSUME NEW j \in 2 .. L + 1 PROVE t[j].pageOffset > 0
    <3>1. CASE j \in 2 .. L - 1
      <4>1. j \in 1 .. L - 1 /\ j \in 2 .. Len(s)
        BY <1>3, <3>1
      <4> QED  BY <1>7, <1>10, <4>1 DEF Heads
    <3>2. CASE j = L
      BY <1>3, <1>6, <1>7, <2>2, <3>2
    <3>3. CASE j = L + 1
      BY <1>3, <1>6, <1>7, <2>2, <3>3
    <3> QED  BY <1>3, <2>3, <3>1, <3>2, <3>3
  <2> QED  BY <1>3, <1>8, <2>2, <2>3 DEF Heads
<1> QED  BY <1>3, <1>4, <1>9, <1>10 DEF KeepsHead

(* The sections of the page are sections of the devices with the new one.    *)
LEMMA SplitIn ==
  ASSUME NEW m \in Nat, NEW s \in NonEmpty(SectionType(m)),
         NEW size \in Nat, NEW base \in Nat, InPageOffset(base) + size < Wrap
  PROVE  SplitForFirmware(s, Len(s), m + 1, size, base) \in NonEmpty(SectionType(m + 1))
<1>1. PICK G : G = SectionType(m + 1)
  OBVIOUS
<1>2. PICK o \in Nat : o = InPageOffset(base) /\ o + size < Wrap
  BY OffsetNat
<1>3. s \in NonEmpty(G)
  <2>1. SectionType(m) \subseteq G
    <3>1. 1 .. m \subseteq 1 .. m + 1
      OBVIOUS
    <3> QED  BY <1>1, <3>1 DEF SectionType
  <2> QED  BY <2>1 DEF NonEmpty
<1>4. Section(m + 1, TRUE, 0, InPageOffset(base), size) \in G
  <2>1. m + 1 \in 1 .. m + 1 /\ o \in 0 .. Wrap - 1 /\ size \in 0 .. Wrap - 1
    BY <1>2, ConstantsNat
  <2> QED  BY <1>1, <1>2, <2>1 DEF Section, SectionType
<1>5. PICK c : c = Len(s)
  OBVIOUS
<1>6. c \in DOMAIN s /\ s[c] \in G
  BY <1>3, <1>5 DEF NonEmpty
<1>7. KeepsRemainders(G, Int, s[c])
  BY <1>1, <1>6, RemainderType DEF KeepsRemainders
<1>8. LengthsIn(Int, InPageOffset(base), size)
  BY <1>2, ConstantsNat DEF LengthsIn
<1>9. SplitForFirmware(s, c, m + 1, size, base) \in NonEmpty(G)
  <2>1. PICK n : n = m + 1
    OBVIOUS
  <2> QED  BY <1>3, <1>4, <1>6, <1>7, <1>8, <2>1, SplitForFirmwareKeeps
<1> QED  BY <1>1, <1>5, <1>9

(* A firmware heads its page, stays behind the head, or is not mapped.       *)
LEMMA HeadsFirmwareStep ==
  ASSUME BusInv, MapInv, NEW size \in Nat, NEW base \in Nat, RegisterFirmwareDevice(size, base)
  PROVE  MapInv'
<1> DEFINE N == Len(RegisteredDevices)
           start == GetPageNumber(base) + 1
           s == MemoryPages[start]
           i == FirstCandidate(s, base)
           split == SplitForFirmware(s, i, N + 1, size, base)
           pages == [MemoryPages EXCEPT ![start] = split]
<1>1. PICK D \in Seq(DeviceType), v \in Nat : D = RegisteredDevices /\ v = resetVector
  BY ResetVectorsAssumption DEF BusInv
<1>2. PICK d : d = Device("FIRMWARE", size, base)
  OBVIOUS
<1>3. d \in DeviceType /\ d.kind = "FIRMWARE" /\ d.size = size /\ d.base = base
  BY <1>2 DEF Device, DeviceType, Kinds
<1>4. Register(d) /\ MapFirmwareRom(N + 1, size, base)
  BY <1>2 DEF RegisterFirmwareDevice, Number
<1>5. PICK E : E = Append(D, d)
  OBVIOUS
<1>6. /\ N \in Nat /\ DOMAIN D = 1 .. N /\ DOMAIN E = 1 .. N + 1 /\ E[N + 1] = d
      /\ \A k \in 1 .. N : E[k] = D[k]
      /\ \A k \in 1 .. N + 1 : k \in 1 .. N \/ k = N + 1
  BY <1>1, <1>5
<1>7. PagesIn(MemoryPages, SectionType(N))
  BY DEF BusInv
<1>8. BusInv'
  BY FirmwareDeviceStep
<1>9. ASSUME Usable', InPageOffset(base) + size < Wrap, HeadsInv(D, v, MemoryPages)
      PROVE  HeadsInv(E, v, MemoryPages')
  <2>1. PICK q :
          /\ DOMAIN q = DOMAIN MemoryPages /\ DOMAIN MemoryPages' = DOMAIN q
          /\ \A p \in DOMAIN q : \A g : Heads(g, q[p]) => Heads(g, MemoryPages'[p])
          /\ \A k \in 1 .. N : Starts(D, v, k) /\ Home(D, k) \in DOMAIN q =>
               Heads(FirmwareSection(D, k), q[Home(D, k)])
          /\ Starts(E, v, N + 1) /\ start \in DOMAIN q =>
               Heads(FirmwareSection(E, N + 1), q[start])
    <3>1. \A k \in 1 .. N : Starts(D, v, k) /\ Home(D, k) \in DOMAIN MemoryPages =>
            Heads(FirmwareSection(D, k), MemoryPages[Home(D, k)])
      BY <1>6, <1>9 DEF HeadsInv
    <3>2. CASE start \notin DOMAIN MemoryPages \/ Candidates(s, base) = {}
      <4>1. FinishFirmware(MemoryPages, start)
        BY <1>4, <3>2 DEF MapFirmwareRom
      <4>2. ~(Starts(E, v, N + 1) /\ start \in DOMAIN MemoryPages)
        <5> SUFFICES ASSUME InPageOffset(base) = 0, start \in DOMAIN MemoryPages
                     PROVE  FALSE
          BY <1>3, <1>6 DEF Starts
        <5>1. PICK w \in Seq(SectionType(N)) : w = s /\ Len(w) > 0
          BY <1>7, SectionsIn
        <5>2. 1 \in DOMAIN w /\ w[1] \in SectionType(N)
          BY <5>1
        <5>3. w[1].pageOffset \in Nat
          BY <5>2, ConstantsNat DEF SectionType
        <5> QED  BY <3>2, <5>1, <5>2, <5>3 DEF Candidates
      <4>3. PICK q : q = MemoryPages
        OBVIOUS
      <4>4. /\ DOMAIN MemoryPages' = DOMAIN MemoryPages
            /\ \A p \in DOMAIN MemoryPages : \A g : Heads(g, MemoryPages[p]) => Heads(g, MemoryPages'[p])
        BY <1>7, <1>9, <4>1, FinishHeads
      <4> QED  BY <3>1, <4>2, <4>4
    <3>3. CASE start \in DOMAIN MemoryPages /\ Candidates(s, base) # {}
      <4>1. /\ D[s[i].device].kind = "MEMORY"
            /\ i = Len(s) /\ FinishFirmware(pages, start)
        BY <1>1, <1>4, <1>9, <3>3 DEF MapFirmwareRom, Abort, Undefined, Usable
      <4>2. PICK w \in Seq(SectionType(N)) : w = s /\ Len(w) > 0 /\ w \in NonEmpty(SectionType(N))
        BY <1>7, <3>3, SectionsIn DEF NonEmpty
      <4>3. i = Len(w) /\ i \in Nat
        BY <4>1, <4>2
      <4>4. \A j \in 1 .. Len(w) - 1 : w[j].pageOffset < InPageOffset(base)
        <5>1. i \in Candidates(w, base) /\ \A j \in Candidates(w, base) : i <= j
          BY <3>3, <4>2, FirstCandidateFirst
        <5>2. PICK c \in Nat : c = i /\ c = Len(w)
          BY <4>3
        <5>3. ASSUME NEW j \in 1 .. c - 1 PROVE w[j].pageOffset < InPageOffset(base)
          <6>1. j \in DOMAIN w /\ ~(c <= j) /\ w[j] \in SectionType(N)
            BY <5>2
          <6>2. ~(w[j].pageOffset >= InPageOffset(base))
            BY <5>1, <5>2, <6>1 DEF Candidates
          <6>3. w[j].pageOffset \in Nat
            BY <6>1, ConstantsNat DEF SectionType
          <6>4. PICK x \in Nat : x = InPageOffset(base)
            BY OffsetNat
          <6> QED  BY <6>2, <6>3, <6>4
        <5> HIDE DEF i, N, s
        <5> QED  BY <5>2, <5>3
      <4>5. PICK n : n = N + 1
        OBVIOUS
      <4>6. PICK t : t = SplitForFirmware(w, Len(w), n, size, base)
        OBVIOUS
      <4>7. /\ InPageOffset(base) = 0 /\ size > 0 =>
                 Heads(Section(n, TRUE, 0, InPageOffset(base), size), t)
            /\ \A g : Heads(g, w) /\ Len(w) # 1 => Heads(g, t)
        <5>1. PICK m : m = N
          OBVIOUS
        <5>2. w \in Seq(SectionType(m)) /\ Len(w) > 0 /\ InPageOffset(base) + size < Wrap
          BY <1>9, <4>2, <5>1
        <5>3. AllBefore(w, InPageOffset(base))
          BY <4>4 DEF AllBefore
        <5> HIDE DEF N, s, i, start
        <5>4. /\ InPageOffset(base) = 0 /\ size > 0 =>
                 Heads(Section(n, TRUE, 0, InPageOffset(base), size), t)
              /\ KeepsHead(w, t)
          BY <4>6, <5>2, <5>3, SplitHead
        <5> QED  BY <5>4 DEF KeepsHead
      <4>8. split = t
        BY <4>2, <4>3, <4>5, <4>6
      <4>9. PICK q : q = pages
        OBVIOUS
      <4>10. /\ DOMAIN q = DOMAIN MemoryPages /\ q[start] = t
             /\ \A p \in DOMAIN MemoryPages : p # start => q[p] = MemoryPages[p]
        <5> HIDE DEF start, split
        <5> QED  BY <3>3, <4>8, <4>9
      <4>11. PagesIn(q, SectionType(N + 1))
        <5>1. PICK G, H : G = SectionType(N + 1) /\ H = SectionType(N)
          OBVIOUS
        <5>2. H \subseteq G
          BY <1>1, <1>3, <5>1, InsideGrows
        <5>3. PagesIn(MemoryPages, G)
          BY <1>7, <5>1, <5>2, SeqSubset
        <5>4. t \in NonEmpty(G)
          <6> HIDE DEF s, i, start
          <6> QED  BY <1>6, <1>9, <4>2, <4>5, <4>6, <5>1, SplitIn
        <5> HIDE DEF start
        <5>5. PICK K : K = NonEmpty(G)
          OBVIOUS
        <5>6. MemoryPages \in Seq(K) /\ t \in K
          BY <5>3, <5>4, <5>5 DEF PagesIn
        <5>7. q = [MemoryPages EXCEPT ![start] = t]
          BY <4>8, <4>9
        <5>8. q \in Seq(K)
          BY <3>3, <5>6, <5>7
        <5> QED  BY <5>1, <5>5, <5>8 DEF PagesIn
      <4>12. /\ DOMAIN MemoryPages' = DOMAIN q
             /\ \A p \in DOMAIN q : \A g : Heads(g, q[p]) => Heads(g, MemoryPages'[p])
        <5> HIDE DEF pages, start, N
        <5> QED  BY <1>9, <4>1, <4>9, <4>11, FinishHeads
      <4>13. ASSUME NEW k \in 1 .. N, Starts(D, v, k), Home(D, k) \in DOMAIN MemoryPages
             PROVE  Heads(FirmwareSection(D, k), q[Home(D, k)])
        <5>1. PICK g : g = FirmwareSection(D, k)
          OBVIOUS
        <5>2. Heads(g, MemoryPages[Home(D, k)])
          BY <3>1, <4>13, <5>1
        <5>3. CASE Home(D, k) = start
          <6>1. Heads(g, w)
            BY <4>2, <5>2, <5>3
          <6>2. Len(w) # 1
            <7> SUFFICES ASSUME Len(w) = 1 PROVE FALSE
              OBVIOUS
            <7>1. D[g.device].kind = "MEMORY"
              BY <4>1, <4>2, <6>1 DEF Heads
            <7>2. g.device = k /\ D[k].kind = "FIRMWARE"
              BY <4>13, <5>1 DEF FirmwareSection, Section, Starts
            <7> QED  BY <7>1, <7>2
          <6> QED  BY <4>7, <4>10, <5>1, <5>3, <6>1, <6>2
        <5>4. CASE Home(D, k) # start
          BY <4>10, <4>13, <5>1, <5>2, <5>4
        <5> QED  BY <5>3, <5>4
      <4>14. Starts(E, v, N + 1) => Heads(FirmwareSection(E, N + 1), q[start])
        <5> SUFFICES ASSUME Starts(E, v, N + 1) PROVE Heads(FirmwareSection(E, n), t)
          BY <4>5, <4>10
        <5>1. FirmwareSection(E, n) = Section(n, TRUE, 0, InPageOffset(base), size)
          BY <1>3, <1>6, <4>5 DEF FirmwareSection
        <5>2. InPageOffset(base) = 0 /\ size > 0
          BY <1>3, <1>6, ConstantsNat DEF Starts
        <5> QED  BY <4>7, <5>1, <5>2
      <4> QED  BY <4>10, <4>12, <4>13, <4>14
    <3> QED  BY <3>2, <3>3
  <2>2. Len(MemoryPages') = Len(MemoryPages)
    <3>1. DOMAIN MemoryPages' = DOMAIN MemoryPages
      BY <2>1
    <3> QED  BY <1>8, <3>1 DEF BusInv, PagesIn
  <2>3. ASSUME NEW k \in 1 .. N + 1, Starts(E, v, k), Home(E, k) \in DOMAIN MemoryPages'
        PROVE  Heads(FirmwareSection(E, k), MemoryPages'[Home(E, k)])
    <3>1. CASE k \in 1 .. N
      <4>1. /\ Starts(D, v, k) /\ Home(E, k) = Home(D, k)
            /\ FirmwareSection(E, k) = FirmwareSection(D, k)
        BY <1>1, <1>3, <1>5, <2>3, <3>1, StartsBefore, ZenonT(30)
      <4> QED  BY <2>1, <2>3, <3>1, <4>1
    <3>2. CASE k = N + 1
      <4>1. Home(E, k) = start
        BY <1>3, <1>6, <3>2 DEF Home
      <4> HIDE DEF start, N
      <4> QED  BY <2>1, <2>3, <3>2, <4>1
    <3> QED  BY <1>6, <3>1, <3>2
  <2>4. ASSUME NEW m \in 1 .. N + 1, m = 1, E[m].kind = "MEMORY"
        PROVE  Len(MemoryPages') = (E[m].size + PageSize - 1) \div PageSize
    <3>1. m \in 1 .. N
      BY <1>3, <1>6, <2>4
    <3> QED  BY <1>6, <1>9, <2>2, <2>4, <3>1 DEF HeadsInv
  <2> QED  BY <1>6, <2>3, <2>4 DEF HeadsInv
<1> QED  BY <1>1, <1>3, <1>4, <1>5, <1>9, HeadsRegistered

(* No other step changes the table.                                         *)
LEMMA MapStutterStep ==
  ASSUME MapInv, UNCHANGED << MemoryPages, RegisteredDevices, resetVector >>,
         Usable' => Usable
  PROVE  MapInv'
<1>1. FirmwareEndsFit' = FirmwareEndsFit /\ MemoryFirst' = MemoryFirst
  BY DEF FirmwareEndsFit, MemoryFirst, Devices, Is, Base, Size
<1> QED  BY <1>1 DEF MapInv

(* The invariant of the heads is inductive. *)
LEMMA MapInvInit == Init => MapInv
<1> SUFFICES ASSUME Init PROVE MapInv
  OBVIOUS
<1>1. DOMAIN RegisteredDevices = {}
  BY DEF Init
<1> QED  BY <1>1 DEF MapInv, HeadsInv

LEMMA MapInvStep == BusInv /\ MapInv /\ [Next]_vars => MapInv'
<1> SUFFICES ASSUME BusInv, MapInv, [Next]_vars PROVE MapInv'
  OBVIOUS
<1>1. CASE \E size \in MemorySizes : RegisterMemoryDevice(size)
  BY <1>1, HeadsMemoryStep
<1>2. CASE \E size \in ResetRomFiles : RegisterResetROMDevice(size)
  BY <1>2, HeadsResetROMStep
<1>3. CASE \E f \in Firmwares : RegisterFirmwareDevice(f.size, f.base)
  <2>1. PICK f \in Firmwares : RegisterFirmwareDevice(f.size, f.base)
    BY <1>3
  <2>2. f.size \in Nat /\ f.base \in Nat
    BY FirmwaresAssumption
  <2> QED  BY <2>1, <2>2, HeadsFirmwareStep
<1>4. CASE RejectDescriptor
  BY <1>4, MapStutterStep DEF RejectDescriptor, Usable
<1>5. CASE Construct
  BY <1>5, MapStutterStep DEF Construct, Usable
<1>6. CASE UNCHANGED vars
  BY <1>6, MapStutterStep DEF vars, Usable
<1> QED  BY <1>1, <1>2, <1>3, <1>4, <1>5, <1>6 DEF Next

LEMMA MapInvariance == Spec => []MapInv
BY MapInvInit, MapInvStep, BusInvariance, PTL DEF Spec

(* A firmware that heads its page is read whole: nothing else begins where   *)
(* it does, so its section is the first.                                     *)
LEMMA HeadIsRead ==
  ASSUME BusInv, MapInv, Usable, FirmwareEndsFit, MemoryFirst,
         NEW k \in Devices, StartsAPage(k), Base(k) \in Addresses,
         NEW i \in 0 .. Size(k) - 1
  PROVE  /\ Base(k) + i \in Addresses
         /\ Read8(Base(k) + i) = [device |-> k, offset |-> i]
<1> DEFINE D == RegisteredDevices
           fk == FirmwareSection(D, k)
<1>1. PICK b \in Nat, z \in Nat : b = Base(k) /\ z = Size(k) /\ z <= PageSize
  <2>1. D[k] \in DeviceType
    BY DEF BusInv, Devices
  <2> QED  BY <2>1, ConstantsNat DEF DeviceType, Base, Size, StartsAPage
<1>2. InPageOffset(b) = 0 /\ i \in Nat /\ i < z /\ i < PageSize
  BY <1>1, ConstantsNat DEF StartsAPage
<1>3. GetPageNumber(b + i) = GetPageNumber(b) /\ InPageOffset(b + i) = i
  <2>1. InPageOffset(b) + i < PageSize
    BY <1>2
  <2> QED  BY <1>2, <2>1, WithinPage
<1>4. PICK p : p = GetPageNumber(b) + 1
  OBVIOUS
<1>5. PagesIn(MemoryPages, SectionType(Len(D)))
  BY DEF BusInv
<1>6. p \in DOMAIN MemoryPages /\ b + i \in Addresses
  BY <1>1, <1>2, <1>3, <1>4, <1>5, PageAddresses
<1>7. Home(D, k) = p /\ Starts(D, resetVector, k)
  <2>1. Home(D, k) = p
    BY <1>1, <1>4 DEF Home, Base
  <2>2. ~Ruled(D, resetVector, p)
    <3> SUFFICES ASSUME Ruled(D, resetVector, p) PROVE FALSE
      OBVIOUS
    <3>1. PICK q \in ResetRomPages : p = q + 1
      BY DEF Ruled, RomPages, ResetRomPages
    <3>2. \E r \in Devices : Is(r, "RESET_ROM")
      BY DEF Ruled, Devices, Is
    <3>3. resetVector \in Nat
      BY ResetVectorsAssumption DEF BusInv
    <3>4. GetPageNumber(b) \in Nat /\ q \in Nat
      BY <1>1, <3>3, PageGrows, PageSizeAssumption DEF ResetRomPages, GetPageNumber
    <3>5. GetPageNumber(b) = q
      BY <1>4, <3>1, <3>4
    <3> QED  BY <1>1, <3>2, <3>5 DEF StartsAPage
  <2> QED  BY <2>1, <2>2 DEF StartsAPage, Starts, Is, Base, Size
<1>8. Heads(fk, MemoryPages[p])
  BY <1>6, <1>7 DEF MapInv, HeadsInv, Devices
<1>9. /\ fk.device = k /\ fk.DirectAccess = TRUE /\ fk.pageOffset = 0 /\ fk.size = z
  BY <1>1, <1>2 DEF FirmwareSection, Section, Base, Size
<1> HIDE DEF fk
<1>10. PICK s : s = MemoryPages[p]
  OBVIOUS
<1>11. 1 \in DOMAIN s /\ s[1] = fk /\ DOMAIN s \subseteq Nat \ {0}
  <2>1. s \in Seq(SectionType(Len(D))) /\ Len(s) > 0
    BY <1>5, <1>6, <1>10, SectionsIn
  <2> QED  BY <1>8, <1>10, <2>1 DEF Heads
<1>12. Covers(s[1], i)
  BY <1>2, <1>9, <1>11 DEF Covers
<1>13. PICK a : a = b + i
  OBVIOUS
<1>14. PICK c \in DOMAIN s :
         /\ c <= 1
         /\ Read8(a) = [device |-> s[c].device,
                        offset |-> IF s[c].DirectAccess
                                     THEN i - s[c].pageOffset
                                     ELSE s[c].DeviceOffset + (i - s[c].pageOffset)]
  <2>1. a \in Addresses /\ s = MemoryPages[GetPageNumber(a) + 1] /\ InPageOffset(a) = i
    BY <1>3, <1>4, <1>6, <1>10, <1>13
  <2> QED  BY <1>5, <1>11, <1>12, <2>1, FirstCovering
<1>15. c = 1
  BY <1>11, <1>14
<1> QED  BY <1>1, <1>2, <1>6, <1>9, <1>11, <1>13, <1>14, <1>15

(* A firmware at the start of a page of memory, off the reset ROM's pages,   *)
(* is read whole at its base whatever else is mapped, for every page size    *)
(* and every list of devices.                                                *)
THEOREM FirmwareAtBase == Spec => []FirmwareAtPreferredBase
<1>1. BusInv /\ MapInv => FirmwareAtPreferredBase
  <2> SUFFICES ASSUME BusInv, MapInv, Usable, FirmwareEndsFit, MemoryFirst,
                      NEW k \in Devices, StartsAPage(k), Base(k) \in Addresses,
                      NEW i \in 0 .. Extent(k) - 1
               PROVE  /\ Base(k) + i \in Addresses
                      /\ Read8(Base(k) + i) = [device |-> k, offset |-> i]
    BY DEF FirmwareAtPreferredBase, MemoryFirst, ReadsWhole
  <2>1. Extent(k) = Size(k)
    BY DEF Extent, StartsAPage, Is
  <2> QED  BY <2>1, HeadIsRead
<1> QED  BY <1>1, BusInvariance, MapInvariance, PTL

----------------------------------------------------------------------------
(* The whole page table, and what it makes of memory and a reset ROM. *)

TableInv == BusInv /\ DumpInv /\ RomInv /\ MapInv

(* The empty table satisfies all of it. *)
LEMMA TableInvInit == Init => TableInv
BY BusInvInit, DumpInvInit, RomInvInit, MapInvInit DEF TableInv

(* Every registration keeps all of it. *)
LEMMA TableInvStep == TableInv /\ [Next]_vars => TableInv'
<1>1. BusInv /\ [Next]_vars => BusInv'
  <2> SUFFICES ASSUME BusInv, [Next]_vars PROVE BusInv'
    OBVIOUS
  <2>1. CASE UNCHANGED vars
    BY <2>1, StutterStep DEF vars, BusInv
  <2> QED  BY <2>1, NextKeepsBusInv
<1> QED  BY <1>1, DumpInvStep, RomInvStep, MapInvStep DEF TableInv

(* The construction may end without a step of the table. *)
LEMMA TableStutter ==
  ASSUME TableInv, UNCHANGED << MemoryPages, RegisteredDevices, resetVector >>,
         status' \in {"constructing", "ready", "failed", "undefined"}, Usable' => Usable
  PROVE  TableInv'
BY StutterStep, DumpStutterStep, RomStutterStep, MapStutterStep DEF TableInv, BusInv

(* An address inside of memory lies in one of its pages. *)
LEMMA PageOfMemory ==
  ASSUME NEW a \in Nat, NEW size \in Nat, a < size
  PROVE  GetPageNumber(a) + 1 \in 1 .. (size + PageSize - 1) \div PageSize
<1>1. PICK P \in Nat \ {0} : P = PageSize
  BY PageSizeAssumption
<1>2. PICK q \in Nat, o \in Nat : q = a \div P /\ o = a % P /\ a = P * q + o /\ o < P
  BY <1>1
<1>3. PICK r \in Nat, x \in Nat : r = (size + P - 1) \div P /\ size + P - 1 = P * r + x /\ x < P
  BY <1>1
<1>4. ASSUME r <= q PROVE FALSE
  <2>1. P * r <= P * q
    BY <1>1, <1>2, <1>3, <1>4
  <2>2. PICK y \in Nat, z \in Nat : y = P * r /\ z = P * q
    BY <1>1, <1>2, <1>3
  <2> QED  BY <1>1, <1>2, <1>3, <2>1, <2>2
<1> QED  BY <1>1, <1>2, <1>3, <1>4 DEF GetPageNumber

(* Memory of whole pages is as long as its table. *)
LEMMA PagesOfMemory ==
  ASSUME NEW size \in Nat, size % PageSize = 0
  PROVE  ((size + PageSize - 1) \div PageSize) * PageSize = size
<1>1. PICK P \in Nat \ {0} : P = PageSize
  BY PageSizeAssumption
<1>2. PICK q \in Nat : q = size \div P /\ size = P * q
  BY <1>1
<1>3. PICK r \in Nat, x \in Nat : r = (size + P - 1) \div P /\ size + P - 1 = P * r + x /\ x < P
  BY <1>1
<1>4. ASSUME r < q PROVE FALSE
  <2>1. P * (r + 1) <= P * q /\ P * (r + 1) = P * r + P
    BY <1>1, <1>2, <1>3, <1>4
  <2>2. PICK y \in Nat, z \in Nat : y = P * r /\ z = P * q
    BY <1>1, <1>2, <1>3
  <2> QED  BY <1>1, <1>2, <1>3, <2>1, <2>2
<1>5. ASSUME q < r PROVE FALSE
  <2>1. P * (q + 1) <= P * r /\ P * (q + 1) = P * q + P
    BY <1>1, <1>2, <1>3, <1>5
  <2>2. PICK y \in Nat, z \in Nat : y = P * r /\ z = P * q
    BY <1>1, <1>2, <1>3
  <2> QED  BY <1>1, <1>2, <1>3, <2>1, <2>2
<1>6. r = q
  BY <1>2, <1>3, <1>4, <1>5
<1>7. P * q = q * P
  BY <1>1, <1>2
<1> QED  BY <1>1, <1>2, <1>3, <1>6, <1>7

(* The table of one memory, whatever ROMs are mapped to it. *)
LEMMA MemoryLength ==
  ASSUME BusInv, MapInv, Usable, FirmwareEndsFit, MemoryFirst, 1 \in Devices, Is(1, "MEMORY")
  PROVE  /\ Len(MemoryPages) = (Size(1) + PageSize - 1) \div PageSize
         /\ \A a \in Nat : a < Size(1) => a \in Addresses
         /\ Size(1) % PageSize = 0 => Len(MemoryPages) * PageSize = Size(1)
<1>1. Len(MemoryPages) = (Size(1) + PageSize - 1) \div PageSize
  BY DEF MapInv, HeadsInv, Devices, Is, Size
<1>2. Size(1) \in Nat
  <2>1. RegisteredDevices[1] \in DeviceType
    BY DEF BusInv, Devices
  <2> QED  BY <2>1 DEF DeviceType, Size
<1>3. PagesIn(MemoryPages, SectionType(Len(RegisteredDevices)))
      /\ DOMAIN MemoryPages = 1 .. Len(MemoryPages)
  BY DEF BusInv, PagesIn
<1>4. ASSUME NEW a \in Nat, a < Size(1) PROVE a \in Addresses
  <2>1. GetPageNumber(a) + 1 \in DOMAIN MemoryPages
    BY <1>1, <1>2, <1>3, <1>4, PageOfMemory
  <2> QED  BY <1>3, <2>1, PageAddresses
<1>5. Size(1) % PageSize = 0 => Len(MemoryPages) * PageSize = Size(1)
  BY <1>1, <1>2, PagesOfMemory
<1> QED  BY <1>1, <1>4, <1>5

(* A reset ROM inside the upper half of a page leaves no empty section. *)
LEMMA CutWithoutRest ==
  ASSUME NEW v \in Nat, v = resetVector, NEW n \in Nat \ {0}, NEW g \in SectionType(n),
         2 * InPageOffset(v) >= PageSize, InPageOffset(v) + ResetRomSize < PageSize
  PROVE  EmptySections(SplitForResetRom(<< g >>, n)) = {}
<1> DEFINE o == InPageOffset(v)
           end == o + ResetRomSize
           rom == RomSection(v, n)
           x == Remainder(g, 0, PageSize - o)
           y == Remainder(g, end + 1, PageSize - end)
<1>1. /\ o \in Nat /\ o < PageSize /\ PageSize \in Nat /\ PageSize < Wrap /\ Wrap \in Nat
      /\ ResetRomSize \in Nat /\ ResetRomSize > 0 /\ end \in Nat /\ end < PageSize /\ o # 0
  BY OffsetInPage, ConstantsNat, ResetRomSizeAssumption
<1>2. SplitForResetRom(<< g >>, n) = SortSections(<< rom, x, y >>)
  <2>1. << rom >> \o << x, y >> = << rom, x, y >>
    BY Concatenated
  <2>2. [<< g >> EXCEPT ![1] = rom] = << rom >>
    <3> HIDE DEF rom
    <3> QED  OBVIOUS
  <2>3. SplitForResetRom(<< g >>, n) = SortSections([<< g >> EXCEPT ![1] = rom] \o << x, y >>)
    BY <1>1 DEF SplitForResetRom, RomSection
  <2> HIDE DEF rom, x, y
  <2> QED  BY <2>1, <2>2, <2>3
<1>3. rom.size > 0 /\ x.size > 0 /\ y.size > 0
  <2>1. PageSize - o \in Nat /\ PageSize - o < Wrap /\ PageSize - o > 0
        /\ PageSize - end \in Nat /\ PageSize - end < Wrap /\ PageSize - end > 0
    BY <1>1
  <2>2. (PageSize - o) % Wrap = PageSize - o /\ (PageSize - end) % Wrap = PageSize - end
    BY <2>1, Unwrapped
  <2>3. rom.size = ResetRomSize /\ x.size = (PageSize - o) % Wrap /\ y.size = (PageSize - end) % Wrap
    BY DEF RomSection, Remainder, Section
  <2> QED  BY <1>1, <2>1, <2>2, <2>3
<1>4. rom \in SectionType(n) /\ x \in SectionType(n) /\ y \in SectionType(n)
  <2>1. o \in 0 .. Wrap - 1 /\ ResetRomSize \in 0 .. Wrap - 1 /\ n \in 1 .. n
    BY <1>1
  <2>2. rom \in SectionType(n)
    BY <2>1 DEF RomSection, Section, SectionType
  <2>3. 0 \in Nat /\ end + 1 \in Nat /\ PageSize - o \in Int /\ PageSize - end \in Int
    BY <1>1
  <2> QED  BY <2>2, <2>3, RemainderType
<1> HIDE DEF rom, x, y
<1>5. PICK G : G = SectionType(n) /\ \A h \in G : h.pageOffset \in Nat
  <2>1. \A h \in SectionType(n) : h.pageOffset \in Nat
    BY ConstantsNat DEF SectionType
  <2> QED  BY <2>1
<1>6. PICK u \in Seq(G) : u = << rom, x, y >> /\ \A h \in Range(u) : h \in {rom, x, y}
  <2>1. << rom, x, y >> \in Seq(G)
    BY <1>4, <1>5
  <2>2. PICK u \in Seq(G) : u = << rom, x, y >>
    BY <2>1
  <2>3. DOMAIN u = 1 .. 3 /\ u[1] = rom /\ u[2] = x /\ u[3] = y
    BY <2>2
  <2>4. \A i \in DOMAIN u : i = 1 \/ i = 2 \/ i = 3
    BY <2>3
  <2> QED  BY <2>2, <2>3, <2>4 DEF Range
<1>7. PICK t : t = SortSections(u) /\ Range(t) = Range(u)
  BY <1>5, SortOrders
<1>8. \A i \in DOMAIN t : t[i].size # 0
  <2> SUFFICES ASSUME NEW i \in DOMAIN t PROVE t[i].size # 0
    OBVIOUS
  <2>1. t[i] \in Range(u)
    BY <1>7 DEF Range
  <2> QED  BY <1>3, <1>6, <2>1
<1> QED  BY <1>2, <1>6, <1>7, <1>8 DEF EmptySections

(* Over a memory that holds the vector, such a reset ROM is always mapped:   *)
(* no page is outside of the table and none is pruned.                      *)
LEMMA SoundRomMaps ==
  ASSUME TableInv, status = "constructing", Len(RegisteredDevices) = 1, Is(1, "MEMORY"),
         resetVector < Size(1), 2 * InPageOffset(resetVector) >= PageSize,
         InPageOffset(resetVector) + ResetRomSize < PageSize,
         NEW size, RegisterResetROMDevice(size)
  PROVE  status' = "constructing"
<1> DEFINE touched == {p + 1 : p \in ResetRomPages}
           split == [p \in DOMAIN MemoryPages |->
                       IF p - 1 \in ResetRomPages THEN SplitForResetRom(MemoryPages[p], 2)
                                                  ELSE MemoryPages[p]]
<1>1. /\ BusInv /\ RomInv /\ MapInv /\ resetVector \in Nat /\ Devices = {1}
      /\ PagesIn(MemoryPages, SectionType(1))
  <2>1. Devices = 1 .. 1
    BY DEF TableInv, BusInv, Devices
  <2> QED  BY <2>1, ResetVectorsAssumption DEF TableInv, BusInv
<1>2. FirmwareEndsFit /\ MemoryFirst /\ ResetRomFirst /\ Usable
  BY <1>1 DEF FirmwareEndsFit, MemoryFirst, ResetRomFirst, Usable, Is
<1>3. resetVector \in Addresses
  BY <1>1, <1>2, MemoryLength
<1>4. PICK p : p = GetPageNumber(resetVector) + 1
  OBVIOUS
<1>5. p \in DOMAIN MemoryPages
  BY <1>1, <1>3, <1>4, PageAddresses
<1>6. touched = {p} /\ \A q \in DOMAIN MemoryPages : q - 1 \in ResetRomPages <=> q = p
  <2>1. GetPageNumber(resetVector + ResetRomSize) = GetPageNumber(resetVector)
        /\ GetPageNumber(resetVector) \in Nat
    BY <1>1, ConstantsNat, WithinPage
  <2>2. PICK k \in Nat : k = GetPageNumber(resetVector) /\ ResetRomPages = {k} /\ p = k + 1
    BY <1>4, <2>1 DEF ResetRomPages
  <2>3. DOMAIN MemoryPages \subseteq Nat
    BY <1>1 DEF PagesIn
  <2> QED  BY <2>2, <2>3
<1>7. EmptySections(split[p]) = {}
  <2>1. PICK s : s = MemoryPages[p] /\ s \in Seq(SectionType(1)) /\ Len(s) = 1
    <3>1. MemoryPages[p] \in Seq(SectionType(1))
      BY <1>1, <1>5, SectionsIn
    <3>2. Len(MemoryPages[p]) = 1
      BY <1>1, <1>2, <1>5 DEF RomInv, PagesInv, Is, Devices
    <3> QED  BY <3>1, <3>2
  <2>2. PICK g \in SectionType(1) : s = << g >>
    <3>1. PICK G : G = SectionType(1)
      OBVIOUS
    <3>2. s \in Seq(G) /\ Len(s) = 1
      BY <2>1, <3>1
    <3>3. s[1] \in G /\ s = << s[1] >>
      BY <3>2
    <3> QED  BY <3>1, <3>3
  <2>3. g \in SectionType(2)
    BY DEF SectionType
  <2>4. split[p] = SplitForResetRom(<< g >>, 2)
    BY <1>5, <1>6, <2>1, <2>2
  <2> QED  BY <1>1, <2>3, <2>4, CutWithoutRest
<1>8. MapResetRom(2) /\ DOMAIN split = DOMAIN MemoryPages
  BY DEF RegisterResetROMDevice, Number
<1>9. ~PruneUndefined(split[p]) /\ ~PruneChecked(split[p])
  BY <1>7 DEF PruneUndefined, PruneChecked
<1>10. status' = status
  BY <1>5, <1>6, <1>8, <1>9 DEF MapResetRom
<1> QED  BY <1>10
=============================================================================
