-------------------------- MODULE MemoryBusProofs --------------------------
(***************************************************************************)
(* The page table for every page size, every reset ROM and every list of   *)
(* devices: every page keeps a section and every section a device, no read *)
(* leaves what is mapped of the device it is routed to, and the dump of    *)
(* memory at the end of the construction stays in every device it prints.  *)
(* What is read of a ROM is the subject of RomProofs.                      *)
(***************************************************************************)
EXTENDS MemoryBus, FiniteSetTheorems, FunctionTheorems, NaturalsInduction,
        WellFoundedInduction, TLAPS

----------------------------------------------------------------------------
(* Sorting and pruning keep the elements of a page. *)

(* If every element of K has the set of the elements below it, an element's *)
(* place is the size of that set: all places 0, 1, ... are taken.           *)
LEMMA PlacesTaken ==
  ASSUME NEW K, IsFiniteSet(K), NEW B \in [K -> SUBSET K],
         \A i \in K : i \notin B[i],
         \A i, j \in K : j \in B[i] => B[j] \subseteq B[i],
         \A i, j \in K : i # j => i \in B[j] \/ j \in B[i]
  PROVE  \A n \in 1 .. Cardinality(K) : \E i \in K : Cardinality(B[i]) = n - 1
<1> DEFINE N == Cardinality(K)
           T == 0 .. N - 1
           place == [i \in K |-> Cardinality(B[i])]
<1>1. N \in Nat
  BY FS_CardinalityType
<1>2. ASSUME NEW i \in K PROVE IsFiniteSet(B[i]) /\ Cardinality(B[i]) \in T
  <2>1. B[i] \in SUBSET K /\ B[i] # K
    OBVIOUS
  <2>2. IsFiniteSet(B[i]) /\ Cardinality(B[i]) <= N /\ N # Cardinality(B[i])
    BY <2>1, FS_Subset
  <2>3. Cardinality(B[i]) \in Nat
    BY <2>2, FS_CardinalityType
  <2> QED  BY <1>1, <2>2, <2>3
<1>3. ASSUME NEW i \in K, NEW j \in K, j \in B[i]
      PROVE  Cardinality(B[i]) # Cardinality(B[j])
  <2>1. B[j] \in SUBSET B[i] /\ B[i] # B[j]
    BY <1>3
  <2>2. IsFiniteSet(B[i])
    BY <1>2
  <2> QED  BY <2>1, <2>2, FS_Subset
<1>4. place \in [K -> T]
  BY <1>2
<1>5. \A i, j \in K : place[i] = place[j] => i = j
  BY <1>3
<1>6. place \in Injection(K, T)
  BY <1>4, <1>5 DEF Injection, IsInjective
<1>7. IsFiniteSet(T) /\ Cardinality(T) = N
  <2>1. 0 \in Int /\ N - 1 \in Int
    BY <1>1
  <2>2. IsFiniteSet(T) /\ Cardinality(T) = IF 0 > N - 1 THEN 0 ELSE (N - 1) - 0 + 1
    BY <2>1, FS_Interval
  <2> HIDE DEF T
  <2> QED  BY <1>1, <2>2
<1>8. place \in Surjection(K, T)
  <2> HIDE DEF place, T
  <2> QED  BY <1>6, <1>7, FS_Injection
<1>9. \A n \in T : \E i \in K : place[i] = n
  BY <1>8 DEF Surjection
<1>10. ASSUME NEW n \in 1 .. N PROVE \E i \in K : Cardinality(B[i]) = n - 1
  <2>1. n - 1 \in T
    BY <1>1
  <2>2. PICK i \in K : place[i] = n - 1
    BY <1>9, <2>1
  <2> QED  BY <2>2
<1> QED  BY <1>10

(* The indices of a sequence, and any of them. *)
LEMMA IndicesFinite ==
  ASSUME NEW G, NEW s \in Seq(G), NEW D \in SUBSET DOMAIN s
  PROVE  /\ DOMAIN s = 1 .. Len(s) /\ Len(s) \in Nat
         /\ IsFiniteSet(D) /\ Cardinality(D) \in Nat
         /\ Cardinality(DOMAIN s) = Len(s)
<1>1. DOMAIN s = 1 .. Len(s) /\ Len(s) \in Nat
  OBVIOUS
<1>2. IsFiniteSet(1 .. Len(s))
      /\ Cardinality(1 .. Len(s)) = IF 1 > Len(s) THEN 0 ELSE Len(s) - 1 + 1
  <2>1. 1 \in Int /\ Len(s) \in Int
    BY <1>1
  <2> QED  BY <2>1, FS_Interval
<1>3. IsFiniteSet(DOMAIN s) /\ Cardinality(DOMAIN s) = Len(s)
  BY <1>1, <1>2
<1>4. IsFiniteSet(D)
  BY <1>3, FS_Subset
<1> QED  BY <1>1, <1>3, <1>4, FS_CardinalityType

(* A page sorted by in-page offset has the sections it had, as many. *)
LEMMA SortKeeps ==
  ASSUME NEW G, \A g \in G : g.pageOffset \in Nat, NEW s \in Seq(G)
  PROVE  SortSections(s) \in Seq(G) /\ Len(SortSections(s)) = Len(s)
<1> DEFINE D == DOMAIN s
           Below(i) == {j \in D : \/ s[j].pageOffset < s[i].pageOffset
                                  \/ s[j].pageOffset = s[i].pageOffset /\ j < i}
           B == [i \in D |-> Below(i)]
<1>1. D = 1 .. Len(s) /\ Len(s) \in Nat /\ IsFiniteSet(D) /\ Cardinality(D) = Len(s)
  BY IndicesFinite
<1>2. \A i \in D : i \in Nat /\ s[i] \in G /\ s[i].pageOffset \in Nat
  BY <1>1
<1>3. B \in [D -> SUBSET D] /\ \A i \in D : i \notin B[i]
  BY <1>2
<1>4. \A i, j \in D : j \in B[i] => B[j] \subseteq B[i]
  BY <1>2
<1>5. \A i, j \in D : i # j => i \in B[j] \/ j \in B[i]
  BY <1>2
<1>6. \A n \in 1 .. Len(s) : \E i \in D : Cardinality(B[i]) = n - 1
  <2> HIDE DEF B, D
  <2>1. IsFiniteSet(D) /\ Cardinality(D) = Len(s)
    BY <1>1
  <2>2. \A n \in 1 .. Cardinality(D) : \E i \in D : Cardinality(B[i]) = n - 1
    BY <2>1, <1>3, <1>4, <1>5, PlacesTaken, Zenon
  <2> QED  BY <2>1, <2>2
<1>7. \A n \in 1 .. Len(s) : \E i \in D : Cardinality(Below(i)) = n - 1
  BY <1>6
<1>8. SortSections(s) = [k \in 1 .. Cardinality(D) |->
                           s[CHOOSE i \in D : Cardinality(Below(i)) = k - 1]]
  BY DEF SortSections, Arrange
<1>9. ASSUME NEW k \in 1 .. Len(s) PROVE SortSections(s)[k] \in G
  <2> DEFINE c == CHOOSE i \in D : Cardinality(Below(i)) = k - 1
  <2>1. c \in D
    <3> HIDE DEF D, Below
    <3> QED  BY <1>7
  <2>2. SortSections(s)[k] = s[c]
    BY <1>1, <1>8
  <2> HIDE DEF c
  <2> QED  BY <1>2, <2>1, <2>2
<1>10. SortSections(s) \in [1 .. Len(s) -> G]
  <2> HIDE DEF D, Below
  <2> QED  BY <1>1, <1>8, <1>9
<1> QED  BY <1>1, <1>10

(* A page pruned of sections that are not its last one has sections of it, *)
(* the first among them.                                                    *)
LEMMA PruneKeeps ==
  ASSUME NEW G, NEW s \in Seq(G), Len(s) > 0
  PROVE  PruneEmptySections(s) \in Seq(G) /\ Len(PruneEmptySections(s)) > 0
<1> DEFINE D == DOMAIN s \ {i + 1 : i \in EmptySections(s)}
           Below(i) == {j \in D : j < i}
           B == [i \in D |-> Below(i)]
<1>1. DOMAIN s = 1 .. Len(s) /\ Len(s) \in Nat /\ IsFiniteSet(D) /\ Cardinality(D) \in Nat
  BY IndicesFinite
<1>2. \A i \in D : i \in Nat /\ s[i] \in G
  BY <1>1
<1>3. B \in [D -> SUBSET D] /\ \A i \in D : i \notin B[i]
  BY <1>2
<1>4. \A i, j \in D : j \in B[i] => B[j] \subseteq B[i]
  BY <1>2
<1>5. \A i, j \in D : i # j => i \in B[j] \/ j \in B[i]
  BY <1>2
<1>6. \A n \in 1 .. Cardinality(D) : \E i \in D : Cardinality(B[i]) = n - 1
  <2> HIDE DEF B, D
  <2>1. IsFiniteSet(D)
    BY <1>1
  <2> QED  BY <2>1, <1>3, <1>4, <1>5, PlacesTaken, Zenon
<1>7. \A n \in 1 .. Cardinality(D) : \E i \in D : Cardinality(Below(i)) = n - 1
  BY <1>6
<1>8. PruneEmptySections(s) = [k \in 1 .. Cardinality(D) |->
                                 s[CHOOSE i \in D : Cardinality(Below(i)) = k - 1]]
  BY DEF PruneEmptySections, Arrange
<1>9. ASSUME NEW k \in 1 .. Cardinality(D) PROVE PruneEmptySections(s)[k] \in G
  <2> DEFINE c == CHOOSE i \in D : Cardinality(Below(i)) = k - 1
  <2>1. c \in D
    <3> HIDE DEF D, Below
    <3> QED  BY <1>7
  <2>2. PruneEmptySections(s)[k] = s[c]
    BY <1>8
  <2> HIDE DEF c
  <2> QED  BY <1>2, <2>1, <2>2
<1>10. PruneEmptySections(s) \in [1 .. Cardinality(D) -> G]
  <2> HIDE DEF D, Below
  <2> QED  BY <1>8, <1>9
<1>11. Cardinality(D) > 0
  <2>1. 1 \in D
    BY <1>1 DEF EmptySections
  <2>2. D # {}
    BY <2>1
  <2>3. Cardinality(D) # 0
    <3> HIDE DEF D
    <3> QED  BY <1>1, <2>2, FS_EmptySet
  <2> QED  BY <1>1, <2>3
<1>12. QED
  <2> HIDE DEF D
  <2> QED  BY <1>1, <1>10, <1>11

----------------------------------------------------------------------------
(* The mapping operations put sections of a set G into the pages, if what  *)
(* they build is in G.                                                      *)

NonEmpty(G) == {s \in Seq(G) : Len(s) > 0}

(* What is left around a section of G is in G, for the lengths Z. *)
KeepsRemainders(G, Z, section) ==
  \A o \in Nat, z \in Z : Remainder(section, o, z) \in G

(* The lengths MapResetRom and MapFirmwareRom compute: a ROM of size bytes    *)
(* at the in-page offset o leaves these of its page.                         *)
LengthsIn(Z, o, size) ==
  PageSize - size \in Z /\ PageSize - o \in Z /\ PageSize - (o + size) \in Z

LEMMA OffsetInPage ==
  ASSUME NEW a \in Nat
  PROVE  InPageOffset(a) \in 0 .. PageSize - 1
  BY PageSizeAssumption DEF InPageOffset

LEMMA OffsetNat == \A a \in Nat : InPageOffset(a) \in Nat /\ InPageOffset(a) < PageSize
<1>1. \A a \in Nat : a % PageSize \in 0 .. PageSize - 1
  BY PageSizeAssumption
<1> QED  BY <1>1, PageSizeAssumption DEF InPageOffset

LEMMA SplitForResetRomKeeps ==
  ASSUME NEW G, \A g \in G : g.pageOffset \in Nat, NEW s \in NonEmpty(G), NEW n,
         resetVector \in Nat,
         Section(n, TRUE, 0, InPageOffset(resetVector), ResetRomSize) \in G,
         NEW Z, LengthsIn(Z, InPageOffset(resetVector), ResetRomSize),
         KeepsRemainders(G, Z, s[1])
  PROVE  SplitForResetRom(s, n) \in NonEmpty(G)
<1> DEFINE o == InPageOffset(resetVector)
           end == o + ResetRomSize
           rom == Section(n, TRUE, 0, o, ResetRomSize)
           t == [s EXCEPT ![1] = rom]
           Around == {Remainder(s[1], ResetRomSize, PageSize - ResetRomSize),
                      Remainder(s[1], 0, PageSize - ResetRomSize),
                      Remainder(s[1], 0, PageSize - o),
                      Remainder(s[1], end + 1, PageSize - end)}
<1>1. o \in Nat /\ ResetRomSize \in Nat /\ PageSize \in Nat /\ end \in Nat
  BY OffsetInPage, ResetRomSizeAssumption, PageSizeAssumption
<1>2. Around \subseteq G
  <2>1. /\ PageSize - ResetRomSize \in Z /\ PageSize - o \in Z /\ PageSize - end \in Z
        /\ end + 1 \in Nat /\ 0 \in Nat
    BY <1>1 DEF LengthsIn
  <2> HIDE DEF o, end
  <2> QED  BY <1>1, <2>1 DEF KeepsRemainders
<1>3. s \in Seq(G) /\ Len(s) > 0
  BY DEF NonEmpty
<1>4. t \in Seq(G) /\ Len(t) = Len(s)
  <2> HIDE DEF rom
  <2>1. rom \in G
    BY DEF rom
  <2> QED  BY <1>3, <2>1
<1>5. \A x, y \in G : /\ SortSections(t \o << x >>) \in NonEmpty(G)
                      /\ SortSections(t \o << x, y >>) \in NonEmpty(G)
  <2> TAKE x, y \in G
  <2> HIDE DEF t
  <2>1. t \o << x >> \in Seq(G) /\ Len(t \o << x >>) > 0
    BY <1>3, <1>4
  <2>2. t \o << x, y >> \in Seq(G) /\ Len(t \o << x, y >>) > 0
    BY <1>3, <1>4
  <2> QED  BY <2>1, <2>2, SortKeeps DEF NonEmpty
<1>6. \/ \E x \in Around : SplitForResetRom(s, n) = SortSections(t \o << x >>)
      \/ \E x, y \in Around : SplitForResetRom(s, n) = SortSections(t \o << x, y >>)
  <2>1. CASE o = 0
    BY <2>1 DEF SplitForResetRom
  <2>2. CASE o # 0 /\ end = PageSize
    BY <2>2 DEF SplitForResetRom
  <2>3. CASE o # 0 /\ end # PageSize
    BY <2>3 DEF SplitForResetRom
  <2> QED  BY <2>1, <2>2, <2>3
<1> HIDE DEF t, Around
<1> QED  BY <1>2, <1>5, <1>6

LEMMA SplitForFirmwareKeeps ==
  ASSUME NEW G, NEW s \in NonEmpty(G), NEW i \in DOMAIN s, NEW n,
         NEW size \in Nat, NEW base \in Nat,
         Section(n, TRUE, 0, InPageOffset(base), size) \in G,
         NEW Z, LengthsIn(Z, InPageOffset(base), size), KeepsRemainders(G, Z, s[i])
  PROVE  SplitForFirmware(s, i, n, size, base) \in NonEmpty(G)
<1> DEFINE o == InPageOffset(base)
           rom == Section(n, TRUE, 0, o, size)
           rest == Remainder(s[i], o + size, PageSize - (o + size))
<1>1. o \in Nat /\ o + size \in Nat /\ PageSize - (o + size) \in Z
  BY OffsetInPage, PageSizeAssumption DEF LengthsIn
<1>2. rest \in G
  <2> HIDE DEF o
  <2> QED  BY <1>1 DEF KeepsRemainders
<1>3. s \in Seq(G) /\ Len(s) > 0
  BY DEF NonEmpty
<1>4. SplitForFirmware(s, i, n, size, base) = [s EXCEPT ![i] = rom] \o << rest >>
  BY DEF SplitForFirmware
<1>5. rom \in G
  OBVIOUS
<1> HIDE DEF rom, rest
<1>6. [s EXCEPT ![i] = rom] \in Seq(G)
  BY <1>3, <1>5
<1> QED  BY <1>2, <1>3, <1>4, <1>6 DEF NonEmpty

PagesIn(pages, G) == pages \in Seq(NonEmpty(G))

LEMMA MapResetRomKeeps ==
  ASSUME NEW G, \A g \in G : g.pageOffset \in Nat,
         PagesIn(MemoryPages, G), NEW n, resetVector \in Nat,
         Section(n, TRUE, 0, InPageOffset(resetVector), ResetRomSize) \in G,
         NEW Z, LengthsIn(Z, InPageOffset(resetVector), ResetRomSize),
         \A p \in DOMAIN MemoryPages : KeepsRemainders(G, Z, MemoryPages[p][1]),
         MapResetRom(n)
  PROVE  PagesIn(MemoryPages', G)
<1> DEFINE split == [p \in DOMAIN MemoryPages |->
                       IF p - 1 \in ResetRomPages THEN SplitForResetRom(MemoryPages[p], n)
                                                  ELSE MemoryPages[p]]
           touched == {p + 1 : p \in ResetRomPages}
           pruned == [p \in DOMAIN split |->
                        IF p \in touched THEN PruneEmptySections(split[p]) ELSE split[p]]
<1>1. MemoryPages' = MemoryPages \/ MemoryPages' = pruned
  BY DEF MapResetRom, Undefined
<1>2. MemoryPages \in Seq(NonEmpty(G))
  BY DEF PagesIn
<1>3. \A p \in DOMAIN MemoryPages : split[p] \in NonEmpty(G)
  <2> TAKE p \in DOMAIN MemoryPages
  <2>1. MemoryPages[p] \in NonEmpty(G)
    BY <1>2
  <2>2. SplitForResetRom(MemoryPages[p], n) \in NonEmpty(G)
    BY <2>1, SplitForResetRomKeeps
  <2> QED  BY <2>1, <2>2
<1>4. DOMAIN split = DOMAIN MemoryPages
  OBVIOUS
<1> HIDE DEF split, touched
<1>5. \A p \in DOMAIN MemoryPages : pruned[p] \in NonEmpty(G)
  <2> TAKE p \in DOMAIN MemoryPages
  <2>1. split[p] \in Seq(G) /\ Len(split[p]) > 0
    BY <1>3 DEF NonEmpty
  <2>2. PruneEmptySections(split[p]) \in NonEmpty(G)
    BY <2>1, PruneKeeps DEF NonEmpty
  <2> QED  BY <1>3, <1>4, <2>2
<1>6. DOMAIN pruned = DOMAIN MemoryPages
  BY <1>4
<1> HIDE DEF pruned
<1>7. pruned \in Seq(NonEmpty(G)) \/ MemoryPages' # pruned
  <2>1. DOMAIN MemoryPages = 1 .. Len(MemoryPages) /\ Len(MemoryPages) \in Nat
    BY <1>2
  <2>2. CASE MemoryPages' = pruned
    <3>1. pruned = [p \in DOMAIN MemoryPages |-> pruned[p]]
      BY <1>4 DEF pruned
    <3>2. pruned \in [1 .. Len(MemoryPages) -> NonEmpty(G)]
      BY <1>5, <1>6, <2>1, <3>1
    <3> QED  BY <2>1, <3>2
  <2> QED  BY <2>2
<1> QED  BY <1>1, <1>2, <1>7 DEF PagesIn

LEMMA FinishFirmwareKeeps ==
  ASSUME NEW G, \A g \in G : g.pageOffset \in Nat,
         PagesIn(MemoryPages, G), NEW pages, PagesIn(pages, G), NEW start,
         FinishFirmware(pages, start)
  PROVE  PagesIn(MemoryPages', G)
<1> DEFINE later == {p \in DOMAIN pages : p > start}
           finished == [p \in DOMAIN pages |->
                          IF p \in later THEN PruneEmptySections(pages[p])
                          ELSE IF p = start THEN SortSections(pages[p])
                          ELSE pages[p]]
<1>1. MemoryPages' = MemoryPages \/ MemoryPages' = finished
  BY DEF FinishFirmware, Undefined
<1>2. pages \in Seq(NonEmpty(G))
  BY DEF PagesIn
<1> HIDE DEF later
<1>3. \A p \in DOMAIN pages : finished[p] \in NonEmpty(G)
  <2> TAKE p \in DOMAIN pages
  <2>1. pages[p] \in Seq(G) /\ Len(pages[p]) > 0 /\ pages[p] \in NonEmpty(G)
    BY <1>2 DEF NonEmpty
  <2>2. PruneEmptySections(pages[p]) \in NonEmpty(G)
    BY <2>1, PruneKeeps DEF NonEmpty
  <2>3. SortSections(pages[p]) \in NonEmpty(G)
    BY <2>1, SortKeeps DEF NonEmpty
  <2> QED  BY <2>1, <2>2, <2>3
<1>4. finished \in [1 .. Len(pages) -> NonEmpty(G)] /\ Len(pages) \in Nat
  BY <1>2, <1>3
<1>5. finished \in Seq(NonEmpty(G))
  <2> HIDE DEF finished
  <2> QED  BY <1>4
<1> QED  BY <1>1, <1>5 DEF PagesIn

LEMMA FirstCandidateExists ==
  ASSUME NEW G, NEW s \in NonEmpty(G), NEW base, Candidates(s, base) # {}
  PROVE  FirstCandidate(s, base) \in DOMAIN s
<1> DEFINE C == Candidates(s, base)
<1>1. C \subseteq DOMAIN s /\ C \subseteq Nat
  BY DEF Candidates, NonEmpty
<1>2. PICK i \in C : \A j \in C : ~ (<< j, i >> \in OpToRel(<, Nat))
  <2> HIDE DEF C
  <2>1. PICK k \in C : TRUE
    BY DEF C
  <2> QED  BY <1>1, <2>1, WFMin, NatLessThanWellFounded
<1>3. \A j \in C : i <= j
  <2> HIDE DEF C
  <2> TAKE j \in C
  <2>1. i \in Nat /\ j \in Nat
    BY <1>1
  <2>2. ~ (j < i)
    BY <1>2, <2>1 DEF OpToRel
  <2> QED  BY <2>1, <2>2
<1>4. FirstCandidate(s, base) \in C
  BY <1>3 DEF FirstCandidate
<1> QED  BY <1>1, <1>4

LEMMA SeqSubset ==
  ASSUME NEW G, NEW H \in SUBSET G, NEW pages, PagesIn(pages, H)
  PROVE  PagesIn(pages, G)
<1>1. ASSUME NEW s \in NonEmpty(H) PROVE s \in NonEmpty(G)
  <2>1. s \in Seq(H) /\ Len(s) > 0
    BY <1>1 DEF NonEmpty
  <2>2. s \in Seq(G)
    BY <2>1
  <2> QED  BY <2>1, <2>2 DEF NonEmpty
<1>2. NonEmpty(H) \subseteq NonEmpty(G)
  BY <1>1
<1> QED  BY <1>2 DEF PagesIn

(* MapFirmwareRom builds in a section of memory that is large enough. *)
LEMMA MapFirmwareRomKeeps ==
  ASSUME NEW G, \A g \in G : g.pageOffset \in Nat /\ g.size \in Nat,
         NEW H \in SUBSET G, PagesIn(MemoryPages, H),
         NEW n, NEW size \in Nat, NEW base \in Nat,
         NEW Z, LengthsIn(Z, InPageOffset(base), size),
         \A g \in H : RegisteredDevices[g.device].kind = "MEMORY" /\ g.size >= size =>
            /\ Section(n, TRUE, 0, InPageOffset(base), size) \in G
            /\ KeepsRemainders(G, Z, g),
         MapFirmwareRom(n, size, base)
  PROVE  PagesIn(MemoryPages', G)
<1> DEFINE start == GetPageNumber(base) + 1
           s == MemoryPages[start]
           i == FirstCandidate(s, base)
           pages == [MemoryPages EXCEPT ![start] = SplitForFirmware(s, i, n, size, base)]
<1>0. PagesIn(MemoryPages, G) /\ MemoryPages \in Seq(NonEmpty(H))
  BY SeqSubset DEF PagesIn
<1>1. CASE start \notin DOMAIN MemoryPages \/ Candidates(s, base) = {}
  <2>1. FinishFirmware(MemoryPages, start)
    BY <1>1 DEF MapFirmwareRom
  <2> QED  BY <1>0, <2>1, FinishFirmwareKeeps
<1>2. CASE MemoryPages' = MemoryPages
  BY <1>0, <1>2 DEF PagesIn
<1>3. CASE /\ start \in DOMAIN MemoryPages /\ Candidates(s, base) # {}
           /\ RegisteredDevices[s[i].device].kind = "MEMORY"
           /\ ~ (s[i].size < size)
           /\ FinishFirmware(pages, start)
  <2>1. MemoryPages \in Seq(NonEmpty(G)) /\ s \in NonEmpty(G) /\ s \in NonEmpty(H)
    BY <1>0, <1>3 DEF PagesIn
  <2>2. i \in DOMAIN s
    BY <1>3, <2>1, FirstCandidateExists
  <2>3. s[i] \in H
    BY <2>1, <2>2 DEF NonEmpty
  <2>4. s[i].size >= size
    BY <1>3, <2>3
  <2>5. SplitForFirmware(s, i, n, size, base) \in NonEmpty(G)
    <3>1. Section(n, TRUE, 0, InPageOffset(base), size) \in G /\ KeepsRemainders(G, Z, s[i])
      BY <1>3, <2>3, <2>4
    <3> HIDE DEF s, i
    <3> QED  BY <2>1, <2>2, <3>1, SplitForFirmwareKeeps
  <2>6. PagesIn(pages, G)
    <3> DEFINE new == SplitForFirmware(s, i, n, size, base)
    <3>1. new \in NonEmpty(G)
      BY <2>5
    <3> HIDE DEF new
    <3>2. [MemoryPages EXCEPT ![start] = new] \in Seq(NonEmpty(G))
      BY <1>3, <2>1, <3>1
    <3> QED  BY <3>2 DEF PagesIn, new
  <2> HIDE DEF pages, start
  <2> QED  BY <1>0, <1>3, <2>6, FinishFirmwareKeeps
<1> QED
  BY <1>1, <1>2, <1>3 DEF MapFirmwareRom, Abort, Undefined

LEMMA MainMemoryIn ==
  ASSUME NEW G, NEW n, NEW size \in Nat,
         \A p \in 1 .. (size + PageSize - 1) \div PageSize :
            Section(n, TRUE, (p - 1) * PageSize, 0, PageSize) \in G
  PROVE  PagesIn(MainMemoryPages(n, size), G)
<1> DEFINE N == (size + PageSize - 1) \div PageSize
           page(p) == << Section(n, TRUE, (p - 1) * PageSize, 0, PageSize) >>
<1>1. N \in Nat
  BY PageSizeAssumption
<1>2. \A p \in 1 .. N : page(p) \in NonEmpty(G)
  <2> TAKE p \in 1 .. N
  <2> DEFINE g == Section(n, TRUE, (p - 1) * PageSize, 0, PageSize)
  <2>1. g \in G /\ page(p) = << g >>
    OBVIOUS
  <2> HIDE DEF g, page
  <2>2. << g >> \in Seq(G) /\ Len(<< g >>) = 1
    BY <2>1
  <2> QED  BY <2>1, <2>2 DEF NonEmpty
<1>3. MainMemoryPages(n, size) = [p \in 1 .. N |-> page(p)]
  BY DEF MainMemoryPages
<1> HIDE DEF N, page
<1>4. MainMemoryPages(n, size) \in [1 .. N -> NonEmpty(G)]
  BY <1>2, <1>3
<1> QED  BY <1>1, <1>4 DEF PagesIn

(* A memory without bytes has no page. *)
LEMMA PagesOfNothing ==
  1 .. (0 + PageSize - 1) \div PageSize = {}
<1>1. PICK P \in Nat \ {0} : P = PageSize
  BY PageSizeAssumption
<1>2. (0 + P - 1) \div P = 0
  BY <1>1
<1> QED  BY <1>1, <1>2

(* Every page of a memory of whole pages is inside the memory. *)
LEMMA WholePages ==
  ASSUME NEW size \in Nat, size % PageSize = 0,
         NEW p \in 1 .. (size + PageSize - 1) \div PageSize
  PROVE  (p - 1) * PageSize \in Nat /\ (p - 1) * PageSize + PageSize <= size
<1>1. PICK P \in Nat \ {0} : P = PageSize
  BY PageSizeAssumption
<1>2. PICK q \in Nat : q = size \div P /\ size = P * q
  BY <1>1
<1>3. PICK r \in Int : r = (size + P - 1) \div P /\ P * r <= size + P - 1
  BY <1>1
<1>4. p \in Nat \ {0} /\ p <= r
  BY <1>1, <1>3
<1>5. r <= q
  <2>1. SUFFICES ASSUME r >= q + 1 PROVE FALSE
    BY <1>2, <1>3
  <2>2. P * r >= P * (q + 1)
    BY <2>1, <1>1, <1>2, <1>3
  <2>3. P * (q + 1) = P * q + P
    BY <1>1, <1>2
  <2>4. PICK x \in Int, y \in Int : x = P * r /\ y = P * q
    BY <1>1, <1>2, <1>3
  <2>5. x <= size + P - 1 /\ x >= y + P /\ size = y
    BY <1>2, <1>3, <2>2, <2>3, <2>4
  <2> QED  BY <1>1, <2>4, <2>5
<1>6. P * p <= P * q
  BY <1>1, <1>2, <1>3, <1>4, <1>5
<1>7. (p - 1) * P = P * p - P /\ P * p >= P
  BY <1>1, <1>4
<1>8. (p - 1) * P + P <= size
  BY <1>1, <1>2, <1>4, <1>6, <1>7
<1>9. (p - 1) * P \in Nat
  BY <1>1, <1>4, <1>7
<1> QED  BY <1>1, <1>8, <1>9

----------------------------------------------------------------------------
(* The invariant. *)

SectionType(n) ==
  [device : 1 .. n, DirectAccess : BOOLEAN, DeviceOffset : Nat,
   pageOffset : 0 .. Wrap - 1, size : 0 .. Wrap - 1]

(* What is mapped of a device: Extent(k) of the k-th. *)
ExtentOf(device) == IF device.kind = "RESET_ROM" THEN ResetRomSize ELSE device.size

(* A section whose device has every byte it can route a read or a write to: *)
(* a direct section of memory is a page, of a memory that has a page (its    *)
(* own one only if the memory is whole pages); a direct section of a ROM is  *)
(* no longer than what is mapped of it; the others are memory.               *)
InsideSection(g, device) ==
  /\ g.DirectAccess /\ device.kind = "MEMORY" =>
       /\ g.pageOffset = 0 /\ g.size = PageSize /\ PageSize <= device.size
       /\ device.size % PageSize = 0 => g.DeviceOffset + PageSize <= device.size
  /\ g.DirectAccess /\ device.kind # "MEMORY" =>
       g.DeviceOffset = 0 /\ g.size <= ExtentOf(device)
  /\ ~g.DirectAccess =>
       device.kind = "MEMORY" /\ g.DeviceOffset = 0 /\ PageSize <= device.size

Inside(devices) == {g \in SectionType(Len(devices)) : InsideSection(g, devices[g.device])}

DeviceType == [kind : Kinds, size : Nat, base : Nat]

BusInv ==
  /\ RegisteredDevices \in Seq(DeviceType)
  /\ resetVector \in ResetVectors
  /\ status \in {"constructing", "ready", "failed", "undefined"}
  /\ PagesIn(MemoryPages, SectionType(Len(RegisteredDevices)))
  /\ ResetRomFirst /\ MemoryHoldsAPage =>
       PagesIn(MemoryPages, Inside(RegisteredDevices))

LEMMA ConstantsNat ==
  /\ PageSize \in Nat /\ PageSize > 0 /\ Wrap \in Nat /\ PageSize < Wrap
  /\ ResetRomSize \in Nat /\ ResetRomSize < PageSize
<1>1. Wrap > 2 * PageSize /\ Wrap \in Nat /\ PageSize \in Nat /\ PageSize > 0
  BY PageSizeAssumption, WrapAssumption
<1>2. Wrap > PageSize + PageSize
  BY <1>1
<1>3. ResetRomSize \in 1 .. PageSize - 1
  BY ResetRomSizeAssumption
<1> QED  BY <1>1, <1>2, <1>3

LEMMA RemainderType ==
  ASSUME NEW n, NEW g \in SectionType(n), NEW o \in Nat, NEW z \in Int
  PROVE  Remainder(g, o, z) \in SectionType(n)
<1>1. o % Wrap \in 0 .. Wrap - 1 /\ z % Wrap \in 0 .. Wrap - 1
  BY ConstantsNat
<1> QED  BY <1>1 DEF Remainder, Section, SectionType

(* What was mapped stays mapped right when a device is added. *)
LEMMA InsideGrows ==
  ASSUME NEW devices \in Seq(DeviceType), NEW d \in DeviceType
  PROVE  /\ SectionType(Len(devices)) \subseteq SectionType(Len(devices) + 1)
         /\ Inside(devices) \subseteq Inside(Append(devices, d))
<1>1. Len(devices) \in Nat /\ Len(Append(devices, d)) = Len(devices) + 1
  OBVIOUS
<1>2. SectionType(Len(devices)) \subseteq SectionType(Len(devices) + 1)
  BY <1>1 DEF SectionType
<1>3. ASSUME NEW g \in Inside(devices) PROVE g \in Inside(Append(devices, d))
  <2>1. g \in SectionType(Len(devices)) /\ InsideSection(g, devices[g.device])
    BY <1>3 DEF Inside
  <2>2. g.device \in 1 .. Len(devices)
    BY <2>1 DEF SectionType
  <2>3. Append(devices, d)[g.device] = devices[g.device]
    BY <1>1, <2>2
  <2> QED  BY <1>1, <1>2, <2>1, <2>3 DEF Inside
<1> QED  BY <1>2, <1>3

(* The two conditions on the devices held before, if they hold after. *)
LEMMA ConditionsBefore ==
  ASSUME RegisteredDevices \in Seq(DeviceType), NEW d \in DeviceType,
         RegisteredDevices' = Append(RegisteredDevices, d),
         ResetRomFirst', MemoryHoldsAPage'
  PROVE  /\ ResetRomFirst /\ MemoryHoldsAPage
         /\ d.kind = "MEMORY" => d.size = 0 \/ d.size >= PageSize
         /\ d.kind = "RESET_ROM" => \A j \in Devices : Is(j, "MEMORY")
<1> DEFINE N == Len(RegisteredDevices)
<1>1. N \in Nat /\ Devices = 1 .. N /\ Devices' = 1 .. N + 1
  BY DEF Devices
<1>2. \A k \in 1 .. N : RegisteredDevices'[k] = RegisteredDevices[k]
  BY <1>1
<1>3. RegisteredDevices'[N + 1] = d
  BY <1>1
<1>4. ResetRomFirst
  BY <1>1, <1>2 DEF ResetRomFirst, Is
<1>5. MemoryHoldsAPage
  BY <1>1, <1>2 DEF MemoryHoldsAPage, Is, Size
<1>6. d.kind = "MEMORY" => d.size = 0 \/ d.size >= PageSize
  BY <1>1, <1>3 DEF MemoryHoldsAPage, Is, Size
<1>7. d.kind = "RESET_ROM" => \A j \in Devices : Is(j, "MEMORY")
  <2> SUFFICES ASSUME d.kind = "RESET_ROM", NEW j \in 1 .. N
               PROVE  RegisteredDevices[j].kind = "MEMORY"
    BY <1>1 DEF Is
  <2>1. RegisteredDevices'[N + 1].kind = "RESET_ROM"
    BY <1>3
  <2>2. j < N + 1 <=> RegisteredDevices'[j].kind = "MEMORY"
    BY <1>1, <2>1 DEF ResetRomFirst, Is
  <2> QED  BY <1>1, <1>2, <2>2
<1> QED  BY <1>4, <1>5, <1>6, <1>7

(* Devices that fill their mapping before and after one is registered. *)
LEMMA FillBefore ==
  ASSUME RegisteredDevices \in Seq(DeviceType), NEW d \in DeviceType,
         RegisteredDevices' = Append(RegisteredDevices, d), DevicesFillTheirMapping'
  PROVE  /\ DevicesFillTheirMapping
         /\ d.kind = "MEMORY" => d.size % PageSize = 0
         /\ d.kind = "RESET_ROM" => d.size >= ResetRomSize
<1> DEFINE N == Len(RegisteredDevices)
<1>1. N \in Nat /\ Devices = 1 .. N /\ Devices' = 1 .. N + 1
  BY DEF Devices
<1>2. \A k \in 1 .. N : RegisteredDevices'[k] = RegisteredDevices[k]
  BY <1>1
<1>3. RegisteredDevices'[N + 1] = d
  BY <1>1
<1>4. DevicesFillTheirMapping
  BY <1>1, <1>2 DEF DevicesFillTheirMapping, Is, Size
<1>5. d.kind = "MEMORY" => d.size % PageSize = 0
  BY <1>1, <1>3 DEF DevicesFillTheirMapping, Is, Size
<1>6. d.kind = "RESET_ROM" => d.size >= ResetRomSize
  BY <1>1, <1>3 DEF DevicesFillTheirMapping, Is, Size
<1> QED  BY <1>4, <1>5, <1>6

(* A memory of whole pages that has a byte has a page. *)
LEMMA WholePagesHoldOne ==
  ASSUME NEW size \in Nat, size % PageSize = 0
  PROVE  size = 0 \/ size >= PageSize
<1>1. PICK P \in Nat \ {0} : P = PageSize
  BY PageSizeAssumption
<1>2. size < P => size % P = size
  BY <1>1
<1> QED  BY <1>1, <1>2

LEMMA FilledHoldsAPage ==
  ASSUME RegisteredDevices \in Seq(DeviceType), DevicesFillTheirMapping
  PROVE  MemoryHoldsAPage
<1> SUFFICES ASSUME NEW k \in Devices, Is(k, "MEMORY")
             PROVE  Size(k) = 0 \/ Size(k) >= PageSize
  BY DEF MemoryHoldsAPage
<1>1. RegisteredDevices[k] \in DeviceType
  BY DEF Devices
<1>2. Size(k) \in Nat /\ Size(k) % PageSize = 0
  BY <1>1 DEF Size, DeviceType, DevicesFillTheirMapping
<1> QED  BY <1>2, WholePagesHoldOne

(* Registering a device keeps the invariant if its mapping keeps the pages. *)
LEMMA Registered ==
  ASSUME BusInv, NEW d \in DeviceType, Register(d),
         status' \in {"constructing", "ready", "failed", "undefined"},
         PagesIn(MemoryPages', SectionType(Len(RegisteredDevices) + 1)),
         ResetRomFirst' /\ MemoryHoldsAPage' =>
           PagesIn(MemoryPages', Inside(Append(RegisteredDevices, d)))
  PROVE  BusInv'
<1>1. /\ RegisteredDevices \in Seq(DeviceType)
      /\ RegisteredDevices' = Append(RegisteredDevices, d)
      /\ resetVector' = resetVector /\ resetVector \in ResetVectors
  BY DEF BusInv, Register
<1>2. RegisteredDevices' \in Seq(DeviceType)
      /\ Len(RegisteredDevices') = Len(RegisteredDevices) + 1
  BY <1>1
<1>3. PagesIn(MemoryPages', SectionType(Len(RegisteredDevices')))
  BY <1>2
<1>4. ResetRomFirst' /\ MemoryHoldsAPage' =>
        PagesIn(MemoryPages', Inside(RegisteredDevices'))
  BY <1>1
<1> QED  BY <1>1, <1>2, <1>3, <1>4 DEF BusInv, PagesIn

LEMMA MemoryDeviceStep ==
  ASSUME BusInv, NEW size \in MemorySizes, RegisterMemoryDevice(size)
  PROVE  BusInv'
<1> DEFINE d == Device("MEMORY", size, 0)
           n == Len(RegisteredDevices) + 1
<1>1. size \in Nat /\ d \in DeviceType /\ d.kind = "MEMORY" /\ d.size = size
  BY MemorySizesAssumption DEF Device, DeviceType, Kinds
<1>2. RegisteredDevices \in Seq(DeviceType) /\ Len(RegisteredDevices) \in Nat /\ n \in Nat
  BY DEF BusInv
<1>3. Register(d) /\ MemoryPages' = MainMemoryPages(n, size) /\ status' = status
  BY DEF RegisterMemoryDevice, Number
<1>4. \A p \in 1 .. (size + PageSize - 1) \div PageSize :
        Section(n, TRUE, (p - 1) * PageSize, 0, PageSize) \in SectionType(n)
  <2> TAKE p \in 1 .. (size + PageSize - 1) \div PageSize
  <2>1. (p - 1) * PageSize \in Nat
    BY <1>1, ConstantsNat
  <2>2. n \in 1 .. n /\ PageSize \in 0 .. Wrap - 1 /\ 0 \in 0 .. Wrap - 1
    BY <1>2, ConstantsNat
  <2> QED  BY <2>1, <2>2 DEF Section, SectionType
<1>5. PagesIn(MemoryPages', SectionType(n))
  BY <1>1, <1>3, <1>4, MainMemoryIn
<1>6. ASSUME ResetRomFirst', MemoryHoldsAPage'
      PROVE  PagesIn(MemoryPages', Inside(Append(RegisteredDevices, d)))
  <2>1. size = 0 \/ size >= PageSize
    BY <1>1, <1>2, <1>3, <1>6, ConditionsBefore DEF Register
  <2>2. Len(Append(RegisteredDevices, d)) = n /\ Append(RegisteredDevices, d)[n] = d
    BY <1>2
  <2>3. ASSUME NEW p \in 1 .. (size + PageSize - 1) \div PageSize
        PROVE  Section(n, TRUE, (p - 1) * PageSize, 0, PageSize)
                 \in Inside(Append(RegisteredDevices, d))
    <3>1. /\ PageSize <= size
          /\ size % PageSize = 0 => (p - 1) * PageSize + PageSize <= size
      BY <1>1, <2>1, <2>3, WholePages, PagesOfNothing
    <3>2. InsideSection(Section(n, TRUE, (p - 1) * PageSize, 0, PageSize), d)
      BY <1>1, <3>1 DEF InsideSection, Section
    <3> HIDE DEF d, n
    <3>3. Section(n, TRUE, (p - 1) * PageSize, 0, PageSize).device = n
      BY DEF Section
    <3> QED  BY <1>4, <2>2, <3>2, <3>3 DEF Inside
  <2> HIDE DEF d, n
  <2> QED  BY <1>1, <1>3, <2>3, MainMemoryIn
<1>7. status' \in {"constructing", "ready", "failed", "undefined"}
  BY <1>3 DEF BusInv
<1> HIDE DEF d
<1> QED  BY <1>1, <1>3, <1>5, <1>6, <1>7, Registered

(* What is left around a section that is memory is memory. *)
LEMMA RemainderInside ==
  ASSUME NEW devices \in Seq(DeviceType), NEW g \in Inside(devices),
         devices[g.device].kind = "MEMORY", NEW o \in Nat, NEW z \in Int
  PROVE  Remainder(g, o, z) \in Inside(devices)
<1> DEFINE r == Remainder(g, o, z)
<1>1. g \in SectionType(Len(devices)) /\ InsideSection(g, devices[g.device])
  BY DEF Inside
<1>2. r \in SectionType(Len(devices))
  BY <1>1, RemainderType
<1>3. r.device = g.device /\ r.DirectAccess = FALSE /\ r.DeviceOffset = 0
  BY DEF Remainder, Section
<1>4. devices[g.device].size \in Nat /\ g.DeviceOffset \in Nat /\ g.DirectAccess \in BOOLEAN
  <2>1. g.device \in 1 .. Len(devices) /\ g.DeviceOffset \in Nat /\ g.DirectAccess \in BOOLEAN
    BY <1>1 DEF SectionType
  <2>2. devices[g.device] \in DeviceType
    BY <2>1
  <2> QED  BY <2>1, <2>2 DEF DeviceType
<1>5. PageSize <= devices[g.device].size
  BY <1>1, <1>4, ConstantsNat DEF InsideSection
<1> HIDE DEF r
<1>6. InsideSection(r, devices[r.device])
  BY <1>3, <1>5 DEF InsideSection
<1> QED  BY <1>2, <1>6 DEF Inside, r

(* A ROM mapped no further than is to be mapped of it. *)
LEMMA RomInside ==
  ASSUME NEW devices \in Seq(DeviceType), NEW d \in DeviceType, d.kind # "MEMORY",
         NEW o \in 0 .. PageSize - 1, NEW size \in 0 .. Wrap - 1
  PROVE  /\ Section(Len(devices) + 1, TRUE, 0, o, size) \in SectionType(Len(devices) + 1)
         /\ size <= ExtentOf(d) =>
              Section(Len(devices) + 1, TRUE, 0, o, size) \in Inside(Append(devices, d))
<1> DEFINE n == Len(devices) + 1
           g == Section(n, TRUE, 0, o, size)
<1>1. n \in 1 .. n /\ Len(Append(devices, d)) = n /\ Append(devices, d)[n] = d
  OBVIOUS
<1>2. o \in 0 .. Wrap - 1 /\ 0 \in Nat
  BY ConstantsNat
<1> HIDE DEF n
<1>3. g \in SectionType(n)
  BY <1>1, <1>2 DEF Section, SectionType
<1>4. g.device = n /\ (size <= ExtentOf(d) => InsideSection(g, d))
  BY DEF InsideSection, Section
<1> HIDE DEF g
<1>5. size <= ExtentOf(d) => g \in Inside(Append(devices, d))
  BY <1>1, <1>3, <1>4 DEF Inside
<1> QED  BY <1>3, <1>5 DEF n, g

(* The sections of every page are sections of G, the first one included. *)
LEMMA SectionsIn ==
  ASSUME NEW G, PagesIn(MemoryPages, G), NEW p \in DOMAIN MemoryPages
  PROVE  /\ MemoryPages[p] \in Seq(G) /\ Len(MemoryPages[p]) > 0
         /\ MemoryPages[p][1] \in G
         /\ \A i \in DOMAIN MemoryPages[p] : MemoryPages[p][i] \in G
<1>1. MemoryPages[p] \in NonEmpty(G)
  BY DEF PagesIn
<1> QED  BY <1>1 DEF NonEmpty

LEMMA ResetROMDeviceStep ==
  ASSUME BusInv, NEW size \in ResetRomFiles, RegisterResetROMDevice(size)
  PROVE  BusInv'
<1> DEFINE d == Device("RESET_ROM", size, resetVector)
           N == Len(RegisteredDevices)
           rom == Section(N + 1, TRUE, 0, InPageOffset(resetVector), ResetRomSize)
<1>1. /\ RegisteredDevices \in Seq(DeviceType) /\ N \in Nat
      /\ resetVector \in Nat /\ PagesIn(MemoryPages, SectionType(N))
  BY ResetVectorsAssumption DEF BusInv
<1>2. size \in Nat /\ d \in DeviceType /\ d.kind = "RESET_ROM" /\ d.size = size
  BY <1>1, ResetRomFilesAssumption, ResetRomSizeAssumption DEF Device, DeviceType, Kinds
<1>3. Register(d) /\ MapResetRom(N + 1)
  BY DEF RegisterResetROMDevice, Number
<1>4. status' \in {"constructing", "ready", "failed", "undefined"}
  BY <1>3 DEF BusInv, MapResetRom, Undefined
<1>5. /\ InPageOffset(resetVector) \in 0 .. PageSize - 1 /\ ResetRomSize \in 0 .. Wrap - 1
      /\ LengthsIn(Int, InPageOffset(resetVector), ResetRomSize)
  <2>1. InPageOffset(resetVector) \in 0 .. PageSize - 1
    BY <1>1, OffsetInPage
  <2> QED  BY <2>1, ConstantsNat DEF LengthsIn
<1>6. /\ rom \in SectionType(N + 1)
      /\ rom \in Inside(Append(RegisteredDevices, d))
  <2>1. ExtentOf(d) = ResetRomSize /\ ResetRomSize <= ResetRomSize
    BY <1>2, ConstantsNat DEF ExtentOf
  <2> HIDE DEF d
  <2> QED  BY <1>1, <1>2, <1>5, <2>1, RomInside
<1>7. /\ SectionType(N) \subseteq SectionType(N + 1)
      /\ Inside(RegisteredDevices) \subseteq Inside(Append(RegisteredDevices, d))
  <2> HIDE DEF d
  <2> QED  BY <1>1, <1>2, InsideGrows
<1> HIDE DEF d, rom
<1>8. PagesIn(MemoryPages', SectionType(N + 1))
  <2>1. PICK G : G = SectionType(N + 1)
    OBVIOUS
  <2>2. PagesIn(MemoryPages, G)
    BY <1>1, <1>7, <2>1, SeqSubset
  <2>3. \A g \in G : g.pageOffset \in Nat
    BY <2>1, ConstantsNat DEF SectionType
  <2>4. \A p \in DOMAIN MemoryPages : KeepsRemainders(G, Int, MemoryPages[p][1])
    BY <2>1, <2>2, SectionsIn, RemainderType DEF KeepsRemainders
  <2>5. PagesIn(MemoryPages', G)
    BY <1>1, <1>3, <1>5, <1>6, <2>1, <2>2, <2>3, <2>4, MapResetRomKeeps DEF rom
  <2> QED  BY <1>1, <1>3, <2>1, <2>5 DEF Register
<1>9. ASSUME ResetRomFirst', MemoryHoldsAPage'
      PROVE  PagesIn(MemoryPages', Inside(Append(RegisteredDevices, d)))
  <2>1. /\ ResetRomFirst /\ MemoryHoldsAPage
        /\ \A j \in Devices : Is(j, "MEMORY")
    BY <1>1, <1>2, <1>3, <1>9, ConditionsBefore DEF Register
  <2>2. PICK G : G = Inside(Append(RegisteredDevices, d))
    OBVIOUS
  <2>3. PagesIn(MemoryPages, Inside(RegisteredDevices))
    BY <2>1 DEF BusInv
  <2>4. PagesIn(MemoryPages, G)
    BY <1>7, <2>2, <2>3, SeqSubset
  <2>5. \A g \in G : g.pageOffset \in Nat
    BY <2>2, ConstantsNat DEF Inside, SectionType
  <2>6. \A p \in DOMAIN MemoryPages : KeepsRemainders(G, Int, MemoryPages[p][1])
    <3> TAKE p \in DOMAIN MemoryPages
    <3>1. MemoryPages[p][1] \in Inside(RegisteredDevices)
      BY <2>3, SectionsIn
    <3>2. MemoryPages[p][1].device \in 1 .. N
      BY <3>1 DEF Inside, SectionType
    <3>3. RegisteredDevices[MemoryPages[p][1].device].kind = "MEMORY"
      BY <1>1, <2>1, <3>2 DEF Devices, Is
    <3>4. \A o \in Nat, z \in Int :
            Remainder(MemoryPages[p][1], o, z) \in Inside(RegisteredDevices)
      BY <1>1, <3>1, <3>3, RemainderInside
    <3> QED  BY <1>7, <2>2, <3>4 DEF KeepsRemainders
  <2>7. PagesIn(MemoryPages', G)
    BY <1>1, <1>3, <1>5, <1>6, <2>1, <2>2, <2>4, <2>5, <2>6, MapResetRomKeeps DEF rom
  <2> QED  BY <1>1, <1>3, <2>2, <2>7 DEF Register
<1> QED  BY <1>2, <1>3, <1>4, <1>8, <1>9, Registered

LEMMA FirmwareDeviceStep ==
  ASSUME BusInv, NEW size \in Nat, NEW base \in Nat, RegisterFirmwareDevice(size, base)
  PROVE  BusInv'
<1> DEFINE d == Device("FIRMWARE", size, base)
           N == Len(RegisteredDevices)
           rom == Section(N + 1, TRUE, 0, InPageOffset(base), size)
<1>1. RegisteredDevices \in Seq(DeviceType) /\ N \in Nat /\ PagesIn(MemoryPages, SectionType(N))
  BY DEF BusInv
<1>2. d \in DeviceType /\ d.kind = "FIRMWARE" /\ d.size = size
  BY DEF Device, DeviceType, Kinds
<1>3. Register(d) /\ MapFirmwareRom(N + 1, size, base)
  BY DEF RegisterFirmwareDevice, Number
<1>4. status' \in {"constructing", "ready", "failed", "undefined"}
  BY <1>3 DEF BusInv, MapFirmwareRom, FinishFirmware, Undefined, Abort
<1>5. InPageOffset(base) \in 0 .. PageSize - 1 /\ LengthsIn(Int, InPageOffset(base), size)
  BY OffsetInPage, ConstantsNat DEF LengthsIn
<1>6. size \in 0 .. Wrap - 1 =>
        /\ rom \in SectionType(N + 1)
        /\ rom \in Inside(Append(RegisteredDevices, d))
  <2>1. size <= ExtentOf(d)
    BY <1>2 DEF ExtentOf
  <2> HIDE DEF d
  <2> QED  BY <1>1, <1>2, <1>5, <2>1, RomInside
<1>7. /\ SectionType(N) \subseteq SectionType(N + 1)
      /\ Inside(RegisteredDevices) \subseteq Inside(Append(RegisteredDevices, d))
  <2> HIDE DEF d
  <2> QED  BY <1>1, <1>2, InsideGrows
<1>8. \A g \in SectionType(N) : g.size >= size => size \in 0 .. Wrap - 1
  BY ConstantsNat DEF SectionType
<1> HIDE DEF d, rom
<1>9. PagesIn(MemoryPages', SectionType(N + 1))
  <2>1. PICK G, H : G = SectionType(N + 1) /\ H = SectionType(N)
    OBVIOUS
  <2>2. H \in SUBSET G
    BY <1>7, <2>1
  <2>3. \A g \in G : g.pageOffset \in Nat /\ g.size \in Nat
    BY <2>1, ConstantsNat DEF SectionType
  <2>4. \A g \in H : RegisteredDevices[g.device].kind = "MEMORY" /\ g.size >= size =>
            /\ Section(N + 1, TRUE, 0, InPageOffset(base), size) \in G
            /\ KeepsRemainders(G, Int, g)
    BY <1>6, <1>7, <1>8, <2>1, RemainderType DEF KeepsRemainders, rom
  <2>5. PagesIn(MemoryPages', G)
    BY <1>1, <1>3, <1>5, <2>1, <2>2, <2>3, <2>4, MapFirmwareRomKeeps
  <2> QED  BY <2>1, <2>5, <1>1, <1>3 DEF Register
<1>10. ASSUME ResetRomFirst', MemoryHoldsAPage'
       PROVE  PagesIn(MemoryPages', Inside(Append(RegisteredDevices, d)))
  <2>1. ResetRomFirst /\ MemoryHoldsAPage
    BY <1>1, <1>2, <1>3, <1>10, ConditionsBefore DEF Register
  <2>2. PICK G, H : G = Inside(Append(RegisteredDevices, d)) /\ H = Inside(RegisteredDevices)
    OBVIOUS
  <2>3. PagesIn(MemoryPages, H)
    BY <2>1, <2>2 DEF BusInv
  <2>4. H \in SUBSET G
    BY <1>7, <2>2
  <2>5. \A g \in G : g.pageOffset \in Nat /\ g.size \in Nat
    BY <2>2, ConstantsNat DEF Inside, SectionType
  <2>6. \A g \in H : RegisteredDevices[g.device].kind = "MEMORY" /\ g.size >= size =>
            /\ Section(N + 1, TRUE, 0, InPageOffset(base), size) \in G
            /\ KeepsRemainders(G, Int, g)
    <3> SUFFICES ASSUME NEW g \in H,
                        RegisteredDevices[g.device].kind = "MEMORY", g.size >= size
                 PROVE  /\ Section(N + 1, TRUE, 0, InPageOffset(base), size) \in G
                        /\ KeepsRemainders(G, Int, g)
      OBVIOUS
    <3>1. g \in Inside(RegisteredDevices) /\ g \in SectionType(N)
      BY <2>2 DEF Inside
    <3>2. rom \in G
      BY <1>6, <1>8, <2>2, <3>1
    <3>3. \A o \in Nat, z \in Int : Remainder(g, o, z) \in Inside(RegisteredDevices)
      BY <1>1, <3>1, RemainderInside
    <3> QED  BY <2>2, <2>4, <3>2, <3>3 DEF KeepsRemainders, rom
  <2>7. PagesIn(MemoryPages', G)
    BY <1>1, <1>3, <1>5, <2>2, <2>3, <2>4, <2>5, <2>6, MapFirmwareRomKeeps
  <2> QED  BY <1>1, <1>3, <2>2, <2>7 DEF Register
<1> QED  BY <1>2, <1>3, <1>4, <1>9, <1>10, Registered

LEMMA StutterStep ==
  ASSUME BusInv, UNCHANGED << MemoryPages, RegisteredDevices, resetVector >>,
         status' \in {"constructing", "ready", "failed", "undefined"}
  PROVE  BusInv'
<1>1. ResetRomFirst' = ResetRomFirst /\ MemoryHoldsAPage' = MemoryHoldsAPage
  BY DEF ResetRomFirst, MemoryHoldsAPage, Devices, Is, Size
<1> QED  BY <1>1 DEF BusInv, PagesIn

(* The invariant is inductive. *)
LEMMA NextKeepsBusInv ==
  ASSUME BusInv, Next
  PROVE  BusInv'
<1>1. CASE \E size \in MemorySizes : RegisterMemoryDevice(size)
  BY <1>1, MemoryDeviceStep
<1>2. CASE \E size \in ResetRomFiles : RegisterResetROMDevice(size)
  BY <1>2, ResetROMDeviceStep
<1>3. CASE \E f \in Firmwares : RegisterFirmwareDevice(f.size, f.base)
  <2>1. PICK f \in Firmwares : RegisterFirmwareDevice(f.size, f.base)
    BY <1>3
  <2>2. f.size \in Nat /\ f.base \in Nat
    BY FirmwaresAssumption
  <2> QED  BY <2>1, <2>2, FirmwareDeviceStep
<1>4. CASE RejectDescriptor
  BY <1>4, StutterStep DEF RejectDescriptor
<1>5. CASE Construct
  BY <1>5, StutterStep DEF Construct
<1> QED  BY <1>1, <1>2, <1>3, <1>4, <1>5 DEF Next

LEMMA BusInvInit == Init => BusInv
<1> SUFFICES ASSUME Init PROVE BusInv
  OBVIOUS
<1>1. MemoryPages = << >> /\ RegisteredDevices = << >>
  BY DEF Init
<1>2. \A G : PagesIn(MemoryPages, G)
  BY <1>1 DEF PagesIn
<1> QED  BY <1>1, <1>2 DEF Init, BusInv

LEMMA BusInvariance == Spec => []BusInv
<1>1. BusInv /\ [Next]_vars => BusInv'
  <2> SUFFICES ASSUME BusInv, [Next]_vars PROVE BusInv'
    OBVIOUS
  <2>1. CASE UNCHANGED vars
    BY <2>1, StutterStep DEF vars, BusInv
  <2> QED  BY <2>1, NextKeepsBusInv
<1> QED  BY <1>1, BusInvInit, PTL DEF Spec

----------------------------------------------------------------------------
(* What follows from it. *)

LEMMA BusInvTypeOK ==
  ASSUME BusInv
  PROVE  TypeOK
<1>1. /\ RegisteredDevices \in Seq([kind : Kinds, size : Nat, base : Nat])
      /\ DOMAIN RegisteredDevices = 1 .. Len(RegisteredDevices)
  BY DEF BusInv, DeviceType
<1>2. \A p \in DOMAIN MemoryPages :
        /\ Len(MemoryPages[p]) > 0
        /\ MemoryPages[p] \in Seq(SectionType(Len(RegisteredDevices)))
  BY SectionsIn DEF BusInv
<1> QED  BY <1>1, <1>2 DEF TypeOK, BusInv, SectionType

(* No sequence of mappings, sorts and prunes, on no page size, leaves a page *)
(* without a section or a section without a registered device: what          *)
(* MapResetRom, Read8 and the dump index is there.                           *)
THEOREM TypeInvariance == Spec => []TypeOK
<1>1. BusInv => TypeOK
  BY BusInvTypeOK
<1> QED  BY <1>1, BusInvariance, PTL

(* The section Read8 picks is one of the page's and covers the offset. *)
LEMMA ReadSection ==
  ASSUME NEW G, PagesIn(MemoryPages, G), NEW a \in Addresses, Covering(a) # {}
  PROVE  \E g \in G :
           /\ InPageOffset(a) >= g.pageOffset
           /\ InPageOffset(a) < g.pageOffset + g.size
           /\ Read8(a) = [device |-> g.device,
                          offset |-> IF g.DirectAccess
                                       THEN InPageOffset(a) - g.pageOffset
                                       ELSE g.DeviceOffset + (InPageOffset(a) - g.pageOffset)]
<1> DEFINE p == GetPageNumber(a) + 1
           C == Covering(a)
           c == CHOOSE i \in C : \A j \in C : i <= j
<1>1. p \in DOMAIN MemoryPages
  <2>1. PICK L \in Nat, P \in Nat \ {0} :
          L = Len(MemoryPages) /\ P = PageSize /\ DOMAIN MemoryPages = 1 .. L
    BY PageSizeAssumption DEF PagesIn
  <2>2. a \in 0 .. L * P - 1
    BY <2>1 DEF Addresses
  <2>3. a \div P \in 0 .. L - 1
    BY <2>1, <2>2
  <2> QED  BY <2>1, <2>3 DEF GetPageNumber
<1>2. /\ DOMAIN MemoryPages[p] \subseteq Nat /\ C \subseteq DOMAIN MemoryPages[p]
      /\ \A i \in DOMAIN MemoryPages[p] : MemoryPages[p][i] \in G
  BY <1>1, SectionsIn DEF Covering
<1>3. PICK i \in C : \A j \in C : ~ (<< j, i >> \in OpToRel(<, Nat))
  <2> HIDE DEF C
  <2>1. PICK k \in C : TRUE
    BY DEF C
  <2> QED  BY <1>2, <2>1, WFMin, NatLessThanWellFounded
<1>4. \A j \in C : i <= j
  <2> HIDE DEF C
  <2> TAKE j \in C
  <2>1. i \in Nat /\ j \in Nat
    BY <1>2
  <2>2. ~ (j < i)
    BY <1>3, <2>1 DEF OpToRel
  <2> QED  BY <2>1, <2>2
<1>5. c \in C
  <2> HIDE DEF C
  <2> QED  BY <1>4
<1> DEFINE g == MemoryPages[p][c]
<1>6. g \in G
  BY <1>2, <1>5
<1>7. InPageOffset(a) >= g.pageOffset /\ InPageOffset(a) < g.pageOffset + g.size
  <2>1. \A k \in C : /\ InPageOffset(a) >= MemoryPages[p][k].pageOffset
                     /\ InPageOffset(a) < MemoryPages[p][k].pageOffset + MemoryPages[p][k].size
    BY DEF Covering
  <2> HIDE DEF C, c, p
  <2> QED  BY <1>5, <2>1
<1>8. Read8(a) = [device |-> g.device,
                  offset |-> IF g.DirectAccess
                               THEN InPageOffset(a) - g.pageOffset
                               ELSE g.DeviceOffset + (InPageOffset(a) - g.pageOffset)]
  BY DEF Read8
<1> HIDE DEF g
<1> QED  BY <1>6, <1>7, <1>8

(* A byte that is read is among those mapped of its device. *)
LEMMA ReadInExtent ==
  ASSUME BusInv, ResetRomFirst, MemoryHoldsAPage,
         NEW a \in Addresses, Read8(a) # NoByte
  PROVE  /\ Read8(a).device \in Devices
         /\ Read8(a).offset < Extent(Read8(a).device)
<1>1. Covering(a) # {}
  BY DEF Read8
<1>2. PagesIn(MemoryPages, Inside(RegisteredDevices))
  BY DEF BusInv
<1>3. PICK g \in Inside(RegisteredDevices) :
         /\ InPageOffset(a) >= g.pageOffset
         /\ InPageOffset(a) < g.pageOffset + g.size
         /\ Read8(a) = [device |-> g.device,
                        offset |-> IF g.DirectAccess
                                     THEN InPageOffset(a) - g.pageOffset
                                     ELSE g.DeviceOffset + (InPageOffset(a) - g.pageOffset)]
  BY <1>1, <1>2, ReadSection
<1> DEFINE device == RegisteredDevices[g.device]
           offset == IF g.DirectAccess
                       THEN InPageOffset(a) - g.pageOffset
                       ELSE g.DeviceOffset + (InPageOffset(a) - g.pageOffset)
<1>4. /\ g.device \in 1 .. Len(RegisteredDevices) /\ g.DirectAccess \in BOOLEAN
      /\ g.DeviceOffset \in Nat /\ g.pageOffset \in Nat /\ g.size \in Nat
      /\ InsideSection(g, device)
  BY <1>3, ConstantsNat DEF Inside, SectionType
<1>5. device.size \in Nat
  <2>1. device \in DeviceType
    BY <1>4 DEF BusInv
  <2> QED  BY <2>1 DEF DeviceType
<1>6. InPageOffset(a) \in Nat /\ InPageOffset(a) < PageSize
  <2>1. PICK L \in Nat, P \in Nat \ {0} : L = Len(MemoryPages) /\ P = PageSize
    BY PageSizeAssumption DEF PagesIn, BusInv
  <2>2. a \in Nat
    BY <2>1 DEF Addresses
  <2> QED  BY <2>2, OffsetInPage, ConstantsNat
<1>7. Read8(a).offset = offset /\ Extent(Read8(a).device) = ExtentOf(device)
      /\ Read8(a).device \in Devices
  BY <1>3, <1>4 DEF Size, Is, Extent, ExtentOf, Devices, BusInv
<1>8. offset < ExtentOf(device)
  <2> HIDE DEF device
  <2>1. CASE g.DirectAccess /\ device.kind = "MEMORY"
    BY <1>3, <1>4, <1>5, <1>6, <2>1, ConstantsNat DEF InsideSection, ExtentOf
  <2>2. CASE g.DirectAccess /\ device.kind # "MEMORY"
    BY <1>3, <1>4, <1>5, <1>6, <2>2, ConstantsNat DEF InsideSection, ExtentOf
  <2>3. CASE ~g.DirectAccess
    BY <1>3, <1>4, <1>5, <1>6, <2>3, ConstantsNat DEF InsideSection, ExtentOf
  <2> QED  BY <2>1, <2>2, <2>3
<1> QED  BY <1>7, <1>8

(* It is a byte of the device, if the devices fill their mapping. *)
LEMMA ReadInDevice ==
  ASSUME BusInv, ResetRomFirst, DevicesFillTheirMapping,
         NEW a \in Addresses, Read8(a) # NoByte
  PROVE  Read8(a).offset < Size(Read8(a).device)
<1>1. PICK b : b = Read8(a)
  OBVIOUS
<1>2. MemoryHoldsAPage
  BY FilledHoldsAPage DEF BusInv
<1>3. b.device \in Devices /\ b.offset < Extent(b.device)
  BY <1>1, <1>2, ReadInExtent
<1>4. RegisteredDevices[b.device] \in DeviceType
  BY <1>3 DEF BusInv, Devices
<1>5. Size(b.device) \in Nat /\ Extent(b.device) <= Size(b.device)
  BY <1>3, <1>4, ConstantsNat DEF Size, Extent, Is, DeviceType, DevicesFillTheirMapping
<1>6. Extent(b.device) \in Nat /\ b.offset \in Int
  <2>1. Covering(a) # {} /\ PagesIn(MemoryPages, Inside(RegisteredDevices))
    BY <1>2 DEF Read8, BusInv
  <2>2. PICK g \in Inside(RegisteredDevices) :
          Read8(a).offset = IF g.DirectAccess
                              THEN InPageOffset(a) - g.pageOffset
                              ELSE g.DeviceOffset + (InPageOffset(a) - g.pageOffset)
    BY <2>1, ReadSection
  <2>3. g.pageOffset \in Int /\ g.DeviceOffset \in Int
    BY ConstantsNat DEF Inside, SectionType
  <2>4. InPageOffset(a) \in Int
    <3>1. a \in Int
      BY DEF Addresses
    <3> QED  BY <3>1, ConstantsNat DEF InPageOffset
  <2> QED  BY <1>1, <1>5, <2>2, <2>3, <2>4, ConstantsNat DEF Extent
<1> QED  BY <1>1, <1>3, <1>5, <1>6

(* No read leaves what is mapped of its device, for every page size and      *)
(* every list of devices without a memory that ends inside its first page;   *)
(* a short reset ROM file is the only way past a device's data.              *)
THEOREM ReadsInDevice == Spec => []ReadsStayInDevice
<1>1. BusInv => ReadsStayInDevice
  BY ReadInExtent DEF ReadsStayInDevice
<1> QED  BY <1>1, BusInvariance, PTL

----------------------------------------------------------------------------
(* What the dump of memory reads: whole sections, reachable or not. *)

(* A section inside its device as the dump reads it: from its DeviceOffset,  *)
(* direct or not.                                                            *)
Dumped(devices) ==
  {g \in Inside(devices) : g.DeviceOffset + g.size <= devices[g.device].size}

RomsFitPages == \A k \in Roms : InPageOffset(Base(k)) + Extent(k) <= PageSize

DumpInv ==
  ResetRomFirst /\ DevicesFillTheirMapping /\ RomsFitPages =>
    PagesIn(MemoryPages, Dumped(RegisteredDevices))

LEMMA DumpedGrows ==
  ASSUME NEW devices \in Seq(DeviceType), NEW d \in DeviceType
  PROVE  Dumped(devices) \subseteq Dumped(Append(devices, d))
<1> SUFFICES ASSUME NEW g \in Dumped(devices) PROVE g \in Dumped(Append(devices, d))
  OBVIOUS
<1>1. g \in Inside(devices) /\ g \in SectionType(Len(devices))
  BY DEF Dumped, Inside
<1>2. g.device \in 1 .. Len(devices)
  BY <1>1 DEF SectionType
<1>3. Append(devices, d)[g.device] = devices[g.device]
  BY <1>2
<1>4. g \in Inside(Append(devices, d))
  BY <1>1, InsideGrows
<1> QED  BY <1>3, <1>4 DEF Dumped

(* What is left of a page around a ROM that fits it is dumped from memory.   *)
LEMMA RemainderDumped ==
  ASSUME NEW devices \in Seq(DeviceType), NEW g \in Inside(devices),
         devices[g.device].kind = "MEMORY", NEW o \in Nat, NEW z \in 0 .. PageSize
  PROVE  Remainder(g, o, z) \in Dumped(devices)
<1> DEFINE r == Remainder(g, o, z)
<1>1. r \in Inside(devices)
  BY ConstantsNat, RemainderInside
<1>2. r.device = g.device /\ r.DirectAccess = FALSE /\ r.DeviceOffset = 0 /\ r.size = z % Wrap
  BY DEF Remainder, Section
<1>3. z % Wrap = z /\ z \in Nat /\ z <= PageSize
  BY ConstantsNat
<1>4. r \in SectionType(Len(devices)) /\ InsideSection(r, devices[r.device])
  BY <1>1 DEF Inside
<1>5. devices[r.device].size \in Nat
  <2>1. r.device \in 1 .. Len(devices)
    BY <1>4 DEF SectionType
  <2>2. devices[r.device] \in DeviceType
    BY <2>1
  <2> QED  BY <2>2 DEF DeviceType
<1> HIDE DEF r
<1>6. PageSize <= devices[r.device].size
  BY <1>2, <1>4 DEF InsideSection
<1>7. r.DeviceOffset + r.size <= devices[r.device].size
  BY <1>2, <1>3, <1>5, <1>6, ConstantsNat
<1> QED  BY <1>1, <1>7 DEF Dumped, r

(* A ROM inside its device is dumped from it. *)
LEMMA RomDumped ==
  ASSUME NEW devices \in Seq(DeviceType), NEW d \in DeviceType, d.kind # "MEMORY",
         NEW o \in 0 .. PageSize - 1, NEW size \in 0 .. Wrap - 1,
         size <= d.size, size <= ExtentOf(d)
  PROVE  Section(Len(devices) + 1, TRUE, 0, o, size) \in Dumped(Append(devices, d))
<1> DEFINE n == Len(devices) + 1
           g == Section(n, TRUE, 0, o, size)
<1>1. g \in Inside(Append(devices, d))
  BY RomInside
<1>2. g.device = n /\ g.DeviceOffset = 0 /\ g.size = size
  BY DEF Section
<1>3. Append(devices, d)[n] = d
  OBVIOUS
<1>4. 0 + size = size
  OBVIOUS
<1> HIDE DEF g, n
<1>5. g.DeviceOffset + g.size <= Append(devices, d)[g.device].size
  BY <1>2, <1>3, <1>4
<1> QED  BY <1>1, <1>5 DEF Dumped, g, n

LEMMA FitsBefore ==
  ASSUME RegisteredDevices \in Seq(DeviceType), NEW d \in DeviceType,
         RegisteredDevices' = Append(RegisteredDevices, d), RomsFitPages'
  PROVE  /\ RomsFitPages
         /\ d.kind = "RESET_ROM" => InPageOffset(d.base) + ResetRomSize <= PageSize
         /\ d.kind = "FIRMWARE" => InPageOffset(d.base) + d.size <= PageSize
<1> DEFINE N == Len(RegisteredDevices)
<1>1. N \in Nat /\ Devices = 1 .. N /\ Devices' = 1 .. N + 1
  BY DEF Devices
<1>2. \A k \in 1 .. N : RegisteredDevices'[k] = RegisteredDevices[k]
  BY <1>1
<1>3. RegisteredDevices'[N + 1] = d
  BY <1>1
<1>4. RomsFitPages
  BY <1>1, <1>2 DEF RomsFitPages, Roms, Is, Base, Extent, Size
<1>5. d.kind = "RESET_ROM" => InPageOffset(d.base) + ResetRomSize <= PageSize
  BY <1>1, <1>3 DEF RomsFitPages, Roms, Is, Base, Extent
<1>6. d.kind = "FIRMWARE" => InPageOffset(d.base) + d.size <= PageSize
  BY <1>1, <1>3 DEF RomsFitPages, Roms, Is, Base, Extent, Size
<1> QED  BY <1>4, <1>5, <1>6

(* The lengths of what a ROM that fits leaves of its page. *)
LEMMA LengthsFit ==
  ASSUME NEW a \in Nat, NEW size \in Nat, InPageOffset(a) + size <= PageSize
  PROVE  LengthsIn(0 .. PageSize, InPageOffset(a), size)
<1>1. InPageOffset(a) \in Nat
  BY OffsetNat
<1> QED  BY <1>1, ConstantsNat DEF LengthsIn

(* What is known of a device that is registered, if the conditions hold then. *)
LEMMA DumpBefore ==
  ASSUME BusInv, DumpInv, NEW d \in DeviceType, Register(d),
         ResetRomFirst', DevicesFillTheirMapping', RomsFitPages'
  PROVE  /\ PagesIn(MemoryPages, Dumped(RegisteredDevices))
         /\ PagesIn(MemoryPages, Dumped(Append(RegisteredDevices, d)))
         /\ d.kind = "MEMORY" => d.size % PageSize = 0
         /\ d.kind = "RESET_ROM" => /\ d.size >= ResetRomSize
                                    /\ \A j \in Devices : Is(j, "MEMORY")
                                    /\ InPageOffset(d.base) + ResetRomSize <= PageSize
         /\ d.kind = "FIRMWARE" => InPageOffset(d.base) + d.size <= PageSize
<1>1. RegisteredDevices \in Seq(DeviceType) /\ RegisteredDevices' = Append(RegisteredDevices, d)
  BY DEF BusInv, Register
<1>2. /\ ResetRomFirst /\ DevicesFillTheirMapping
      /\ d.kind = "MEMORY" => d.size % PageSize = 0
      /\ d.kind = "RESET_ROM" => d.size >= ResetRomSize /\ \A j \in Devices : Is(j, "MEMORY")
  <2>1. /\ DevicesFillTheirMapping
        /\ d.kind = "MEMORY" => d.size % PageSize = 0
        /\ d.kind = "RESET_ROM" => d.size >= ResetRomSize
    BY <1>1, FillBefore
  <2>2. RegisteredDevices' \in Seq(DeviceType)
    BY <1>1
  <2>3. MemoryHoldsAPage'
    <3>1. DOMAIN RegisteredDevices' = Devices'
      BY DEF Devices
    <3>2. ASSUME NEW k \in Devices' PROVE RegisteredDevices'[k].size \in Nat
      <4>1. RegisteredDevices'[k] \in DeviceType
        BY <2>2, <3>1
      <4> QED  BY <4>1 DEF DeviceType
    <3> QED  BY <3>2, WholePagesHoldOne DEF MemoryHoldsAPage, DevicesFillTheirMapping, Is, Size
  <2> QED  BY <1>1, <2>1, <2>3, ConditionsBefore
<1>3. /\ RomsFitPages
      /\ d.kind = "RESET_ROM" => InPageOffset(d.base) + ResetRomSize <= PageSize
      /\ d.kind = "FIRMWARE" => InPageOffset(d.base) + d.size <= PageSize
  BY <1>1, FitsBefore
<1>4. PagesIn(MemoryPages, Dumped(RegisteredDevices))
  BY <1>2, <1>3 DEF DumpInv
<1>5. PagesIn(MemoryPages, Dumped(Append(RegisteredDevices, d)))
  BY <1>1, <1>4, DumpedGrows, SeqSubset
<1> QED  BY <1>2, <1>3, <1>4, <1>5

LEMMA DumpMemoryStep ==
  ASSUME BusInv, DumpInv, NEW size \in MemorySizes, RegisterMemoryDevice(size),
         ResetRomFirst', DevicesFillTheirMapping', RomsFitPages'
  PROVE  PagesIn(MemoryPages', Dumped(RegisteredDevices'))
<1> DEFINE N == Len(RegisteredDevices)
<1>1. PICK d : d = Device("MEMORY", size, 0)
  OBVIOUS
<1>2. size \in Nat /\ d \in DeviceType /\ d.kind = "MEMORY" /\ d.size = size
  BY <1>1, MemorySizesAssumption DEF Device, DeviceType, Kinds
<1>3. Register(d) /\ MemoryPages' = MainMemoryPages(N + 1, size)
  BY <1>1 DEF RegisterMemoryDevice, Number
<1>4. size % PageSize = 0
  BY <1>2, <1>3, DumpBefore
<1>5. /\ RegisteredDevices \in Seq(DeviceType) /\ N \in Nat
      /\ RegisteredDevices' = Append(RegisteredDevices, d)
  BY <1>3 DEF BusInv, Register
<1>6. PICK E : E = Append(RegisteredDevices, d)
  OBVIOUS
<1>7. Len(E) = N + 1 /\ E[N + 1] = d
  BY <1>5, <1>6
<1>8. PICK n : n = N + 1
  OBVIOUS
<1>9. ASSUME NEW p \in 1 .. (size + PageSize - 1) \div PageSize
      PROVE  Section(n, TRUE, (p - 1) * PageSize, 0, PageSize) \in Dumped(E)
  <2>1. PICK o : o = (p - 1) * PageSize
    OBVIOUS
  <2>2. o \in Nat /\ o + PageSize <= size
    BY <1>2, <1>4, <1>9, <2>1, WholePages
  <2>3. PICK g : g = Section(n, TRUE, o, 0, PageSize)
    OBVIOUS
  <2>4. /\ g.device = n /\ g.DirectAccess = TRUE /\ g.DeviceOffset = o
        /\ g.pageOffset = 0 /\ g.size = PageSize
    BY <2>3 DEF Section
  <2>5. g \in SectionType(Len(E))
    <3>1. n \in 1 .. Len(E) /\ PageSize \in 0 .. Wrap - 1 /\ 0 \in 0 .. Wrap - 1
      BY <1>5, <1>7, <1>8, ConstantsNat
    <3> QED  BY <2>2, <2>3, <3>1 DEF Section, SectionType
  <2>6. E[g.device] = d
    BY <1>7, <1>8, <2>4
  <2>7. InsideSection(g, d)
    <3>1. PageSize <= size
      BY <1>2, <1>9, <2>2, ConstantsNat
    <3> QED  BY <1>2, <2>2, <2>4, <3>1 DEF InsideSection
  <2> QED  BY <1>2, <2>1, <2>2, <2>3, <2>4, <2>5, <2>6, <2>7 DEF Dumped, Inside
<1>10. PagesIn(MainMemoryPages(n, size), Dumped(E))
  BY <1>2, <1>9, MainMemoryIn
<1> QED  BY <1>3, <1>5, <1>6, <1>8, <1>10

LEMMA DumpResetROMStep ==
  ASSUME BusInv, DumpInv, NEW size \in ResetRomFiles, RegisterResetROMDevice(size),
         ResetRomFirst', DevicesFillTheirMapping', RomsFitPages'
  PROVE  PagesIn(MemoryPages', Dumped(RegisteredDevices'))
<1> DEFINE N == Len(RegisteredDevices)
<1>1. /\ RegisteredDevices \in Seq(DeviceType) /\ N \in Nat /\ resetVector \in Nat
  BY ResetVectorsAssumption DEF BusInv
<1>2. PICK d : d = Device("RESET_ROM", size, resetVector)
  OBVIOUS
<1>3. d \in DeviceType /\ d.kind = "RESET_ROM" /\ d.size = size /\ d.base = resetVector
  BY <1>1, <1>2, ResetRomFilesAssumption, ResetRomSizeAssumption DEF Device, DeviceType, Kinds
<1>4. Register(d) /\ MapResetRom(N + 1) /\ RegisteredDevices' = Append(RegisteredDevices, d)
  BY <1>2 DEF RegisterResetROMDevice, Number, Register
<1>5. /\ PagesIn(MemoryPages, Dumped(RegisteredDevices))
      /\ PagesIn(MemoryPages, Dumped(Append(RegisteredDevices, d)))
      /\ ResetRomSize <= d.size /\ \A j \in Devices : Is(j, "MEMORY")
      /\ InPageOffset(resetVector) + ResetRomSize <= PageSize
  <2>1. d.size \in Nat
    BY <1>3 DEF DeviceType
  <2> QED  BY <1>3, <1>4, <2>1, ConstantsNat, DumpBefore
<1>6. PICK G, H : G = Dumped(Append(RegisteredDevices, d)) /\ H = Dumped(RegisteredDevices)
  OBVIOUS
<1>7. H \subseteq G
  BY <1>1, <1>3, <1>6, DumpedGrows
<1>8. \A g \in G : g.pageOffset \in Nat
  BY <1>6, ConstantsNat DEF Dumped, Inside, SectionType
<1>9. Section(N + 1, TRUE, 0, InPageOffset(resetVector), ResetRomSize) \in G
  <2>1. PICK o : o = InPageOffset(resetVector)
    OBVIOUS
  <2>2. o \in 0 .. PageSize - 1
    BY <1>1, <2>1, OffsetInPage
  <2>3. ResetRomSize \in 0 .. Wrap - 1
    BY ConstantsNat
  <2>4. d.kind # "MEMORY" /\ ResetRomSize <= ExtentOf(d)
    BY <1>3, ConstantsNat DEF ExtentOf
  <2> QED  BY <1>1, <1>3, <1>5, <1>6, <2>1, <2>2, <2>3, <2>4, RomDumped
<1>10. PICK Z : Z = 0 .. PageSize
  OBVIOUS
<1>11. LengthsIn(Z, InPageOffset(resetVector), ResetRomSize)
  BY <1>1, <1>5, <1>10, LengthsFit, ConstantsNat
<1>12. \A p \in DOMAIN MemoryPages : KeepsRemainders(G, Z, MemoryPages[p][1])
  <2> TAKE p \in DOMAIN MemoryPages
  <2>1. PICK g : g = MemoryPages[p][1]
    OBVIOUS
  <2>2. g \in H
    BY <1>5, <1>6, <2>1, SectionsIn
  <2>3. g \in Inside(RegisteredDevices) /\ g.device \in 1 .. N
    BY <1>6, <2>2 DEF Dumped, Inside, SectionType
  <2>4. RegisteredDevices[g.device].kind = "MEMORY"
    BY <1>1, <1>5, <2>3 DEF Devices, Is
  <2>5. \A o \in Nat, z \in Z : Remainder(g, o, z) \in H
    BY <1>1, <1>6, <1>10, <2>3, <2>4, RemainderDumped
  <2> QED  BY <1>7, <2>1, <2>5 DEF KeepsRemainders
<1>13. PagesIn(MemoryPages, G)
  BY <1>5, <1>6
<1>14. PICK n : n = N + 1
  OBVIOUS
<1>15. PagesIn(MemoryPages', G)
  <2> HIDE DEF N
  <2> QED  BY <1>1, <1>4, <1>8, <1>9, <1>11, <1>12, <1>13, <1>14, MapResetRomKeeps
<1> QED  BY <1>4, <1>6, <1>15

LEMMA DumpFirmwareStep ==
  ASSUME BusInv, DumpInv, NEW size \in Nat, NEW base \in Nat,
         RegisterFirmwareDevice(size, base),
         ResetRomFirst', DevicesFillTheirMapping', RomsFitPages'
  PROVE  PagesIn(MemoryPages', Dumped(RegisteredDevices'))
<1> DEFINE N == Len(RegisteredDevices)
<1>1. RegisteredDevices \in Seq(DeviceType) /\ N \in Nat
  BY DEF BusInv
<1>2. PICK d : d = Device("FIRMWARE", size, base)
  OBVIOUS
<1>3. d \in DeviceType /\ d.kind = "FIRMWARE" /\ d.size = size /\ d.base = base
  BY <1>2 DEF Device, DeviceType, Kinds
<1>4. Register(d) /\ MapFirmwareRom(N + 1, size, base)
      /\ RegisteredDevices' = Append(RegisteredDevices, d)
  BY <1>2 DEF RegisterFirmwareDevice, Number, Register
<1>5. /\ PagesIn(MemoryPages, Dumped(RegisteredDevices))
      /\ InPageOffset(base) + size <= PageSize
  BY <1>3, <1>4, DumpBefore
<1>6. PICK G, H : G = Dumped(Append(RegisteredDevices, d)) /\ H = Dumped(RegisteredDevices)
  OBVIOUS
<1>7. H \in SUBSET G
  BY <1>1, <1>3, <1>6, DumpedGrows
<1>8. \A g \in G : g.pageOffset \in Nat /\ g.size \in Nat
  BY <1>6, ConstantsNat DEF Dumped, Inside, SectionType
<1>9. PICK Z : Z = 0 .. PageSize
  OBVIOUS
<1>10. LengthsIn(Z, InPageOffset(base), size)
  BY <1>5, <1>9, LengthsFit
<1>11. PICK o : o = InPageOffset(base)
  OBVIOUS
<1>12. o \in 0 .. PageSize - 1
  BY <1>11, OffsetInPage
<1>13. ASSUME NEW g \in H, RegisteredDevices[g.device].kind = "MEMORY", g.size >= size
       PROVE  /\ Section(N + 1, TRUE, 0, o, size) \in G
              /\ KeepsRemainders(G, Z, g)
  <2>1. g \in Inside(RegisteredDevices) /\ g.size \in 0 .. Wrap - 1
    BY <1>6 DEF Dumped, Inside, SectionType
  <2>2. size \in 0 .. Wrap - 1
    BY <1>13, <2>1, ConstantsNat
  <2>3. d.kind # "MEMORY" /\ size <= d.size /\ size <= ExtentOf(d)
    BY <1>3 DEF ExtentOf
  <2>4. Section(N + 1, TRUE, 0, o, size) \in G
    BY <1>1, <1>3, <1>6, <1>12, <2>2, <2>3, RomDumped
  <2>5. \A x \in Nat, z \in Z : Remainder(g, x, z) \in H
    BY <1>1, <1>6, <1>9, <1>13, <2>1, RemainderDumped
  <2> QED  BY <1>7, <2>4, <2>5 DEF KeepsRemainders
<1>14. PICK n : n = N + 1
  OBVIOUS
<1>15. PagesIn(MemoryPages', G)
  <2>1. PagesIn(MemoryPages, H) /\ MapFirmwareRom(n, size, base)
    BY <1>4, <1>5, <1>6, <1>14
  <2>2. \A g \in H : RegisteredDevices[g.device].kind = "MEMORY" /\ g.size >= size =>
            /\ Section(n, TRUE, 0, InPageOffset(base), size) \in G
            /\ KeepsRemainders(G, Z, g)
    BY <1>11, <1>13, <1>14
  <2> HIDE DEF N
  <2> QED  BY <1>7, <1>8, <1>10, <2>1, <2>2, MapFirmwareRomKeeps
<1> QED  BY <1>4, <1>6, <1>15

LEMMA DumpStutterStep ==
  ASSUME DumpInv, UNCHANGED << MemoryPages, RegisteredDevices >>
  PROVE  DumpInv'
<1>1. /\ ResetRomFirst' = ResetRomFirst
      /\ DevicesFillTheirMapping' = DevicesFillTheirMapping
      /\ RomsFitPages' = RomsFitPages
  BY DEF ResetRomFirst, DevicesFillTheirMapping, RomsFitPages, Roms, Devices, Is, Size,
         Base, Extent
<1> QED  BY <1>1 DEF DumpInv, PagesIn

LEMMA DumpInvInit == Init => DumpInv
<1> SUFFICES ASSUME Init PROVE DumpInv
  OBVIOUS
<1>1. \A G : PagesIn(MemoryPages, G)
  BY DEF Init, PagesIn
<1> QED  BY <1>1 DEF DumpInv

LEMMA DumpInvStep == BusInv /\ DumpInv /\ [Next]_vars => DumpInv'
<1> SUFFICES ASSUME BusInv, DumpInv, [Next]_vars PROVE DumpInv'
  OBVIOUS
<1>1. CASE \E size \in MemorySizes : RegisterMemoryDevice(size)
  BY <1>1, DumpMemoryStep DEF DumpInv
<1>2. CASE \E size \in ResetRomFiles : RegisterResetROMDevice(size)
  BY <1>2, DumpResetROMStep DEF DumpInv
<1>3. CASE \E f \in Firmwares : RegisterFirmwareDevice(f.size, f.base)
  <2>1. PICK f \in Firmwares : RegisterFirmwareDevice(f.size, f.base)
    BY <1>3
  <2>2. f.size \in Nat /\ f.base \in Nat
    BY FirmwaresAssumption
  <2> QED  BY <2>1, <2>2, DumpFirmwareStep DEF DumpInv
<1>4. CASE RejectDescriptor
  BY <1>4, DumpStutterStep DEF RejectDescriptor
<1>5. CASE Construct
  BY <1>5, DumpStutterStep DEF Construct
<1>6. CASE UNCHANGED vars
  BY <1>6, DumpStutterStep DEF vars
<1> QED  BY <1>1, <1>2, <1>3, <1>4, <1>5, <1>6 DEF Next

LEMMA DumpInvariance == Spec => []DumpInv
BY DumpInvInit, DumpInvStep, BusInvariance, PTL DEF Spec

LEMMA DumpedInDevice ==
  ASSUME DumpInv, ResetRomFirst, DevicesFillTheirMapping, RomsFitPages, NEW g \in Sections
  PROVE  InDevice(g)
<1>1. PagesIn(MemoryPages, Dumped(RegisteredDevices))
  BY DEF DumpInv
<1>2. PICK p \in DOMAIN MemoryPages : \E i \in DOMAIN MemoryPages[p] : g = MemoryPages[p][i]
  BY DEF Sections
<1>3. g \in Dumped(RegisteredDevices)
  BY <1>1, <1>2, SectionsIn
<1> QED  BY <1>3 DEF Dumped, InDevice

(* The system comes up: the dump at the end of the construction stays in    *)
(* every device, for every page size, list of devices and reset vector, if  *)
(* the devices fill their mapping and no ROM reaches over its page's end.   *)
THEOREM DumpInDevices == Spec => []DumpStaysInDevices
<1>1. DumpInv => DumpStaysInDevices
  BY DumpedInDevice DEF DumpStaysInDevices, RomsFitPages
<1> QED  BY <1>1, DumpInvariance, PTL
=============================================================================
