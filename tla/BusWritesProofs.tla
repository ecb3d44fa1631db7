-------------------------- MODULE BusWritesProofs --------------------------
(***************************************************************************)
(* Writes for every page size and every list of devices: a byte written to *)
(* memory is written once and alone, and no write that has page entries    *)
(* leaves main memory.                                                     *)
(***************************************************************************)
EXTENDS BusWrites, RomProofs

(* A step of the construction registers one device at most. *)
LEMMA RegistersOne ==
  ASSUME BusInv, Next
  PROVE  \/ RegisteredDevices' = RegisteredDevices
         \/ \E d \in DeviceType : RegisteredDevices' = Append(RegisteredDevices, d)
<1>1. ASSUME NEW size \in MemorySizes, RegisterMemoryDevice(size)
      PROVE  \E d \in DeviceType : RegisteredDevices' = Append(RegisteredDevices, d)
  <2>1. Device("MEMORY", size, 0) \in DeviceType
    BY MemorySizesAssumption DEF Device, DeviceType, Kinds
  <2> QED  BY <1>1, <2>1 DEF RegisterMemoryDevice, Register
<1>2. ASSUME NEW size \in ResetRomFiles, RegisterResetROMDevice(size)
      PROVE  \E d \in DeviceType : RegisteredDevices' = Append(RegisteredDevices, d)
  <2>1. Device("RESET_ROM", size, resetVector) \in DeviceType
    BY ResetRomFilesAssumption, ResetRomSizeAssumption, ResetVectorsAssumption
    DEF Device, DeviceType, Kinds, BusInv
  <2> QED  BY <1>2, <2>1 DEF RegisterResetROMDevice, Register
<1>3. ASSUME NEW f \in Firmwares, RegisterFirmwareDevice(f.size, f.base)
      PROVE  \E d \in DeviceType : RegisteredDevices' = Append(RegisteredDevices, d)
  <2>1. Device("FIRMWARE", f.size, f.base) \in DeviceType
    BY FirmwaresAssumption DEF Device, DeviceType, Kinds
  <2> QED  BY <1>3, <2>1 DEF RegisterFirmwareDevice, Register
<1>4. CASE RejectDescriptor \/ Construct
  BY <1>4 DEF RejectDescriptor, Construct
<1> QED  BY <1>1, <1>2, <1>3, <1>4 DEF Next

----------------------------------------------------------------------------
(* The invariant: every device has contents of its size, and the order of    *)
(* the sections is kept by writes too.                                       *)

ContentsInv ==
  /\ BusInv
  /\ RomInv
  /\ writes \in 0 .. MaxWrites
  /\ DOMAIN contents = Devices
  /\ \A k \in Devices : contents[k] \in Seq(Nat) /\ Len(contents[k]) = Size(k)

LEMMA InitialContentsType ==
  ASSUME NEW d \in DeviceType
  PROVE  InitialContents(d) \in Seq(Nat) /\ Len(InitialContents(d)) = d.size
<1>1. d.size \in Nat
  BY DEF DeviceType
<1>2. InitialContents(d) \in [1 .. d.size -> Nat]
  BY FillAssumption DEF InitialContents
<1> QED  BY <1>1, <1>2

LEMMA BuildStep ==
  ASSUME ContentsInv, Build
  PROVE  ContentsInv'
<1>1. BusInv' /\ RomInv' /\ writes' = writes
  BY NextKeepsBusInv, RomInvStep DEF ContentsInv, Build
<1>2. /\ RegisteredDevices \in Seq(DeviceType) /\ RegisteredDevices' \in Seq(DeviceType)
      /\ Len(RegisteredDevices) \in Nat
      /\ \A k \in Devices : k \in Devices' /\ RegisteredDevices'[k] = RegisteredDevices[k]
  <2>1. RegisteredDevices \in Seq(DeviceType) /\ RegisteredDevices' \in Seq(DeviceType)
    BY <1>1 DEF ContentsInv, BusInv
  <2>2. \/ RegisteredDevices' = RegisteredDevices
        \/ \E d \in DeviceType : RegisteredDevices' = Append(RegisteredDevices, d)
    BY RegistersOne DEF ContentsInv, Build
  <2>3. CASE RegisteredDevices' = RegisteredDevices
    BY <2>1, <2>3 DEF Devices
  <2>4. ASSUME NEW d \in DeviceType, RegisteredDevices' = Append(RegisteredDevices, d)
        PROVE  \A k \in Devices :
                 k \in Devices' /\ RegisteredDevices'[k] = RegisteredDevices[k]
    BY <2>1, <2>4 DEF Devices
  <2>5. Len(RegisteredDevices) \in Nat
    BY <2>1
  <2> QED  BY <2>1, <2>2, <2>3, <2>4, <2>5
<1>3. contents' = [k \in Devices' |-> IF k \in Devices THEN contents[k]
                                      ELSE InitialContents(RegisteredDevices'[k])]
  BY DEF Build, ContentsInv, Devices
<1>4. ASSUME NEW k \in Devices'
      PROVE  contents'[k] \in Seq(Nat) /\ Len(contents'[k]) = Size(k)'
  <2>1. CASE k \in Devices
    BY <1>2, <1>3, <2>1 DEF ContentsInv, Size
  <2>2. CASE k \notin Devices
    <3>1. RegisteredDevices'[k] \in DeviceType
      BY <1>2 DEF Devices
    <3> QED  BY <1>3, <2>2, <3>1, InitialContentsType DEF Size
  <2> QED  BY <2>1, <2>2
<1>5. DOMAIN contents' = Devices'
  BY <1>2, <1>3
<1> QED  BY <1>1, <1>4, <1>5 DEF ContentsInv

LEMMA ByteOfValue ==
  ASSUME NEW v \in Written, NEW i \in 1 .. 8
  PROVE  v[i] \in Nat
<1>1. ASSUME NEW s \in Seq(Nat), Len(s) = 8 PROVE s[i] \in Nat
  <2>1. i \in 1 .. Len(s)
    BY <1>1
  <2> QED  BY <2>1, ElementOfSeq
<1>2. v \in Seq(Nat) /\ Len(v) = 8
  BY WrittenAssumption
<1> QED  BY <1>1, <1>2

LEMMA WriteStep ==
  ASSUME ContentsInv, NEW a \in Addresses, NEW v \in Written, NEW n \in Widths,
         WriteBytes(a, v, n)
  PROVE  ContentsInv'
<1>1. BusInv' /\ RomInv'
  <2>1. status' \in {"constructing", "ready", "failed", "undefined"}
    BY DEF WriteBytes, ContentsInv, BusInv
  <2>2. BusInv'
    BY <2>1, StutterStep DEF WriteBytes, ContentsInv
  <2>3. Usable' => Usable
    BY DEF WriteBytes, Usable
  <2>4. RomInv'
    BY <2>3, RomStutterStep DEF WriteBytes, ContentsInv
  <2> QED  BY <2>2, <2>4
<1>2. writes' \in 0 .. MaxWrites
  BY MaxWritesAssumption DEF WriteBytes, ContentsInv
<1>3. Devices' = Devices /\ \A k \in Devices : Size(k)' = Size(k)
  BY DEF WriteBytes, Devices, Size
<1>4. CASE contents' = contents
  BY <1>1, <1>2, <1>3, <1>4 DEF ContentsInv
<1>5. CASE WriteDefined(a, n)
  <2> DEFINE hits(k, j) == {i \in 0 .. n - 1 : << k, j - 1 >> \in Targets(a + i)}
             last(k, j) == CHOOSE i \in hits(k, j) : \A h \in hits(k, j) : h <= i
  <2>1. contents' = [k \in DOMAIN contents |->
                       [j \in DOMAIN contents[k] |->
                          IF DeviceStores(k) /\ hits(k, j) # {} THEN v[1 + last(k, j)]
                                                                ELSE contents[k][j]]]
    BY <1>5 DEF WriteBytes
  <2>2. n \in 1 .. 8
    BY DEF Widths
  <2>3. ASSUME NEW k \in Devices, NEW j \in DOMAIN contents[k], hits(k, j) # {}
        PROVE  v[1 + last(k, j)] \in Nat
    <3>1. hits(k, j) \subseteq 0 .. 7
      BY <2>2
    <3>2. \E i \in hits(k, j) : \A h \in hits(k, j) : h <= i
      <4> HIDE DEF hits
      <4> DEFINE C == {7 - i : i \in hits(k, j)}
      <4>1. C \subseteq Nat /\ C # {}
        BY <2>3, <3>1
      <4>2. PICK c \in C : \A b \in C : ~ (<< b, c >> \in OpToRel(<, Nat))
        <5> HIDE DEF C
        <5>1. PICK b \in C : TRUE
          BY <4>1
        <5> QED  BY <4>1, <5>1, WFMin, NatLessThanWellFounded
      <4>3. PICK i \in hits(k, j) : c = 7 - i
        BY <4>2
      <4>4. ASSUME NEW h \in hits(k, j) PROVE h <= i
        <5>1. 7 - h \in C /\ h \in Int /\ i \in Int
          BY <3>1
        <5>2. 7 - h \in Nat /\ c \in Nat
          BY <4>1, <5>1
        <5>3. ~ (7 - h < c)
          BY <4>2, <5>1, <5>2 DEF OpToRel
        <5> QED  BY <4>3, <5>1, <5>2, <5>3
      <4> QED  BY <4>4
    <3>3. last(k, j) \in hits(k, j)
      <4> HIDE DEF hits
      <4> QED  BY <3>2
    <3>4. last(k, j) \in 0 .. 7
      <4> HIDE DEF hits, last
      <4> QED  BY <3>1, <3>3
    <3>5. PICK x \in 0 .. 7 : x = last(k, j)
      BY <3>4
    <3> HIDE DEF hits, last
    <3>6. 1 + x \in 1 .. 8
      BY <2>2, <3>5
    <3>7. v[1 + x] \in Nat
      BY <3>6, ByteOfValue
    <3> QED  BY <3>5, <3>7
  <2> DEFINE new(k) == [j \in DOMAIN contents[k] |->
                          IF DeviceStores(k) /\ hits(k, j) # {} THEN v[1 + last(k, j)]
                                                                ELSE contents[k][j]]
  <2>4. DOMAIN contents' = Devices /\ \A k \in Devices : contents'[k] = new(k)
    BY <2>1 DEF ContentsInv
  <2>5. ASSUME NEW k \in Devices
        PROVE  new(k) \in Seq(Nat) /\ Len(new(k)) = Size(k)
    <3>1. DOMAIN contents[k] = 1 .. Size(k) /\ Size(k) \in Nat
          /\ \A j \in DOMAIN contents[k] : contents[k][j] \in Nat
      BY DEF ContentsInv
    <3> HIDE DEF hits, last
    <3>2. new(k) \in [1 .. Size(k) -> Nat]
      BY <2>3, <3>1
    <3> HIDE DEF new
    <3> QED  BY <3>1, <3>2
  <2> HIDE DEF new
  <2> QED  BY <1>1, <1>2, <1>3, <2>4, <2>5 DEF ContentsInv
<1> QED  BY <1>4, <1>5 DEF WriteBytes

LEMMA ContentsInvariance == WriteSpec => []ContentsInv
<1>1. WriteInit => ContentsInv
  <2> SUFFICES ASSUME WriteInit PROVE ContentsInv
    OBVIOUS
  <2>1. MemoryPages = << >> /\ RegisteredDevices = << >>
    BY DEF WriteInit, Init
  <2>2. \A G : PagesIn(MemoryPages, G)
    BY <2>1 DEF PagesIn
  <2>3. BusInv
    BY <2>1, <2>2 DEF WriteInit, Init, BusInv
  <2>4. DOMAIN contents = {} /\ Devices = {}
    BY <2>1 DEF WriteInit, Devices
  <2>5. writes \in 0 .. MaxWrites
    BY MaxWritesAssumption DEF WriteInit
  <2>6. RomInv
    BY RomInvInit DEF WriteInit
  <2> QED  BY <2>3, <2>4, <2>5, <2>6 DEF ContentsInv
<1>2. ContentsInv /\ [WriteNext]_busVars => ContentsInv'
  <2> SUFFICES ASSUME ContentsInv, [WriteNext]_busVars PROVE ContentsInv'
    OBVIOUS
  <2>1. CASE UNCHANGED busVars
    <3>1. BusInv'
      BY <2>1, StutterStep DEF busVars, vars, ContentsInv, BusInv
    <3>2. RomInv'
      BY <2>1, RomStutterStep DEF busVars, vars, ContentsInv, Usable
    <3> QED  BY <2>1, <3>1, <3>2 DEF busVars, vars, ContentsInv, Devices, Size
  <2> QED  BY <2>1, BuildStep, WriteStep DEF WriteNext
<1> QED  BY <1>1, <1>2, PTL DEF WriteSpec

----------------------------------------------------------------------------
(* What follows from it. *)

(* A device's contents keep the length its vector was built with, whatever  *)
(* is registered after it and whatever is written.                          *)
THEOREM ContentsTypeInvariance == WriteSpec => []ContentsTypeOK
<1>1. ContentsInv => ContentsTypeOK
  BY BusInvTypeOK DEF ContentsInv, ContentsTypeOK
<1> QED  BY <1>1, ContentsInvariance, PTL

(* Two sections that cover one offset are not clear of each other. *)
LEMMA CoveredNotClear ==
  ASSUME NEW x, NEW y, NEW o \in Nat,
         x.pageOffset \in Nat, x.size \in Nat, o >= x.pageOffset, o < x.pageOffset + x.size,
         y.pageOffset \in Nat, y.size \in Nat, o >= y.pageOffset, o < y.pageOffset + y.size
  PROVE  ~ClearOf(x, y)
BY DEF ClearOf

(* In a page of a sound vector whose ROMs are apart and fit it, a byte of    *)
(* memory is covered by one section only.                                    *)
LEMMA MemoryCoveredOnce ==
  ASSUME NEW D \in Seq(DeviceType), NEW v \in Nat, NEW p,
         NEW s \in Seq(SectionType(Len(D))), PageInv(D, v, p, s), Sound(v), AllApart(D),
         \A k \in DOMAIN D :
           D[k].kind = "FIRMWARE" => InPageOffset(D[k].base) + D[k].size <= PageSize,
         NEW o \in Nat, NEW i \in DOMAIN s, NEW j \in DOMAIN s,
         o >= s[i].pageOffset, o < s[i].pageOffset + s[i].size,
         o >= s[j].pageOffset, o < s[j].pageOffset + s[j].size,
         D[s[i].device].kind = "MEMORY"
  PROVE  i = j
<1> DEFINE g == s[i]
           h == s[j]
           ov == InPageOffset(v)
<1>1. \A x \in SectionType(Len(D)) :
        x.device \in DOMAIN D /\ x.pageOffset \in Nat /\ x.size \in Nat
  <2>1. DOMAIN D = 1 .. Len(D) /\ 0 .. Wrap - 1 \subseteq Nat
    BY ConstantsNat
  <2> QED  BY <2>1 DEF SectionType
<1>2. /\ g \in Range(s) /\ g \in SectionType(Len(D))
      /\ h \in Range(s) /\ h \in SectionType(Len(D))
  BY DEF Range
<1>3. ov \in Nat /\ ResetRomSize \in Nat /\ ResetRomSize > 0
  BY OffsetInPage, ConstantsNat, ResetRomSizeAssumption
<1>4. D[h.device].kind \in {"MEMORY", "RESET_ROM", "FIRMWARE"}
  <2>1. D[h.device] \in DeviceType
    BY <1>1, <1>2
  <2> QED  BY <2>1 DEF DeviceType, Kinds
<1>5. PICK x, y : x = g /\ y = h
  OBVIOUS
<1>6. /\ x \in Range(s) /\ x.pageOffset \in Nat /\ x.size \in Nat
      /\ y \in Range(s) /\ y.pageOffset \in Nat /\ y.size \in Nat /\ y.device \in DOMAIN D
      /\ o >= x.pageOffset /\ o < x.pageOffset + x.size
      /\ o >= y.pageOffset /\ o < y.pageOffset + y.size
      /\ D[x.device].kind = "MEMORY"
  BY <1>1, <1>2, <1>5
<1>7. \A z \in Range(s) : Ruled(D, v, p) /\ TailOf(D, v, p, z) =>
        ov + ResetRomSize <= z.pageOffset
  BY DEF PageInv, MemoryAround
<1>8. \A z \in Range(s) : D[z.device].kind = "MEMORY" =>
        \/ TailOf(D, v, p, z)
        \/ Ruled(D, v, p) /\ z.pageOffset = 0 /\ z.size <= ov /\ MemoryHead(D, v, p, z)
  BY DEF TailOf, HeadOf, MemoryHead
<1> HIDE DEF g, h, ov
<1>9. D[y.device].kind # "FIRMWARE"
  <2> SUFFICES ASSUME D[y.device].kind = "FIRMWARE" PROVE FALSE
    OBVIOUS
  <2>1. PICK k \in DOMAIN D : k = y.device
    BY <1>6
  <2>2. p = Home(D, k) /\ y = FirmwareSection(D, k)
    BY <1>6, <2>1 DEF PageInv, RomsAtHome
  <2>3. Whole(D, v, k)
    BY <2>1 DEF Whole, AllApart
  <2>4. x = y \/ ClearOf(x, y)
    BY <1>6, <2>2, <2>3 DEF PageInv, FirmwareClear
  <2>5. ~ClearOf(x, y)
    BY <1>6, CoveredNotClear
  <2> QED  BY <1>6, <2>4, <2>5
<1>10. D[y.device].kind # "RESET_ROM"
  <2> SUFFICES ASSUME D[y.device].kind = "RESET_ROM" PROVE FALSE
    OBVIOUS
  <2>1. Ruled(D, v, p) /\ y = RomSection(v, y.device)
    BY <1>6 DEF PageInv, RomsAtHome
  <2>2. y.pageOffset = ov /\ y.size = ResetRomSize
    BY <2>1 DEF RomSection, Section, ov
  <2>3. \/ ov + ResetRomSize <= x.pageOffset
        \/ x.pageOffset = 0 /\ x.size <= ov
    BY <1>6, <1>7, <1>8, <2>1
  <2> QED  BY <1>3, <1>6, <2>2, <2>3
<1>11. D[y.device].kind = "MEMORY"
  BY <1>4, <1>5, <1>9, <1>10
<1>12. CASE TailOf(D, v, p, x) /\ TailOf(D, v, p, y)
  BY <1>5, <1>12 DEF PageInv, OneTail, g, h
<1>13. CASE Ruled(D, v, p) /\ MemoryHead(D, v, p, x) /\ MemoryHead(D, v, p, y)
  BY <1>5, <1>13 DEF PageInv, MemoryAround, g, h
<1>14. ASSUME Ruled(D, v, p), TailOf(D, v, p, x), y.pageOffset = 0, y.size <= ov
       PROVE  FALSE
  <2>1. ov + ResetRomSize <= x.pageOffset
    BY <1>6, <1>7, <1>14
  <2> QED  BY <1>3, <1>6, <1>14, <2>1
<1>15. ASSUME Ruled(D, v, p), TailOf(D, v, p, y), x.pageOffset = 0, x.size <= ov
       PROVE  FALSE
  <2>1. ov + ResetRomSize <= y.pageOffset
    BY <1>6, <1>7, <1>15
  <2> QED  BY <1>3, <1>6, <1>15, <2>1
<1> QED  BY <1>6, <1>8, <1>11, <1>12, <1>13, <1>14, <1>15

(* Whatever is mapped, sorted and pruned on a page, a byte written to memory *)
(* is written there once and reaches no ROM in front of it, for every page   *)
(* size, every sound reset vector and every list of devices whose ROMs do    *)
(* not overlap and fit their pages.                                          *)
THEOREM WrittenAlone == WriteSpec => []MemoryWrittenAlone
<1>1. ContentsInv => MemoryWrittenAlone
  <2> SUFFICES ASSUME ContentsInv, status = "ready", ResetRomFirst, FirmwareEndsFit,
                      VectorSound,
                      \A k \in Roms : InPageOffset(Base(k)) + Extent(k) <= PageSize,
                      \A j, k \in Roms : j # k => Disjoint(j, k),
                      NEW a \in 0 .. Len(MemoryPages) - 1,
                      NEW t \in Targets(a), NEW u \in Targets(a), DeviceStores(t[1])
               PROVE  u = t
    BY DEF MemoryWrittenAlone
  <2> DEFINE D == RegisteredDevices
             v == resetVector
             o == InPageOffset(a)
  <2>1. BusInv /\ PagesInv(D, v, MemoryPages)
    BY DEF ContentsInv, RomInv, Usable
  <2>2. D \in Seq(DeviceType) /\ v \in Nat /\ PagesIn(MemoryPages, SectionType(Len(D)))
    BY <2>1, ResetVectorsAssumption DEF BusInv
  <2>3. PICK p, s : p = a + 1 /\ s = MemoryPages[p]
    OBVIOUS
  <2>4. a \in Nat /\ p \in DOMAIN MemoryPages
    BY <2>2, <2>3 DEF PagesIn
  <2>5. s \in Seq(SectionType(Len(D))) /\ PageInv(D, v, p, s)
    <3>1. PICK G : G = SectionType(Len(D))
      OBVIOUS
    <3>2. s \in NonEmpty(G)
      BY <2>2, <2>3, <2>4, <3>1, ElementOfSeq DEF PagesIn
    <3>3. PageInv(D, v, p, s)
      BY <2>1, <2>3, <2>4 DEF PagesInv
    <3> QED  BY <3>1, <3>2, <3>3 DEF NonEmpty
  <2>6. o \in Nat
    BY <2>4, OffsetNat
  <2>7. Sound(v)
    BY DEF Sound, VectorSound
  <2>8. AllApart(D)
    <3> SUFFICES ASSUME NEW j \in DOMAIN D, NEW k \in DOMAIN D,
                        D[j].kind # "MEMORY", D[k].kind # "MEMORY", j # k
                 PROVE  Apart(D, j, k)
      BY DEF AllApart
    <3>1. Disjoint(j, k)
      BY DEF Roms, Devices, Is
    <3> QED  BY <3>1 DEF Apart, Mapped, Disjoint, Extent, Base, Size, Is
  <2>9. \A k \in DOMAIN D :
          D[k].kind = "FIRMWARE" => InPageOffset(D[k].base) + D[k].size <= PageSize
    BY DEF Roms, Devices, Is, Base, Extent, Size
  <2>10. PICK i \in DOMAIN s, j \in DOMAIN s :
           /\ o >= s[i].pageOffset /\ o < s[i].pageOffset + s[i].size
           /\ o >= s[j].pageOffset /\ o < s[j].pageOffset + s[j].size
           /\ t = << s[i].device, s[i].DeviceOffset + (o - s[i].pageOffset) >>
           /\ u = << s[j].device, s[j].DeviceOffset + (o - s[j].pageOffset) >>
    BY <2>3 DEF Targets
  <2>11. D[s[i].device].kind = "MEMORY"
    BY <2>10 DEF DeviceStores
  <2> HIDE DEF D, v, o
  <2>12. i = j
    BY <2>2, <2>5, <2>6, <2>7, <2>8, <2>9, <2>10, <2>11, MemoryCoveredOnce
  <2> QED  BY <2>10, <2>12
<1> QED  BY <1>1, ContentsInvariance, PTL

(* The remainders around ROMs never lead a write out of main memory: a      *)
(* write whose bytes have a page entry is defined.                          *)
THEOREM WritesWithPagesDefined == WriteSpec => []SmallWritesDefined
<1>1. ContentsInv => SmallWritesDefined
  <2> SUFFICES ASSUME ContentsInv, ResetRomFirst, DevicesFillTheirMapping,
                      NEW n \in Widths, NEW a \in Addresses, a + n <= Len(MemoryPages),
                      NEW i \in 0 .. n - 1
               PROVE  a + i < Len(MemoryPages) /\ \A t \in Targets(a + i) : InsideDevice(t)
    BY DEF SmallWritesDefined, WriteDefined
  <2>1. /\ PagesIn(MemoryPages, Inside(RegisteredDevices))
        /\ RegisteredDevices \in Seq(DeviceType)
    BY FilledHoldsAPage DEF ContentsInv, BusInv
  <2>2. a \in Nat /\ Len(MemoryPages) \in Nat /\ n \in Nat /\ i \in Nat
    <3>1. PICK L \in Nat, P \in Nat \ {0} : L = Len(MemoryPages) /\ P = PageSize
      BY <2>1, PageSizeAssumption DEF PagesIn
    <3>2. a \in Nat
      BY <3>1 DEF Addresses
    <3> QED  BY <3>1, <3>2 DEF Widths
  <2>3. a + i \in Nat /\ a + i < Len(MemoryPages)
    BY <2>2
  <2>4. a + i + 1 \in DOMAIN MemoryPages
    BY <2>1, <2>3 DEF PagesIn
  <2>5. InPageOffset(a + i) \in 0 .. PageSize - 1
    BY <2>3, OffsetInPage
  <2>6. ASSUME NEW t \in Targets(a + i) PROVE InsideDevice(t)
    <3> DEFINE page == MemoryPages[a + i + 1]
               o == InPageOffset(a + i)
    <3>1. PICK g \in Inside(RegisteredDevices) :
             /\ o >= g.pageOffset
             /\ o < g.pageOffset + g.size
             /\ t = << g.device, g.DeviceOffset + (o - g.pageOffset) >>
      <4>1. PICK j \in DOMAIN page :
               /\ o >= page[j].pageOffset
               /\ o < page[j].pageOffset + page[j].size
               /\ t = << page[j].device, page[j].DeviceOffset + (o - page[j].pageOffset) >>
        BY <2>6 DEF Targets
      <4>2. page[j] \in Inside(RegisteredDevices)
        BY <2>1, <2>4, SectionsIn
      <4> QED  BY <4>1, <4>2
    <3> DEFINE device == RegisteredDevices[g.device]
    <3>2. /\ g.device \in 1 .. Len(RegisteredDevices) /\ g.DirectAccess \in BOOLEAN
          /\ g.DeviceOffset \in Nat /\ g.pageOffset \in Nat /\ g.size \in Nat
          /\ InsideSection(g, device)
      BY ConstantsNat DEF Inside, SectionType
    <3>3. device.size \in Nat
      <4>1. device \in DeviceType
        BY <2>1, <3>2
      <4> QED  BY <4>1 DEF DeviceType
    <3>4. t[1] = g.device /\ t[2] = g.DeviceOffset + (o - g.pageOffset)
      BY <3>1
    <3>5. o \in Nat /\ o < PageSize
      BY <2>5, ConstantsNat
    <3>6. device.kind = "MEMORY" => device.size % PageSize = 0
      BY <3>2 DEF DevicesFillTheirMapping, Devices, Is, Size
    <3> HIDE DEF o, device
    <3>7. device.kind = "MEMORY" => g.DeviceOffset + (o - g.pageOffset) < device.size
      <4>1. CASE g.DirectAccess
        BY <3>1, <3>2, <3>3, <3>5, <3>6, <4>1, ConstantsNat DEF InsideSection
      <4>2. CASE ~g.DirectAccess
        BY <3>1, <3>2, <3>3, <3>5, <3>6, <4>2, ConstantsNat DEF InsideSection
      <4> QED  BY <4>1, <4>2
    <3> QED  BY <3>4, <3>7 DEF InsideDevice, DeviceStores, device
  <2> QED  BY <2>3, <2>6
<1> QED  BY <1>1, ContentsInvariance, PTL
=============================================================================
