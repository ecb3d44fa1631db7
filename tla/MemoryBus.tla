----------------------------- MODULE MemoryBus -----------------------------
(***************************************************************************)
(* The page table of the memory bus (MEMORY.cpp) and the construction of   *)
(* the system's devices in command-line order (SYSTEM_STATE.cpp).          *)
(*                                                                         *)
(* A page is a sequence of sections; Read8 takes the first section that    *)
(* covers the in-page offset.  The contents of a device never change here, *)
(* so a byte is identified by its device and its offset in that device.    *)
(* Devices are numbered in the order they are registered.                  *)
(*                                                                         *)
(* Undefined behaviour (an index outside MemoryPages, an iterator used     *)
(* after its vector changed) ends in status "undefined"; where a release   *)
(* build gets away with it and a checked-iterator build stops, both        *)
(* outcomes are possible.                                                  *)
(***************************************************************************)
EXTENDS Integers, Sequences, FiniteSets

CONSTANTS
  PageSize,       \* 4096
  Wrap,           \* uint32_t arithmetic is modulo Wrap
  ResetRomSize,   \* the 0xF RegisterResetROMDevice passes
  ResetRomFiles,  \* the lengths of reset ROM files explored
  MemorySizes,    \* the sizes of MEMORY devices explored, in bytes
  Firmwares,      \* the FIRMWARE devices explored: records [size, base]
  ResetVectors,   \* the reset vectors explored
  MaxDevices      \* bound on the devices of one command line

ASSUME PageSizeAssumption == PageSize \in Nat \ {0}
ASSUME WrapAssumption == Wrap \in Nat /\ Wrap > 2 * PageSize
ASSUME ResetRomSizeAssumption == ResetRomSize \in 1 .. PageSize - 1
ASSUME ResetRomFilesAssumption == ResetRomFiles \subseteq 0 .. ResetRomSize + 1
ASSUME MemorySizesAssumption == MemorySizes \subseteq Nat
ASSUME FirmwaresAssumption == Firmwares \subseteq [size : Nat, base : Nat]
ASSUME ResetVectorsAssumption == ResetVectors \subseteq Nat
ASSUME MaxDevicesAssumption == MaxDevices \in Nat

VARIABLES
  MemoryPages,        \* page p is MemoryPages[p + 1], a sequence of sections
  RegisteredDevices,  \* records [kind, size, base]
  resetVector,        \* the ResetVector argument
  status              \* "constructing", "ready", "failed" or "undefined"

vars == << MemoryPages, RegisteredDevices, resetVector, status >>

GetPageNumber(a) == a \div PageSize
InPageOffset(a) == a % PageSize

Section(device, direct, devOffset, offset, size) ==
  [device |-> device, DirectAccess |-> direct, DeviceOffset |-> devOffset,
   pageOffset |-> offset, size |-> size]

(* What is left of the page around a mapped device: no flags, offset 0.  A  *)
(* ROM that reaches over the page leaves a size below zero, which wraps.    *)
Remainder(section, offset, size) ==
  Section(section.device, FALSE, 0, offset % Wrap, size % Wrap)

----------------------------------------------------------------------------
(* Sections of one page. *)

(* The elements of s at the indices keep, ordered by Before. *)
Arrange(s, keep, Before(_, _)) ==
  [k \in 1 .. Cardinality(keep) |->
     s[CHOOSE i \in keep : Cardinality({j \in keep : Before(j, i)}) = k - 1]]

(* std::sort on at most 32 elements is an insertion sort here: stable. *)
SortSections(s) ==
  Arrange(s, DOMAIN s,
          LAMBDA j, i : \/ s[j].pageOffset < s[i].pageOffset
                        \/ s[j].pageOffset = s[i].pageOffset /\ j < i)

EmptySections(s) == {i \in DOMAIN s : s[i].size = 0}

(* Faulty variant: the empty section is erased and then the one after it. *)
PruneBoth(s) ==
  Arrange(s, DOMAIN s \ (EmptySections(s) \cup {i + 1 : i \in EmptySections(s)}),
          LAMBDA j, i : j < i)

(* erase(section.base()) takes the element after the empty one. *)
PruneEmptySections(s) ==
  Arrange(s, DOMAIN s \ {i + 1 : i \in EmptySections(s)}, LAMBDA j, i : j < i)

(* erase(end()) when the last section is empty. *)
PruneUndefined(s) == Len(s) \in EmptySections(s)

(* The iterator outlives an erase: a checked build stops. *)
PruneChecked(s) == EmptySections(s) # {}

----------------------------------------------------------------------------
(* The mapping operations: the page table each leaves behind. *)

(* Faulty variant: the device offset is advanced before it is stored. *)
MainMemoryPagesAhead(n, size) ==
  [p \in 1 .. (size + PageSize - 1) \div PageSize |->
     << Section(n, TRUE, p * PageSize, 0, PageSize) >>]

(* One section per page, of the n-th device. *)
MainMemoryPages(n, size) ==
  [p \in 1 .. (size + PageSize - 1) \div PageSize |->
     << Section(n, TRUE, (p - 1) * PageSize, 0, PageSize) >>]

(* Pages MapResetRom walks, the last one included even if no byte is in it. *)
ResetRomPages ==
  GetPageNumber(resetVector) .. GetPageNumber(resetVector + ResetRomSize)

(* Faulty variant: the rest of the page stays one section, ahead of the ROM. *)
SplitForResetRomUncut(s, n) ==
  SortSections(<< Remainder(s[1], 0, PageSize) >>
    \o [s EXCEPT ![1] = Section(n, TRUE, 0, InPageOffset(resetVector), ResetRomSize)])

(* Sections[0] becomes the ROM; what it was is pushed back around it. *)
SplitForResetRom(s, n) ==
  LET o == InPageOffset(resetVector)
      end == o + ResetRomSize
      rom == Section(n, TRUE, 0, o, ResetRomSize)
      around ==
        CASE o = 0 -> << Remainder(s[1], ResetRomSize, PageSize - ResetRomSize) >>
          [] o # 0 /\ end = PageSize -> << Remainder(s[1], 0, PageSize - ResetRomSize) >>
          [] OTHER -> << Remainder(s[1], 0, PageSize - o),
                         Remainder(s[1], end + 1, PageSize - end) >>
  IN SortSections([s EXCEPT ![1] = rom] \o around)

(* Sections of the first firmware page at or after the firmware's offset. *)
Candidates(s, base) == {i \in DOMAIN s : s[i].pageOffset >= InPageOffset(base)}

FirstCandidate(s, base) ==
  CHOOSE i \in Candidates(s, base) : \A j \in Candidates(s, base) : i <= j

(* Faulty variants: the section is one byte short; it keeps the size of the *)
(* section it replaces.                                                     *)
SplitForFirmwareShort(s, i, n, size, base) ==
  LET o == InPageOffset(base)
  IN [s EXCEPT ![i] = Section(n, TRUE, 0, o, size - 1)]
       \o << Remainder(s[i], o + size - 1, PageSize - (o + size - 1)) >>

SplitForFirmwareLong(s, i, n, size, base) ==
  [s EXCEPT ![i] = Section(n, TRUE, 0, InPageOffset(base), s[i].size)]

SplitForFirmware(s, i, n, size, base) ==
  LET o == InPageOffset(base)
  IN [s EXCEPT ![i] = Section(n, TRUE, 0, o, size)]
       \o << Remainder(s[i], o + size, PageSize - (o + size)) >>

----------------------------------------------------------------------------
(* Registration, in command-line order. *)

Init ==
  /\ MemoryPages = << >>
  /\ RegisteredDevices = << >>
  /\ resetVector \in ResetVectors
  /\ status = "constructing"

Device(kind, size, base) == [kind |-> kind, size |-> size, base |-> base]
Number == Len(RegisteredDevices) + 1

Register(device) ==
  /\ status = "constructing"
  /\ Len(RegisteredDevices) < MaxDevices
  /\ RegisteredDevices' = Append(RegisteredDevices, device)
  /\ UNCHANGED resetVector

Undefined == status' = "undefined" /\ UNCHANGED MemoryPages
Abort == status' = "failed" /\ UNCHANGED MemoryPages

(* MapMainMemory drops every section mapped before. *)
RegisterMemoryDevice(size) ==
  /\ Register(Device("MEMORY", size, 0))
  /\ MemoryPages' = MainMemoryPages(Number, size)
  /\ UNCHANGED status

MapResetRom(n) ==
  LET split == [p \in DOMAIN MemoryPages |->
                  IF p - 1 \in ResetRomPages THEN SplitForResetRom(MemoryPages[p], n)
                                             ELSE MemoryPages[p]]
      touched == {p + 1 : p \in ResetRomPages}
  IN IF ~(touched \subseteq DOMAIN MemoryPages)
          \/ \E p \in touched \cap DOMAIN MemoryPages : PruneUndefined(split[p])
       THEN Undefined
       ELSE \/ /\ MemoryPages' = [p \in DOMAIN split |->
                                   IF p \in touched THEN PruneEmptySections(split[p])
                                                    ELSE split[p]]
               /\ UNCHANGED status
            \/ (\E p \in touched : PruneChecked(split[p])) /\ Undefined

(* The device holds the file; what is mapped is ResetRomSize bytes. *)
RegisterResetROMDevice(size) ==
  /\ Register(Device("RESET_ROM", size, resetVector))
  /\ MapResetRom(Number)

(* No Device option, a descriptor that has not nine parts or an unknown    *)
(* type, a ROM file that is missing, a reset ROM longer than 16 bytes: the *)
(* constructor exits or throws.                                            *)
RejectDescriptor ==
  /\ status = "constructing"
  /\ Len(RegisteredDevices) < MaxDevices
  /\ status' = "failed"
  /\ UNCHANGED << MemoryPages, RegisteredDevices, resetVector >>

(* The first page is sorted but not pruned, the later ones are pruned. *)
FinishFirmware(pages, start) ==
  LET later == {p \in DOMAIN pages : p > start}
  IN IF \E p \in later : PruneUndefined(pages[p])
       THEN Undefined
       ELSE \/ /\ MemoryPages' = [p \in DOMAIN pages |->
                                   IF p \in later THEN PruneEmptySections(pages[p])
                                   ELSE IF p = start THEN SortSections(pages[p])
                                   ELSE pages[p]]
               /\ UNCHANGED status
            \/ (\E p \in later : PruneChecked(pages[p])) /\ Undefined

(* push_back inside the range-for: only a release build survives it, and   *)
(* only when the section it split was the last one.                        *)
MapFirmwareRom(n, size, base) ==
  LET start == GetPageNumber(base) + 1
      s == MemoryPages[start]
      i == FirstCandidate(s, base)
  IN IF start \notin DOMAIN MemoryPages \/ Candidates(s, base) = {}
       THEN FinishFirmware(MemoryPages, start)
     ELSE IF RegisteredDevices[s[i].device].kind # "MEMORY" THEN Abort
     ELSE IF s[i].size < size THEN Abort
     ELSE \/ Undefined
          \/ /\ i = Len(s)
             /\ FinishFirmware(
                  [MemoryPages EXCEPT ![start] = SplitForFirmware(s, i, n, size, base)],
                  start)

RegisterFirmwareDevice(size, base) ==
  /\ Register(Device("FIRMWARE", size, base))
  /\ MapFirmwareRom(Number, size, base)

Sections == UNION {{MemoryPages[p][i] : i \in DOMAIN MemoryPages[p]} :
                     p \in DOMAIN MemoryPages}

(* What DumpMemoryToStdout reads of a section is in the section's device. *)
InDevice(section) ==
  section.size > 0 =>
    section.DeviceOffset + section.size <= RegisteredDevices[section.device].size

(* ConstructAndRegisterDevices went through all descriptors; the dump of    *)
(* memory reads every section through its device.  A read past the device   *)
(* stops a debug build for ever and is out of bounds in a release build.    *)
Construct ==
  /\ status = "constructing"
  /\ RegisteredDevices # << >>
  /\ \/ status' = "ready"
     \/ (\E section \in Sections : ~InDevice(section)) /\ status' = "undefined"
  /\ UNCHANGED << MemoryPages, RegisteredDevices, resetVector >>

Next ==
  \/ \E size \in MemorySizes : RegisterMemoryDevice(size)
  \/ \E size \in ResetRomFiles : RegisterResetROMDevice(size)
  \/ \E f \in Firmwares : RegisterFirmwareDevice(f.size, f.base)
  \/ RejectDescriptor
  \/ Construct

Spec == Init /\ [][Next]_vars

----------------------------------------------------------------------------
(* Read8. *)

Addresses == 0 .. Len(MemoryPages) * PageSize - 1

Covering(a) ==
  LET s == MemoryPages[GetPageNumber(a) + 1]
  IN {i \in DOMAIN s : /\ InPageOffset(a) >= s[i].pageOffset
                       /\ InPageOffset(a) < s[i].pageOffset + s[i].size}

NoByte == [device |-> 0, offset |-> 0]   \* Read8 returns 0xFF

(* The byte Read8 returns: a direct section ignores its DeviceOffset. *)
Read8(a) ==
  IF Covering(a) = {} THEN NoByte
  ELSE LET i == CHOOSE i \in Covering(a) : \A j \in Covering(a) : i <= j
           section == MemoryPages[GetPageNumber(a) + 1][i]
           off == InPageOffset(a) - section.pageOffset
       IN [device |-> section.device,
           offset |-> IF section.DirectAccess THEN off ELSE section.DeviceOffset + off]

----------------------------------------------------------------------------
(* Properties. *)

Kinds == {"MEMORY", "RESET_ROM", "FIRMWARE"}

(* No sequence of mappings, sorts and prunes leaves a page without a section *)
(* (MapResetRom takes Sections[0] of every page it walks) or a section       *)
(* without a registered device (Read8 and the dump index the device list     *)
(* with it).  The fields are in 32 bits because the code narrows them to     *)
(* uint32_t, also where a subtraction goes below zero and wraps.             *)
TypeOK ==
  /\ RegisteredDevices \in Seq([kind : Kinds, size : Nat, base : Nat])
  /\ resetVector \in ResetVectors
  /\ status \in {"constructing", "ready", "failed", "undefined"}
  /\ \A p \in DOMAIN MemoryPages :
       /\ Len(MemoryPages[p]) > 0
       /\ MemoryPages[p] \in
            Seq([device : DOMAIN RegisteredDevices, DirectAccess : BOOLEAN,
                 DeviceOffset : Nat, pageOffset : 0 .. Wrap - 1, size : 0 .. Wrap - 1])

Usable == status \in {"constructing", "ready"}

Is(k, kind) == RegisteredDevices[k].kind = kind
Size(k) == RegisteredDevices[k].size
Base(k) == RegisteredDevices[k].base
Extent(k) == IF Is(k, "RESET_ROM") THEN ResetRomSize ELSE Size(k)

Devices == DOMAIN RegisteredDevices
Roms == {k \in Devices : ~Is(k, "MEMORY")}

(* MEMORY.cpp:149: the reset ROM is the first device mapped over memory. *)
ResetRomFirst ==
  \A k \in Devices : Is(k, "RESET_ROM") =>
     \A j \in Devices : j < k <=> Is(j, "MEMORY")

ReadsWhole(k) == \A i \in 0 .. Extent(k) - 1 :
  Base(k) + i \in Addresses /\ Read8(Base(k) + i) = [device |-> k, offset |-> i]

(* No firmware ends beyond the 4 GiB of the 32-bit fields. *)
FirmwareEndsFit ==
  \A k \in Devices : Is(k, "FIRMWARE") => InPageOffset(Base(k)) + Size(k) < Wrap

(* The vectors at which the remainder MapResetRom puts before the ROM ends  *)
(* before it: the start of a page, where there is none; the last place in a *)
(* page; the upper half.  Elsewhere the overlong remainder hides the ROM.   *)
VectorSound ==
  LET o == InPageOffset(resetVector)
  IN \/ o = 0 \/ o + ResetRomSize = PageSize
     \/ 2 * o >= PageSize /\ o + ResetRomSize < PageSize

(* The core fetches its first instruction from the reset ROM: a ROM mapped  *)
(* first is read back whole at the reset vector, and no firmware mapped     *)
(* after it, on the same page or not, hides a byte of it.                   *)
ResetRomVisible ==
  Usable /\ ResetRomFirst /\ FirmwareEndsFit /\ VectorSound =>
    \A k \in Devices : Is(k, "RESET_ROM") => ReadsWhole(k)

Disjoint(j, k) == Base(j) + Extent(j) <= Base(k) \/ Base(k) + Extent(k) <= Base(j)

(* MapResetRom splits the page of k, at a vector where that hides bytes. *)
BesideUnsoundRom(k) ==
  ~VectorSound /\ GetPageNumber(Base(k)) \in ResetRomPages
               /\ \E r \in Devices : Is(r, "RESET_ROM")

(* A firmware that overlaps no other ROM and no end of a page is mapped     *)
(* whole at its base or not at all: the page is never left with part of it, *)
(* by later mappings and the pruning they do either.                        *)
FirmwareWholeOrAbsent ==
  Usable /\ ResetRomFirst /\ FirmwareEndsFit =>
    \A k \in Devices :
       /\ Is(k, "FIRMWARE")
       /\ InPageOffset(Base(k)) + Size(k) <= PageSize
       /\ \A j \in Roms \ {k} : Disjoint(j, k)
       /\ ~BesideUnsoundRom(k)
       => \/ ReadsWhole(k)
          \/ \A i \in 0 .. Size(k) - 1 :
                Base(k) + i \in Addresses => Read8(Base(k) + i).device # k

(* A firmware at the start of a page and no longer than it, where no reset   *)
(* ROM is.                                                                  *)
StartsAPage(k) ==
  /\ Is(k, "FIRMWARE")
  /\ InPageOffset(Base(k)) = 0 /\ Size(k) \in 1 .. PageSize
  /\ (\E r \in Devices : Is(r, "RESET_ROM")) => GetPageNumber(Base(k)) \notin ResetRomPages

(* Devices.md:42 promises every ROM its preferred base.  What the code      *)
(* keeps of it: in memory that was mapped before, a firmware at the start   *)
(* of a page is there whole, and stays, whatever was mapped to its page     *)
(* before or is later.                                                      *)
FirmwareAtPreferredBase ==
  Usable /\ FirmwareEndsFit /\ (\A k \in Devices : Is(k, "MEMORY") => k = 1) =>
    \A k \in Devices : StartsAPage(k) /\ Base(k) \in Addresses => ReadsWhole(k)

(* No memory ends inside its first page. *)
MemoryHoldsAPage ==
  \A k \in Devices : Is(k, "MEMORY") => Size(k) = 0 \/ Size(k) >= PageSize

(* No read leaves what is mapped of the device it is routed to (what        *)
(* ValidateDeviceAccess tests in debug builds and the direct path never      *)
(* does), also not on the last page of a memory that is no whole number of   *)
(* pages, in the remainders around ROMs and in a firmware that reaches over  *)
(* its page.  So the only bytes read past a device's data are those that a   *)
(* reset ROM file lacks of ResetRomSize.                                     *)
ReadsStayInDevice ==
  Usable /\ ResetRomFirst /\ MemoryHoldsAPage =>
    \A a \in Addresses :
       Read8(a) # NoByte => Read8(a).offset < Extent(Read8(a).device)

(* Memory is whole pages and a reset ROM file fills what is mapped of it. *)
DevicesFillTheirMapping ==
  \A k \in Devices : /\ Is(k, "MEMORY") => Size(k) % PageSize = 0
                     /\ Is(k, "RESET_ROM") => Size(k) >= ResetRomSize

(* The dump at the end of the construction reads whole sections, reachable  *)
(* or not.  It stays in every device, so that the system comes up, if also  *)
(* no ROM reaches over the end of its page.                                 *)
DumpStaysInDevices ==
  Usable /\ ResetRomFirst /\ DevicesFillTheirMapping
    /\ (\A k \in Roms : InPageOffset(Base(k)) + Extent(k) <= PageSize)
  => \A section \in Sections : InDevice(section)

----------------------------------------------------------------------------
(* Statements of the repository the code does not meet. *)

(* MEMORY.md:38: Read8 reads a byte from the specified address: two         *)
(* addresses of main memory are two bytes.                                  *)
MemoryBytesDistinct ==
  status = "ready" =>
    \A a, b \in Addresses :
       Read8(a) = Read8(b) /\ Read8(a) # NoByte
         /\ Is(Read8(a).device, "MEMORY") => a = b

(* Devices.md:42: ROMs are mapped at their preferred base unless they       *)
(* overlap.  Claimed here for one MEMORY device, mapped first and large     *)
(* enough.                                                                  *)
RomsAtPreferredBase ==
  /\ status = "ready"
  /\ \A k \in Devices : Is(k, "MEMORY") <=> k = 1
  /\ \A j, k \in Roms : j # k => Disjoint(j, k)
  => \A k \in Roms : Base(k) + Extent(k) - 1 \in Addresses => ReadsWhole(k)
=============================================================================
