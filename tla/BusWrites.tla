----------------------------- MODULE BusWrites -----------------------------
(***************************************************************************)
(* Writes through the bus (VirtualCore::WriteBytes, MemoryBus::Write8 to   *)
(* Write64) and the devices' side of them.  No instruction of the emulator *)
(* writes memory yet; this is what the bus does for the first that will.   *)
(*                                                                         *)
(* Devices now have contents.  A write the code does not define (a page    *)
(* past the table, an offset past a device) ends in status "undefined".    *)
(***************************************************************************)
EXTENDS MemoryBus

CONSTANTS
  Written,   \* the values written: sequences of eight bytes
  MemoryByte, RomByte,   \* what memory and ROMs hold at first
  MaxWrites   \* bound on the writes of one run

ASSUME WrittenAssumption == \A v \in Written : v \in Seq(Nat) /\ Len(v) = 8
ASSUME FillAssumption == MemoryByte \in Nat /\ RomByte \in Nat
ASSUME MaxWritesAssumption == MaxWrites \in Nat

VARIABLES
  contents,   \* contents[k] is the byte vector of device k
  writes      \* writes so far

busVars == << vars, contents, writes >>

(* Faulty variant: the file is copied up to its last byte. *)
InitialContentsShort(device) ==
  [i \in 1 .. device.size - 1 |-> IF device.kind = "MEMORY" THEN MemoryByte ELSE RomByte]

InitialContents(device) ==
  [i \in 1 .. device.size |-> IF device.kind = "MEMORY" THEN MemoryByte ELSE RomByte]

WriteInit == Init /\ contents = << >> /\ writes = 0

(* A registered device is new and holds its file, or zeroed memory. *)
Build ==
  /\ Next
  /\ contents' = [k \in DOMAIN RegisteredDevices' |->
                    IF k \in DOMAIN contents THEN contents[k]
                    ELSE InitialContents(RegisteredDevices'[k])]
  /\ UNCHANGED writes

(* MainMemoryDevice stores, the ROM devices ignore writes. *)
DeviceStores(k) == RegisteredDevices[k].kind = "MEMORY"

(* Where Write8 puts a byte: all the sections that cover the in-page offset, *)
(* of the page whose number is the address itself.                          *)
Targets(a) ==
  LET page == MemoryPages[a + 1]
      o == InPageOffset(a)
  IN {<< page[i].device, page[i].DeviceOffset + (o - page[i].pageOffset) >> :
        i \in {i \in DOMAIN page : /\ o >= page[i].pageOffset
                                   /\ o < page[i].pageOffset + page[i].size}}

InsideDevice(t) == DeviceStores(t[1]) => t[2] < RegisteredDevices[t[1]].size

WriteDefined(a, n) ==
  \A i \in 0 .. n - 1 :
     a + i < Len(MemoryPages) /\ \A t \in Targets(a + i) : InsideDevice(t)

(* Write8, Write16, Write32 and Write64 for n = 1, 2, 4, 8: the low n bytes *)
(* of v one after the other, the last one to reach a byte of a device wins. *)
WriteBytes(a, v, n) ==
  /\ status = "ready"
  /\ writes < MaxWrites
  /\ writes' = writes + 1
  /\ IF WriteDefined(a, n)
       THEN /\ contents' =
                 [k \in DOMAIN contents |->
                    [j \in DOMAIN contents[k] |->
                       LET hits == {i \in 0 .. n - 1 : << k, j - 1 >> \in Targets(a + i)}
                       IN IF DeviceStores(k) /\ hits # {}
                            THEN v[1 + CHOOSE i \in hits : \A h \in hits : h <= i]
                            ELSE contents[k][j]]]
            /\ UNCHANGED status
       ELSE status' = "undefined" /\ UNCHANGED contents
  /\ UNCHANGED << MemoryPages, RegisteredDevices, resetVector >>

Widths == {1, 2, 4, 8}

WriteNext ==
  \/ Build
  \/ \E a \in Addresses, v \in Written, n \in Widths : WriteBytes(a, v, n)

WriteSpec == WriteInit /\ [][WriteNext]_busVars

----------------------------------------------------------------------------
(* Properties. *)

(* A device's contents keep the length its vector was built with.           *)
ContentsTypeOK ==
  /\ TypeOK
  /\ writes \in 0 .. MaxWrites
  /\ DOMAIN contents = Devices
  /\ \A k \in Devices : /\ contents[k] \in Seq(Nat)
                        /\ Len(contents[k]) = Size(k)

(* Write8 does not stop at the first section that covers the offset, as      *)
(* Read8 does: whatever was mapped, sorted and pruned on a page, a byte      *)
(* written to memory is written there once and reaches no ROM in front of    *)
(* it.  The conditions are those under which the remainders around a reset   *)
(* ROM and the firmwares leave the ROMs of their page alone.                 *)
MemoryWrittenAlone ==
  status = "ready" /\ ResetRomFirst /\ FirmwareEndsFit /\ VectorSound
    /\ (\A k \in Roms : InPageOffset(Base(k)) + Extent(k) <= PageSize)
    /\ (\A j, k \in Roms : j # k => Disjoint(j, k))
  => \A a \in 0 .. Len(MemoryPages) - 1 : \A t, u \in Targets(a) :
       DeviceStores(t[1]) => u = t

(* The remainders around ROMs never lead a write out of main memory: with   *)
(* memory of whole pages and the reset ROM mapped first, a write whose      *)
(* bytes all have a page entry is defined.                                  *)
SmallWritesDefined ==
  status = "ready" /\ ResetRomFirst /\ DevicesFillTheirMapping
  => \A n \in Widths, a \in Addresses :
       a + n <= Len(MemoryPages) => WriteDefined(a, n)
=============================================================================
