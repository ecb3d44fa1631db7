------------------------------ MODULE MCSystem ------------------------------
(***************************************************************************)
(* Pages of eight bytes and three mapped bytes of reset ROM at offset 4: as *)
(* with the default vector, the ROM ends one byte before its page does.      *)
(* All sequences of up to three descriptors, and every option of the         *)
(* command line with the sound machines.                                     *)
(***************************************************************************)
EXTENDS System

Memory(size) == [kind |-> "MEMORY", size |-> size, base |-> 0, file |-> << >>]
ResetRom(bytes) ==
  [kind |-> "RESET_ROM", size |-> Len(bytes), base |-> ResetVector, file |-> bytes]
Firmware(bytes, base) ==
  [kind |-> "FIRMWARE", size |-> Len(bytes), base |-> base, file |-> bytes]
Bad(kind) == [kind |-> kind, size |-> 0, base |-> 0, file |-> << >>]

(* Memory that holds the vector and memory that does not; a ROM that traps, *)
(* one that runs on behind it, one too short and one too long; firmware on a *)
(* page of its own before and behind the ROM, on the ROM's page and          *)
(* unaligned.  An instruction at the end of the second ROM takes the         *)
(* unmapped byte as its immediate and the firmware's program comes next.     *)
MCDescriptors ==
  { Memory(8), Memory(24),
    ResetRom(<< 102, 144, 214 >>), ResetRom(<< 144, 144, 4, 0 >>), ResetRom(<< 144 >>),
    ResetRom(<< 144, 144, 144, 144, 214 >>),
    Firmware(<< 144, 214 >>, 0), Firmware(<< 4, 7, 44, 3, 214, 0, 0, 0 >>, 16),
    Firmware(<< 144 >>, 15), Firmware(<< 214, 214 >>, 10),
    Bad("UNKNOWN"), Bad("MALFORMED") }

Lines(presets, cores, modes, devices) ==
  [preset : presets, cores : cores, mode : modes, devices : devices]

MCCommandLines ==
  Lines({"none"}, {1}, {16}, UNION {[1 .. n -> MCDescriptors] : n \in 0 .. 3})
  \cup Lines({"none", "empty", "lines", "missing"}, {0, 1, 2, 256}, {16, 17, 32, 64},
             {<< Memory(24), ResetRom(<< 64, 144, 4 >>), Firmware(<< 4, 7, 102, 44, 3, 214 >>, 16) >>,
              << Memory(24), ResetRom(<< 102, 184, 1 >>) >>})
=============================================================================
