---------------------------- MODULE MCMemoryBus ----------------------------
(***************************************************************************)
(* Eight-byte pages, a two-byte reset ROM (the default vector 0xFFFFFFF0    *)
(* with its 15 bytes corresponds to in-page offset 5), memory of two pages  *)
(* or two and a half.  Vectors are the start of a page, both halves of one, *)
(* its last places and across its end.  Firmware is empty, short or a page  *)
(* long, at page starts, at the offset a first firmware ends and unaligned; *)
(* behind the ROM at 2 one reaches a byte over the page, and the overlong   *)
(* remainder before the ROM hides part of one.                              *)
(***************************************************************************)
EXTENDS MemoryBus

MCFirmwares ==
  [size : {0, 2, 8}, base : {0, 2, 8, 13}]
    \cup {[size |-> 1, base |-> 7], [size |-> 2, base |-> 7],
          [size |-> 3, base |-> 5], [size |-> 3, base |-> 24]}
=============================================================================
