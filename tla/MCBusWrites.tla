---------------------------- MODULE MCBusWrites ----------------------------
(***************************************************************************)
(* Pages of four bytes and memory of nine pages, so that a write of eight    *)
(* bytes can be defined.  Write8 reaches only the offset a of page a (here   *)
(* 0, 1, 2, 3, 0, ...), so the one-byte reset ROM and the firmwares are put  *)
(* there: the vectors are the start of a page, one whose remainder hides the *)
(* ROM and one with a remainder on both sides; a firmware before, at and     *)
(* behind each.                                                              *)
(***************************************************************************)
EXTENDS BusWrites

MCFirmwares ==
  {[size |-> 2, base |-> 0], [size |-> 1, base |-> 5], [size |-> 4, base |-> 8],
   [size |-> 1, base |-> 11]}

MCWritten == { << 2, 3, 4, 5, 2, 3, 4, 5 >>, << 5, 4, 3, 2, 5, 4, 3, 2 >> }
=============================================================================
