------------------------------- MODULE MCCPU -------------------------------
(***************************************************************************)
(* Programs for the two threads: one that traps after a few instructions,    *)
(* one that faults while decoding at every restart, one that is restarted    *)
(* past its trap, and one that leaves memory.                                *)
(***************************************************************************)
EXTENDS CPU

MCImages ==
  { << 184, 1, 0, 144, 0, 224, 214 >>, << 144, 15 >>,
    << 214, 144, 214, 40, 196, 215 >>, << 102, 144, 102 >> }
=============================================================================
