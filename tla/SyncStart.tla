----------------------------- MODULE SyncStart -----------------------------
(***************************************************************************)
(* What CPU::Start promises its caller: it is a synchronous call.  The     *)
(* bootstrap core runs once per call, only during the call, and the call   *)
(* returns when that run has ended.                                        *)
(***************************************************************************)

VARIABLES
  caller,   \* "out" of the call, "in" it, or "gone" (the CPU is destroyed)
  run       \* this call's run: "none", "due", "on", "ended"

vars == << caller, run >>

Init == caller = "out" /\ run = "none"

Call == caller = "out" /\ caller' = "in" /\ run' = "due"

Begin == caller = "in" /\ run = "due" /\ run' = "on" /\ UNCHANGED caller

End == caller = "in" /\ run = "on" /\ run' = "ended" /\ UNCHANGED caller

Return == caller = "in" /\ run = "ended" /\ caller' = "out" /\ run' = "none"

Destroy == caller = "out" /\ caller' = "gone" /\ UNCHANGED run

Next == Call \/ Begin \/ End \/ Return \/ Destroy

Spec == Init /\ [][Next]_vars /\ WF_vars(Return)
=============================================================================
