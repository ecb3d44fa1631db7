-------------------------------- MODULE CPU --------------------------------
(***************************************************************************)
(* CPU::Start (CPU_STATE.cpp) and the bootstrap core it runs on a thread   *)
(* of its own.  The host thread polls the core's hasShutdown every 100 ms  *)
(* and joins the thread; the core thread runs VirtualCore::StartCore.  The *)
(* two share the core's atomic flags and nothing else.                     *)
(*                                                                         *)
(* Start may be called again after it returned, and the CPU is destroyed   *)
(* between calls.  Cores other than cores[0] are constructed and destroyed *)
(* but never started, so they are left out.                                *)
(***************************************************************************)
EXTENDS VCore

VARIABLES
  host,     \* the host thread: "idle", "poll", "sleep", "join", "destroyed"
  thread    \* bspThread: "none", "created", "live", "exited"

allVars == << vars, host, thread >>

CPUInit ==
  /\ Init
  /\ host = "idle"
  /\ thread = "none"

(* Faulty variant: a second call finds the first call's thread. *)
StartReusingThread ==
  /\ host = "idle"
  /\ host' = "poll"
  /\ thread' = IF pc = "constructed" THEN "created" ELSE "exited"
  /\ UNCHANGED vars

(* CPU::Start up to its loop. *)
Start ==
  /\ host = "idle"
  /\ host' = "poll"
  /\ thread' = "created"
  /\ UNCHANGED vars

(* One evaluation of the loop condition. *)
Poll ==
  /\ host = "poll"
  /\ host' = IF hasShutdown THEN "join" ELSE "sleep"
  /\ UNCHANGED << vars, thread >>

Wake ==
  /\ host = "sleep"
  /\ host' = "poll"
  /\ UNCHANGED << vars, thread >>

(* Faulty variants: Start returns without waiting for the thread; it lets *)
(* the thread go instead of joining it.                                    *)
ReturnWithoutJoin ==
  /\ host = "join"
  /\ host' = "idle"
  /\ UNCHANGED << vars, thread >>

DetachInsteadOfJoin ==
  /\ host = "join"
  /\ host' = "idle"
  /\ thread' = "detached"
  /\ UNCHANGED vars

(* join waits for the thread; Start returns and bspThread is destroyed. *)
Join ==
  /\ host = "join"
  /\ thread = "exited"
  /\ host' = "idle"
  /\ thread' = "none"
  /\ UNCHANGED vars

(* ~VirtualCore. *)
Destroy ==
  /\ host = "idle"
  /\ host' = "destroyed"
  /\ isRunning' = FALSE
  /\ hasShutdown' = TRUE
  /\ UNCHANGED << memory, regs, rip, pc, cursor, instr, thread >>

(* The thread's function is StartCore. *)
Enter ==
  /\ thread = "created"
  /\ thread' = "live"
  /\ StartCore
  /\ UNCHANGED host

Run ==
  /\ thread = "live"
  /\ CoreStep
  /\ UNCHANGED << host, thread >>

Exit ==
  /\ thread = "live"
  /\ pc = "returned"
  /\ thread' = "exited"
  /\ UNCHANGED << vars, host >>

HostStep == Poll \/ Wake \/ Join
ThreadStep == Enter \/ Run \/ Exit

CPUNext == Start \/ HostStep \/ Destroy \/ ThreadStep

(* Both threads are scheduled; nobody has to call Start again. *)
CPUSpec ==
  CPUInit /\ [][CPUNext]_allVars /\ WF_allVars(HostStep) /\ WF_allVars(ThreadStep)

----------------------------------------------------------------------------
(* Properties. *)

HostTypeOK ==
  /\ host \in {"idle", "poll", "sleep", "join", "destroyed"}
  /\ thread \in {"none", "created", "live", "exited"}

CoreActive == pc \in PC \ {"constructed", "starting", "returned", "undefined"}

(* A set hasShutdown is never news of a core that still executes, although  *)
(* the flag is stale from the previous call until the thread has cleared    *)
(* it: registers change only under a cleared flag.                          *)
FlagClearedWhileActive == CoreActive => ~hasShutdown /\ isRunning

(* Outside of Start nothing of the core moves: no thread is left, and after *)
(* a completed call the core is stopped with its flag set.                  *)
QuietOutsideStart ==
  host \in {"idle", "destroyed"} =>
    /\ thread = "none"
    /\ pc \in {"constructed", "returned"}
    /\ pc = "returned" => hasShutdown

(* A host that saw the stale flag of the previous call and went on to join  *)
(* still returns only after this call's run: each Start is one whole run.   *)
Caller == INSTANCE SyncStart WITH
  caller <- CASE host = "idle" -> "out"
              [] host = "destroyed" -> "gone"
              [] OTHER -> "in",
  run <- CASE thread = "none" -> "none"
           [] thread = "created" -> "due"
           [] thread = "live" -> "on"
           [] OTHER -> "ended"

ImplementsSyncStart == Caller!Spec

(* Every call of Start returns, unless the core leaves memory: RIP only     *)
(* grows, so a program comes to its trap or to the end, and the poll, the   *)
(* sleep and the join cannot miss the shutdown, nor take a stale flag of    *)
(* the call before for good.                                                *)
StartReturns == host = "poll" ~> host = "idle" \/ pc = "undefined"
=============================================================================
