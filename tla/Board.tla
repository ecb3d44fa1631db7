------------------------------- MODULE Board -------------------------------
(***************************************************************************)
(* What the emulator promises to whoever describes a machine on its        *)
(* command line: devices are plugged in one after the other, the machine   *)
(* is switched on once, and from then on it is the atomic machine of ISA   *)
(* over one flat memory in which every ROM shows its file at its base.     *)
(* Of a description that is not sound nothing but the order is promised.   *)
(***************************************************************************)
EXTENDS ISA

CONSTANTS
  Pluggable,      \* the devices there are: records [kind, size, base, file]
  PageSize,
  Wrap,           \* addresses within a page are counted modulo Wrap
  ResetRomSize,   \* the bytes of a reset ROM that are mapped
  ResetVector     \* where the reset ROM is plugged in and execution begins

VARIABLES
  power,     \* "off", "on", "booted", "done", "failed" or "undefined"
  cores,     \* the number of cores asked for
  devices    \* the devices plugged in

boardVars == << vars, power, cores, devices >>

BoardInit ==
  /\ mem = << >>
  /\ mode = "real"
  /\ regs = [r \in Registers |-> Zero]
  /\ rip = ResetVector
  /\ status = "stopped"
  /\ power = "off"
  /\ cores \in Nat
  /\ devices = << >>

Page(a) == a \div PageSize

(* A reset ROM is plugged in where execution begins. *)
Base(device) == IF device.kind = "RESET_ROM" THEN ResetVector ELSE device.base

(* Memory of whole pages, then a reset ROM inside the upper half of one of  *)
(* its pages, then firmware.                                                *)
Sound(d) ==
  /\ cores > 0
  /\ Len(d) >= 2
  /\ d[1].kind = "MEMORY" /\ d[1].size % PageSize = 0
  /\ d[2].kind = "RESET_ROM" /\ d[2].size \in ResetRomSize .. ResetRomSize + 1
  /\ 2 * (ResetVector % PageSize) >= PageSize
  /\ (ResetVector % PageSize) + ResetRomSize < PageSize
  /\ ResetVector < d[1].size
  /\ \A k \in 3 .. Len(d) :
       d[k].kind = "FIRMWARE" /\ (d[k].base % PageSize) + d[k].size < Wrap

(* A firmware at the start of a page that the reset ROM is not in. *)
Separate(d, k) ==
  /\ d[k].base % PageSize = 0
  /\ d[k].size \in 1 .. PageSize
  /\ d[k].base < d[1].size
  /\ Page(d[k].base) # Page(ResetVector)

Shows(m, device, n) == \A i \in 1 .. n :
  Base(device) + i <= Len(m) /\ m[Base(device) + i] = device.file[i]

PlugIn(device) ==
  /\ power = "off"
  /\ devices' = Append(devices, device)
  /\ UNCHANGED << vars, power, cores >>

(* The description is refused; with more than a sound memory and reset ROM  *)
(* in it, or without them, plugging in may also be undefined.               *)
GiveUp ==
  /\ power = "off"
  /\ \/ devices' = devices
     \/ \E device \in Pluggable : devices' = Append(devices, device)
  /\ \/ power' = "failed"
     \/ power' = "undefined" /\ ~(Sound(devices') /\ Len(devices') = 2)
  /\ UNCHANGED << vars, cores >>

SwitchOn ==
  /\ power = "off"
  /\ cores > 0
  /\ power' = "on"
  /\ mode' \in Modes
  /\ mem' \in Seq(Byte)
  /\ Sound(devices) =>
       /\ Len(mem') = devices[1].size
       /\ Shows(mem', devices[2], ResetRomSize)
       /\ \A k \in 3 .. Len(devices) :
            Separate(devices, k) => Shows(mem', devices[k], devices[k].size)
  /\ UNCHANGED << regs, rip, status, cores, devices >>

(* Execution begins once. *)
Boot ==
  /\ power = "on"
  /\ power' = "booted"
  /\ Start
  /\ UNCHANGED << cores, devices >>

RunProgram == power = "booted" /\ (Step \/ Leave) /\ UNCHANGED << power, cores, devices >>

(* The machine is never switched off while it runs. *)
SwitchOff ==
  /\ power = "booted"
  /\ status = "stopped"
  /\ power' = "done"
  /\ UNCHANGED << vars, cores, devices >>

BoardNext ==
  \/ \E device \in Pluggable : PlugIn(device)
  \/ GiveUp \/ SwitchOn \/ Boot \/ RunProgram \/ SwitchOff

BoardSpec == BoardInit /\ [][BoardNext]_boardVars
=============================================================================
