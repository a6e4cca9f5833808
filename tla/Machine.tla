------------------------------ MODULE Machine ------------------------------
(***************************************************************************)
(* The machine from power on to the shell and through reboots: kernel_main *)
(* (kernel/kernel.c) brings up one part after the other while interrupts   *)
(* are already on (Interrupts), then the shell's commands read the clocks  *)
(* (Clock) that the timer handler shares.                                  *)
(*                                                                         *)
(* One action per step of kernel_main that another part can see.  The      *)
(* keyboard controller and the drive are hardware; the boot loader starts  *)
(* the kernel from sector 0 of the drive, as "make run" has it.            *)
(***************************************************************************)
EXTENDS Interrupts, Clock, SequencesExt

CONSTANTS
  Drives,      (* what may be at the ATA ports: a "disk", or "other"       *)
  Scancodes,   (* bytes the keyboard sends                                 *)
  Disabling,   (* those that as a configuration byte turn the keyboard off *)
  BiosConfig,  (* the configuration byte the BIOS leaves                   *)
  MaxWaiting,  (* bound: bytes the keyboard has ready when a key is pressed *)
  MaxBoots     (* bound: power on and resets                               *)

ASSUME MachineAssumption ==
  /\ Drives \subseteq {"disk", "other"}
  /\ Disabling \subseteq Scancodes /\ BiosConfig \notin Scancodes
  /\ MaxWaiting \in Nat /\ MaxBoots \in Nat \ {0}

VARIABLES
  pc,         (* the step of kernel_main, or the command of the shell      *)
  boots,      (* times the kernel was started                              *)
  heap,       (* memory_init has written the first header                  *)
  out,        (* bytes waiting at the data port of the keyboard controller *)
  config,     (* its configuration byte                                    *)
  byte,       (* keyboard_init's copy of it                                *)
  drive,      (* what answers on the ATA ports                             *)
  sector0     (* "loader" or the "test" pattern                            *)

machineVars == <<pc, boots, heap, out, config, byte, drive, sector0>>
irqVars == <<enabled, gates, irr, isr, handler>>
vars == <<machineVars, irqVars, clockVars>>

(* kernel_main, with idt_init and keyboard_init spread out. *)
Order_MemoryLast ==
  <<"gui", "idt", "pic", "idt sti", "cli", "enable port", "ask config",
    "read config", "write config", "keyboard sti", "timer", "syscall", "sti",
    "identify", "memory", "write sector", "read sector", "fs", "shell">>
Order ==
  <<"gui", "memory", "idt", "pic", "idt sti", "cli", "enable port", "ask config",
    "read config", "write config", "keyboard sti", "timer", "syscall", "sti",
    "identify", "write sector", "read sector", "fs", "shell">>

Commands == {"date", "sleep"}
Steps == ToSet(Order) \cup Commands \cup {"no boot device"}

Init ==
  /\ InterruptsInit /\ ClockInit
  /\ pc = "gui" /\ boots = 1 /\ heap = FALSE
  /\ out = <<>> /\ config = BiosConfig /\ byte = BiosConfig
  /\ drive \in Drives /\ sector0 = "loader"

(* The foreground runs when no handler does. *)
At(step) == pc = step /\ handler = {}
Done(step) == At(step) /\ \E n \in 2 .. Len(Order) : Order[n - 1] = step /\ pc' = Order[n]
-----------------------------------------------------------------------------
(* gui_init draws the memory line of a heap that is not there yet. *)
GuiInit ==
  /\ Done("gui")
  /\ index' = "hour"
  /\ UNCHANGED <<boots, heap, out, config, byte, drive, sector0, irqVars,
                 uptime_ticks, dateVars, sleepVars>>

MemoryInit ==
  /\ Done("memory") /\ heap' = TRUE
  /\ UNCHANGED <<boots, out, config, byte, drive, sector0, irqVars, clockVars>>

(* idt_init: the table has the keyboard's gate only, ... *)
IdtInit_NoGate ==
  /\ Done("idt") /\ UNCHANGED <<gates, enabled, irr, isr, handler>>
  /\ UNCHANGED <<boots, heap, out, config, byte, drive, sector0, clockVars>>
IdtInit ==
  /\ Done("idt") /\ SetGate(Vector(1)) /\ UNCHANGED <<enabled, irr, isr, handler>>
  /\ UNCHANGED <<boots, heap, out, config, byte, drive, sector0, clockVars>>

PicStart ==
  /\ Done("pic") /\ PicInit /\ UNCHANGED <<enabled, gates, handler>>
  /\ UNCHANGED <<boots, heap, out, config, byte, drive, sector0, clockVars>>

(* ... and the timer's line is open with the first sti of three. *)
TurnOn ==
  /\ Done("idt sti") \/ Done("keyboard sti") \/ Done("sti")
  /\ Sti /\ UNCHANGED <<gates, irr, isr, handler>>
  /\ UNCHANGED <<boots, heap, out, config, byte, drive, sector0, clockVars>>

TurnOff ==
  /\ Done("cli") /\ Cli /\ UNCHANGED <<gates, irr, isr, handler>>
  /\ UNCHANGED <<boots, heap, out, config, byte, drive, sector0, clockVars>>

(* The port is on already. *)
EnablePort == Done("enable port") /\ UNCHANGED <<boots, heap, out, config, byte, drive, sector0, irqVars, clockVars>>

(* The answer queues behind what the keyboard has sent. *)
AskConfig_NotSent ==
  /\ Done("ask config")
  /\ UNCHANGED <<boots, heap, out, config, byte, drive, sector0, irqVars, clockVars>>
AskConfig ==
  /\ Done("ask config")
  /\ out' = Append(out, config)
  /\ irr' = IF out = <<>> THEN WithRequest(1) ELSE irr
  /\ UNCHANGED <<boots, heap, config, byte, drive, sector0, enabled, gates, isr, handler, clockVars>>

(* keyboard_read_data waits for a byte, whatever it is. *)
ReadConfig ==
  /\ out # <<>>
  /\ Done("read config")
  /\ byte' = Head(out) /\ out' = Tail(out)
  /\ irr' = IF Len(out) > 1 THEN WithRequest(1) ELSE irr
  /\ UNCHANGED <<boots, heap, config, drive, sector0, enabled, gates, isr, handler, clockVars>>

WriteConfig ==
  /\ Done("write config") /\ config' = byte
  /\ UNCHANGED <<boots, heap, out, byte, drive, sector0, irqVars, clockVars>>

TimerInit ==
  /\ Done("timer") /\ SetGate(Vector(0)) /\ UNCHANGED <<enabled, irr, isr, handler>>
  /\ UNCHANGED <<boots, heap, out, config, byte, drive, sector0, clockVars>>

SyscallInit ==
  /\ Done("syscall") /\ SetGate(SyscallVector) /\ UNCHANGED <<enabled, irr, isr, handler>>
  /\ UNCHANGED <<boots, heap, out, config, byte, drive, sector0, clockVars>>

(* ata_init tells what it finds and returns; nobody asks what it found. *)
AtaInit == Done("identify") /\ UNCHANGED <<boots, heap, out, config, byte, drive, sector0, irqVars, clockVars>>

(* The waits for DRQ: only a disk ever asks for the data of a sector, not an *)
(* empty port and not a drive that takes other commands.                    *)
AtaWaits == drive = "disk"

AtaWriteSector ==
  /\ AtaWaits /\ Done("write sector") /\ sector0' = "test"
  /\ UNCHANGED <<boots, heap, out, config, byte, drive, irqVars, clockVars>>

AtaReadSector ==
  /\ AtaWaits /\ Done("read sector")
  /\ UNCHANGED <<boots, heap, out, config, byte, drive, sector0, irqVars, clockVars>>

FsInitialize == Done("fs") /\ UNCHANGED <<boots, heap, out, config, byte, drive, sector0, irqVars, clockVars>>

BootStep ==
  \/ GuiInit \/ MemoryInit \/ IdtInit \/ PicStart \/ TurnOn \/ TurnOff
  \/ EnablePort \/ AskConfig \/ ReadConfig \/ WriteConfig \/ TimerInit \/ SyscallInit
  \/ AtaInit \/ AtaWriteSector \/ AtaReadSector \/ FsInitialize
-----------------------------------------------------------------------------
(* The commands that read a clock. *)
Rest == UNCHANGED <<boots, heap, out, config, byte, drive, sector0, irqVars>>

Date == At("shell") /\ DateCall /\ pc' = "date" /\ Rest
DateStep ==
  \/ At("date") /\ (SelectRegister \/ ReadRegister) /\ UNCHANGED pc /\ Rest
  \/ At("date") /\ DateDone /\ pc' = "shell" /\ Rest

Sleep == \E n \in 1 .. INT_MAX : At("shell") /\ SleepCall(n) /\ pc' = "sleep" /\ Rest
SleepStep == At("sleep") /\ SleepReturns /\ pc' = "shell" /\ Rest

(* A reset keeps the disk and nothing else: the BIOS looks for a loader,    *)
(* which reads the kernel again, its static data and the zeros behind them. *)
Reset ==
  /\ boots < MaxBoots /\ boots' = boots + 1
  /\ pc' = IF sector0 = "loader" THEN "gui" ELSE "no boot device"
  /\ heap' = FALSE /\ out' = <<>> /\ config' = BiosConfig /\ byte' = BiosConfig
  /\ InterruptsReset /\ ClockReset
  /\ UNCHANGED <<drive, sector0>>

(* cmd_reboot *)
Reboot == At("shell") /\ Reset
-----------------------------------------------------------------------------
(* A tick while the one before is handled does not happen: the handler is   *)
(* done long before the next period ends.                                   *)
Tick ==
  /\ pc # "no boot device" /\ 0 \notin handler
  /\ irr' = WithRequest(0)
  /\ UNCHANGED <<machineVars, enabled, gates, isr, handler, clockVars>>

KeyPress(s) ==
  /\ pc # "no boot device" /\ config \notin Disabling /\ Len(out) < MaxWaiting
  /\ out' = Append(out, s)
  /\ irr' = IF out = <<>> THEN WithRequest(1) ELSE irr
  /\ UNCHANGED <<pc, boots, heap, config, byte, drive, sector0, enabled, gates, isr, handler, clockVars>>

Interrupt(i) == Deliver(i) /\ UNCHANGED <<machineVars, clockVars>>
Fault(i) == NoGate(i) /\ Reset

TimerHandler ==
  /\ HandlerReturns(0) /\ CountTick
  /\ UNCHANGED <<irr, machineVars>>

(* What the handler does with the byte is Keyboard's. *)
KeyboardHandler ==
  /\ HandlerReturns(1)
  /\ out' = IF out = <<>> THEN out ELSE Tail(out)
  /\ irr' = IF Len(out) > 1 THEN WithRequest(1) ELSE irr
  /\ UNCHANGED <<pc, boots, heap, config, byte, drive, sector0, clockVars>>

(* The battery clock runs also while a handler does. *)
BatteryClock == pc = "date" /\ SecondPasses /\ UNCHANGED <<machineVars, irqVars>>

Next ==
  \/ BootStep
  \/ Date \/ DateStep \/ Sleep \/ SleepStep \/ Reboot
  \/ Tick \/ TimerHandler \/ KeyboardHandler \/ BatteryClock
  \/ \E s \in Scancodes : KeyPress(s)
  \/ \E i \in IRQs : Interrupt(i) \/ Fault(i)

(* The processor goes on, the timer ticks, requests are taken.  A handler   *)
(* ends long before the next tick, so the foreground runs between any two:  *)
(* it is not kept from a step by handlers that come again and again.  The   *)
(* loop of sleep is even run many times between two ticks, and does not     *)
(* miss every moment at which it could end.                                 *)
Fairness ==
  /\ SF_vars(BootStep) /\ SF_vars(SleepStep)
  /\ WF_vars(Tick) /\ WF_vars(Interrupt(0)) /\ WF_vars(TimerHandler) /\ WF_vars(KeyboardHandler)

Spec == Init /\ [][Next]_vars /\ Fairness
-----------------------------------------------------------------------------
TypeOK ==
  /\ InterruptsOK /\ ClockOK
  /\ pc \in Steps /\ boots \in 1 .. MaxBoots /\ heap \in BOOLEAN
  /\ out \in Seq(Scancodes \cup {BiosConfig}) /\ Len(out) <= MaxWaiting + 1
  /\ {config, byte} \subseteq Scancodes \cup {BiosConfig}
  /\ drive \in Drives /\ sector0 \in {"loader", "test"}

(* The timer handler walks the heap only once memory_init has made it one,  *)
(* however early interrupts are turned on.                                  *)
RedrawFindsHeap == 0 \in handler /\ Redraws => heap

(* The only request without a gate is a tick after the sti that ends        *)
(* idt_init, or after the one that ends keyboard_init, and before           *)
(* timer_init: no other order of interrupts and steps brings the boot down. *)
FaultsOnlyBeforeTimer ==
  [][boots' # boots /\ pc # "shell" => pc \in {"cli", "timer"} /\ heap]_vars

(* sleep n does not return before n - 1 whole seconds are over, whatever    *)
(* part of a second it was called in, unless the tick count wraps meanwhile. *)
SleepsLongEnough ==
  [][pc = "sleep" /\ pc' = "shell" /\ start + seconds <= MaxSeconds
     => slept > (seconds - 1) * HZ]_vars

(* sleep ends, also when the tick count wraps: the handler acknowledges     *)
(* every tick, so that the next one is let through, and the seconds before  *)
(* the wrap, taken from those after it, make a number that no int exceeds.  *)
(* In the first second there is nothing to take: a sleep begun then, for    *)
(* more seconds than the count can show, never ends.                        *)
SleepEnds ==
  pc = "sleep" /\ (start = 0 => seconds <= MaxSeconds) ~> pc # "sleep"

(* With a disk on the ATA ports the boot gets to the shell, through every   *)
(* interrupt it lets in, and through the reset if one is a fault.  There    *)
(* are MaxBoots - 1 resets: a machine that faults in every boot gets        *)
(* nowhere, and nothing in the code prevents that.                          *)
BootReachesShell == pc = "gui" /\ drive = "disk" ~> pc = "shell"

(* "Reboot the system" (shell.c:470): the machine finds a loader again.        *)
RebootComesBack == pc # "no boot device"

(* "Get the current controller configuration byte" (keyboard.c:201), and    *)
(* write it back.                                                           *)
ConfigKept == pc = "shell" => config = BiosConfig

(* "Function to get the current time from the RTC" (rtc.c:12): what is      *)
(* taken for the second, the minute and the hour was read as such.          *)
DateReadsClock == \A k \in DOMAIN time : time[k].register = Registers[k]

(* The time date shows: its answers put together. *)
Shown ==
  LET Answer(r) == (CHOOSE k \in DOMAIN time : Registers[k] = r)
  IN  time[Answer("hour")].value * SIXTY * SIXTY
        + time[Answer("minute")].value * SIXTY + time[Answer("second")].value

(* The three reads are not one: rtc.c:14-21 does not look whether the clock *)
(* is being updated.  If no redraw disturbs them, what date shows is still  *)
(* the time at some moment of the call, or the call met the last second of  *)
(* a minute: then it shows a later time (up to an hour later), never an     *)
(* earlier one, because the second is read first and the hour last.         *)
(* Midnight is the exception.                                               *)
DateNotBehind ==
  Len(time) = Len(Registers) /\ DateReadsClock /\ began <= now =>
    \/ Shown \in {began, now}
    \/ Shown > began /\ Reading("second", began) = SIXTY - 1
=============================================================================
