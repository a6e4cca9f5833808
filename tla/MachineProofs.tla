--------------------------- MODULE MachineProofs ---------------------------
(***************************************************************************)
(* The machine from power-on to the shell, for every capacity, word size,  *)
(* length of a second and number of boots.  Three inductive invariants:    *)
(* BootInv says what is set up at each step of kernel_main, ClockInv where *)
(* a date or a sleep that has begun stands against the time it began at,   *)
(* PortInv what the controller of the keyboard may hold.  Proved from them *)
(* are RedrawFindsHeap, FaultsOnlyBeforeTimer, SleepsLongEnough,           *)
(* DateNotBehind and TypeOK.                                               *)
(***************************************************************************)
EXTENDS Machine, SequenceTheorems, TLAPS

(* kernel_main by number: the provers read a step off Order this way. *)
LEMMA StepNumbers ==
  /\ Len(Order) = 19
  /\ Order[1] = "gui" /\ Order[2] = "memory" /\ Order[3] = "idt" /\ Order[4] = "pic"
  /\ Order[5] = "idt sti" /\ Order[6] = "cli" /\ Order[7] = "enable port"
  /\ Order[8] = "ask config" /\ Order[9] = "read config" /\ Order[10] = "write config"
  /\ Order[11] = "keyboard sti" /\ Order[12] = "timer" /\ Order[13] = "syscall"
  /\ Order[14] = "sti" /\ Order[15] = "identify" /\ Order[16] = "write sector"
  /\ Order[17] = "read sector" /\ Order[18] = "fs" /\ Order[19] = "shell"
  BY DEF Order

(* What each step of kernel_main is followed by. *)
After(step) ==
    CASE step = "gui" -> "memory"
      [] step = "memory" -> "idt"
      [] step = "idt" -> "pic"
      [] step = "pic" -> "idt sti"
      [] step = "idt sti" -> "cli"
      [] step = "cli" -> "enable port"
      [] step = "enable port" -> "ask config"
      [] step = "ask config" -> "read config"
      [] step = "read config" -> "write config"
      [] step = "write config" -> "keyboard sti"
      [] step = "keyboard sti" -> "timer"
      [] step = "timer" -> "syscall"
      [] step = "syscall" -> "sti"
      [] step = "sti" -> "identify"
      [] step = "identify" -> "write sector"
      [] step = "write sector" -> "read sector"
      [] step = "read sector" -> "fs"
      [] step = "fs" -> "shell"

(* Where each step of kernel_main leads to. *)
LEMMA StepAfter ==
  ASSUME NEW step, Done(step)
  PROVE  pc = step /\ handler = {} /\ pc' = After(step)
<1> SUFFICES pc' = After(step)
  BY DEF Done, At
<1> PICK n \in 2 .. 19 : Order[n - 1] = step /\ pc' = Order[n]
  BY StepNumbers DEF Done
<1> DEFINE k == n - 1
<1>1. k \in 1 .. 18 /\ n = k + 1 /\ Order[k] = step
  OBVIOUS
<1> HIDE DEF k
<1>2. CASE k \in 1 .. 3
  <2>1. \/ (k = 1 /\ n = 2)   \/ (k = 2 /\ n = 3)   \/ (k = 3 /\ n = 4)
    BY <1>1, <1>2
  <2> QED
    BY <2>1, <1>1, StepNumbers DEF After
<1>3. CASE k \in 4 .. 6
  <2>1. \/ (k = 4 /\ n = 5)   \/ (k = 5 /\ n = 6)   \/ (k = 6 /\ n = 7)
    BY <1>1, <1>3
  <2> QED
    BY <2>1, <1>1, StepNumbers DEF After
<1>4. CASE k \in 7 .. 9
  <2>1. \/ (k = 7 /\ n = 8)   \/ (k = 8 /\ n = 9)   \/ (k = 9 /\ n = 10)
    BY <1>1, <1>4
  <2> QED
    BY <2>1, <1>1, StepNumbers DEF After
<1>5. CASE k \in 10 .. 12
  <2>1. \/ (k = 10 /\ n = 11)   \/ (k = 11 /\ n = 12)   \/ (k = 12 /\ n = 13)
    BY <1>1, <1>5
  <2> QED
    BY <2>1, <1>1, StepNumbers DEF After
<1>6. CASE k \in 13 .. 15
  <2>1. \/ (k = 13 /\ n = 14)   \/ (k = 14 /\ n = 15)   \/ (k = 15 /\ n = 16)
    BY <1>1, <1>6
  <2> QED
    BY <2>1, <1>1, StepNumbers DEF After
<1>7. CASE k \in 16 .. 18
  <2>1. \/ (k = 16 /\ n = 17)   \/ (k = 17 /\ n = 18)   \/ (k = 18 /\ n = 19)
    BY <1>1, <1>7
  <2> QED
    BY <2>1, <1>1, StepNumbers DEF After
<1> QED
  BY <1>1, <1>2, <1>3, <1>4, <1>5, <1>6, <1>7

(* The same, action by action. *)
LEMMA BootMoves ==
  /\ GuiInit => pc = "gui" /\ pc' = "memory" /\ handler = {}
  /\ MemoryInit => pc = "memory" /\ pc' = "idt" /\ handler = {}
  /\ IdtInit => pc = "idt" /\ pc' = "pic" /\ handler = {}
  /\ PicStart => pc = "pic" /\ pc' = "idt sti" /\ handler = {}
  /\ TurnOff => pc = "cli" /\ pc' = "enable port" /\ handler = {}
  /\ EnablePort => pc = "enable port" /\ pc' = "ask config" /\ handler = {}
  /\ AskConfig => pc = "ask config" /\ pc' = "read config" /\ handler = {}
  /\ ReadConfig => pc = "read config" /\ pc' = "write config" /\ handler = {}
  /\ WriteConfig => pc = "write config" /\ pc' = "keyboard sti" /\ handler = {}
  /\ TimerInit => pc = "timer" /\ pc' = "syscall" /\ handler = {}
  /\ SyscallInit => pc = "syscall" /\ pc' = "sti" /\ handler = {}
  /\ AtaInit => pc = "identify" /\ pc' = "write sector" /\ handler = {}
  /\ AtaWriteSector => pc = "write sector" /\ pc' = "read sector" /\ handler = {}
  /\ AtaReadSector => pc = "read sector" /\ pc' = "fs" /\ handler = {}
  /\ FsInitialize => pc = "fs" /\ pc' = "shell" /\ handler = {}
  /\ TurnOn => /\ handler = {}
               /\ \/ pc = "idt sti" /\ pc' = "cli"
                  \/ pc = "keyboard sti" /\ pc' = "timer"
                  \/ pc = "sti" /\ pc' = "identify"
<1>1. /\ GuiInit => At("gui") /\ pc' = After("gui")
      /\ MemoryInit => At("memory") /\ pc' = After("memory")
      /\ IdtInit => At("idt") /\ pc' = After("idt")
      /\ PicStart => At("pic") /\ pc' = After("pic")
      /\ TurnOff => At("cli") /\ pc' = After("cli")
      /\ EnablePort => At("enable port") /\ pc' = After("enable port")
      /\ AskConfig => At("ask config") /\ pc' = After("ask config")
      /\ ReadConfig => At("read config") /\ pc' = After("read config")
      /\ WriteConfig => At("write config") /\ pc' = After("write config")
      /\ TimerInit => At("timer") /\ pc' = After("timer")
      /\ SyscallInit => At("syscall") /\ pc' = After("syscall")
      /\ AtaInit => At("identify") /\ pc' = After("identify")
      /\ AtaWriteSector => At("write sector") /\ pc' = After("write sector")
      /\ AtaReadSector => At("read sector") /\ pc' = After("read sector")
      /\ FsInitialize => At("fs") /\ pc' = After("fs")
      /\ TurnOn => \/ At("idt sti") /\ pc' = After("idt sti")
                   \/ At("keyboard sti") /\ pc' = After("keyboard sti")
                   \/ At("sti") /\ pc' = After("sti")
  BY StepAfter DEF Done, TurnOn, GuiInit, MemoryInit, IdtInit, PicStart,
         TurnOff, EnablePort, AskConfig, ReadConfig, WriteConfig, TimerInit,
         SyscallInit, AtaInit, AtaWriteSector, AtaReadSector, FsInitialize
<1>2. /\ After("gui") = "memory"
      /\ After("memory") = "idt"
      /\ After("idt") = "pic"
      /\ After("pic") = "idt sti"
      /\ After("cli") = "enable port"
      /\ After("enable port") = "ask config"
      /\ After("ask config") = "read config"
      /\ After("read config") = "write config"
      /\ After("write config") = "keyboard sti"
      /\ After("timer") = "syscall"
      /\ After("syscall") = "sti"
      /\ After("identify") = "write sector"
      /\ After("write sector") = "read sector"
      /\ After("read sector") = "fs"
      /\ After("fs") = "shell"
      /\ After("idt sti") = "cli"
      /\ After("keyboard sti") = "timer"
      /\ After("sti") = "identify"
  BY DEF After
<1> QED
  BY <1>1, <1>2 DEF At

-----------------------------------------------------------------------------
(* The steps of kernel_main before what their name says is there, and those *)
(* during which interrupts are off.  A machine without a loader never left  *)
(* the BIOS.                                                                *)
NoHeap == {"no boot device", "gui", "memory"}
NoKeyGate == NoHeap \cup {"idt"}
NoTimerGate ==
  NoKeyGate \cup {"pic", "idt sti", "cli", "enable port", "ask config", "read config",
                  "write config", "keyboard sti", "timer"}
Off == NoTimerGate \ {"cli", "timer"}

(* The inductive invariant: what is there at each step of kernel_main.      *)
BootInv ==
  /\ handler = {} \/ handler = {0} \/ handler = {1}
  /\ handler # {} => ~enabled
  /\ enabled \/ handler # {} => pc \notin Off
  /\ pc \notin NoHeap => heap
  /\ pc \notin NoKeyGate => Vector(1) \in gates
  /\ pc \notin NoTimerGate => Vector(0) \in gates

(* The machine starts before the boot has set up anything. *)
LEMMA BootInit == Init => BootInv
  BY DEF Init, InterruptsInit, BootInv, Off, NoHeap, NoKeyGate, NoTimerGate

(* The steps that leave the boot as far as it was. *)
LEMMA BootUntouched ==
  ASSUME BootInv, UNCHANGED <<pc, heap, enabled, gates, handler>>
  PROVE  BootInv'
  BY DEF BootInv

(* A reset is the beginning again, or the end. *)
LEMMA BootReset == ASSUME Reset PROVE BootInv'
<1>1. pc' \in {"gui", "no boot device"} /\ handler' = {} /\ ~enabled'
  BY DEF Reset, InterruptsReset
<1> QED
  BY <1>1 DEF BootInv, Off, NoHeap, NoKeyGate, NoTimerGate

(* A step of kernel_main sets up what the next one counts on. *)
LEMMA BootKeeps == ASSUME BootInv, BootStep PROVE BootInv'
<1> USE DEF BootInv, Off, NoHeap, NoKeyGate, NoTimerGate, irqVars
<1>1. CASE GuiInit
  BY <1>1, BootMoves DEF GuiInit
<1>2. CASE MemoryInit
  BY <1>2, BootMoves DEF MemoryInit
<1>3. CASE IdtInit
  BY <1>3, BootMoves DEF IdtInit, SetGate
<1>4. CASE PicStart
  BY <1>4, BootMoves DEF PicStart
<1>5. CASE TurnOff
  BY <1>5, BootMoves DEF TurnOff, Cli
<1>6. CASE EnablePort
  BY <1>6, BootMoves DEF EnablePort
<1>7. CASE AskConfig
  BY <1>7, BootMoves DEF AskConfig
<1>8. CASE ReadConfig
  BY <1>8, BootMoves DEF ReadConfig
<1>9. CASE WriteConfig
  BY <1>9, BootMoves DEF WriteConfig
<1>10. CASE TimerInit
  BY <1>10, BootMoves DEF TimerInit, SetGate
<1>11. CASE SyscallInit
  BY <1>11, BootMoves DEF SyscallInit, SetGate
<1>12. CASE AtaInit
  BY <1>12, BootMoves DEF AtaInit
<1>13. CASE AtaWriteSector
  BY <1>13, BootMoves DEF AtaWriteSector
<1>14. CASE AtaReadSector
  BY <1>14, BootMoves DEF AtaReadSector
<1>15. CASE FsInitialize
  BY <1>15, BootMoves DEF FsInitialize
<1>16. CASE TurnOn
  BY <1>16, BootMoves DEF TurnOn, Sti
<1> QED
  BY <1>1, <1>2, <1>3, <1>4, <1>5, <1>6, <1>7, <1>8, <1>9, <1>10, <1>11, <1>12, <1>13, <1>14, <1>15, <1>16 DEF BootStep

(* A request that is taken starts a handler only with a gate for it, and a  *)
(* handler that returns finds interrupts where it was let in.               *)
LEMMA BootInterrupted ==
  ASSUME BootInv,
         (\E i \in IRQs : Interrupt(i)) \/ TimerHandler \/ KeyboardHandler
  PROVE  BootInv'
<1>1. ASSUME NEW i \in IRQs, Interrupt(i) PROVE BootInv'
  <2>1. handler' = {0} \/ handler' = {1}
    BY <1>1 DEF Interrupt, Deliver, IRQs
  <2> QED
    BY <1>1, <2>1 DEF Interrupt, Deliver, Taken, machineVars, BootInv
<1>2. CASE TimerHandler
  BY <1>2 DEF TimerHandler, HandlerReturns, machineVars, BootInv
<1>3. CASE KeyboardHandler
  BY <1>3 DEF KeyboardHandler, HandlerReturns, BootInv
<1> QED
  BY <1>1, <1>2, <1>3

(* The clocks, the port and the commands move nothing of the boot. *)
LEMMA BootStays ==
  ASSUME BootInv, [Next]_vars
  PROVE  BootInv'
<1> USE DEF NoHeap, NoKeyGate, NoTimerGate, Off
<1>1. CASE BootStep
  BY <1>1, BootKeeps
<1>2. CASE Date \/ Sleep
  BY <1>2 DEF Date, Sleep, At, Rest, irqVars, BootInv
<1>3. CASE DateStep \/ SleepStep
  BY <1>3, BootUntouched DEF DateStep, SleepStep, At, Rest, irqVars, BootInv
<1>4. CASE Reboot \/ \E i \in IRQs : Fault(i)
  BY <1>4, BootReset DEF Reboot, Fault
<1>5. CASE Tick \/ BatteryClock \/ \E k \in Scancodes : KeyPress(k)
  BY <1>5, BootUntouched DEF Tick, BatteryClock, KeyPress, machineVars, irqVars
<1>6. CASE (\E i \in IRQs : Interrupt(i)) \/ TimerHandler \/ KeyboardHandler
  BY <1>6, BootInterrupted
<1>7. CASE UNCHANGED vars
  BY <1>7, BootUntouched DEF vars, machineVars, irqVars
<1> QED
  BY <1>1, <1>2, <1>3, <1>4, <1>5, <1>6, <1>7 DEF Next

(* Through every boot, at whatever step an interrupt or a reset comes, what *)
(* the steps of kernel_main so far have set up is there.                    *)
THEOREM BootInvariant == Spec => []BootInv
<1>1. Init => BootInv
  BY BootInit
<1>2. BootInv /\ [Next]_vars => BootInv'
  BY BootStays
<1> QED
  BY <1>1, <1>2, PTL DEF Spec

(* timer_handler never walks a heap that memory_init has not made: with any *)
(* tick count, and however many ticks pass between any two steps.           *)
THEOREM MachineRedrawFindsHeap == Spec => []RedrawFindsHeap
<1>1. BootInv => RedrawFindsHeap
  BY DEF BootInv, RedrawFindsHeap, Off, NoHeap, NoKeyGate, NoTimerGate
<1> QED
  BY <1>1, BootInvariant, PTL

(* A request without a gate resets the machine only between the sti of      *)
(* idt_init and the cli that follows, or between the sti of keyboard_init   *)
(* and timer_init.                                                          *)
THEOREM MachineFaultsOnlyBeforeTimer == Spec => FaultsOnlyBeforeTimer
<1> DEFINE Early == boots' # boots /\ pc # "shell" => pc \in {"cli", "timer"} /\ heap
<1>1. BootInv /\ [Next]_vars => Early
  <2> SUFFICES ASSUME BootInv, [Next]_vars, boots' # boots, pc # "shell"
               PROVE  pc \in {"cli", "timer"} /\ heap
    OBVIOUS
  <2>1. PICK i \in IRQs : Fault(i)
    <3>1. ~BootStep
      BY DEF BootStep, GuiInit, MemoryInit, IdtInit, PicStart, TurnOn, TurnOff, EnablePort,
             AskConfig, ReadConfig, WriteConfig, TimerInit, SyscallInit, AtaInit,
             AtaWriteSector, AtaReadSector, FsInitialize
    <3>2. ~(Date \/ DateStep \/ Sleep \/ SleepStep \/ Reboot)
      BY DEF Date, DateStep, Sleep, SleepStep, Reboot, Rest, At
    <3>3. ~(Tick \/ TimerHandler \/ KeyboardHandler \/ BatteryClock)
      BY DEF Tick, TimerHandler, KeyboardHandler, BatteryClock, machineVars
    <3>4. ~ \E s \in Scancodes : KeyPress(s)
      BY DEF KeyPress
    <3>5. ~ \E i \in IRQs : Interrupt(i)
      BY DEF Interrupt, machineVars
    <3>6. ~ UNCHANGED vars
      BY DEF vars, machineVars
    <3> QED
      BY <3>1, <3>2, <3>3, <3>4, <3>5, <3>6 DEF Next
  <2>2. enabled /\ Vector(i) \notin gates
    BY <2>1 DEF Fault, NoGate, Taken
  <2>3. i = 0 \/ i = 1
    BY DEF IRQs
  <2> QED
    BY <2>2, <2>3 DEF BootInv, Off, NoHeap, NoKeyGate, NoTimerGate
<1> QED
  BY <1>1, BootInvariant, PTL DEF Spec, FaultsOnlyBeforeTimer
-----------------------------------------------------------------------------
(* What a step of the machine is to the clocks. *)
Commanded == {"date", "sleep"}
ClockStep ==
  \/ UNCHANGED clockVars /\ (pc' = pc \/ (pc \notin Commanded /\ pc' \notin Commanded))
  \/ index' = "hour" /\ UNCHANGED <<uptime_ticks, dateVars, sleepVars>>
       /\ pc \notin Commanded /\ pc' \notin Commanded
  \/ ClockReset /\ pc' \in {"gui", "no boot device"}
  \/ CountTick /\ pc' = pc
  \/ pc = "shell" /\ DateCall /\ pc' = "date"
  \/ pc = "date" /\ (SelectRegister \/ ReadRegister \/ SecondPasses) /\ pc' = pc
  \/ pc = "date" /\ DateDone /\ pc' = "shell"
  \/ pc = "shell" /\ (\E n \in 1 .. INT_MAX : SleepCall(n)) /\ pc' = "sleep"
  \/ pc = "sleep" /\ SleepReturns /\ pc' = "shell"

(* Every step of the machine is one of the few that the clock tells         *)
(* apart.                                                                   *)
LEMMA ClockMoves == ASSUME [Next]_vars PROVE ClockStep
<1> USE DEF Commanded
<1>1. CASE GuiInit
  BY <1>1, BootMoves DEF GuiInit, ClockStep
<1>2. CASE BootStep /\ ~GuiInit
  <2>1. pc \notin Commanded /\ pc' \notin Commanded
    BY <1>2, BootMoves DEF BootStep
  <2>2. UNCHANGED clockVars
    BY <1>2 DEF BootStep, MemoryInit, IdtInit, PicStart, TurnOn, TurnOff, EnablePort,
             AskConfig, ReadConfig, WriteConfig, TimerInit, SyscallInit, AtaInit,
             AtaWriteSector, AtaReadSector, FsInitialize
  <2> QED
    BY <2>1, <2>2 DEF ClockStep
<1>3. CASE Date \/ DateStep \/ Sleep \/ SleepStep
  BY <1>3 DEF Date, DateStep, Sleep, SleepStep, At, ClockStep
<1>4. CASE Reboot \/ \E i \in IRQs : Fault(i)
  BY <1>4 DEF Reboot, Fault, Reset, ClockStep
<1>5. CASE TimerHandler
  BY <1>5 DEF TimerHandler, machineVars, ClockStep
<1>6. CASE BatteryClock
  BY <1>6 DEF BatteryClock, machineVars, ClockStep
<1>7. CASE \/ Tick \/ KeyboardHandler
           \/ \E s \in Scancodes : KeyPress(s)
           \/ \E i \in IRQs : Interrupt(i)
  BY <1>7 DEF Tick, KeyboardHandler, KeyPress, Interrupt, machineVars, ClockStep
<1>8. CASE UNCHANGED vars
  BY <1>8 DEF vars, machineVars, ClockStep
<1> QED
  BY <1>1, <1>2, <1>3, <1>4, <1>5, <1>6, <1>7, <1>8 DEF Next

(* What numbers of a clock add up to: division and remainder by a number    *)
(* that is not known.                                                       *)
LEMMA DivMod ==
  ASSUME NEW a \in Nat, NEW h \in Nat \ {0}
  PROVE  /\ a \div h \in Nat /\ a % h \in 0 .. (h - 1)
         /\ a = (a \div h) * h + (a % h)
  OBVIOUS

(* The remainder of a number no larger than the modulus. *)
LEMMA ModBelow ==
  ASSUME NEW h \in Nat \ {0}, NEW a \in 0 .. h
  PROVE  a % h = IF a < h THEN a ELSE 0
  OBVIOUS

(* Of two numbers the larger has the larger quotient. *)
LEMMA DivMonotonic ==
  ASSUME NEW a \in Nat, NEW b \in Nat, NEW h \in Nat \ {0}, a <= b
  PROVE  a \div h <= b \div h
  OBVIOUS

(* Quotient and remainder of a number given as one. *)
LEMMA DivModUnique ==
  ASSUME NEW q \in Nat, NEW h \in Nat \ {0}, NEW r \in 0 .. (h - 1)
  PROVE  (q * h + r) \div h = q /\ (q * h + r) % h = r
<1>1. q * h + r \in Nat
  OBVIOUS
<1> DEFINE p == (q * h + r) \div h
           s == (q * h + r) % h
<1>2. p \in Nat /\ s \in 0 .. (h - 1) /\ q * h + r = p * h + s
  BY <1>1, DivMod
<1> HIDE DEF p, s
<1>3. \A x, y \in Nat : x < y => x * h + h <= y * h
  OBVIOUS
<1>4. ~(q < p) /\ ~(p < q)
  BY <1>2, <1>3
<1>5. p = q /\ s = r
  BY <1>2, <1>4
<1> QED
  BY <1>5 DEF p, s

(* A digit that turns over. *)
LEMMA NextMod ==
  ASSUME NEW a \in Nat, NEW h \in Nat \ {0}
  PROVE  ((a % h) + 1) % h = (a + 1) % h
<1> DEFINE q == a \div h
           r == a % h
<1>1. q \in Nat /\ r \in 0 .. (h - 1) /\ a = q * h + r
  BY DivMod
<1> HIDE DEF q, r
<1>2. CASE r + 1 < h
  <2>1. r + 1 \in 0 .. (h - 1)
    BY <1>1, <1>2
  <2>2. (q * h + (r + 1)) % h = r + 1 /\ (0 * h + (r + 1)) % h = r + 1
    BY <2>1, <1>1, DivModUnique
  <2>3. a + 1 = q * h + (r + 1) /\ r + 1 = 0 * h + (r + 1)
    BY <1>1
  <2>4. (a + 1) % h = (r + 1) % h
    BY <2>2, <2>3
  <2> QED
    BY <2>4 DEF r
<1>3. CASE r + 1 = h
  <2>1. ((q + 1) * h + 0) % h = 0 /\ (1 * h + 0) % h = 0
    BY <1>1, DivModUnique
  <2>2. a + 1 = (q + 1) * h + 0 /\ r + 1 = 1 * h + 0
    BY <1>1, <1>3
  <2>3. (a + 1) % h = (r + 1) % h
    BY <2>1, <2>2
  <2> QED
    BY <2>3 DEF r
<1> QED
  BY <1>1, <1>2, <1>3

(* A day has seconds, and the model a last one. *)
LEMMA DayPositive == DAY \in Nat \ {0}
<1>1. \A a, b \in Nat \ {0} : a * b \in Nat \ {0}
  OBVIOUS
<1> QED
  BY <1>1, ClockAssumption DEF DAY

(* The seconds that a tick count can hold are a number, and so is the       *)
(* greatest int.                                                            *)
LEMMA SecondsNat == MaxSeconds \in Nat /\ INT_MAX \in Nat
<1>1. WORD \in Nat /\ WORD >= 2 /\ WORD - 1 \in Nat
  BY ClockAssumption
<1>2. WORD \div 2 \in Nat /\ WORD \div 2 >= 1
  BY <1>1
<1>3. MaxSeconds \in Nat
  BY ClockAssumption, DivMod DEF MaxSeconds
<1> QED
  BY <1>2, <1>3 DEF INT_MAX

Names == {"second", "minute", "hour"}

(* What a register of the clock answers is a number. *)
LEMMA ReadingInt ==
  ASSUME NEW r \in Names, NEW t \in Nat
  PROVE  Reading(r, t) \in Int
<1>1. t % SIXTY \in Int /\ t \div SIXTY \in Nat
  BY ClockAssumption, DivMod
<1>2. (t \div SIXTY) % SIXTY \in Int
  BY <1>1, ClockAssumption, DivMod
<1>3. SIXTY * SIXTY \in Nat \ {0}
  BY ClockAssumption
<1>4. t \div (SIXTY * SIXTY) \in Int
  BY <1>3, DivMod
<1> QED
  BY <1>1, <1>2, <1>4 DEF Reading, Names
-----------------------------------------------------------------------------
(* The inductive invariant of the clocks.  What date has read so far was    *)
(* true as it began, up to some answer, and now, from there on; while sleep *)
(* waits, the tick count is that of some moment of the second it was called *)
(* in and the ticks since.                                                  *)
ClockTyped ==
  /\ uptime_ticks \in 0 .. (WORD - 1)
  /\ index \in Names
  /\ selected \in 0 .. 3 /\ time \in Seq([register : Names, value : Int])
  /\ Len(time) \in {selected, selected - 1}
  /\ now \in 0 .. (DAY - 1) /\ began \in 0 .. (DAY - 1)
  /\ start \in 0 .. MaxSeconds /\ seconds \in 0 .. INT_MAX /\ slept \in 0 .. WORD

ReadUpTo(n) ==
  \A k \in 1 .. Len(time) :
    time[k].value = Reading(time[k].register, IF k <= n THEN began ELSE now)

DateInv ==
  /\ pc # "date" => time = <<>> /\ selected = 0
  /\ now \in {began, (began + 1) % DAY}
  /\ \E n \in 0 .. Len(time) : ReadUpTo(n)

SleepInv ==
  /\ pc # "sleep" => seconds = 0
  /\ pc = "sleep" =>
       /\ seconds > 0
       /\ \E t \in 0 .. (WORD - 1) :
            t \div HZ = start /\ (slept < WORD => uptime_ticks = (t + slept) % WORD)

ClockInv == ClockTyped /\ DateInv /\ SleepInv

(* No command is running when the machine starts. *)
LEMMA ClockStarts ==
  ASSUME uptime_ticks = 0, index = "second", selected = 0, time = <<>>,
         now = 0, began = 0, start = 0, seconds = 0, slept = 0, pc \notin Commanded
  PROVE  ClockInv
  BY ClockAssumption, DayPositive, SecondsNat
  DEF ClockInv, ClockTyped, DateInv, SleepInv, ReadUpTo, Names, Commanded

(* A tick: the count goes on, and a second may end. *)
LEMMA TickKeepsClock == ASSUME ClockInv, CountTick, pc' = pc PROVE ClockInv'
<1>1. uptime_ticks' \in 0 .. (WORD - 1)
  BY ClockAssumption, DivMod DEF CountTick, ClockInv, ClockTyped
<1>2. ClockTyped'
  <2>1. index' \in Names /\ slept' \in 0 .. WORD
    BY ClockAssumption DEF CountTick, ClockInv, ClockTyped, Names
  <2> QED
    BY <1>1, <2>1 DEF CountTick, ClockInv, ClockTyped, dateVars
<1>3. DateInv'
  BY DEF CountTick, ClockInv, DateInv, ReadUpTo, dateVars
<1>4. SleepInv'
  <2>1. CASE pc # "sleep"
    BY <2>1 DEF CountTick, ClockInv, SleepInv
  <2>2. CASE pc = "sleep"
    <3>1. PICK t \in 0 .. (WORD - 1) :
            t \div HZ = start /\ (slept < WORD => uptime_ticks = (t + slept) % WORD)
      BY <2>2 DEF ClockInv, SleepInv
    <3>2. ASSUME slept' < WORD PROVE uptime_ticks' = (t + slept') % WORD
      <4>1. slept < WORD /\ slept' = slept + 1 /\ slept \in Nat /\ t + slept \in Nat
        BY <2>2, <3>2 DEF CountTick, ClockInv, ClockTyped, SleepInv
      <4>2. uptime_ticks' = (((t + slept) % WORD) + 1) % WORD
        BY <3>1, <4>1 DEF CountTick
      <4>3. (((t + slept) % WORD) + 1) % WORD = (t + slept + 1) % WORD
        <5>1. WORD \in Nat \ {0}
          BY ClockAssumption
        <5> QED
          BY <4>1, <5>1, NextMod
      <4>4. t + slept + 1 = t + slept'
        BY <4>1
      <4> QED
        BY <4>2, <4>3, <4>4
    <3> QED
      BY <2>2, <3>1, <3>2 DEF CountTick, ClockInv, SleepInv
  <2> QED
    BY <2>1, <2>2
<1> QED
  BY <1>2, <1>3, <1>4 DEF ClockInv

(* date reads the next register, or sleep looks at the count again. *)
LEMMA DateKeepsClock ==
  ASSUME ClockInv,
         \/ pc = "shell" /\ DateCall /\ pc' = "date"
         \/ pc = "date" /\ (SelectRegister \/ ReadRegister \/ SecondPasses) /\ pc' = pc
         \/ pc = "date" /\ DateDone /\ pc' = "shell"
  PROVE  ClockInv'
<1> USE DEF ClockInv, Names
<1>1. CASE pc = "shell" /\ DateCall /\ pc' = "date"
  <2>1. ClockTyped'
    BY <1>1, ClockAssumption, DayPositive DEF ClockTyped, DateCall, sleepVars
  <2>2. time' = <<>> /\ now' = began'
    BY <1>1 DEF DateInv, DateCall
  <2>3. DateInv'
    BY <1>1, <2>2 DEF DateInv, ReadUpTo
  <2> QED
    BY <1>1, <2>1, <2>3 DEF SleepInv, DateCall, sleepVars
<1>2. CASE pc = "date" /\ SelectRegister /\ pc' = pc
  <2>1. index' \in Names
    BY <1>2 DEF ClockTyped, SelectRegister, Registers
  <2>2. ClockTyped'
    BY <1>2, <2>1 DEF ClockTyped, SelectRegister, sleepVars, Registers
  <2> QED
    BY <1>2, <2>2 DEF DateInv, ReadUpTo, SleepInv, SelectRegister, sleepVars
<1>3. CASE pc = "date" /\ ReadRegister /\ pc' = pc
  <2> DEFINE r == [register |-> index, value |-> Reading(index, now)]
  <2>1. r \in [register : Names, value : Int]
    <3>1. index \in Names /\ now \in Nat
      BY DayPositive DEF ClockTyped
    <3>2. Reading(index, now) \in Int
      BY <3>1, ReadingInt
    <3> QED
      BY <3>1, <3>2
  <2>2. time' = Append(time, r) /\ UNCHANGED <<now, began>>
    BY <1>3 DEF ReadRegister
  <2> HIDE DEF r
  <2>3. /\ time' \in Seq([register : Names, value : Int]) /\ Len(time') = Len(time) + 1
        /\ \A k \in 1 .. Len(time) : time'[k] = time[k]
        /\ time'[Len(time) + 1] = r
    BY <2>1, <2>2 DEF ClockTyped
  <2>4. ClockTyped'
    BY <1>3, <2>3 DEF ClockTyped, ReadRegister, sleepVars
  <2>5. PICK n \in 0 .. Len(time) : ReadUpTo(n)
    BY DEF DateInv
  <2>6. ReadUpTo(n)'
    <3> SUFFICES ASSUME NEW k \in 1 .. Len(time')
                 PROVE  time'[k].value
                          = Reading(time'[k].register, IF k <= n THEN began ELSE now)
      BY <2>2 DEF ReadUpTo
    <3>1. CASE k \in 1 .. Len(time)
      BY <3>1, <2>3, <2>5 DEF ReadUpTo
    <3>2. CASE k = Len(time) + 1
      BY <3>2, <2>3, <2>5 DEF r
    <3> QED
      BY <3>1, <3>2, <2>3
  <2>7. DateInv'
    BY <1>3, <2>2, <2>3, <2>6 DEF DateInv, ClockTyped
  <2> QED
    BY <1>3, <2>4, <2>7 DEF SleepInv, ReadRegister, sleepVars
<1>4. CASE pc = "date" /\ SecondPasses /\ pc' = pc
  <2>1. now' \in 0 .. (DAY - 1)
    BY <1>4, DayPositive, DivMod DEF ClockTyped, SecondPasses
  <2>2. ClockTyped'
    BY <1>4, <2>1 DEF ClockTyped, SecondPasses, sleepVars
  <2>3. ReadUpTo(Len(time))'
    BY <1>4 DEF DateInv, ReadUpTo, SecondPasses, ClockTyped
  <2>4. DateInv'
    BY <1>4, <2>3 DEF DateInv, SecondPasses, ClockTyped
  <2> QED
    BY <1>4, <2>2, <2>4 DEF SleepInv, SecondPasses, sleepVars
<1>5. CASE pc = "date" /\ DateDone /\ pc' = "shell"
  <2>1. ClockTyped' /\ DateInv'
    BY <1>5, DayPositive DEF ClockTyped, DateDone, sleepVars, DateInv, ReadUpTo
  <2> QED
    BY <1>5, <2>1 DEF SleepInv, DateDone, sleepVars
<1> QED
  BY <1>1, <1>2, <1>3, <1>4, <1>5

(* sleep, from its call to its return. *)
LEMMA SleepKeepsClock ==
  ASSUME ClockInv,
         \/ pc = "shell" /\ (\E n \in 1 .. INT_MAX : SleepCall(n)) /\ pc' = "sleep"
         \/ pc = "sleep" /\ SleepReturns /\ pc' = "shell"
  PROVE  ClockInv'
<1> USE DEF ClockInv
<1>1. UNCHANGED <<uptime_ticks, index, dateVars>>
  BY DEF SleepCall, SleepReturns
<1>2. DateInv'
  BY <1>1 DEF DateInv, ReadUpTo, dateVars
<1>3. CASE pc = "shell" /\ (\E n \in 1 .. INT_MAX : SleepCall(n)) /\ pc' = "sleep"
  <2>1. PICK n \in 1 .. INT_MAX : SleepCall(n)
    BY <1>3
  <2>2. start' \in 0 .. MaxSeconds
    <3>1. uptime_ticks \in Nat /\ WORD - 1 \in Nat /\ uptime_ticks <= WORD - 1
      BY ClockAssumption DEF ClockTyped
    <3> QED
      BY <2>1, <3>1, DivMonotonic, DivMod, ClockAssumption
      DEF SleepCall, timer_get_uptime_seconds, MaxSeconds
  <2>3. ClockTyped'
    BY <1>1, <2>1, <2>2, ClockAssumption, SecondsNat DEF ClockTyped, SleepCall, dateVars
  <2>4. uptime_ticks' = (uptime_ticks + slept') % WORD
    BY <1>1, <2>1, ClockAssumption DEF ClockTyped, SleepCall
  <2>5. SleepInv'
    BY <1>1, <1>3, <2>1, <2>4 DEF SleepInv, SleepCall, ClockTyped, timer_get_uptime_seconds
  <2> QED
    BY <1>2, <2>3, <2>5
<1>4. CASE pc = "sleep" /\ SleepReturns /\ pc' = "shell"
  BY <1>1, <1>2, <1>4, ClockAssumption, SecondsNat
  DEF ClockTyped, SleepReturns, SleepInv, dateVars
<1> QED
  BY <1>3, <1>4

(* Every step of the clocks. *)
LEMMA ClockInvStep == ASSUME ClockInv, ClockStep PROVE ClockInv'
<1> USE DEF Commanded
<1>1. CASE UNCHANGED clockVars /\ (pc' = pc \/ (pc \notin Commanded /\ pc' \notin Commanded))
  BY <1>1 DEF clockVars, dateVars, sleepVars, ClockInv, ClockTyped, DateInv, ReadUpTo, SleepInv
<1>2. CASE /\ index' = "hour" /\ UNCHANGED <<uptime_ticks, dateVars, sleepVars>>
           /\ pc \notin Commanded /\ pc' \notin Commanded
  BY <1>2 DEF dateVars, sleepVars, ClockInv, ClockTyped, Names, DateInv, ReadUpTo, SleepInv
<1>3. CASE ClockReset /\ pc' \in {"gui", "no boot device"}
  <2>1. pc' # "date" /\ pc' # "sleep" /\ ClockReset
    BY <1>3
  <2> QED
    BY <2>1, ClockAssumption, DayPositive, SecondsNat
    DEF ClockReset, ClockInv, ClockTyped, DateInv, SleepInv, ReadUpTo, Names
<1> QED
  BY <1>1, <1>2, <1>3, TickKeepsClock, DateKeepsClock, SleepKeepsClock DEF ClockStep

(* The clocks keep their promises through every interrupt, command and      *)
(* reset.                                                                   *)
THEOREM ClockInvariant == Spec => []ClockInv
<1>1. Init => ClockInv
  BY ClockStarts DEF Init, ClockInit, Commanded
<1>2. ClockInv /\ [Next]_vars => ClockInv'
  BY ClockMoves, ClockInvStep
<1> QED
  BY <1>1, <1>2, PTL DEF Spec
-----------------------------------------------------------------------------
(* A sleep of n seconds that has lasted no more than n - 1 sees at most     *)
(* n - 1 seconds in the tick count, if the count does not wrap: the ticks   *)
(* that were left of the second it was called in are fewer than HZ.         *)
LEMMA TooEarly ==
  ASSUME NEW t \in 0 .. (WORD - 1), NEW n \in 1 .. MaxSeconds, NEW k \in Nat,
         k <= (n - 1) * HZ, (t \div HZ) + n <= MaxSeconds
  PROVE  /\ t + k < WORD
         /\ ((t + k) \div HZ) - (t \div HZ) \in 0 .. (n - 1)
<1> USE ClockAssumption
<1> DEFINE q == t \div HZ
           u == (t + k) \div HZ
<1>1. q \in Nat /\ t < q * HZ + HZ
  <2>1. q \in Nat /\ (t % HZ) \in 0 .. (HZ - 1) /\ t = q * HZ + (t % HZ)
    <3>1. t \in Nat
      OBVIOUS
    <3> QED
      BY <3>1, DivMod
  <2>2. q * HZ \in Nat
    BY <2>1
  <2> HIDE DEF q
  <2> QED
    BY <2>1, <2>2
<1>2. MaxSeconds \in Nat /\ MaxSeconds * HZ <= WORD - 1
  BY DivMod, SecondsNat DEF MaxSeconds
<1>3. t + k < (q + n) * HZ
  <2>1. (q + n) * HZ = q * HZ + HZ + (n - 1) * HZ
    BY <1>1, SecondsNat
  <2>2. (n - 1) * HZ \in Nat /\ q * HZ \in Nat
    BY <1>1, SecondsNat
  <2> QED
    BY <1>1, <2>1, <2>2
<1>4. (q + n) * HZ <= MaxSeconds * HZ
  <2>1. \A a, b, h \in Nat : a <= b => a * h <= b * h
    OBVIOUS
  <2> QED
    BY <1>1, <1>2, <2>1
<1>5. t + k < WORD
  <2>1. (q + n) * HZ \in Nat /\ MaxSeconds * HZ \in Nat /\ t + k \in Nat
    BY <1>1, <1>2
  <2> QED
    BY <1>2, <1>3, <1>4, <2>1
<1>6. u \in Nat /\ u * HZ <= t + k
  <2>1. t + k \in Nat
    OBVIOUS
  <2>2. u \in Nat /\ ((t + k) % HZ) \in 0 .. (HZ - 1) /\ t + k = u * HZ + ((t + k) % HZ)
    BY <2>1, DivMod
  <2>3. u * HZ \in Nat
    BY <2>2
  <2> HIDE DEF u
  <2> QED
    BY <2>2, <2>3
<1>7. u >= q
  BY DivMonotonic
<1>8. u < q + n
  <2>1. \A a, b, h \in Nat : a <= b => a * h <= b * h
    OBVIOUS
  <2>2. CASE q + n <= u
    <3>1. (q + n) * HZ <= u * HZ
      BY <1>1, <1>6, <2>1, <2>2, SecondsNat
    <3>2. (q + n) * HZ \in Nat /\ u * HZ \in Nat /\ t + k \in Nat
      BY <1>1, <1>6, SecondsNat
    <3> QED
      BY <1>3, <1>6, <3>1, <3>2
  <2> QED
    BY <1>1, <1>6, <2>2, SecondsNat
<1> HIDE DEF q, u
<1>9. u - q \in 0 .. (n - 1)
  BY <1>1, <1>6, <1>7, <1>8, SecondsNat
<1> QED
  BY <1>5, <1>9 DEF q, u

(* sleep n does not return within n - 1 seconds, for every length of a      *)
(* second and every width of the tick count.                                *)
THEOREM MachineSleepsLongEnough == Spec => SleepsLongEnough
<1> DEFINE LongEnough ==
      pc = "sleep" /\ pc' = "shell" /\ start + seconds <= MaxSeconds
        => slept > (seconds - 1) * HZ
<1>1. ClockInv /\ [Next]_vars => LongEnough
  <2> SUFFICES ASSUME ClockInv, [Next]_vars, pc = "sleep", pc' = "shell",
                      start + seconds <= MaxSeconds, slept <= (seconds - 1) * HZ
               PROVE  FALSE
    <3>1. ClockInv => slept \in Int /\ (seconds - 1) * HZ \in Int
      BY ClockAssumption, SecondsNat DEF ClockInv, ClockTyped
    <3> QED
      BY <3>1
  <2>1. SleepOver
    BY ClockMoves DEF ClockStep, Commanded, SleepReturns
  <2>2. PICK t \in 0 .. (WORD - 1) :
          t \div HZ = start /\ (slept < WORD => uptime_ticks = (t + slept) % WORD)
    BY DEF ClockInv, SleepInv
  <2>3. seconds \in 1 .. MaxSeconds /\ slept \in Nat
    BY ClockAssumption, SecondsNat DEF ClockInv, ClockTyped, SleepInv
  <2>4. t + slept < WORD /\ ((t + slept) \div HZ) - start \in 0 .. (seconds - 1)
    BY <2>2, <2>3, TooEarly
  <2>5. \A a \in 0 .. (WORD - 1) : a % WORD = a
    BY ClockAssumption
  <2>6. uptime_ticks = t + slept
    <3>1. t + slept \in 0 .. (WORD - 1) /\ slept < WORD
      BY <2>2, <2>3, <2>4, ClockAssumption
    <3>2. (t + slept) % WORD = t + slept
      BY <3>1, <2>5
    <3> QED
      BY <3>1, <3>2, <2>2
  <2>7. seconds <= WORD
    <3>1. \A a \in Nat, h \in Nat \ {0} : a \div h <= a
      OBVIOUS
    <3>2. MaxSeconds <= WORD - 1
      BY <3>1, ClockAssumption DEF MaxSeconds
    <3> QED
      BY <2>3, <3>2, ClockAssumption, SecondsNat
  <2>8. (timer_get_uptime_seconds - start) % WORD = timer_get_uptime_seconds - start
    BY <2>3, <2>4, <2>5, <2>6, <2>7, ClockAssumption, SecondsNat
    DEF timer_get_uptime_seconds
  <2> QED
    BY <2>1, <2>3, <2>4, <2>6, <2>8, SecondsNat DEF SleepOver, timer_get_uptime_seconds
<1> QED
  BY <1>1, ClockInvariant, PTL DEF Spec, SleepsLongEnough
-----------------------------------------------------------------------------
(* The second, the minute and the hour of t make up t again. *)
Second(t) == Reading("second", t)
Minute(t) == Reading("minute", t)
Hour(t) == Reading("hour", t)
Hours(n) == n * SIXTY * SIXTY   (* n hours, in seconds *)

(* The registers of a time of day, put together again. *)
LEMMA PartsOfTime ==
  ASSUME NEW t \in Nat
  PROVE  /\ Second(t) \in 0 .. (SIXTY - 1) /\ Minute(t) \in 0 .. (SIXTY - 1)
         /\ Hour(t) \in Nat /\ Hour(t) = (t \div SIXTY) \div SIXTY
         /\ t = Hours(Hour(t)) + Minute(t) * SIXTY + Second(t)
<1> DEFINE m == t \div SIXTY
           h == m \div SIXTY
<1>1. m \in Nat /\ Second(t) \in 0 .. (SIXTY - 1) /\ t = m * SIXTY + Second(t)
  BY ClockAssumption, DivMod DEF Second, Reading
<1>2. h \in Nat /\ Minute(t) \in 0 .. (SIXTY - 1) /\ m = h * SIXTY + Minute(t)
  BY <1>1, ClockAssumption, DivMod DEF Minute, Reading
<1> HIDE DEF m, h
<1> DEFINE rest == Minute(t) * SIXTY + Second(t)
<1>3. t = h * (SIXTY * SIXTY) + rest
  BY <1>1, <1>2, ClockAssumption
<1>4. rest \in 0 .. (SIXTY * SIXTY - 1)
  <2>1. Minute(t) * SIXTY <= (SIXTY - 1) * SIXTY /\ Minute(t) * SIXTY \in Nat
    BY <1>2, ClockAssumption
  <2> QED
    BY <1>1, <2>1, ClockAssumption
<1>5. t \div (SIXTY * SIXTY) = h
  <2>1. SIXTY * SIXTY \in Nat \ {0}
    BY ClockAssumption
  <2> HIDE DEF rest
  <2>2. (h * (SIXTY * SIXTY) + rest) \div (SIXTY * SIXTY) = h
    BY <1>2, <1>4, <2>1, DivModUnique
  <2> QED
    BY <1>3, <2>2
<1>6. Hour(t) = h
  BY <1>5 DEF Hour, Reading
<1>7. Hours(h) = h * (SIXTY * SIXTY)
  BY <1>2, ClockAssumption DEF Hours
<1>8. Hour(t) = (t \div SIXTY) \div SIXTY
  BY <1>6 DEF m, h
<1>9. t = Hours(h) + Minute(t) * SIXTY + Second(t)
  BY <1>1, <1>2, <1>3, <1>7, ClockAssumption
<1> QED
  BY <1>1, <1>2, <1>6, <1>8, <1>9

(* A second later either the second is one more and nothing else changed,   *)
(* or it was the last of its minute.                                        *)
LEMMA SecondLater ==
  ASSUME NEW t \in Nat
  PROVE  /\ Second(t) # SIXTY - 1 => Minute(t + 1) = Minute(t) /\ Hour(t + 1) = Hour(t)
         /\ Second(t) = SIXTY - 1 => Second(t + 1) = 0
<1> DEFINE m == t \div SIXTY
<1>1. m \in Nat /\ Second(t) \in 0 .. (SIXTY - 1) /\ t = m * SIXTY + Second(t)
  BY ClockAssumption, DivMod DEF Second, Reading
<1> HIDE DEF m
<1>2. CASE Second(t) # SIXTY - 1
  <2>1. Second(t) + 1 \in 0 .. (SIXTY - 1) /\ t + 1 = m * SIXTY + (Second(t) + 1)
    BY <1>1, <1>2, ClockAssumption
  <2>2. (m * SIXTY + (Second(t) + 1)) \div SIXTY = m
    BY <1>1, <2>1, ClockAssumption, DivModUnique
  <2>3. (t + 1) \div SIXTY = t \div SIXTY
    BY <2>1, <2>2 DEF m
  <2>4. Minute(t + 1) = Minute(t)
    BY <2>3 DEF Minute, Reading
  <2>5. Hour(t + 1) = Hour(t)
    BY <2>3, PartsOfTime
  <2> QED
    BY <1>2, <2>4, <2>5
<1>3. CASE Second(t) = SIXTY - 1
  <2>1. t + 1 = (m + 1) * SIXTY + 0
    BY <1>1, <1>3, ClockAssumption
  <2>2. ((m + 1) * SIXTY + 0) % SIXTY = 0
    <3>1. m + 1 \in Nat /\ 0 \in 0 .. (SIXTY - 1) /\ SIXTY \in Nat \ {0}
      BY <1>1, ClockAssumption
    <3> QED
      BY <3>1, DivModUnique
  <2>3. (t + 1) % SIXTY = 0
    BY <2>1, <2>2
  <2> QED
    BY <1>3, <2>3, ClockAssumption DEF Second, Reading
<1> QED
  BY <1>2, <1>3

(* Three reads, of which only the later ones may see the next second. *)
LEMMA ThreeReads ==
  ASSUME NEW t \in Nat, NEW n \in Nat,
         NEW shown,
         shown = Hours(Hour(IF 3 <= n THEN t ELSE t + 1))
                   + Minute(IF 2 <= n THEN t ELSE t + 1) * SIXTY
                   + Second(IF 1 <= n THEN t ELSE t + 1)
  PROVE  \/ shown \in {t, t + 1}
         \/ shown > t /\ Second(t) = SIXTY - 1
<1> USE ClockAssumption
<1>0. ASSUME NEW u \in Nat
      PROVE  /\ Second(u) \in 0 .. (SIXTY - 1) /\ Minute(u) * SIXTY \in Nat /\ Hour(u) \in Nat
             /\ u = Hours(Hour(u)) + Minute(u) * SIXTY + Second(u)
  <2>1. Minute(u) \in 0 .. (SIXTY - 1)
    BY PartsOfTime
  <2>2. Minute(u) * SIXTY \in Nat
    BY <2>1
  <2> QED
    BY <2>2, PartsOfTime
<1>1. /\ Second(t) \in 0 .. (SIXTY - 1) /\ Minute(t) * SIXTY \in Nat /\ Hour(t) \in Nat
      /\ t = Hours(Hour(t)) + Minute(t) * SIXTY + Second(t)
  BY <1>0
<1>2. /\ Second(t + 1) \in 0 .. (SIXTY - 1) /\ Minute(t + 1) * SIXTY \in Nat /\ Hour(t + 1) \in Nat
      /\ t + 1 = Hours(Hour(t + 1)) + Minute(t + 1) * SIXTY + Second(t + 1)
  <2>1. t + 1 \in Nat
    OBVIOUS
  <2> QED
    BY <1>0, <2>1
<1>3. Hours(Hour(t)) \in Nat /\ Hours(Hour(t + 1)) \in Nat
  BY <1>1, <1>2 DEF Hours
<1>4. CASE n = 0
  BY <1>2, <1>4
<1>5. CASE n >= 3
  BY <1>1, <1>5
<1>6. CASE n = 1
  <2>1. shown = Hours(Hour(t + 1)) + Minute(t + 1) * SIXTY + Second(t)
    BY <1>6
  <2>2. CASE Second(t) # SIXTY - 1
    <3>1. Minute(t + 1) = Minute(t) /\ Hour(t + 1) = Hour(t)
      BY <2>2, SecondLater
    <3> QED
      BY <2>1, <3>1, <1>1
  <2>3. CASE Second(t) = SIXTY - 1
    <3>1. Second(t + 1) = 0
      BY <2>3, SecondLater
    <3> QED
      BY <2>1, <2>3, <3>1, <1>1, <1>2, <1>3
  <2> QED
    BY <2>2, <2>3
<1>7. CASE n = 2
  <2>1. shown = Hours(Hour(t + 1)) + Minute(t) * SIXTY + Second(t)
    BY <1>7
  <2>2. CASE Hour(t + 1) = Hour(t)
    BY <2>1, <2>2, <1>1
  <2>3. CASE Hour(t + 1) # Hour(t)
    <3>1. Second(t) = SIXTY - 1
      BY <2>3, SecondLater
    <3>2. Hour(t) <= Hour(t + 1)
      <4>1. t \div SIXTY \in Nat /\ (t + 1) \div SIXTY \in Nat /\ t \div SIXTY <= (t + 1) \div SIXTY
        <5>1. t + 1 \in Nat /\ t <= t + 1 /\ SIXTY \in Nat \ {0}
          OBVIOUS
        <5> QED
          BY <5>1, DivMod, DivMonotonic
      <4>2. (t \div SIXTY) \div SIXTY <= ((t + 1) \div SIXTY) \div SIXTY
        BY <4>1, DivMonotonic
      <4>3. ASSUME NEW u \in Nat PROVE Hour(u) = (u \div SIXTY) \div SIXTY
        BY PartsOfTime
      <4>4. t + 1 \in Nat
        OBVIOUS
      <4> QED
        BY <4>2, <4>3, <4>4
    <3>3. Hours(Hour(t)) < Hours(Hour(t + 1))
      <4>1. \A a, b \in Nat, c \in Nat \ {0} : a < b => a * c < b * c
        OBVIOUS
      <4>2. Hour(t) * SIXTY < Hour(t + 1) * SIXTY /\ Hour(t) * SIXTY \in Nat /\ Hour(t + 1) * SIXTY \in Nat
        BY <4>1, <3>2, <2>3, <1>1, <1>2
      <4> QED
        BY <4>1, <4>2 DEF Hours
    <3> QED
      BY <2>1, <3>1, <3>3, <1>1, <1>2, <1>3
  <2> QED
    BY <2>2, <2>3
<1> QED
  BY <1>4, <1>5, <1>6, <1>7

(* The three answers that date shows, if each is of the register it asked   *)
(* for.                                                                     *)
LEMMA ShownParts ==
  ASSUME Len(time) = Len(Registers), DateReadsClock,
         time \in Seq([register : Names, value : Int])
  PROVE  /\ time[1].register = "second" /\ time[2].register = "minute"
         /\ time[3].register = "hour" /\ Len(time) = 3
         /\ Shown = Hours(time[3].value) + time[2].value * SIXTY + time[1].value
<1>1. Len(time) = 3 /\ DOMAIN time = 1 .. 3
  BY DEF Registers
<1>2. Registers[1] = "second" /\ Registers[2] = "minute" /\ Registers[3] = "hour"
  BY DEF Registers
<1>3. \A k \in 1 .. 3 : /\ Registers[k] = "second" <=> k = 1
                        /\ Registers[k] = "minute" <=> k = 2
                        /\ Registers[k] = "hour" <=> k = 3
  <2> SUFFICES ASSUME NEW k \in 1 .. 3
               PROVE  /\ Registers[k] = "second" <=> k = 1
                      /\ Registers[k] = "minute" <=> k = 2
                      /\ Registers[k] = "hour" <=> k = 3
    OBVIOUS
  <2>1. k = 1 \/ k = 2 \/ k = 3
    OBVIOUS
  <2> QED
    BY <2>1, <1>2
<1>4. /\ (CHOOSE k \in DOMAIN time : Registers[k] = "second") = 1
      /\ (CHOOSE k \in DOMAIN time : Registers[k] = "minute") = 2
      /\ (CHOOSE k \in DOMAIN time : Registers[k] = "hour") = 3
  BY <1>1, <1>3
<1>5. Shown = time[3].value * SIXTY * SIXTY + time[2].value * SIXTY + time[1].value
  BY <1>4 DEF Shown
<1>6. \A k \in 1 .. 3 : time[k].register = Registers[k]
  BY <1>1 DEF DateReadsClock
<1> QED
  BY <1>1, <1>2, <1>5, <1>6 DEF Hours

(* What date shows is never behind the time it was called at, for every     *)
(* length of a minute, an hour and a day.                                   *)
THEOREM MachineDateNotBehind == Spec => []DateNotBehind
<1>1. ClockInv => DateNotBehind
  <2> SUFFICES ASSUME ClockInv, Len(time) = Len(Registers), DateReadsClock, began <= now
               PROVE  \/ Shown \in {began, now}
                      \/ Shown > began /\ Reading("second", began) = SIXTY - 1
    BY DEF DateNotBehind
  <2>1. began \in 0 .. (DAY - 1) /\ time \in Seq([register : Names, value : Int])
    BY DEF ClockInv, ClockTyped
  <2>2. began \in Nat
    BY <2>1
  <2>3. now = began \/ now = began + 1
    <3>1. now = began \/ now = (began + 1) % DAY
      BY DEF ClockInv, DateInv
    <3>2. PICK next \in 0 .. DAY : next = began + 1
      BY <2>1, DayPositive
    <3>3. next % DAY = IF next < DAY THEN next ELSE 0
      BY ModBelow, DayPositive
    <3> QED
      BY <2>1, <3>1, <3>2, <3>3
  <2>4. PICK n \in Nat : ReadUpTo(n)
    BY <2>1 DEF ClockInv, DateInv
  <2>5. /\ time[1].value = Second(IF 1 <= n THEN began ELSE now)
        /\ time[2].value = Minute(IF 2 <= n THEN began ELSE now)
        /\ time[3].value = Hour(IF 3 <= n THEN began ELSE now)
    <3>1. 1 \in 1 .. Len(time) /\ 2 \in 1 .. Len(time) /\ 3 \in 1 .. Len(time)
      BY <2>1, ShownParts
    <3> QED
      BY <2>1, <2>4, <3>1, ShownParts DEF ReadUpTo, Second, Minute, Hour
  <2>6. Shown = Hours(time[3].value) + time[2].value * SIXTY + time[1].value
    BY <2>1, ShownParts
  <2>7. CASE now = began
    <3>1. Shown = Hours(Hour(began)) + Minute(began) * SIXTY + Second(began)
      BY <2>5, <2>6, <2>7
    <3> QED
      BY <2>2, <3>1, PartsOfTime
  <2>8. CASE now = began + 1
    <3>1. Shown = Hours(Hour(IF 3 <= n THEN began ELSE began + 1))
                    + Minute(IF 2 <= n THEN began ELSE began + 1) * SIXTY
                    + Second(IF 1 <= n THEN began ELSE began + 1)
      BY <2>5, <2>6, <2>8
    <3> QED
      BY <2>2, <2>8, <3>1, ThreeReads DEF Second
  <2> QED
    BY <2>3, <2>7, <2>8
<1> QED
  BY <1>1, ClockInvariant, PTL
-----------------------------------------------------------------------------
(* TypeOK needs to know more of the port: the answer of the controller is   *)
(* the one byte more than the keyboard would leave waiting there, and it is *)
(* asked for once in a boot.                                                *)
Unasked == NoTimerGate \ {"read config", "write config", "keyboard sti", "timer"}
Bytes == Scancodes \cup {BiosConfig}
PortInv ==
  /\ out \in Seq(Bytes) /\ Len(out) <= MaxWaiting + 1
  /\ pc \in Unasked => Len(out) <= MaxWaiting
  /\ config \in Bytes /\ byte \in Bytes
PlainInv ==
  /\ pc \in Steps /\ boots \in 1 .. MaxBoots /\ heap \in BOOLEAN
  /\ drive \in Drives /\ sector0 \in {"loader", "test"}

(* What kernel_main goes on to is a step of it, or a command. *)
LEMMA StepNames ==
  /\ \A step : Done(step) => pc' \in Steps
  /\ {"gui", "shell", "date", "sleep", "no boot device"} \subseteq Steps
<1>1. \A n \in 1 .. 19 : Order[n] \in Steps
  <2>1. DOMAIN Order = 1 .. 19
    BY DEF Order
  <2> QED
    BY <2>1 DEF Steps, ToSet
<1>2. "gui" \in Steps /\ "shell" \in Steps
  <2>1. 1 \in 1 .. 19 /\ 19 \in 1 .. 19
    OBVIOUS
  <2> QED
    BY <1>1, <2>1, StepNumbers
<1>3. ASSUME NEW step, Done(step) PROVE pc' \in Steps
  <2>1. PICK n \in 2 .. 19 : pc' = Order[n]
    BY <1>3, StepNumbers DEF Done
  <2> QED
    BY <2>1, <1>1
<1> QED
  BY <1>2, <1>3 DEF Steps, Commands

(* What the boot and the commands leave typed, step by step ... *)
LEMMA PlainStep == ASSUME PlainInv, [Next]_vars PROVE PlainInv'
<1> USE DEF PlainInv
<1>1. CASE BootStep
  <2>1. pc' \in Steps
    BY <1>1, StepNames DEF BootStep, GuiInit, MemoryInit, IdtInit, PicStart, TurnOn,
       TurnOff, EnablePort, AskConfig, ReadConfig, WriteConfig, TimerInit, SyscallInit,
       AtaInit, AtaWriteSector, AtaReadSector, FsInitialize
  <2>2. UNCHANGED <<boots, drive>> /\ heap' \in BOOLEAN /\ sector0' \in {"loader", "test"}
    BY <1>1 DEF BootStep, GuiInit, MemoryInit, IdtInit, PicStart, TurnOn,
       TurnOff, EnablePort, AskConfig, ReadConfig, WriteConfig, TimerInit, SyscallInit,
       AtaInit, AtaWriteSector, AtaReadSector, FsInitialize
  <2> QED
    BY <2>1, <2>2
<1>2. CASE Date \/ DateStep \/ Sleep \/ SleepStep
  BY <1>2, StepNames DEF Date, DateStep, Sleep, SleepStep, At, Rest
<1>3. CASE Reboot \/ \E i \in IRQs : Fault(i)
  <2>1. Reset
    BY <1>3 DEF Reboot, Fault
  <2>3. pc' \in Steps
    BY <2>1, StepNames DEF Reset
  <2>2. boots' \in 1 .. MaxBoots
    <3>1. boots \in 1 .. MaxBoots /\ MaxBoots \in Nat
      BY MachineAssumption
    <3>2. boots < MaxBoots /\ boots' = boots + 1
      BY <2>1 DEF Reset
    <3> QED
      BY <3>1, <3>2
  <2> QED
    BY <2>1, <2>3, <2>2 DEF Reset
<1>4. CASE \/ Tick \/ TimerHandler \/ KeyboardHandler \/ BatteryClock
           \/ \E s \in Scancodes : KeyPress(s)
           \/ \E i \in IRQs : Interrupt(i)
  BY <1>4 DEF Tick, TimerHandler, KeyboardHandler, BatteryClock, KeyPress, Interrupt, machineVars
<1>5. CASE UNCHANGED vars
  BY <1>5 DEF vars, machineVars
<1> QED
  BY <1>1, <1>2, <1>3, <1>4, <1>5 DEF Next

(* ... what the port holds ... *)
LEMMA PortStep == ASSUME PortInv, [Next]_vars PROVE PortInv'
<1> USE MachineAssumption DEF PortInv
<1>1. CASE AskConfig
  <2>1. out' = Append(out, config) /\ Len(out) <= MaxWaiting /\ pc' = "read config"
    BY <1>1, BootMoves DEF AskConfig, Unasked, NoTimerGate
  <2>2. out' \in Seq(Bytes) /\ Len(out') <= MaxWaiting + 1
    <3>1. out \in Seq(Bytes) /\ config \in Bytes
      OBVIOUS
    <3>2. out' \in Seq(Bytes) /\ Len(out') = Len(out) + 1
      BY <2>1, <3>1, AppendProperties
    <3>3. Len(out) \in Nat /\ MaxWaiting \in Nat /\ Len(out) <= MaxWaiting
      BY <2>1, <3>1, LenProperties
    <3> QED
      BY <3>2, <3>3
  <2>3. pc' \notin Unasked
    BY <2>1 DEF Unasked
  <2> QED
    BY <1>1, <2>2, <2>3 DEF AskConfig
<1>2. CASE ReadConfig
  <2>1. out # <<>> /\ byte' = Head(out) /\ out' = Tail(out) /\ pc' = "write config"
    BY <1>2, BootMoves DEF ReadConfig
  <2>2. byte' \in Bytes /\ out' \in Seq(Bytes) /\ Len(out') <= MaxWaiting + 1
    <3>1. out \in Seq(Bytes) /\ out # <<>> /\ Len(out) <= MaxWaiting + 1
      BY <2>1
    <3>2. Head(out) \in Bytes /\ Tail(out) \in Seq(Bytes) /\ Len(Tail(out)) = Len(out) - 1
      BY <3>1, HeadTailProperties
    <3>3. Len(out) \in Nat /\ MaxWaiting \in Nat
      BY <3>1, LenProperties
    <3>4. byte' \in Bytes /\ out' \in Seq(Bytes) /\ Len(out') = Len(out) - 1
      BY <2>1, <3>2
    <3> QED
      BY <3>1, <3>3, <3>4
  <2>3. pc' \notin Unasked
    BY <2>1 DEF Unasked
  <2> QED
    BY <1>2, <2>2, <2>3 DEF ReadConfig
<1>3. CASE BootStep /\ ~AskConfig /\ ~ReadConfig
  <2>1. pc' \in Unasked => pc \in Unasked
    BY <1>3, BootMoves DEF BootStep, Unasked, NoTimerGate, NoKeyGate, NoHeap
  <2>2. out' = out /\ byte' = byte /\ config' \in {config, byte}
    BY <1>3 DEF BootStep, GuiInit, MemoryInit, IdtInit, PicStart, TurnOn, TurnOff,
       EnablePort, WriteConfig, TimerInit, SyscallInit, AtaInit, AtaWriteSector,
       AtaReadSector, FsInitialize
  <2> QED
    BY <2>1, <2>2
<1>4. CASE Date \/ DateStep \/ Sleep \/ SleepStep
  BY <1>4 DEF Date, DateStep, Sleep, SleepStep, At, Rest, Unasked, NoTimerGate, NoKeyGate, NoHeap
<1>5. CASE Reboot \/ \E i \in IRQs : Fault(i)
  <2>1. Reset
    BY <1>5 DEF Reboot, Fault
  <2>2. out' = <<>> /\ config' \in Bytes /\ byte' \in Bytes
    BY <2>1 DEF Reset, Bytes
  <2> QED
    BY <2>2
<1>6. CASE \E s \in Scancodes : KeyPress(s)
  <2> PICK s \in Scancodes : KeyPress(s)
    BY <1>6
  <2>1. out' = Append(out, s) /\ Len(out) < MaxWaiting /\ UNCHANGED <<pc, config, byte>>
    BY DEF KeyPress
  <2>3. s \in Bytes
    BY DEF Bytes
  <2>2. out' \in Seq(Bytes) /\ Len(out') <= MaxWaiting
    BY <2>1, <2>3
  <2> QED
    BY <2>1, <2>2
<1>7. CASE KeyboardHandler
  <2>1. UNCHANGED <<pc, config, byte>> /\ out' \in Seq(Bytes) /\ Len(out') <= Len(out)
    BY <1>7 DEF KeyboardHandler
  <2> QED
    BY <2>1
<1>8. CASE Tick \/ TimerHandler \/ BatteryClock \/ \E i \in IRQs : Interrupt(i)
  BY <1>8 DEF Tick, TimerHandler, BatteryClock, Interrupt, machineVars
<1>9. CASE UNCHANGED vars
  BY <1>9 DEF vars, machineVars
<1> QED
  BY <1>1, <1>2, <1>3, <1>4, <1>5, <1>6, <1>7, <1>8, <1>9 DEF Next

(* ... and what interrupts find. *)
LEMMA InterruptsStep == ASSUME InterruptsOK, [Next]_vars PROVE InterruptsOK'
<1> USE DEF InterruptsOK, IRQs
<1>1. CASE BootStep
  <2>1. enabled' \in BOOLEAN /\ handler' = handler /\ isr' \subseteq isr
    BY <1>1 DEF BootStep, GuiInit, MemoryInit, IdtInit, PicStart, TurnOn, TurnOff,
       EnablePort, AskConfig, ReadConfig, WriteConfig, TimerInit, SyscallInit, AtaInit,
       AtaWriteSector, AtaReadSector, FsInitialize, irqVars, PicInit, Sti, Cli
  <2>2. irr' \subseteq irr \cup {1}
    BY <1>1 DEF BootStep, GuiInit, MemoryInit, IdtInit, PicStart, TurnOn, TurnOff,
       EnablePort, AskConfig, ReadConfig, WriteConfig, TimerInit, SyscallInit, AtaInit,
       AtaWriteSector, AtaReadSector, FsInitialize, irqVars, PicInit, WithRequest
  <2>3. gates' \subseteq gates \cup {Vector(0), Vector(1), SyscallVector}
    BY <1>1 DEF BootStep, GuiInit, MemoryInit, IdtInit, PicStart, TurnOn, TurnOff,
       EnablePort, AskConfig, ReadConfig, WriteConfig, TimerInit, SyscallInit, AtaInit,
       AtaWriteSector, AtaReadSector, FsInitialize, irqVars, SetGate
  <2> QED
    BY <2>1, <2>2, <2>3
<1>2. CASE Date \/ DateStep \/ Sleep \/ SleepStep
  BY <1>2 DEF Date, DateStep, Sleep, SleepStep, Rest, irqVars
<1>3. CASE Reboot \/ \E i \in IRQs : Fault(i)
  BY <1>3 DEF Reboot, Fault, Reset, InterruptsReset
<1>4. CASE Tick \/ \E s \in Scancodes : KeyPress(s)
  BY <1>4 DEF Tick, KeyPress, WithRequest
<1>5. CASE TimerHandler \/ KeyboardHandler
  <2>1. UNCHANGED gates /\ handler' = {} /\ enabled' = TRUE
    BY <1>5 DEF TimerHandler, KeyboardHandler, HandlerReturns
  <2>2. isr' \subseteq isr /\ irr' \subseteq irr \cup {1}
    BY <1>5 DEF TimerHandler, KeyboardHandler, HandlerReturns, Acknowledged, WithRequest
  <2> QED
    BY <2>1, <2>2
<1>6. CASE \E i \in IRQs : Interrupt(i)
  <2> PICK i \in IRQs : Deliver(i)
    BY <1>6 DEF Interrupt
  <2>1. handler' \subseteq IRQs /\ handler' # IRQs
    <3>1. 0 \in IRQs /\ 1 \in IRQs /\ handler' = {i}
      BY DEF Deliver
    <3>2. 0 \notin handler' \/ 1 \notin handler'
      BY <3>1
    <3> QED
      BY <3>1, <3>2
  <2>2. enabled' = FALSE /\ UNCHANGED gates /\ irr' \subseteq irr /\ isr' \subseteq isr \cup {i}
    BY DEF Deliver
  <2> QED
    BY <2>1, <2>2
<1>7. CASE BatteryClock \/ UNCHANGED vars
  BY <1>7 DEF BatteryClock, vars, irqVars
<1> QED
  BY <1>1, <1>2, <1>3, <1>4, <1>5, <1>6, <1>7 DEF Next

(* Every variable of the machine keeps to its range: the port never holds   *)
(* more than the answer of the controller on top of what the keyboard       *)
(* leaves there, and the tick count stays within its word.                  *)
THEOREM MachineTypeCorrect == Spec => []TypeOK
<1> DEFINE Types == PlainInv /\ PortInv /\ InterruptsOK
<1>1. Init => Types
  <2>1. Init => PlainInv
    <3>1. 1 \in 1 .. MaxBoots
      BY MachineAssumption
    <3> QED
      BY <3>1, StepNames DEF Init, PlainInv
  <2>2. Init => PortInv
    BY MachineAssumption DEF Init, PortInv, Bytes
  <2>3. Init => InterruptsOK
    BY DEF Init, InterruptsInit, InterruptsOK, IRQs
  <2> QED
    BY <2>1, <2>2, <2>3
<1>2. Types /\ [Next]_vars => Types'
  BY PlainStep, PortStep, InterruptsStep
<1>3. ClockInv => ClockOK
  <2>1. ASSUME index \in Names PROVE \E r \in DOMAIN Registers : index = Registers[r]
    <3>1. 1 \in DOMAIN Registers /\ 2 \in DOMAIN Registers /\ 3 \in DOMAIN Registers
      BY DEF Registers
    <3>2. Registers[1] = "second" /\ Registers[2] = "minute" /\ Registers[3] = "hour"
      BY DEF Registers
    <3> QED
      BY <2>1, <3>1, <3>2 DEF Names
  <2>2. Len(Registers) = 3
    BY DEF Registers
  <2> QED
    BY <2>1, <2>2 DEF ClockInv, ClockTyped, ClockOK
<1>4. Types /\ ClockOK => TypeOK
  BY DEF TypeOK, PlainInv, PortInv, Bytes
<1> QED
  BY <1>1, <1>2, <1>3, <1>4, ClockInvariant, PTL DEF Spec
=============================================================================
