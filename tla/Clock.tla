------------------------------- MODULE Clock -------------------------------
(***************************************************************************)
(* The two clocks of the kernel: the tick count (kernel/timer.c), which    *)
(* sleep waits on, and the battery clock (drivers/rtc/rtc.c), which the    *)
(* timer handler shows once a second and date shows when asked.            *)
(*                                                                         *)
(* The battery clock is reached through an index port and a data port, one *)
(* register at a time.  It runs on by itself; its time matters here while  *)
(* date reads it, and is 0 otherwise.  How a register encodes its number   *)
(* (BCD) is left out.                                                      *)
(***************************************************************************)
EXTENDS Integers, Sequences

CONSTANTS
  WORD,    (* the unsigned numbers of the processor wrap here: 2^32        *)
  HZ,      (* ticks that make a second (18)                                *)
  SIXTY,   (* seconds of a minute, minutes of an hour                      *)
  HOURS,   (* hours of a day (24)                                          *)
  Times    (* the seconds of the day at which date may be called           *)

DAY == SIXTY * SIXTY * HOURS

ASSUME ClockAssumption ==
  /\ HZ \in Nat \ {0} /\ WORD \in Nat /\ WORD > HZ
  /\ SIXTY \in Nat \ {0} /\ HOURS \in Nat \ {0} /\ Times \subseteq 0 .. (DAY - 1)

VARIABLES
  uptime_ticks,
  index,        (* the register last selected at the index port           *)
  selected,     (* how many registers date has selected ...               *)
  time,         (* ... and its answers: a register and what it said       *)
  now, began,   (* the time of the battery clock; as date began           *)
  start, seconds,  (* of a sleep; 0 when there is none                    *)
  slept         (* ticks since the sleep began, for the property on it    *)

dateVars == <<selected, time, now, began>>
sleepVars == <<start, seconds, slept>>
clockVars == <<uptime_ticks, index, dateVars, sleepVars>>

(* The order date reads them in. *)
Registers_HourFirst == <<"hour", "minute", "second">>
Registers == <<"second", "minute", "hour">>
MaxSeconds == (WORD - 1) \div HZ   (* the last second the count can show *)
INT_MAX == WORD \div 2 - 1         (* the greatest int                    *)

ClockInit ==
  /\ uptime_ticks = 0 /\ index = "second"
  /\ selected = 0 /\ time = <<>> /\ now = 0 /\ began = 0
  /\ start = 0 /\ seconds = 0 /\ slept = 0

ClockReset ==
  /\ uptime_ticks' = 0 /\ index' = "second"
  /\ selected' = 0 /\ time' = <<>> /\ now' = 0 /\ began' = 0
  /\ start' = 0 /\ seconds' = 0 /\ slept' = 0

timer_get_uptime_seconds == uptime_ticks \div HZ

(* timer_handler: each HZ-th tick it reads the clock, the hour last.  The   *)
(* rest of its drawing reads, among others, the heap.                       *)
Redraws == ((uptime_ticks + 1) % WORD) % HZ = 0
CountTick_NoWrap ==
  /\ uptime_ticks' = uptime_ticks + 1
  /\ index' = IF Redraws THEN "hour" ELSE index
  /\ slept' = IF seconds > 0 /\ slept < WORD THEN slept + 1 ELSE slept
  /\ UNCHANGED <<dateVars, start, seconds>>
CountTick ==
  /\ uptime_ticks' = (uptime_ticks + 1) % WORD
  /\ index' = IF Redraws THEN "hour" ELSE index
  /\ slept' = IF seconds > 0 /\ slept < WORD THEN slept + 1 ELSE slept
  /\ UNCHANGED <<dateVars, start, seconds>>

(* What a register says at second t of the day.  They all change at once,   *)
(* as those of QEMU do; what a chip answers in the middle of an update,     *)
(* which the code does not look for, is left out.                           *)
Reading(register, t) ==
  CASE register = "second" -> t % SIXTY
    [] register = "minute" -> (t \div SIXTY) % SIXTY
    [] register = "hour" -> t \div (SIXTY * SIXTY)

DateCall ==
  /\ \E t \in Times : now' = t /\ began' = t
  /\ UNCHANGED <<uptime_ticks, index, selected, time, sleepVars>>

(* The battery clock, while it is read: the three reads take far less than  *)
(* a second, so that there is one change at most.                           *)
SecondPasses ==
  /\ now = began
  /\ now' = (now + 1) % DAY
  /\ UNCHANGED <<uptime_ticks, index, selected, time, began, sleepVars>>

(* rtc_get_time, from date: a write of the index and a read of the data, *)
(* three times.                                                          *)
SelectRegister ==
  /\ selected = Len(time) /\ selected < Len(Registers)
  /\ selected' = selected + 1
  /\ index' = Registers[selected + 1]
  /\ UNCHANGED <<uptime_ticks, time, now, began, sleepVars>>

ReadRegister ==
  /\ selected = Len(time) + 1
  /\ time' = Append(time, [register |-> index, value |-> Reading(index, now)])
  /\ UNCHANGED <<uptime_ticks, index, selected, now, began, sleepVars>>

DateDone ==
  /\ Len(time) = Len(Registers)
  /\ selected' = 0 /\ time' = <<>> /\ now' = 0 /\ began' = 0
  /\ UNCHANGED <<uptime_ticks, index, sleepVars>>

(* cmd_sleep, for any int its argument makes that is more than zero: it     *)
(* waits on the difference of two seconds, without sign.                    *)
SleepCall(n) ==
  /\ start' = timer_get_uptime_seconds
  /\ seconds' = n /\ slept' = 0
  /\ UNCHANGED <<uptime_ticks, index, dateVars>>

SleepOver_Early == ((timer_get_uptime_seconds - start) % WORD) + 1 >= seconds
SleepOver == (timer_get_uptime_seconds - start) % WORD >= seconds

SleepReturns ==
  /\ SleepOver
  /\ start' = 0 /\ seconds' = 0 /\ slept' = 0
  /\ UNCHANGED <<uptime_ticks, index, dateVars>>

ClockOK ==
  /\ uptime_ticks \in 0 .. (WORD - 1)
  /\ \E r \in DOMAIN Registers : index = Registers[r]
  /\ selected \in 0 .. Len(Registers) /\ Len(time) \in {selected, selected - 1}
  /\ {now, began} \subseteq 0 .. (DAY - 1)
  /\ start \in 0 .. MaxSeconds /\ seconds \in 0 .. INT_MAX /\ slept \in 0 .. WORD
=============================================================================
