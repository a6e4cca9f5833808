----------------------------- MODULE Interrupts -----------------------------
(***************************************************************************)
(* How the kernel is interrupted: the descriptor table (kernel/idt.c), the *)
(* two lines the interrupt controller lets through (kernel/pic.c) and the  *)
(* stubs (kernel/interrupts.asm).  The controller's registers and what the *)
(* processor does with a request are hardware.                             *)
(*                                                                         *)
(* There are no nested handlers: the gates are interrupt gates, which turn *)
(* interrupts off until iret.                                              *)
(***************************************************************************)
EXTENDS Integers

VARIABLES
  enabled,  (* the interrupt flag of the processor                         *)
  gates,    (* the vectors whose descriptor is present in idt              *)
  irr,      (* lines with a request that waits                             *)
  isr,      (* lines whose request was taken and not yet acknowledged      *)
  handler   (* the line whose handler runs, as a set of at most one        *)

IRQs == {0, 1}          (* timer and keyboard: pic_init masks all others *)
Vector(i) == 32 + i     (* the offset pic_init programs *)
SyscallVector == 128

InterruptsInit ==
  /\ enabled = FALSE
  /\ gates = {} /\ irr = {} /\ isr = {} /\ handler = {}

(* The state a reset leaves is the state the loader starts the kernel in. *)
InterruptsReset ==
  /\ enabled' = FALSE
  /\ gates' = {} /\ irr' = {} /\ isr' = {} /\ handler' = {}

(* idt_set_gate, the first time preceded by the memset of idt_init. *)
SetGate(v) == gates' = gates \cup {v}

(* pic_init: the first command word forgets the requests seen so far. *)
PicInit == irr' = {} /\ isr' = {}

Cli == enabled' = FALSE
Sti == enabled' = TRUE

(* A device asks: the timer each period, the keyboard when its byte is there. *)
WithRequest(i) == irr \cup {i}

(* The request the processor takes next: none while a line of the same or   *)
(* a higher priority is not acknowledged.                                   *)
Taken(i) ==
  /\ enabled /\ i \in irr
  /\ \A j \in irr : i <= j
  /\ \A j \in isr : i < j

Deliver(i) ==
  /\ Taken(i) /\ Vector(i) \in gates
  /\ handler' = {i} /\ enabled' = FALSE
  /\ irr' = irr \ {i} /\ isr' = isr \cup {i}
  /\ UNCHANGED gates

(* No descriptor: the fault has no handler either, and the machine resets. *)
NoGate(i) == Taken(i) /\ Vector(i) \notin gates

(* pic_send_eoi *)
Acknowledged_Never(i) == isr
Acknowledged(i) == isr \ {i}

(* Both handlers acknowledge, and end with the iret of their stub. *)
HandlerReturns(i) ==
  /\ handler = {i}
  /\ isr' = Acknowledged(i)
  /\ handler' = {} /\ enabled' = TRUE
  /\ UNCHANGED gates

InterruptsOK ==
  /\ enabled \in BOOLEAN
  /\ gates \subseteq {Vector(i) : i \in IRQs} \cup {SyscallVector}
  /\ irr \subseteq IRQs /\ isr \subseteq IRQs
  /\ handler \subseteq IRQs /\ handler # IRQs
=============================================================================
