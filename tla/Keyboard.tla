------------------------------ MODULE Keyboard ------------------------------
(***************************************************************************)
(* The keyboard driver, drivers/keyboard/keyboard.c: the interrupt handler *)
(* reads scancodes from the controller, tracks the modifier keys and       *)
(* queues every other key that is pressed in a ring of one byte per slot;  *)
(* the shell (keyboard_getchar) and the menus and games                    *)
(* (keyboard_get_scancode) take them out.  The handler runs with           *)
(* interrupts off, between any two steps of the taker; the timer interrupt *)
(* matters here because it, too, wakes a halted processor.                 *)
(***************************************************************************)
EXTENDS Integers, Sequences, FiniteSets

CONSTANTS
  KEYBOARD_BUFFER_SIZE,  (* slots of the ring (128)                            *)
  CharKeys,              (* keys whose scancode is queued                      *)
  ModKeys,               (* the modifier keys of this keyboard                 *)
  NoCode,                (* no scancode                                        *)
  MaxWire                (* bytes the keyboard has sent and nobody has read    *)

(* The bit a modifier key holds while it is down, and the bits that flip.   *)
(* Right Ctrl and AltGr send the codes of the left keys behind a prefix,    *)
(* 0xE0, which the handler takes for the release of no key.                 *)
HoldMod ==
  [lctrl |-> "ctrl", rctrl |-> "ctrl", lshift |-> "shift", rshift |-> "shift",
   lalt |-> "alt", ralt |-> "alt"]
ToggleMod == [capslock |-> "caps", numlock |-> "num", scrolllock |-> "scroll"]

ASSUME KeyboardAssumption ==
  /\ KEYBOARD_BUFFER_SIZE \in Nat /\ KEYBOARD_BUFFER_SIZE > 1
  /\ ModKeys \subseteq DOMAIN HoldMod \cup DOMAIN ToggleMod
  /\ CharKeys \cap (DOMAIN HoldMod \cup DOMAIN ToggleMod) = {}
  /\ NoCode \notin CharKeys
  /\ MaxWire \in Nat

VARIABLES
  keyboard_buffer,       (* the ring                                           *)
  keyboard_buffer_start, (* the slot the taker reads next                      *)
  keyboard_buffer_end,   (* the slot the handler writes next                   *)
  keyboard_modifiers,    (* the modifier bits that are set                     *)
  wire,                  (* scancodes sent by the keyboard, not yet read       *)
  down,                  (* the keys the user holds down                       *)
  pc,                    (* where the taker is                                 *)
  call,                  (* which of the two takers it is in                   *)
  scancode,              (* its local of that name                             *)
  taken                  (* the scancode it took last                          *)

ring == <<keyboard_buffer, keyboard_buffer_end, keyboard_modifiers>>
taker == <<pc, call, scancode, taken, keyboard_buffer_start>>
vars == <<ring, wire, down, taker>>

Keys == CharKeys \cup ModKeys
Slots == 0 .. (KEYBOARD_BUFFER_SIZE - 1)
After_NoWrap(i) == i + 1
After(i) == (i + 1) % KEYBOARD_BUFFER_SIZE
IsEmpty == keyboard_buffer_start = keyboard_buffer_end

Make(k) == [key |-> k, up |-> FALSE]
Break(k) == [key |-> k, up |-> TRUE]    (* the scancode with bit 0x80 *)

Init ==
  /\ keyboard_buffer = [i \in Slots |-> NoCode]
  /\ keyboard_buffer_start = 0
  /\ keyboard_buffer_end = 0
  /\ keyboard_modifiers = {}
  /\ wire = <<>>
  /\ down = {}
  /\ pc = "idle" /\ call = "getchar" /\ scancode = NoCode /\ taken = NoCode
-----------------------------------------------------------------------------
(* The user.  A key that is kept down sends its make code again and again. *)
Press(k) ==
  /\ Len(wire) < MaxWire
  /\ wire' = Append(wire, Make(k))
  /\ down' = down \cup {k}
  /\ UNCHANGED <<ring, taker>>

Release(k) ==
  /\ k \in down
  /\ Len(wire) < MaxWire
  /\ wire' = Append(wire, Break(k))
  /\ down' = down \ {k}
  /\ UNCHANGED <<ring, taker>>
-----------------------------------------------------------------------------
(* Any interrupt ends a hlt; the instruction after it is the test again.   *)
Wake == IF pc = "halted" THEN pc' = "test" ELSE UNCHANGED pc

Toggled(s, m) == IF m \in s THEN s \ {m} ELSE s \cup {m}

(* keyboard_modifiers after the handler has read the byte b. *)
NewModifiers_NoRelease(b) ==
  IF b.key \in DOMAIN HoldMod THEN keyboard_modifiers \cup {HoldMod[b.key]}
  ELSE keyboard_modifiers
NewModifiers(b) ==
  CASE b.key \in DOMAIN HoldMod /\ b.up -> keyboard_modifiers \ {HoldMod[b.key]}
    [] b.key \in DOMAIN HoldMod /\ ~b.up -> keyboard_modifiers \cup {HoldMod[b.key]}
    [] b.key \in DOMAIN ToggleMod /\ ~b.up -> Toggled(keyboard_modifiers, ToggleMod[b.key])
    [] OTHER -> keyboard_modifiers

(* "Add the scancode to the buffer if there's space" *)
Queued_Always(b) == b.key \in CharKeys /\ ~b.up
Queued_TooEarly(b) ==
  /\ b.key \in CharKeys /\ ~b.up
  /\ After(After(keyboard_buffer_end)) # keyboard_buffer_start
Queued(b) ==
  /\ b.key \in CharKeys /\ ~b.up
  /\ After(keyboard_buffer_end) # keyboard_buffer_start

(* keyboard_handler *)
KeyInterrupt ==
  /\ wire # <<>>
  /\ LET b == Head(wire)
     IN  /\ keyboard_modifiers' = NewModifiers(b)
         /\ IF Queued(b)
            THEN /\ keyboard_buffer' = [keyboard_buffer EXCEPT
                                          ![keyboard_buffer_end] = b.key]
                 /\ keyboard_buffer_end' = After(keyboard_buffer_end)
            ELSE UNCHANGED <<keyboard_buffer, keyboard_buffer_end>>
  /\ wire' = Tail(wire)
  /\ Wake
  /\ UNCHANGED <<down, call, scancode, taken, keyboard_buffer_start>>

TimerInterrupt_NoWake == UNCHANGED vars
TimerInterrupt ==
  /\ Wake
  /\ UNCHANGED <<ring, wire, down, call, scancode, taken, keyboard_buffer_start>>
-----------------------------------------------------------------------------
Goto(l) == pc' = l

(* The shell asks for a character, or a menu polls. *)
Enter(c) ==
  /\ pc = "idle"
  /\ call' = c
  /\ Goto("test")
  /\ UNCHANGED <<ring, wire, down, scancode, taken, keyboard_buffer_start>>

(* The emptiness test: getchar halts until there is a key, get_scancode    *)
(* returns 0.  A key that arrives once the test has failed is not noticed  *)
(* before the next interrupt.                                              *)
Test ==
  /\ pc = "test"
  /\ Goto(IF ~IsEmpty THEN "fetch" ELSE IF call = "getchar" THEN "hlt" ELSE "idle")
  /\ UNCHANGED <<ring, wire, down, call, scancode, taken, keyboard_buffer_start>>

Halt ==
  /\ pc = "hlt"
  /\ Goto("halted")
  /\ UNCHANGED <<ring, wire, down, call, scancode, taken, keyboard_buffer_start>>

Fetch ==
  /\ pc = "fetch"
  /\ scancode' = keyboard_buffer[keyboard_buffer_start]
  /\ Goto("advance")
  /\ UNCHANGED <<ring, wire, down, call, taken, keyboard_buffer_start>>

Advance_Stay ==
  /\ pc = "advance"
  /\ taken' = scancode
  /\ Goto("idle")
  /\ UNCHANGED <<ring, wire, down, call, scancode, keyboard_buffer_start>>
Advance ==
  /\ pc = "advance"
  /\ keyboard_buffer_start' = After(keyboard_buffer_start)
  /\ taken' = scancode
  /\ Goto("idle")
  /\ UNCHANGED <<ring, wire, down, call, scancode>>

Take == (\E c \in {"getchar", "get_scancode"} : Enter(c))
          \/ Test \/ Halt \/ Fetch \/ Advance
-----------------------------------------------------------------------------
Next ==
  \/ \E k \in Keys : Press(k) \/ Release(k)
  \/ KeyInterrupt
  \/ TimerInterrupt
  \/ Take

(* The processor executes, the timer ticks, and a raised IRQ1 is taken.    *)
(* Nobody has to type.                                                     *)
Spec ==
  /\ Init /\ [][Next]_vars
  /\ WF_vars(Take) /\ WF_vars(TimerInterrupt) /\ WF_vars(KeyInterrupt)
-----------------------------------------------------------------------------
TypeOK ==
  /\ keyboard_buffer \in [Slots -> CharKeys \cup {NoCode}]
  /\ keyboard_buffer_start \in Slots
  /\ keyboard_buffer_end \in Slots
  /\ keyboard_modifiers \subseteq {"ctrl", "shift", "alt", "caps", "num", "scroll"}
  /\ wire \in Seq([key : Keys, up : BOOLEAN])
  /\ down \subseteq Keys
  /\ pc \in {"idle", "test", "hlt", "halted", "fetch", "advance"}
  /\ call \in {"getchar", "get_scancode"}
  /\ scancode \in CharKeys \cup {NoCode}
  /\ taken \in CharKeys \cup {NoCode}

(* The keys the ring holds, oldest first. *)
Count ==
  IF keyboard_buffer_end >= keyboard_buffer_start
  THEN keyboard_buffer_end - keyboard_buffer_start
  ELSE keyboard_buffer_end - keyboard_buffer_start + KEYBOARD_BUFFER_SIZE
Slot(i) == (keyboard_buffer_start + i - 1) % KEYBOARD_BUFFER_SIZE
Contents == [i \in 1 .. Count |-> keyboard_buffer[Slot(i)]]

(* Between its test and its store to start the taker works on a slot that  *)
(* the handler, which may run in between, leaves alone: the ring is not    *)
(* empty, and what was fetched is still its oldest key.                    *)
FetchStable ==
  /\ pc \in {"fetch", "advance"} => ~IsEmpty
  /\ pc = "advance" => scancode = keyboard_buffer[keyboard_buffer_start]

Fifo == INSTANCE BoundedFifo WITH
  Capacity <- KEYBOARD_BUFFER_SIZE - 1, Items <- CharKeys, queue <- Contents

(* Every key the handler queues is taken once, in the order typed, whatever *)
(* the interleaving of handler and taker.                                   *)
KeysInOrder == Fifo!FifoSpec

(* The handler drops a key only when KEYBOARD_BUFFER_SIZE - 1 are waiting,  *)
(* wherever in the ring they are and whatever the taker is in the middle of. *)
DropsOnlyWhenFull ==
  [][ /\ wire # <<>> /\ wire' = Tail(wire)
      /\ Head(wire).key \in CharKeys /\ ~Head(wire).up
      /\ Count < KEYBOARD_BUFFER_SIZE - 1
      => Contents' = Append(Contents, Head(wire).key) ]_vars

(* Once every byte has been read, a modifier bit is set only while a key    *)
(* that sets it is down, and a key that alone sets its bit has it set.      *)
ModifiersFollowKeys ==
  wire = <<>> =>
    \A m \in {"ctrl", "shift", "alt"} :
      LET setters == {k \in ModKeys \cap DOMAIN HoldMod : HoldMod[k] = m}
      IN  /\ m \in keyboard_modifiers => setters \cap down # {}
          /\ Cardinality(setters) = 1 /\ setters \subseteq down => m \in keyboard_modifiers

(* "Current keyboard state" (keyboard.c:7) and "Update modifier keys state" *)
(* (keyboard.c:79): once every byte has been read, MOD_SHIFT is set exactly *)
(* while a shift key is down.                                               *)
ShiftIsCurrent ==
  wire = <<>> => ("shift" \in keyboard_modifiers <=> down \cap {"lshift", "rshift"} # {})

(* A key that waits in the ring is taken, although the test and the hlt of  *)
(* keyboard_getchar are two instructions and the key may arrive in between. *)
KeysAreTaken == ~IsEmpty ~> (pc = "advance")
=============================================================================
