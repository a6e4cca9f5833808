----------------------------- MODULE MCMachine -----------------------------
(* Words of three bits and seconds of three ticks, so that the tick count    *)
(* wraps in the middle of a second and of a sleep, and the greatest int, 3,  *)
(* is more seconds than it can show, 2; two keys, of which space (0x39)    *)
(* has bit 4 set, which in a configuration byte turns the keyboard off, and  *)
(* tab (0x0F) has not; power on and one reset.                               *)
EXTENDS Machine

MCDrives == {"disk", "other"}
MCScancodes == {"space", "tab"}
MCDisabling == {"space"}

(* No carry, a carry to the minute, to the hour, and past midnight. *)
MCTimes == {0, 1, 3, 7}
=============================================================================
