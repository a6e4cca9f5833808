----------------------------- MODULE MCKeyboard -----------------------------
(* A ring of three slots fills, wraps and drops within a few keys.  One      *)
(* unread byte is enough: the handler reads bytes in the order sent, so a    *)
(* burst of two is a press, an interrupt, a press and an interrupt with no   *)
(* step of the taker in between, which one byte allows.                      *)
EXTENDS Keyboard

CONSTANTS keyA, keyB, none

MCCharKeys == {keyA, keyB}
MCModKeys == {"lctrl", "lshift", "rshift"}
=============================================================================
