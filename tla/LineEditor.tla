----------------------------- MODULE LineEditor -----------------------------
(***************************************************************************)
(* What a command line promises its user: the line grows by what is typed  *)
(* while there is room, a backspace takes the last character back, and     *)
(* Enter hands over exactly the line and starts an empty one.              *)
(***************************************************************************)
EXTENDS Naturals, Sequences, SequencesExt

CONSTANTS
  Typeable,  (* the characters a line is made of *)
  Room       (* the longest line                 *)

VARIABLES
  line,      (* what was typed since the last Enter *)
  executed   (* the line handed over last           *)

EditorInit == line = <<>> /\ executed = <<>>

Type(c) ==
  /\ Len(line) < Room
  /\ line' = Append(line, c)
  /\ UNCHANGED executed

Erase ==
  /\ line # <<>>
  /\ line' = Front(line)
  /\ UNCHANGED executed

Submit ==
  /\ executed' = line
  /\ line' = <<>>

EditorNext == (\E c \in Typeable : Type(c)) \/ Erase \/ Submit

EditorSpec == EditorInit /\ [][EditorNext]_<<line, executed>>
=============================================================================
