------------------------------ MODULE Session ------------------------------
(***************************************************************************)
(* The user at the shell: the line editor of Console, and the menus that    *)
(* the commands bios and games run (kernel/shell.c).  A menu reads the keys *)
(* itself, and draws over the pane with the prompt; the command line stays  *)
(* in command_buffer until the menu returns.                                *)
(***************************************************************************)
EXTENDS Console, Menus

CONSTANTS
  Command,   (* the word that opens setup, and the one that opens games     *)
  MenuText   (* what a menu draws on the cleared pane                       *)

ASSUME SessionAssumption ==
  /\ DOMAIN Command = {"setup", "games"}
  /\ \A menu \in DOMAIN Command : Command[menu] \in Seq(Letters) \ {<<>>}
  /\ MenuText \in Seq(Glyphs \cup {NL, BS})

sessionVars == <<consoleVars, menuVars>>

Calls(menu) == argv' # <<>> /\ argv'[1] = Command[menu]

Init == ConsoleInit /\ MenusInit

(* shell_run, with no command or one that is no menu. *)
Edit ==
  /\ ~Running
  /\ \/ Backspace
     \/ \E c \in Printable : TypeChar(c)
     \/ Enter /\ ~ \E menu \in DOMAIN Command : Calls(menu)
  /\ UNCHANGED menuVars

OpenMenu(menu) ==
  /\ ~Running
  /\ Submit /\ Calls(menu)
  /\ Open(menu)
  /\ pane' = Puts(Cleared, MenuText)
  /\ UNCHANGED <<command_buffer, command_length>>

Type == Running /\ TypeKey /\ UNCHANGED consoleVars

(* Setup leaves its text on the pane, the list of games does not. *)
Left(menu) == IF menu = "games" THEN Cleared ELSE pane

Poll ==
  /\ Running
  /\ FindKey \/ ObeyKey
  /\ IF Running' THEN UNCHANGED consoleVars
     ELSE Done(Left(Head(shows.open).menu)) /\ UNCHANGED <<executed, argv>>

Next == Edit \/ (\E menu \in DOMAIN Command : OpenMenu(menu)) \/ Type \/ Poll

(* A menu does nothing but poll. *)
Spec == Init /\ [][Next]_sessionVars /\ WF_sessionVars(Poll)
-----------------------------------------------------------------------------
TypeOK == ConsoleOK /\ MenusOK

(* While a menu runs, the line has been handed over. *)
Edited == INSTANCE LineEditor WITH
  Typeable <- Printable, Room <- MAX_COMMAND_LENGTH - 1,
  line <- IF Running THEN <<>> ELSE Line

(* Through any mix of keys, what a command is given is the line that was    *)
(* typed, characters taken back excluded, and nothing of an earlier line,   *)
(* nor of the keys that were typed into a menu.                             *)
GivesLine == Edited!EditorSpec

(* The screen goes on showing the line that is being edited, when it wraps  *)
(* and when the pane scrolls, and shows it again when a menu returns: every *)
(* key keeps the two copies in step except a backspace with the cursor at   *)
(* the left edge, after the line has just wrapped: the cursor cannot go     *)
(* back up (vga_manager.c:79), and the character taken off the line stays   *)
(* on the screen.                                                           *)
InStep == Running \/ Shown
EchoKeepsStep ==
  [][InStep /\ ~(command_length' = command_length - 1 /\ pane.x = 0) => InStep']_sessionVars

(* A menu acts on what is typed: unless keys come for ever, it takes them   *)
(* all and comes to rest, whatever menus they open and close.               *)
MenusComeToRest == []<><<Type>>_sessionVars \/ <>[]Settled
=============================================================================
