------------------------------ MODULE Console ------------------------------
(***************************************************************************)
(* The shell's line editor (shell_run, kernel/shell.c) and the pane of the *)
(* screen it echoes to (kernel/vga_manager.c): the same keys edit two      *)
(* copies of the command line, one in command_buffer, one on the screen.   *)
(*                                                                         *)
(* One action per key that keyboard_getchar returns.  The interrupt        *)
(* handlers change neither copy: what the timer draws is in the other      *)
(* pane.  Of a command only its output is modelled; Session adds the menus, *)
(* SkullFS and WorkingDir have the file commands.  Colours are left out.    *)
(***************************************************************************)
EXTENDS Integers, Sequences, FiniteSets, SequencesExt, Functions

CONSTANTS
  MAX_COMMAND_LENGTH,  (* bytes of command_buffer (80)                     *)
  MaxArgs,             (* entries of argv, its NULL included (16)          *)
  WIDTH, HEIGHT,       (* the pane (40 by 25)                              *)
  Letters,             (* printable characters other than the blank        *)
  Glyphs,              (* what a cell of the pane can show                  *)
  Prompt,              (* what shell_print_prompt prints                   *)
  Outputs              (* what commands may print                          *)

Blank == " "
NL == "\n"
BS == "BS"
NUL == "NUL"

ASSUME ConsoleAssumption ==
  /\ MAX_COMMAND_LENGTH \in Nat \ {0} /\ MaxArgs \in Nat /\ MaxArgs > 1
  /\ WIDTH \in Nat \ {0} /\ HEIGHT \in Nat \ {0}
  /\ {Blank, NL, BS, NUL} \cap Letters = {}
  /\ Letters \cup {Blank} \subseteq Glyphs /\ {NL, BS} \cap Glyphs = {}
  /\ Prompt \in Seq(Glyphs)
  /\ \A out \in Outputs : out \in Seq(Glyphs \cup {NL, BS})

VARIABLES
  command_buffer,  (* its bytes                                            *)
  command_length,  (* how many of them are the line                        *)
  pane,            (* the cells of the pane and the cursor                 *)
  executed,        (* the command line shell_process_command was given last *)
  argv             (* the arguments it made of it                          *)

consoleVars == <<command_buffer, command_length, pane, executed, argv>>

Printable == Letters \cup {Blank}
Empty == [i \in 0 .. (MAX_COMMAND_LENGTH - 1) |-> NUL]
-----------------------------------------------------------------------------
(* What is in the cells of a pane, and where its cursor is. *)
Pane(cell, x, y) == [cell |-> cell, x |-> x, y |-> y]
Cells == (0 .. HEIGHT - 1) \X (0 .. WIDTH - 1)

(* vga_manager_clear *)
Cleared == Pane([q \in Cells |-> Blank], 0, 0)

(* vga_manager_putchar: the character ... *)
Drawn(p, c) ==
  CASE c = NL -> Pane(p.cell, 0, p.y + 1)
    [] c = BS -> IF p.x > 0 THEN Pane([p.cell EXCEPT ![<<p.y, p.x - 1>>] = Blank], p.x - 1, p.y)
                 ELSE p
    [] OTHER -> Pane([p.cell EXCEPT ![<<p.y, p.x>>] = c], p.x + 1, p.y)

(* ... the end of a row ... *)
Wrapped(p) == IF p.x >= WIDTH THEN Pane(p.cell, 0, p.y + 1) ELSE p

(* ... and the end of the pane: vga_manager_scroll. *)
MovedUp(cell) == [q \in Cells |-> IF q[1] = HEIGHT - 1 THEN Blank ELSE cell[<<q[1] + 1, q[2]>>]]
MovedUpKept(cell) == [q \in Cells |-> cell[<<IF q[1] = HEIGHT - 1 THEN q[1] ELSE q[1] + 1, q[2]>>]]

Scrolled_KeepLast(p) == IF p.y < HEIGHT THEN p ELSE Pane(MovedUpKept(p.cell), p.x, HEIGHT - 1)
Scrolled(p) == IF p.y < HEIGHT THEN p ELSE Pane(MovedUp(p.cell), p.x, HEIGHT - 1)

PutChar(p, c) == Scrolled(Wrapped(Drawn(p, c)))

(* terminal_puts *)
Puts(p, s) ==
  LET after[n \in 0 .. Len(s)] == IF n = 0 THEN p ELSE PutChar(after[n - 1], s[n])
  IN  after[Len(s)]
-----------------------------------------------------------------------------
(* A C string: the bytes before the first NUL. *)
CString(buffer) ==
  LET n == CHOOSE n \in DOMAIN buffer :
             buffer[n] = NUL /\ \A i \in 0 .. (n - 1) : buffer[i] # NUL
  IN  [i \in 1 .. n |-> buffer[i - 1]]

(* shell_parse_arguments: where the words of the line begin, and as many of *)
(* them as argv has entries for before its NULL.  The loop ends before the  *)
(* blank after the last of those is overwritten: it runs to the end.        *)
WordStarts(line) ==
  {i \in DOMAIN line : line[i] # Blank /\ (i > 1 => line[i - 1] = Blank)}

WordAt(line, i) ==
  LET end == {j \in i .. Len(line) : line[j] = Blank}
  IN  SubSeq(line, i, IF end = {} THEN Len(line) ELSE (CHOOSE j \in end : \A k \in end : j <= k) - 1)

WordCount(line) == Cardinality(WordStarts(line))
WordStart(line, k) ==
  CHOOSE i \in WordStarts(line) : Cardinality(WordStarts(line) \cap 1 .. i) = k
ArgCount(line) == IF WordCount(line) < MaxArgs THEN WordCount(line) ELSE MaxArgs - 1

Arguments_Cut(line) == [k \in 1 .. ArgCount(line) |-> WordAt(line, WordStart(line, k))]
Arguments(line) ==
  [k \in 1 .. ArgCount(line) |->
    IF k = MaxArgs - 1 THEN SubSeq(line, WordStart(line, k), Len(line))
    ELSE WordAt(line, WordStart(line, k))]
-----------------------------------------------------------------------------
(* What is on the screen when the shell starts to run is left out.          *)
ConsoleInit ==
  /\ command_buffer = Empty
  /\ command_length = 0
  /\ pane = Puts(Cleared, Prompt)
  /\ executed = <<>> /\ argv = <<>>

(* "Execute command": the pane after the line ending and the command.  An   *)
(* empty command does nothing; clear clears the pane; any other prints.     *)
AfterCommand(p, args) ==
  IF args = <<>> THEN {p}
  ELSE {Cleared} \cup {Puts(Puts(p, <<NL>>), out) : out \in Outputs}

Submit ==
  /\ executed' = CString([command_buffer EXCEPT ![command_length] = NUL])
  /\ argv' = Arguments(executed')

(* "Reset for next command" *)
Done_KeepLength(p) ==
  /\ command_buffer' = Empty
  /\ pane' = Puts(p, Prompt)
  /\ UNCHANGED command_length
Done(p) ==
  /\ command_length' = 0
  /\ command_buffer' = Empty
  /\ pane' = Puts(p, Prompt)

Enter == Submit /\ \E p \in AfterCommand(Puts(pane, <<NL>>), argv') : Done(p)

(* "Backspace or Delete": with no line, nothing happens. *)
Backspace ==
  /\ command_length > 0
  /\ command_length' = command_length - 1
  /\ command_buffer' = [command_buffer EXCEPT ![command_length - 1] = NUL]
  /\ pane' = Puts(pane, <<BS, Blank, BS>>)
  /\ UNCHANGED <<executed, argv>>

(* "Printable character": ignored when the line is full. *)
HasRoom_Full == command_length < MAX_COMMAND_LENGTH
HasRoom == command_length < MAX_COMMAND_LENGTH - 1

TypeChar_EchoFull(c) ==
  /\ IF HasRoom
     THEN /\ command_buffer' = [command_buffer EXCEPT ![command_length] = c]
          /\ command_length' = command_length + 1
     ELSE UNCHANGED <<command_buffer, command_length>>
  /\ pane' = PutChar(pane, c)
  /\ UNCHANGED <<executed, argv>>
TypeChar(c) ==
  /\ HasRoom
  /\ command_buffer' = [command_buffer EXCEPT ![command_length] = c]
  /\ command_length' = command_length + 1
  /\ pane' = PutChar(pane, c)
  /\ UNCHANGED <<executed, argv>>
-----------------------------------------------------------------------------
ConsoleOK ==
  /\ command_buffer \in [0 .. (MAX_COMMAND_LENGTH - 1) -> Printable \cup {NUL}]
  /\ command_length \in 0 .. (MAX_COMMAND_LENGTH - 1)
  /\ DOMAIN pane.cell = Cells
  /\ pane.x \in 0 .. (WIDTH - 1) /\ pane.y \in 0 .. (HEIGHT - 1)
  /\ executed \in Seq(Printable)
  /\ argv \in Seq(Seq(Printable))

Line == [i \in 1 .. command_length |-> command_buffer[i - 1]]

(* The pane in reading order, and the cursor in it. *)
Cell(i) == pane.cell[<<i \div WIDTH, i % WIDTH>>]
Cursor == pane.y * WIDTH + pane.x

(* The prompt and the line are what is on the screen just before the cursor. *)
Shown ==
  LET text == Prompt \o Line
  IN  /\ Cursor >= Len(text)
      /\ \A i \in DOMAIN text : Cell(Cursor - Len(text) + i - 1) = text[i]

(* Nothing is left on the screen past the cursor, by any output, backspace, *)
(* clear or scroll: what comes next is read as it was printed.              *)
NothingPastCursor == \A i \in Cursor .. (WIDTH * HEIGHT - 1) : Cell(i) = Blank

Words(line) == [k \in 1 .. WordCount(line) |-> WordAt(line, WordStart(line, k))]

(* The arguments have the words of the command, all of them and in their    *)
(* order, however many: what argv has no entry for stays in the last one.   *)
NoWordLost ==
  /\ Len(argv) < MaxArgs
  /\ FlattenSeq([k \in DOMAIN argv |-> Words(argv[k])]) = Words(executed)
=============================================================================
