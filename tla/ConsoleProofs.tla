--------------------------- MODULE ConsoleProofs ---------------------------
(***************************************************************************)
(* The two copies of the command line, for every size of the buffer and of *)
(* the pane, every prompt and every output.  SessionInv is the inductive   *)
(* invariant: the bytes below command_length are characters (LineInv), the *)
(* menus show an item that they have (MenusInv), and the pane is blank from *)
(* the cursor on (CleanPane).  From it follow TypeOK and NothingPastCursor, *)
(* that the bytes implement the line of LineEditor, that the arguments of a *)
(* command have all its words, and, for a pane that has room for the        *)
(* longest line, that the screen shows it.                                  *)
(*                                                                         *)
(* What terminal_puts does to a pane it does one character after another:   *)
(* PutsSteps says so, and Inductive is the induction over them, from the    *)
(* well-founded order of the naturals.                                      *)
(***************************************************************************)
EXTENDS Session, SequenceTheorems, FiniteSums

Indices == 0 .. (MAX_COMMAND_LENGTH - 1)

(* The inductive invariant of the line: the bytes below command_length are  *)
(* characters, so that the NUL that is written behind them ends the string. *)
LineInv ==
  /\ command_buffer \in [Indices -> Printable \cup {NUL}]
  /\ command_length \in Indices
  /\ \A i \in 0 .. (command_length - 1) : command_buffer[i] # NUL

(* No key that is typed into the line ends it. *)
LEMMA NulNotPrintable == NUL \notin Printable
  BY ConsoleAssumption DEF Printable, Blank, NL, BS, NUL

(* The bytes below the length are a line of characters. *)
LEMMA BytesTyped ==
  ASSUME NEW buffer \in [Indices -> Printable \cup {NUL}], NEW n \in Indices,
         \A i \in 0 .. (n - 1) : buffer[i] # NUL,
         NEW line, line = [i \in 1 .. n |-> buffer[i - 1]]
  PROVE  /\ line \in Seq(Printable) /\ Len(line) = n
         /\ \A i \in 1 .. n : line[i] = buffer[i - 1]
<1>1. n \in Nat
  BY ConsoleAssumption DEF Indices
<1>2. \A i \in 1 .. n : buffer[i - 1] \in Printable
  <2> TAKE i \in 1 .. n
  <2>1. i - 1 \in Indices /\ i - 1 \in 0 .. (n - 1)
    BY <1>1, ConsoleAssumption DEF Indices
  <2> QED
    BY <2>1
<1> QED
  BY <1>1, <1>2, SeqDef, LenProperties

(* The line is made of the bytes below command_length. *)
LEMMA LineTyped ==
  ASSUME LineInv
  PROVE  /\ Line \in Seq(Printable) /\ Len(Line) = command_length
         /\ \A i \in 1 .. command_length : Line[i] = command_buffer[i - 1]
  BY BytesTyped DEF LineInv, Line

(* The same, after a step. *)
LEMMA LineTypedNext ==
  ASSUME LineInv'
  PROVE  /\ Line' \in Seq(Printable) /\ Len(Line') = command_length'
         /\ \A i \in 1 .. command_length' : Line'[i] = command_buffer'[i - 1]
  BY BytesTyped DEF LineInv, Line

(* The byte that ends the string is the one shell_process_command writes. *)
LEMMA SubmitsLine ==
  ASSUME LineInv
  PROVE  CString([command_buffer EXCEPT ![command_length] = NUL]) = Line
<1> DEFINE buffer == [command_buffer EXCEPT ![command_length] = NUL]
           Ends(n) == buffer[n] = NUL /\ \A i \in 0 .. (n - 1) : buffer[i] # NUL
<1>1. /\ MAX_COMMAND_LENGTH \in Nat /\ command_length \in Nat
      /\ command_length < MAX_COMMAND_LENGTH
  BY ConsoleAssumption DEF LineInv, Indices
<1>2. /\ DOMAIN buffer = Indices /\ command_length \in Indices
      /\ buffer[command_length] = NUL
      /\ \A i \in 0 .. (command_length - 1) : buffer[i] = command_buffer[i]
  BY <1>1 DEF LineInv, Indices
<1>3. Ends(command_length)
  BY <1>2 DEF LineInv
<1>4. ASSUME NEW n \in Indices, Ends(n) PROVE n = command_length
  <2>1. ~ n < command_length
    BY <1>1, <1>2, <1>4 DEF LineInv, Indices
  <2>2. ~ command_length < n
    BY <1>1, <1>2, <1>4 DEF Indices
  <2> QED
    BY <1>1, <2>1, <2>2 DEF Indices
<1>5. (CHOOSE n \in DOMAIN buffer : Ends(n)) = command_length
  BY <1>2, <1>3, <1>4
<1>6. CString(buffer) = [i \in 1 .. command_length |-> buffer[i - 1]]
  BY <1>5 DEF CString
<1>7. \A i \in 1 .. command_length : buffer[i - 1] = command_buffer[i - 1]
  BY <1>1, <1>2
<1> QED
  BY <1>6, <1>7 DEF Line
-----------------------------------------------------------------------------
(* The menus: what is on the screen of one, and of all that are open.       *)
MenuNames == {"setup", "config", "games", "snake"}
Items(menu) == IF menu \in DOMAIN menu_items THEN menu_items[menu] - 1 ELSE 0
Fronts == {f \in [menu : MenuNames, selected_item : Nat] : f.selected_item <= Items(f.menu)}
Screens == [open : Seq(Fronts), set : [ToSet(Settings) -> BOOLEAN]]

MenusInv ==
  /\ keys \in Seq(Keys) /\ Len(keys) <= MaxKeys
  /\ last_key \in Keys \cup {None}
  /\ shows \in Screens

(* The tables of the menus, written out. *)
LEMMA MenuItems ==
  /\ DOMAIN menu_items = {"setup", "config", "games"}
  /\ menu_items["setup"] = 4 /\ menu_items["config"] = 2 /\ menu_items["games"] = 1
  BY DEF menu_items

(* The settings that there are. *)
LEMMA SettingNames == ToSet(Settings) = {"show_fps", "debug_mode"}
  BY DEF ToSet, Settings

(* The last menu of a screen that has one, and the screen without it. *)
LEMMA InFront ==
  ASSUME NEW s \in Screens, s.open # <<>>
  PROVE  /\ Len(s.open) \in Nat \ {0}
         /\ Last(s.open) \in Fronts /\ Last(s.open) = s.open[Len(s.open)]
         /\ Front(s.open) \in Seq(Fronts)
<1>1. s.open \in Seq(Fronts)
  BY DEF Screens
<1>2. Len(s.open) \in Nat \ {0}
  BY <1>1, EmptySeq, LenProperties
<1>3. s.open[Len(s.open)] \in Fronts
  BY <1>1, <1>2, ElementOfSeq
<1>4. Front(s.open) \in Seq(Fronts)
  BY <1>1, <1>2, SubSeqProperties DEF Front
<1> QED
  BY <1>2, <1>3, <1>4 DEF Last

(* Opening a menu, closing one, moving in it, and toggling a setting lead    *)
(* from a screen to a screen.                                               *)
LEMMA OpenedScreen ==
  ASSUME NEW s \in Screens, NEW menu \in MenuNames
  PROVE  Opened(s, menu) \in Screens /\ Opened(s, menu).open # <<>>
<1> DEFINE front == [menu |-> menu, selected_item |-> 0]
<1>1. front \in Fronts
  BY MenuItems DEF Fronts, Items
<1>2. s.open \in Seq(Fronts) /\ s \in [open : Seq(Fronts), set : [ToSet(Settings) -> BOOLEAN]]
  BY DEF Screens
<1>3. Append(s.open, front) \in Seq(Fronts) /\ Append(s.open, front) # <<>>
  BY <1>1, <1>2, AppendProperties
<1>4. Opened(s, menu) = [s EXCEPT !.open = Append(s.open, front)]
  BY DEF Opened
<1> HIDE DEF front
<1> QED
  BY <1>2, <1>3, <1>4 DEF Screens

(* Leaving a menu gives a screen, *)
LEMMA ClosedScreen ==
  ASSUME NEW s \in Screens, s.open # <<>>
  PROVE  Closed(s) \in Screens
  BY InFront DEF Closed, Screens

(* so does moving to another item, *)
LEMMA SelectedScreen ==
  ASSUME NEW s \in Screens, s.open # <<>>, Last(s.open).menu # "snake", NEW by \in {-1, 1}
  PROVE  Select(s, by) \in Screens
<1> DEFINE last == Len(s.open)
           front == s.open[last]
           item == (front.selected_item + by) % menu_items[front.menu]
<1>1. front \in Fronts /\ front = Last(s.open) /\ last \in 1 .. Len(s.open) /\ s.open \in Seq(Fronts)
  BY InFront DEF Screens
<1>2. front.menu \in DOMAIN menu_items /\ menu_items[front.menu] \in Nat \ {0}
  BY <1>1, MenuItems DEF Fronts, MenuNames
<1>3. front.selected_item \in Nat
  BY <1>1 DEF Fronts
<1>4. item \in Nat /\ item <= menu_items[front.menu] - 1
  <2>1. ASSUME NEW a \in Int, NEW n \in Nat \ {0} PROVE a % n \in Nat /\ a % n <= n - 1
    OBVIOUS
  <2>2. front.selected_item + by \in Int
    BY <1>3
  <2> QED
    BY <1>2, <2>1, <2>2
<1>5. [front EXCEPT !.selected_item = item] \in Fronts
  BY <1>1, <1>2, <1>4 DEF Fronts, Items
<1>6. Select(s, by) = [s EXCEPT !.open = [s.open EXCEPT ![last] = [front EXCEPT !.selected_item = item]]]
  BY <1>1 DEF Select, Last, Screens
<1>7. [s.open EXCEPT ![last] = [front EXCEPT !.selected_item = item]] \in Seq(Fronts)
  BY <1>1, <1>5, ExceptSeq
<1> HIDE DEF front, item
<1> QED
  BY <1>6, <1>7 DEF Screens

(* and so does changing a setting. *)
LEMMA ToggledScreen ==
  ASSUME NEW s \in Screens, NEW setting \in ToSet(Settings)
  PROVE  Toggle(s, setting) \in Screens
  BY DEF Toggle, Screens

(* No key takes a menu to an item, or to a setting, that it does not have. *)
LEMMA ObeyedScreen ==
  ASSUME NEW s \in Screens, s.open # <<>>, NEW key \in Keys
  PROVE  Obeyed(s, key) \in Screens
<1> DEFINE front == Last(s.open)
<1>1. front \in Fronts /\ front.menu \in MenuNames /\ front.selected_item \in Nat
  BY InFront DEF Fronts
<1>2. CASE front.menu = "snake"
  BY <1>2, ClosedScreen DEF Obeyed, SnakeObeyed
<1>3. CASE front.menu # "snake"
  <2>1. Select(s, 1) \in Screens /\ Select(s, -1) \in Screens
    BY <1>3, SelectedScreen
  <2>2. Chosen(s) \in Screens
    <3>1. CASE front.menu = "setup"
      BY <3>1, OpenedScreen, ClosedScreen DEF Chosen, SetupChosen, MenuNames
    <3>2. CASE front.menu = "config"
      <4>1. front.selected_item \in 0 .. 1
        BY <1>1, <3>2, MenuItems DEF Fronts, Items
      <4>2. Settings[front.selected_item + 1] \in ToSet(Settings)
        BY <4>1, SettingNames DEF Settings
      <4> QED
        BY <3>2, <4>2, ToggledScreen DEF Chosen, ConfigChosen
    <3>3. CASE front.menu = "games"
      BY <3>3, OpenedScreen DEF Chosen, GamesChosen, MenuNames
    <3> QED
      BY <1>1, <1>3, <3>1, <3>2, <3>3 DEF MenuNames
  <2> QED
    BY <1>3, <2>1, <2>2, ClosedScreen DEF Obeyed, Keys
<1> QED
  BY <1>2, <1>3
-----------------------------------------------------------------------------
Rows == 0 .. HEIGHT - 1
Columns == 0 .. WIDTH - 1
Characters == Glyphs \cup {NL, BS}
Canvas == [Cells -> Glyphs]

IsPane(p) ==
  /\ p = Pane(p.cell, p.x, p.y)
  /\ p.cell \in Canvas
  /\ p.x \in Columns /\ p.y \in Rows

(* What the assumptions on the constants come to. *)
LEMMA PaneSize == WIDTH \in Nat /\ WIDTH > 0 /\ HEIGHT \in Nat /\ HEIGHT > 0
  BY ConsoleAssumption

(* No two of the control characters are the same. *)
LEMMA ControlsDiffer == NL # BS /\ Blank # NL /\ Blank # BS
  BY DEF NL, BS, Blank

(* The parts of a pane. *)
LEMMA PaneParts ==
  ASSUME NEW cell, NEW x, NEW y
  PROVE  /\ Pane(cell, x, y).cell = cell
         /\ Pane(cell, x, y).x = x
         /\ Pane(cell, x, y).y = y
  BY DEF Pane

(* What PutChar does to a pane, case by case. *)
LEMMA PutNewline ==
  ASSUME NEW p, IsPane(p)
  PROVE  PutChar(p, NL) = IF p.y < HEIGHT - 1 THEN Pane(p.cell, 0, p.y + 1)
                          ELSE Pane(MovedUp(p.cell), 0, HEIGHT - 1)
<1>1. p.y \in Nat /\ p.y < HEIGHT
  BY PaneSize DEF IsPane, Rows
<1>2. Drawn(p, NL) = Pane(p.cell, 0, p.y + 1)
  BY ControlsDiffer DEF Drawn
<1>3. Wrapped(Pane(p.cell, 0, p.y + 1)) = Pane(p.cell, 0, p.y + 1)
  <2>1. ~(0 >= WIDTH)
    BY PaneSize
  <2> QED
    BY <2>1, PaneParts DEF Wrapped
<1>4. Scrolled(Pane(p.cell, 0, p.y + 1)) =
        IF p.y < HEIGHT - 1 THEN Pane(p.cell, 0, p.y + 1)
        ELSE Pane(MovedUp(p.cell), 0, HEIGHT - 1)
  BY <1>1, PaneParts, PaneSize DEF Scrolled
<1> QED
  BY <1>2, <1>3, <1>4 DEF PutChar

(* A backspace blanks the cell before the cursor, unless the cursor is at   *)
(* the left edge.                                                           *)
LEMMA PutBackspace ==
  ASSUME NEW p, IsPane(p)
  PROVE  PutChar(p, BS) =
           IF p.x > 0 THEN Pane([p.cell EXCEPT ![<<p.y, p.x - 1>>] = Blank], p.x - 1, p.y)
           ELSE p
<1>1. p.x \in Nat /\ p.y \in Nat /\ p.x < WIDTH /\ p.y < HEIGHT
  BY PaneSize DEF IsPane, Rows, Columns
<1>2. Drawn(p, BS) =
        IF p.x > 0 THEN Pane([p.cell EXCEPT ![<<p.y, p.x - 1>>] = Blank], p.x - 1, p.y)
        ELSE p
  BY ControlsDiffer DEF Drawn
<1>3. ASSUME NEW q, q.x \in Nat, q.y \in Nat, q.x < WIDTH, q.y < HEIGHT
      PROVE Scrolled(Wrapped(q)) = q
  <2>1. ~(q.x >= WIDTH)
    BY <1>3, PaneSize
  <2> QED
    BY <1>3, <2>1 DEF Scrolled, Wrapped
<1>4. Drawn(p, BS).x \in Nat /\ Drawn(p, BS).y = p.y /\ Drawn(p, BS).x < WIDTH
  BY <1>1, <1>2, PaneParts, PaneSize
<1> QED
  BY <1>1, <1>2, <1>3, <1>4 DEF PutChar

(* A glyph is written at the cursor, which moves on, wraps, or scrolls      *)
(* the pane.                                                                *)
LEMMA PutGlyph ==
  ASSUME NEW p, IsPane(p), NEW c, c # NL, c # BS, NEW cell,
         cell = [p.cell EXCEPT ![<<p.y, p.x>>] = c]
  PROVE  PutChar(p, c) =
           IF p.x < WIDTH - 1 THEN Pane(cell, p.x + 1, p.y)
           ELSE IF p.y < HEIGHT - 1 THEN Pane(cell, 0, p.y + 1)
           ELSE Pane(MovedUp(cell), 0, HEIGHT - 1)
<1>1. p.x \in Nat /\ p.y \in Nat /\ p.x < WIDTH /\ p.y < HEIGHT
  BY PaneSize DEF IsPane, Rows, Columns
<1>2. Drawn(p, c) = Pane(cell, p.x + 1, p.y)
  BY DEF Drawn
<1>4. Wrapped(Pane(cell, p.x + 1, p.y)) =
        IF p.x < WIDTH - 1 THEN Pane(cell, p.x + 1, p.y) ELSE Pane(cell, 0, p.y + 1)
  BY <1>1, PaneParts, PaneSize DEF Wrapped
<1>5. Scrolled(Pane(cell, p.x + 1, p.y)) = Pane(cell, p.x + 1, p.y)
  BY <1>1, PaneParts, PaneSize DEF Scrolled
<1>6. Scrolled(Pane(cell, 0, p.y + 1)) =
        IF p.y < HEIGHT - 1 THEN Pane(cell, 0, p.y + 1) ELSE Pane(MovedUp(cell), 0, HEIGHT - 1)
  BY <1>1, PaneParts, PaneSize DEF Scrolled
<1> QED
  BY <1>2, <1>4, <1>5, <1>6 DEF PutChar

-----------------------------------------------------------------------------
(* Nothing but blanks at the cursor and past it. *)
Clean(p) ==
  \A q \in Cells : q[1] > p.y \/ (q[1] = p.y /\ q[2] >= p.x) => p.cell[q] = Blank

CleanPane(p) == IsPane(p) /\ Clean(p)

(* The two coordinates of a cell. *)
LEMMA CellParts ==
  /\ \A q \in Cells : /\ q[1] \in Nat /\ q[1] < HEIGHT /\ q[2] \in Nat /\ q[2] < WIDTH
                      /\ q = <<q[1], q[2]>>
  /\ \A y \in Rows, x \in Columns : <<y, x>> \in Cells
  BY PaneSize DEF Cells, Rows, Columns

(* A pane that is put together from its parts. *)
LEMMA PaneIs ==
  ASSUME NEW cell \in Canvas, NEW x \in Columns, NEW y \in Rows
  PROVE  IsPane(Pane(cell, x, y))
  BY PaneParts DEF IsPane

(* vga_manager_scroll: the last row is blank, the others are the next one. *)
LEMMA MovedUpCells ==
  ASSUME NEW cell \in Canvas
  PROVE  /\ MovedUp(cell) \in Canvas
         /\ \A q \in Cells : q[1] = HEIGHT - 1 => MovedUp(cell)[q] = Blank
         /\ \A q \in Cells : q[1] # HEIGHT - 1 => MovedUp(cell)[q] = cell[<<q[1] + 1, q[2]>>]
<1>1. \A q \in Cells : q[1] # HEIGHT - 1 => <<q[1] + 1, q[2]>> \in Cells
  <2> SUFFICES ASSUME NEW q \in Cells, q[1] # HEIGHT - 1 PROVE <<q[1] + 1, q[2]>> \in Cells
    OBVIOUS
  <2>1. q[1] + 1 \in Rows /\ q[2] \in Columns
    BY CellParts, PaneSize DEF Rows, Columns
  <2> QED
    BY <2>1, CellParts
<1>2. Blank \in Glyphs
  BY ConsoleAssumption
<1> QED
  BY <1>1, <1>2 DEF MovedUp, Canvas

(* One cell is drawn, the others stay. *)
LEMMA DrawnCells ==
  ASSUME NEW cell \in Canvas, NEW x \in Columns, NEW y \in Rows, NEW c \in Glyphs
  PROVE  /\ [cell EXCEPT ![<<y, x>>] = c] \in Canvas
         /\ [cell EXCEPT ![<<y, x>>] = c][<<y, x>>] = c
         /\ \A q \in Cells : q[1] # y \/ q[2] # x => [cell EXCEPT ![<<y, x>>] = c][q] = cell[q]
  BY CellParts DEF Canvas

(* vga_manager_putchar leaves nothing past the cursor. *)
LEMMA PutClean ==
  ASSUME NEW p, CleanPane(p), NEW c \in Characters
  PROVE  CleanPane(PutChar(p, c))
<1>1. /\ p.y \in Rows /\ p.y \in Nat /\ p.y < HEIGHT
      /\ p.x \in Columns /\ p.x \in Nat /\ p.x < WIDTH
      /\ p.cell \in Canvas
  BY PaneSize DEF CleanPane, IsPane, Rows, Columns
<1>2. CASE c = NL
  <2>1. CASE p.y < HEIGHT - 1
    <3>1. PutChar(p, c) = Pane(p.cell, 0, p.y + 1)
      BY <1>2, <2>1, PutNewline DEF CleanPane
    <3>2. 0 \in Columns /\ p.y + 1 \in Rows
      BY <1>1, <2>1, PaneSize DEF Rows, Columns
    <3>3. Clean(Pane(p.cell, 0, p.y + 1))
      BY <1>1, CellParts, PaneParts DEF Clean, CleanPane
    <3> QED
      BY <1>1, <3>1, <3>2, <3>3, PaneIs DEF CleanPane
  <2>2. CASE ~ p.y < HEIGHT - 1
    <3>1. PutChar(p, c) = Pane(MovedUp(p.cell), 0, HEIGHT - 1)
      BY <1>2, <2>2, PutNewline DEF CleanPane
    <3>2. 0 \in Columns /\ HEIGHT - 1 \in Rows
      BY PaneSize DEF Rows, Columns
    <3>3. Clean(Pane(MovedUp(p.cell), 0, HEIGHT - 1))
      BY <1>1, CellParts, PaneParts, PaneSize, MovedUpCells DEF Clean
    <3> QED
      BY <1>1, <3>1, <3>2, <3>3, PaneIs, MovedUpCells DEF CleanPane
  <2> QED
    BY <2>1, <2>2
<1>3. CASE c = BS
  <2>1. CASE p.x > 0
    <3> DEFINE cell == [p.cell EXCEPT ![<<p.y, p.x - 1>>] = Blank]
    <3>1. PutChar(p, c) = Pane(cell, p.x - 1, p.y)
      BY <1>3, <2>1, PutBackspace DEF CleanPane
    <3>2. p.x - 1 \in Columns
      BY <1>1, <2>1, PaneSize DEF Columns
    <3>3. /\ cell \in Canvas
          /\ cell[<<p.y, p.x - 1>>] = Blank
          /\ \A q \in Cells : q[1] # p.y \/ q[2] # p.x - 1 => cell[q] = p.cell[q]
      <4>1. Blank \in Glyphs
        BY ConsoleAssumption
      <4>2. PICK x \in Columns : x = p.x - 1
        BY <3>2
      <4>3. cell = [p.cell EXCEPT ![<<p.y, x>>] = Blank]
        BY <4>2
      <4> HIDE DEF cell
      <4> QED
        BY <1>1, <4>1, <4>2, <4>3, DrawnCells
    <3> HIDE DEF cell
    <3>4. ASSUME NEW q \in Cells, q[1] > p.y \/ (q[1] = p.y /\ q[2] >= p.x - 1)
          PROVE  cell[q] = Blank
      <4>1. CASE q[1] = p.y /\ q[2] = p.x - 1
        BY <4>1, <3>3, CellParts
      <4>2. CASE q[1] # p.y \/ q[2] # p.x - 1
        <5>1. q[1] > p.y \/ (q[1] = p.y /\ q[2] >= p.x)
          BY <4>2, <3>4, <1>1, CellParts
        <5> QED
          BY <4>2, <5>1, <3>3 DEF CleanPane, Clean
      <4> QED
        BY <4>1, <4>2
    <3>5. Clean(Pane(cell, p.x - 1, p.y))
      BY <3>4, PaneParts DEF Clean
    <3> QED
      BY <1>1, <3>1, <3>2, <3>3, <3>5, PaneIs DEF CleanPane
  <2>2. CASE ~ p.x > 0
    BY <1>3, <2>2, PutBackspace DEF CleanPane
  <2> QED
    BY <2>1, <2>2
<1>4. CASE c # NL /\ c # BS
  <2> DEFINE cell == [p.cell EXCEPT ![<<p.y, p.x>>] = c]
  <2>1. /\ cell \in Canvas
        /\ \A q \in Cells : q[1] # p.y \/ q[2] # p.x => cell[q] = p.cell[q]
    BY <1>1, <1>4, DrawnCells DEF Characters
  <2>2. PutChar(p, c) =
           IF p.x < WIDTH - 1 THEN Pane(cell, p.x + 1, p.y)
           ELSE IF p.y < HEIGHT - 1 THEN Pane(cell, 0, p.y + 1)
           ELSE Pane(MovedUp(cell), 0, HEIGHT - 1)
    BY <1>4, PutGlyph DEF CleanPane
  <2> HIDE DEF cell
  <2>3. ASSUME NEW q \in Cells, q[1] > p.y \/ (q[1] = p.y /\ q[2] > p.x)
        PROVE  cell[q] = Blank
    BY <1>1, <2>1, <2>3, CellParts DEF CleanPane, Clean
  <2>4. CASE p.x < WIDTH - 1
    <3>1. p.x + 1 \in Columns
      BY <1>1, <2>4, PaneSize DEF Columns
    <3>2. Clean(Pane(cell, p.x + 1, p.y))
      BY <1>1, <2>3, CellParts, PaneParts DEF Clean
    <3> QED
      BY <1>1, <2>1, <2>2, <2>4, <3>1, <3>2, PaneIs DEF CleanPane
  <2>5. CASE ~ p.x < WIDTH - 1 /\ p.y < HEIGHT - 1
    <3>1. 0 \in Columns /\ p.y + 1 \in Rows
      BY <1>1, <2>5, PaneSize DEF Rows, Columns
    <3>2. Clean(Pane(cell, 0, p.y + 1))
      BY <1>1, <2>3, CellParts, PaneParts DEF Clean
    <3> QED
      BY <2>1, <2>2, <2>5, <3>1, <3>2, PaneIs DEF CleanPane
  <2>6. CASE ~ p.x < WIDTH - 1 /\ ~ p.y < HEIGHT - 1
    <3>1. 0 \in Columns /\ HEIGHT - 1 \in Rows
      BY PaneSize DEF Rows, Columns
    <3>2. Clean(Pane(MovedUp(cell), 0, HEIGHT - 1))
      BY <2>1, CellParts, PaneParts, PaneSize, MovedUpCells DEF Clean
    <3> QED
      BY <2>1, <2>2, <2>6, <3>1, <3>2, PaneIs, MovedUpCells DEF CleanPane
  <2> QED
    BY <2>4, <2>5, <2>6
<1> QED
  BY <1>2, <1>3, <1>4
-----------------------------------------------------------------------------

Step(p, s, f, n) == IF n = 0 THEN p ELSE PutChar(f[n - 1], s[n])

(* terminal_puts puts one character after another. *)
LEMMA PutsSteps ==
  ASSUME NEW p, NEW s, Len(s) \in Nat
  PROVE  \E f : /\ f = [n \in 0 .. Len(s) |-> Step(p, s, f, n)]
                /\ Puts(p, s) = f[Len(s)]
<1> DEFINE Upto(m) == \E f : f = [n \in 0 .. m |-> Step(p, s, f, n)]
           T == {m \in Nat : Upto(m)}
<1>1. 0 \in T
  <2>1. [n \in 0 .. 0 |-> p] = [n \in 0 .. 0 |-> Step(p, s, [k \in 0 .. 0 |-> p], n)]
    BY DEF Step
  <2> QED
    BY <2>1
<1>2. ASSUME NEW m \in Nat, m \in T PROVE m + 1 \in T
  <2>1. PICK f : f = [n \in 0 .. m |-> Step(p, s, f, n)]
    BY <1>2
  <2> DEFINE g == [n \in 0 .. (m + 1) |-> IF n = m + 1 THEN PutChar(f[m], s[m + 1]) ELSE f[n]]
  <2>2. ASSUME NEW n \in 0 .. (m + 1) PROVE g[n] = Step(p, s, g, n)
    <3>1. CASE n = m + 1
      BY <3>1 DEF Step
    <3>2. CASE n \in 0 .. m
      <4>1. f[n] = Step(p, s, f, n)
        BY <2>1, <3>2
      <4>2. n # 0 => n - 1 \in 0 .. (m + 1) /\ n - 1 # m + 1
        BY <3>2
      <4> QED
        BY <4>1, <4>2, <3>2 DEF Step
    <3> QED
      BY <3>1, <3>2
  <2>3. g = [n \in 0 .. (m + 1) |-> Step(p, s, g, n)]
    BY <2>2
  <2> HIDE DEF g
  <2> QED
    BY <2>3
<1>3. Len(s) \in T
  <2> HIDE DEF T
  <2> QED
    BY <1>1, <1>2, Inductive
<1>4. Puts(p, s) = (CHOOSE f : f = [n \in 0 .. Len(s) |-> Step(p, s, f, n)])[Len(s)]
  BY DEF Puts, Step
<1>5. PICK f : f = [n \in 0 .. Len(s) |-> Step(p, s, f, n)] /\ Puts(p, s) = f[Len(s)]
  BY <1>3, <1>4
<1> QED
  BY <1>5
-----------------------------------------------------------------------------

(* Nor does terminal_puts. *)
LEMMA PutsClean ==
  ASSUME NEW p, CleanPane(p), NEW s \in Seq(Characters)
  PROVE  CleanPane(Puts(p, s))
<1>1. Len(s) \in Nat /\ \A n \in 1 .. Len(s) : s[n] \in Characters
  BY LenProperties, ElementOfSeq
<1>2. PICK f : f = [n \in 0 .. Len(s) |-> Step(p, s, f, n)] /\ Puts(p, s) = f[Len(s)]
  BY <1>1, PutsSteps
<1> DEFINE T == {n \in Nat : n <= Len(s) => CleanPane(f[n])}
<1>3. 0 \in T
  <2>1. f[0] = p
    BY <1>1, <1>2 DEF Step
  <2> QED
    BY <2>1
<1>4. ASSUME NEW n \in Nat, n \in T PROVE n + 1 \in T
  <2> SUFFICES ASSUME n + 1 <= Len(s) PROVE CleanPane(f[n + 1])
    OBVIOUS
  <2>1. CleanPane(f[n])
    BY <1>1, <1>4
  <2>2. n + 1 \in 0 .. Len(s) /\ n + 1 \in 1 .. Len(s) /\ n + 1 # 0 /\ (n + 1) - 1 = n
    BY <1>1
  <2>3. f[n + 1] = PutChar(f[n], s[n + 1])
    BY <1>2, <2>2 DEF Step
  <2> QED
    BY <1>1, <2>1, <2>2, <2>3, PutClean
<1> HIDE DEF T
<1>5. Len(s) \in T
  BY <1>1, <1>3, <1>4, Inductive
<1> QED
  BY <1>1, <1>2, <1>5 DEF T
-----------------------------------------------------------------------------
(* The elements of a set of numbers are counted one by one. *)
LEMMA CountUp ==
  ASSUME NEW n \in Nat, NEW S \in SUBSET (1 .. n), NEW k \in 1 .. Cardinality(S)
  PROVE  \E i \in S : Cardinality(S \cap 1 .. i) = k
<1> DEFINE Reached(m) == \A c \in 1 .. Cardinality(S \cap 1 .. m) :
                           \E i \in S : Cardinality(S \cap 1 .. i) = c
           T == {m \in Nat : Reached(m)}
<1>1. \A m \in Nat : IsFiniteSet(S \cap 1 .. m) /\ Cardinality(S \cap 1 .. m) \in Nat
  <2> TAKE m \in Nat
  <2>1. IsFiniteSet(1 .. m)
    BY FS_Interval
  <2>2. IsFiniteSet(S \cap 1 .. m)
    BY <2>1, FS_Subset
  <2> QED
    BY <2>2, FS_CardinalityType
<1>2. 0 \in T
  <2>1. S \cap 1 .. 0 = {}
    OBVIOUS
  <2>2. Cardinality(S \cap 1 .. 0) = 0
    BY <2>1, FS_EmptySet
  <2> QED
    BY <2>2
<1>3. ASSUME NEW m \in Nat, m \in T PROVE m + 1 \in T
  <2>1. CASE m + 1 \in S
    <3>1. S \cap 1 .. (m + 1) = (S \cap 1 .. m) \cup {m + 1} /\ m + 1 \notin S \cap 1 .. m
      BY <2>1
    <3>2. Cardinality(S \cap 1 .. (m + 1)) = Cardinality(S \cap 1 .. m) + 1
      BY <1>1, <3>1, FS_AddElement
    <3>3. ASSUME NEW c \in 1 .. Cardinality(S \cap 1 .. (m + 1))
          PROVE  \E i \in S : Cardinality(S \cap 1 .. i) = c
      <4>1. c = Cardinality(S \cap 1 .. (m + 1)) \/ c \in 1 .. Cardinality(S \cap 1 .. m)
        BY <1>1, <3>2
      <4>2. CASE c = Cardinality(S \cap 1 .. (m + 1))
        BY <4>2, <2>1
      <4>3. CASE c \in 1 .. Cardinality(S \cap 1 .. m)
        <5>1. Reached(m)
          BY <1>3
        <5> HIDE DEF T
        <5> QED
          BY <4>3, <5>1
      <4> QED
        BY <4>1, <4>2, <4>3
    <3>4. Reached(m + 1)
      BY <3>3
    <3> HIDE DEF Reached
    <3> QED
      BY <3>4
  <2>2. CASE m + 1 \notin S
    <3>1. S \cap 1 .. (m + 1) = S \cap 1 .. m
      BY <2>2
    <3>2. Reached(m)
      BY <1>3
    <3>3. Reached(m + 1)
      BY <3>1, <3>2
    <3> HIDE DEF Reached
    <3> QED
      BY <3>3
  <2> QED
    BY <2>1, <2>2
<1>4. n \in T
  <2> HIDE DEF T
  <2> QED
    BY <1>2, <1>3, Inductive
<1>5. S \cap 1 .. n = S
  OBVIOUS
<1> QED
  BY <1>4, <1>5

(* A set of numbers that is not empty has a first one. *)
LEMMA FirstOne ==
  ASSUME NEW S \in SUBSET Nat, S # {}
  PROVE  \E i \in S : \A j \in S : i <= j
<1> DEFINE T == {n \in Nat : \A i \in S : i > n}
<1> SUFFICES ASSUME \A i \in S : \E j \in S : j < i PROVE FALSE
  OBVIOUS
<1>1. 0 \in T
  <2>1. \A i \in S : i # 0
    OBVIOUS
  <2> QED
    BY <2>1
<1>2. ASSUME NEW n \in Nat, n \in T PROVE n + 1 \in T
  <2>1. ASSUME NEW i \in S PROVE i > n + 1
    <3>1. PICK j \in S : j < i
      OBVIOUS
    <3>2. j > n
      BY <1>2
    <3> QED
      BY <3>1, <3>2
  <2> QED
    BY <2>1
<1>3. Nat \subseteq T
  <2> HIDE DEF T
  <2> QED
    BY <1>1, <1>2, Inductive
<1>4. PICK i \in S : TRUE
  OBVIOUS
<1> QED
  BY <1>3, <1>4

(* Where a word starts and how it ends. *)
LEMMA WordIs ==
  ASSUME NEW line \in Seq(Printable), NEW i \in 1 .. Len(line)
  PROVE  \E last \in i .. Len(line) \cup {i - 1} :
           WordAt(line, i) = SubSeq(line, i, last) /\ (line[i] # Blank => last >= i)
<1> DEFINE end == {j \in i .. Len(line) : line[j] = Blank}
           first == CHOOSE j \in end : \A k \in end : j <= k
<1>0. Len(line) \in Nat
  BY LenProperties
<1>1. WordAt(line, i) = SubSeq(line, i, IF end = {} THEN Len(line) ELSE first - 1)
  BY DEF WordAt
<1>2. CASE end = {}
  BY <1>0, <1>1, <1>2
<1>3. CASE end # {}
  <2>1. end \in SUBSET Nat
    BY <1>0
  <2>2. first \in end
    <3> HIDE DEF end
    <3> QED
      BY <1>3, <2>1, FirstOne
  <2>3. first \in i .. Len(line) /\ line[first] = Blank
    BY <2>2
  <2> HIDE DEF first, end
  <2>4. first - 1 \in i .. Len(line) \cup {i - 1} /\ (line[i] # Blank => first - 1 >= i)
    BY <1>0, <2>3
  <2> QED
    BY <1>1, <1>3, <2>4
<1> QED
  BY <1>2, <1>3

(* The words of a line, counted: each has its start. *)
LEMMA StartsCounted ==
  ASSUME NEW line \in Seq(Printable)
  PROVE  /\ WordCount(line) \in Nat
         /\ \A k \in 1 .. WordCount(line) : WordStart(line, k) \in WordStarts(line)
         /\ WordStarts(line) \subseteq 1 .. Len(line)
<1>1. Len(line) \in Nat /\ DOMAIN line = 1 .. Len(line)
  BY LenProperties
<1>2. WordStarts(line) \in SUBSET (1 .. Len(line))
  BY <1>1 DEF WordStarts
<1>3. IsFiniteSet(WordStarts(line))
  <2>1. IsFiniteSet(1 .. Len(line))
    BY <1>1, FS_Interval
  <2> QED
    BY <1>2, <2>1, FS_Subset
<1>4. WordCount(line) \in Nat
  BY <1>3, FS_CardinalityType DEF WordCount
<1>5. ASSUME NEW k \in 1 .. WordCount(line) PROVE WordStart(line, k) \in WordStarts(line)
  <2>1. \E i \in WordStarts(line) : Cardinality(WordStarts(line) \cap 1 .. i) = k
    BY <1>1, <1>2, CountUp DEF WordCount
  <2> QED
    BY <2>1 DEF WordStart
<1> QED
  BY <1>2, <1>4, <1>5

(* argv has room for the arguments and the NULL behind them. *)
LEMMA ArgumentsTyped ==
  ASSUME NEW line \in Seq(Printable)
  PROVE  Arguments(line) \in Seq(Seq(Printable)) /\ Len(Arguments(line)) < MaxArgs
<1>1. Len(line) \in Nat /\ MaxArgs \in Nat /\ MaxArgs > 1
  BY LenProperties, ConsoleAssumption
<1>2. ArgCount(line) \in Nat /\ ArgCount(line) <= WordCount(line) /\ ArgCount(line) < MaxArgs
  BY <1>1, StartsCounted DEF ArgCount
<1>3. ASSUME NEW k \in 1 .. ArgCount(line)
      PROVE  /\ SubSeq(line, WordStart(line, k), Len(line)) \in Seq(Printable)
             /\ WordAt(line, WordStart(line, k)) \in Seq(Printable)
  <2>1. PICK i \in 1 .. Len(line) : i = WordStart(line, k)
    BY <1>1, <1>2, StartsCounted
  <2>2. SubSeq(line, i, Len(line)) \in Seq(Printable)
    BY <1>1, SubSeqProperties
  <2>3. PICK last \in i .. Len(line) \cup {i - 1} : WordAt(line, i) = SubSeq(line, i, last)
    BY WordIs
  <2>4. SubSeq(line, i, last) \in Seq(Printable)
    BY <1>1, SubSeqProperties
  <2> QED
    BY <2>1, <2>2, <2>3, <2>4
<1>4. Arguments(line) \in [1 .. ArgCount(line) -> Seq(Printable)]
  BY <1>3 DEF Arguments
<1>5. Arguments(line) \in Seq(Seq(Printable))
  BY <1>2, <1>4, SeqDef
<1>6. Len(Arguments(line)) = ArgCount(line)
  BY <1>2, <1>5, LenProperties DEF Arguments
<1> QED
  BY <1>2, <1>5, <1>6
-----------------------------------------------------------------------------
SessionInv ==
  /\ LineInv
  /\ MenusInv
  /\ CleanPane(pane)
  /\ executed \in Seq(Printable)
  /\ argv \in Seq(Seq(Printable))

(* clear, and what the shell and the menus print. *)
LEMMA ClearedPane == CleanPane(Cleared)
<1>1. [c \in Cells |-> Blank] \in Canvas /\ \A q \in Cells : [c \in Cells |-> Blank][q] = Blank
  BY ConsoleAssumption DEF Canvas
<1>2. 0 \in Columns /\ 0 \in Rows
  BY PaneSize DEF Columns, Rows
<1> QED
  BY <1>1, <1>2, PaneIs, PaneParts DEF CleanPane, Clean, Cleared

(* All that is printed is made of characters of the pane. *)
LEMMA TextTyped ==
  /\ Prompt \in Seq(Characters) /\ MenuText \in Seq(Characters)
  /\ \A out \in Outputs : out \in Seq(Characters)
  /\ \A c \in Printable : c \in Characters
  /\ <<NL>> \in Seq(Characters) /\ <<BS, Blank, BS>> \in Seq(Characters)
<1>1. Glyphs \subseteq Characters /\ NL \in Characters /\ BS \in Characters /\ Blank \in Characters
  BY ConsoleAssumption DEF Characters
<1>2. Prompt \in Seq(Characters)
  <2>1. Prompt \in Seq(Glyphs)
    BY ConsoleAssumption
  <2>2. Len(Prompt) \in Nat /\ \A i \in 1 .. Len(Prompt) : Prompt[i] \in Characters
    BY <1>1, <2>1, LenProperties, ElementOfSeq
  <2>3. Prompt = [i \in 1 .. Len(Prompt) |-> Prompt[i]]
    BY <2>1, LenProperties
  <2> QED
    BY <2>2, <2>3, SeqDef
<1> QED
  BY <1>1, <1>2, ConsoleAssumption, SessionAssumption DEF Characters, Printable

(* "Reset for next command" *)
LEMMA EmptyLine ==
  ASSUME command_buffer' = Empty, command_length' = 0
  PROVE  LineInv'
<1>1. 0 \in Indices
  BY ConsoleAssumption DEF Indices
<1> QED
  BY <1>1 DEF LineInv, Empty, Indices

(* The pane after a command, and the prompt that follows it. *)
LEMMA DoneInv ==
  ASSUME NEW p, CleanPane(p), Done(p)
  PROVE  LineInv' /\ CleanPane(pane')
  BY EmptyLine, PutsClean, TextTyped DEF Done

(* The command is the line, and its arguments are strings. *)
LEMMA SubmitInv ==
  ASSUME LineInv, Submit
  PROVE  executed' = Line /\ executed' \in Seq(Printable) /\ argv' \in Seq(Seq(Printable))
  BY SubmitsLine, LineTyped, ArgumentsTyped DEF Submit

(* The invariant holds when the shell starts ... *)
LEMMA InitInv == Init => SessionInv
<1> SUFFICES ASSUME Init PROVE SessionInv
  OBVIOUS
<1>1. LineInv
  <2>1. 0 \in Indices
    BY ConsoleAssumption DEF Indices
  <2> QED
    BY <2>1 DEF Init, ConsoleInit, LineInv, Empty, Indices
<1>2. CleanPane(pane)
  BY ClearedPane, PutsClean, TextTyped DEF Init, ConsoleInit
<1>3. MenusInv
  <2>1. keys = <<>> /\ last_key = None /\ shows = [open |-> <<>>, set |-> [s \in ToSet(Settings) |-> FALSE]]
    BY DEF Init, MenusInit
  <2>2. Len(<<>>) = 0 /\ \A S : <<>> \in Seq(S)
    BY EmptySeq
  <2>3. [s \in ToSet(Settings) |-> FALSE] \in [ToSet(Settings) -> BOOLEAN]
    OBVIOUS
  <2>4. shows \in Screens
    BY <2>1, <2>2, <2>3 DEF Screens
  <2> QED
    BY <2>1, <2>2, <2>4, MenusAssumption DEF MenusInv
<1>4. executed = <<>> /\ argv = <<>>
  BY DEF Init, ConsoleInit
<1> QED
  BY <1>1, <1>2, <1>3, <1>4, EmptySeq DEF SessionInv

(* ... and after every key: a backspace, a character ... *)
LEMMA BackspaceInv ==
  ASSUME LineInv, CleanPane(pane), Backspace
  PROVE  LineInv' /\ CleanPane(pane')
<1>1. command_length - 1 \in Indices /\ command_length \in Nat /\ MAX_COMMAND_LENGTH \in Nat
  BY ConsoleAssumption DEF LineInv, Indices, Backspace
<1>2. command_buffer' \in [Indices -> Printable \cup {NUL}]
  BY <1>1 DEF Backspace, LineInv
<1>3. \A i \in 0 .. (command_length' - 1) : command_buffer'[i] # NUL
  <2> SUFFICES ASSUME NEW i \in 0 .. (command_length' - 1) PROVE command_buffer'[i] # NUL
    OBVIOUS
  <2>1. command_length' = command_length - 1
    BY DEF Backspace
  <2>2. i \in Indices /\ i # command_length - 1 /\ i \in 0 .. (command_length - 1)
    BY <1>1, <2>1 DEF Indices
  <2>3. command_buffer'[i] = command_buffer[i]
    BY <2>2 DEF Backspace, LineInv
  <2> QED
    BY <2>2, <2>3 DEF LineInv
<1>4. LineInv'
  BY <1>1, <1>2, <1>3 DEF LineInv, Backspace
<1> QED
  BY <1>4, PutsClean, TextTyped DEF Backspace

(* A character typed keeps line and pane as they should be. *)
LEMMA TypeCharInv ==
  ASSUME LineInv, CleanPane(pane), NEW c \in Printable, TypeChar(c)
  PROVE  LineInv' /\ CleanPane(pane')
<1>1. /\ command_length \in Indices /\ command_length + 1 \in Indices
      /\ command_length \in Nat /\ MAX_COMMAND_LENGTH \in Nat
  BY ConsoleAssumption DEF LineInv, Indices, TypeChar, HasRoom
<1>2. command_buffer' \in [Indices -> Printable \cup {NUL}]
  BY <1>1 DEF TypeChar, LineInv
<1>3. \A i \in 0 .. (command_length' - 1) : command_buffer'[i] # NUL
  <2> SUFFICES ASSUME NEW i \in 0 .. (command_length' - 1) PROVE command_buffer'[i] # NUL
    OBVIOUS
  <2>1. command_length' = command_length + 1
    BY DEF TypeChar
  <2>2. i = command_length \/ (i \in Indices /\ i # command_length /\ i \in 0 .. (command_length - 1))
    BY <1>1, <2>1 DEF Indices
  <2>3. CASE i = command_length
    <3>1. command_buffer'[i] = c
      BY <1>1, <2>3 DEF TypeChar, LineInv
    <3> QED
      BY <3>1, NulNotPrintable
  <2>4. CASE i \in Indices /\ i # command_length /\ i \in 0 .. (command_length - 1)
    <3>1. command_buffer'[i] = command_buffer[i]
      BY <2>4 DEF TypeChar, LineInv
    <3> QED
      BY <2>4, <3>1 DEF LineInv
  <2> QED
    BY <2>2, <2>3, <2>4
<1>4. LineInv'
  BY <1>1, <1>2, <1>3 DEF LineInv, TypeChar
<1> QED
  BY <1>4, PutClean, TextTyped DEF TypeChar

(* ... Enter, whatever the command prints ... *)
LEMMA CommandPane ==
  ASSUME CleanPane(pane), NEW args, NEW p \in AfterCommand(Puts(pane, <<NL>>), args)
  PROVE  CleanPane(p)
<1>1. CleanPane(Puts(pane, <<NL>>))
  BY PutsClean, TextTyped
<1>2. \A out \in Outputs : CleanPane(Puts(Puts(Puts(pane, <<NL>>), <<NL>>), out))
  BY <1>1, PutsClean, TextTyped
<1> QED
  BY <1>1, <1>2, ClearedPane DEF AfterCommand

(* So does Enter, whatever the command prints; the line is what the         *)
(* parser gets.                                                             *)
LEMMA EnterInv ==
  ASSUME LineInv, CleanPane(pane), Enter
  PROVE  /\ LineInv' /\ CleanPane(pane')
         /\ executed' = Line /\ executed' \in Seq(Printable) /\ argv' \in Seq(Seq(Printable))
<1>1. PICK p \in AfterCommand(Puts(pane, <<NL>>), argv') : Done(p)
  BY DEF Enter
<1>2. CleanPane(p)
  BY <1>1, CommandPane
<1> QED
  BY <1>1, <1>2, DoneInv, SubmitInv DEF Enter

(* The keys of the line editor keep the invariant of the session. *)
LEMMA EditInv == ASSUME SessionInv, Edit PROVE SessionInv'
<1>1. MenusInv'
  BY DEF SessionInv, MenusInv, Edit, menuVars
<1>2. CASE Backspace
  BY <1>1, <1>2, BackspaceInv DEF SessionInv, Backspace
<1>3. CASE \E c \in Printable : TypeChar(c)
  BY <1>1, <1>3, TypeCharInv DEF SessionInv, TypeChar
<1>4. CASE Enter
  BY <1>1, <1>4, EnterInv DEF SessionInv
<1> QED
  BY <1>2, <1>3, <1>4 DEF Edit

(* The commands that open menus open menus there are. *)
LEMMA MenuCommands ==
  DOMAIN Command \subseteq MenuNames
  BY SessionAssumption DEF MenuNames

(* ... or opens; in a menu, after every key typed and every poll. *)
LEMMA OpenMenuInv ==
  ASSUME SessionInv, NEW menu \in DOMAIN Command, OpenMenu(menu)
  PROVE  SessionInv' /\ Running' /\ executed' = Line
<1>1. LineInv'
  BY DEF SessionInv, LineInv, OpenMenu
<1>2. CleanPane(pane')
  BY ClearedPane, PutsClean, TextTyped DEF OpenMenu
<1>3. executed' = Line /\ executed' \in Seq(Printable) /\ argv' \in Seq(Seq(Printable))
  BY SubmitInv DEF SessionInv, OpenMenu
<1>4. MenusInv' /\ Running'
  BY OpenedScreen, MenuCommands DEF SessionInv, MenusInv, OpenMenu, Open, Running
<1> QED
  BY <1>1, <1>2, <1>3, <1>4 DEF SessionInv

(* A key typed while a menu is open keeps the invariant ... *)
LEMMA TypeInv == ASSUME SessionInv, Type PROVE SessionInv'
<1>1. PICK key \in Keys : /\ Len(keys) < MaxKeys /\ keys' = Append(keys, key)
                          /\ UNCHANGED <<last_key, shows>>
  BY DEF Type, TypeKey
<1>2. keys \in Seq(Keys) /\ Len(keys) \in Nat
  BY LenProperties DEF SessionInv, MenusInv
<1>3. keys' \in Seq(Keys) /\ Len(keys') = Len(keys) + 1
  BY <1>1, <1>2, AppendProperties
<1>4. Len(keys') <= MaxKeys
  BY <1>1, <1>2, <1>3, MenusAssumption
<1>5. MenusInv'
  BY <1>1, <1>3, <1>4 DEF SessionInv, MenusInv
<1> QED
  BY <1>5 DEF SessionInv, LineInv, CleanPane, Clean, IsPane, Type, consoleVars

(* ... and so does a poll of it. *)
LEMMA PollInv == ASSUME SessionInv, Poll PROVE SessionInv'
<1>1. MenusInv'
  <2>1. CASE FindKey
    <3>1. keys \in Seq(Keys) /\ keys # <<>>
      BY <2>1 DEF SessionInv, MenusInv, FindKey
    <3>2. /\ Head(keys) \in Keys /\ Tail(keys) \in Seq(Keys)
          /\ Len(Tail(keys)) = Len(keys) - 1 /\ Len(keys) \in Nat
      BY <3>1, HeadTailProperties, LenProperties
    <3>3. Len(keys') <= MaxKeys
      BY <2>1, <3>2, MenusAssumption DEF SessionInv, MenusInv, FindKey
    <3> QED
      BY <2>1, <3>2, <3>3 DEF SessionInv, MenusInv, FindKey
  <2>2. CASE ObeyKey
    <3>1. shows \in Screens /\ shows.open # <<>> /\ last_key \in Keys
      BY <2>2 DEF SessionInv, MenusInv, ObeyKey, Poll, Running
    <3>2. shows' \in Screens
      BY <2>2, <3>1, ObeyedScreen DEF ObeyKey
    <3> QED
      BY <2>2, <3>2 DEF SessionInv, MenusInv, ObeyKey
  <2> QED
    BY <2>1, <2>2 DEF Poll
<1>2. CASE Running'
  BY <1>1, <1>2 DEF SessionInv, LineInv, CleanPane, Clean, IsPane, Poll, consoleVars
<1>3. CASE ~Running'
  <2>1. Done(Left(Head(shows.open).menu)) /\ UNCHANGED <<executed, argv>>
    BY <1>3 DEF Poll
  <2>2. CleanPane(Left(Head(shows.open).menu))
    BY ClearedPane DEF Left, SessionInv
  <2> QED
    BY <1>1, <2>1, <2>2, DoneInv DEF SessionInv
<1> QED
  BY <1>2, <1>3

(* The inductive invariant of the session: no key, command or menu breaks    *)
(* the line, the menus or the pane.                                         *)
THEOREM SessionInvariant == Spec => []SessionInv
<1>1. SessionInv /\ [Next]_sessionVars => SessionInv'
  <2> SUFFICES ASSUME SessionInv, [Next]_sessionVars PROVE SessionInv'
    OBVIOUS
  <2>1. CASE UNCHANGED sessionVars
    BY <2>1 DEF SessionInv, LineInv, CleanPane, Clean, IsPane, MenusInv,
                sessionVars, consoleVars, menuVars
  <2> QED
    BY <2>1, EditInv, OpenMenuInv, TypeInv, PollInv DEF Next
<1> QED
  BY <1>1, InitInv, PTL DEF Spec

(* Types, for every session: the length stays inside command_buffer, which   *)
(* keeps a byte for the NUL; the cursor stays on the pane; a menu that is    *)
(* open shows one of its items.                                             *)
THEOREM SessionTypeCorrect == Spec => []TypeOK
<1>1. SessionInv => TypeOK
  <2> SUFFICES ASSUME SessionInv PROVE TypeOK
    OBVIOUS
  <2>1. ConsoleOK
    <3>1. DOMAIN pane.cell = Cells /\ pane.x \in 0 .. (WIDTH - 1) /\ pane.y \in 0 .. (HEIGHT - 1)
      BY DEF SessionInv, CleanPane, IsPane, Canvas, Rows, Columns
    <3> QED
      BY <3>1 DEF ConsoleOK, SessionInv, LineInv, Indices
  <2>2. MenusOK
    <3>1. shows \in Screens
      BY DEF SessionInv, MenusInv
    <3>2. shows.open \in Seq(Fronts) /\ shows.set \in [ToSet(Settings) -> BOOLEAN]
      BY <3>1 DEF Screens
    <3>3. ASSUME NEW i \in DOMAIN shows.open
          PROVE  shows.open[i].selected_item \in 0 .. Items(shows.open[i].menu)
      <4>1. shows.open[i] \in Fronts
        BY <3>2, LenProperties, ElementOfSeq
      <4>2. Items(shows.open[i].menu) \in Nat
        BY <4>1, MenuItems DEF Items
      <4> QED
        BY <4>1, <4>2 DEF Fronts
    <3> QED
      BY <3>2, <3>3 DEF MenusOK, SessionInv, MenusInv, Items
  <2> QED
    BY <2>1, <2>2 DEF TypeOK
<1> QED
  BY <1>1, SessionInvariant, PTL
-----------------------------------------------------------------------------
(* A pane in reading order. *)
CellAt(p, i) == p.cell[<<i \div WIDTH, i % WIDTH>>]
CursorOf(p) == p.y * WIDTH + p.x

(* Rows and columns are the quotient and the remainder of the place. *)
LEMMA DivMod ==
  ASSUME NEW a \in Nat, NEW h \in Nat \ {0}
  PROVE  /\ a \div h \in Nat /\ a % h \in 0 .. (h - 1)
         /\ a = (a \div h) * h + (a % h)
  OBVIOUS

(* Quotient and remainder of a number given as one. *)
LEMMA DivModUnique ==
  ASSUME NEW q \in Nat, NEW h \in Nat \ {0}, NEW r \in 0 .. (h - 1)
  PROVE  (q * h + r) \div h = q /\ (q * h + r) % h = r
<1>1. q * h + r \in Nat
  OBVIOUS
<1> DEFINE p == (q * h + r) \div h
           s == (q * h + r) % h
<1>2. p \in Nat /\ s \in 0 .. (h - 1) /\ q * h + r = p * h + s
  BY <1>1, DivMod
<1> HIDE DEF p, s
<1>3. \A x, y \in Nat : x < y => x * h + h <= y * h
  OBVIOUS
<1>4. ~(q < p) /\ ~(p < q)
  BY <1>2, <1>3
<1>5. p = q /\ s = r
  BY <1>2, <1>4
<1> QED
  BY <1>5 DEF p, s

(* Rows are as long as the pane is wide. *)
LEMMA RowsApart ==
  ASSUME NEW y \in Nat, NEW z \in Nat, y < z
  PROVE  y * WIDTH + WIDTH <= z * WIDTH
<1>1. WIDTH \in Nat
  BY PaneSize
<1>2. \A w \in Nat : y * w + w <= z * w
  OBVIOUS
<1> QED
  BY <1>1, <1>2

(* Every place in reading order is a cell, and every cell has its place. *)
LEMMA ReadingOrder ==
  ASSUME NEW i \in 0 .. (WIDTH * HEIGHT - 1)
  PROVE  \E y \in Rows, x \in Columns :
           /\ i = y * WIDTH + x
           /\ i \div WIDTH = y /\ i % WIDTH = x
<1> DEFINE y == i \div WIDTH
           x == i % WIDTH
<1>1. WIDTH \in Nat \ {0} /\ HEIGHT \in Nat /\ WIDTH * HEIGHT \in Nat /\ i \in Nat
  BY PaneSize
<1>2. y \in Nat /\ x \in 0 .. (WIDTH - 1) /\ i = y * WIDTH + x
  BY <1>1, DivMod
<1>3. y < HEIGHT
  <2>1. i < WIDTH * HEIGHT
    BY <1>1
  <2> HIDE DEF y, x
  <2>2. CASE HEIGHT < y
    <3>1. HEIGHT * WIDTH + WIDTH <= y * WIDTH
      BY <1>1, <1>2, <2>2, RowsApart
    <3> QED
      BY <1>1, <1>2, <2>1, <3>1
  <2>3. CASE HEIGHT = y
    BY <1>1, <1>2, <2>1, <2>3
  <2> QED
    BY <1>1, <1>2, <2>2, <2>3
<1>4. y \in Rows /\ x \in Columns
  <2> HIDE DEF y, x
  <2> QED
    BY <1>1, <1>2, <1>3 DEF Rows, Columns
<1> QED
  BY <1>2, <1>4

(* A cell has a number, from which its row and column are found. *)
LEMMA PlaceOf ==
  ASSUME NEW y \in Rows, NEW x \in Columns
  PROVE  /\ y * WIDTH + x \in 0 .. (WIDTH * HEIGHT - 1)
         /\ (y * WIDTH + x) \div WIDTH = y /\ (y * WIDTH + x) % WIDTH = x
<1>1. /\ WIDTH \in Nat \ {0} /\ HEIGHT \in Nat /\ WIDTH * HEIGHT \in Nat
      /\ y \in Nat /\ y < HEIGHT /\ x \in 0 .. (WIDTH - 1) /\ y * WIDTH \in Nat
  BY PaneSize DEF Rows, Columns
<1>2. y * WIDTH + WIDTH <= HEIGHT * WIDTH
  BY <1>1, RowsApart
<1>3. HEIGHT * WIDTH = WIDTH * HEIGHT
  BY <1>1
<1>4. y * WIDTH + x \in 0 .. (WIDTH * HEIGHT - 1)
  <2> HIDE <1>3
  <2> DEFINE a == y * WIDTH
             b == WIDTH * HEIGHT
  <2>1. a \in Nat /\ b \in Nat /\ a + WIDTH <= b
    BY <1>1, <1>2, <1>3
  <2> HIDE DEF a, b
  <2>2. a + x \in 0 .. (b - 1)
    BY <1>1, <2>1
  <2> QED
    BY <2>2 DEF a, b
<1> QED
  BY <1>1, <1>4, DivModUnique

(* Nothing is left past the cursor, by any key, command or menu. *)
THEOREM SessionNothingPastCursor == Spec => []NothingPastCursor
<1>1. SessionInv => NothingPastCursor
  <2> SUFFICES ASSUME SessionInv, NEW i \in Cursor .. (WIDTH * HEIGHT - 1)
               PROVE  Cell(i) = Blank
    BY DEF NothingPastCursor
  <2>1. pane.y \in Rows /\ pane.x \in Columns
    BY DEF SessionInv, CleanPane, IsPane
  <2>2. Cursor \in 0 .. (WIDTH * HEIGHT - 1) /\ WIDTH * HEIGHT \in Nat
    BY <2>1, PlaceOf, PaneSize DEF Cursor
  <2>3. i \in 0 .. (WIDTH * HEIGHT - 1)
    BY <2>2
  <2>4. PICK y \in Rows, x \in Columns :
          i = y * WIDTH + x /\ i \div WIDTH = y /\ i % WIDTH = x
    BY <2>3, ReadingOrder
  <2>5. y > pane.y \/ (y = pane.y /\ x >= pane.x)
    <3>1. y \in Nat /\ pane.y \in Nat /\ x \in Nat /\ pane.x \in Nat /\ x < WIDTH /\ WIDTH \in Nat
      BY <2>1, PaneSize DEF Rows, Columns
    <3>2. y * WIDTH + x >= pane.y * WIDTH + pane.x
      BY <2>2, <2>4 DEF Cursor
    <3>3. CASE y < pane.y
      <4>1. y * WIDTH + WIDTH <= pane.y * WIDTH
        BY <3>1, <3>3, RowsApart
      <4> DEFINE a == y * WIDTH
                 b == pane.y * WIDTH
      <4>2. a \in Nat /\ b \in Nat /\ a + WIDTH <= b /\ a + x >= b + pane.x
        BY <3>1, <3>2, <4>1
      <4> HIDE DEF a, b
      <4> QED
        BY <3>1, <4>2
    <3>4. CASE y = pane.y
      <4> DEFINE a == y * WIDTH
      <4>1. a \in Nat /\ a + x >= a + pane.x
        BY <3>1, <3>2, <3>4
      <4> HIDE DEF a
      <4> QED
        BY <3>1, <3>4, <4>1
    <3> QED
      BY <3>1, <3>3, <3>4
  <2>6. <<y, x>> \in Cells /\ <<y, x>>[1] = y /\ <<y, x>>[2] = x
    BY CellParts
  <2>7. pane.cell[<<y, x>>] = Blank
    BY <2>5, <2>6 DEF SessionInv, CleanPane, Clean
  <2> QED
    BY <2>4, <2>7 DEF Cell
<1> QED
  BY <1>1, SessionInvariant, PTL
-----------------------------------------------------------------------------
(* The line that GivesLine speaks of. *)
Kept == IF Running THEN <<>> ELSE Line

(* No bytes are the empty line. *)
LEMMA NoLine ==
  ASSUME command_length' = 0
  PROVE  Line' = <<>>
  BY DEF Line

(* A character, seen as a change of the line ... *)
LEMMA CharAppended ==
  ASSUME SessionInv, NEW c \in Printable, TypeChar(c)
  PROVE  Line' = Append(Line, c)
<1>1. LineInv /\ LineInv'
  BY TypeCharInv DEF SessionInv
<1>2. Line \in Seq(Printable) /\ Len(Line) = command_length
  BY <1>1, LineTyped
<1>3. Line' \in Seq(Printable) /\ Len(Line') = command_length'
  BY <1>1, LineTypedNext
<1>4. command_length \in Nat /\ command_length' = command_length + 1
  BY <1>1, ConsoleAssumption DEF LineInv, Indices, TypeChar
<1>5. /\ Append(Line, c) \in Seq(Printable) /\ Len(Append(Line, c)) = command_length + 1
      /\ \A i \in 1 .. command_length : Append(Line, c)[i] = Line[i]
      /\ Append(Line, c)[command_length + 1] = c
  BY <1>2, AppendProperties
<1>6. ASSUME NEW i \in 1 .. (command_length + 1) PROVE Line'[i] = Append(Line, c)[i]
  <2>1. Line'[i] = command_buffer'[i - 1]
    BY <1>4, <1>6 DEF Line
  <2>2. CASE i = command_length + 1
    <3>1. command_buffer'[command_length] = c
      BY <1>1 DEF TypeChar, LineInv
    <3> QED
      BY <1>4, <1>5, <2>1, <2>2, <3>1
  <2>3. CASE i \in 1 .. command_length
    <3>1. i - 1 \in Indices /\ i - 1 # command_length
      BY <1>1, <1>4, <2>3, ConsoleAssumption DEF LineInv, Indices
    <3>2. command_buffer'[i - 1] = command_buffer[i - 1]
      BY <1>1, <3>1 DEF TypeChar, LineInv
    <3> QED
      BY <1>1, <1>5, <2>1, <2>3, <3>2, LineTyped
  <2>4. i = command_length + 1 \/ i \in 1 .. command_length
    BY <1>4
  <2> QED
    BY <2>2, <2>3, <2>4
<1> QED
  BY <1>3, <1>4, <1>5, <1>6, SeqEqual

(* ... and a backspace. *)
LEMMA CharTakenBack ==
  ASSUME SessionInv, Backspace
  PROVE  Line # <<>> /\ Line' = Front(Line)
<1>1. LineInv /\ LineInv'
  BY BackspaceInv DEF SessionInv
<1>2. Line \in Seq(Printable) /\ Len(Line) = command_length
  BY <1>1, LineTyped
<1>3. command_length \in Nat /\ command_length > 0 /\ command_length' = command_length - 1
  BY <1>1, ConsoleAssumption DEF LineInv, Indices, Backspace
<1>4. Line # <<>>
  BY <1>2, <1>3, EmptySeq
<1>5. \A i \in 1 .. (command_length - 1) : Line[i] \in Printable
  BY <1>2, <1>3, ElementOfSeq
<1>6. /\ Front(Line) \in Seq(Printable) /\ Len(Front(Line)) = command_length - 1
      /\ \A i \in 1 .. (command_length - 1) : Front(Line)[i] = Line[i]
  <2>1. Front(Line) = SubSeq(Line, 1, command_length - 1)
    BY <1>2 DEF Front
  <2>2. /\ SubSeq(Line, 1, command_length - 1) \in Seq(Printable)
        /\ Len(SubSeq(Line, 1, command_length - 1)) =
             IF 1 <= command_length - 1 THEN command_length - 1 - 1 + 1 ELSE 0
        /\ \A i \in 1 .. (command_length - 1 - 1 + 1) :
             SubSeq(Line, 1, command_length - 1)[i] = Line[1 + i - 1]
    BY <1>3, <1>5, SubSeqProperties
  <2> QED
    BY <1>3, <2>1, <2>2
<1>7. /\ Line' \in Seq(Printable) /\ Len(Line') = command_length'
      /\ \A i \in 1 .. command_length' : Line'[i] = command_buffer'[i - 1]
  BY <1>1, LineTypedNext
<1>8. ASSUME NEW i \in 1 .. (command_length - 1) PROVE Line'[i] = Front(Line)[i]
  <2>1. i - 1 \in Indices /\ i - 1 # command_length - 1 /\ i \in 1 .. command_length
    BY <1>1, <1>3, <1>8, ConsoleAssumption DEF LineInv, Indices
  <2>2. command_buffer'[i - 1] = command_buffer[i - 1]
    BY <1>1, <2>1 DEF Backspace, LineInv
  <2>3. Line[i] = command_buffer[i - 1]
    BY <1>1, <2>1, LineTyped
  <2> QED
    BY <1>3, <1>6, <1>7, <2>2, <2>3
<1> QED
  BY <1>3, <1>4, <1>6, <1>7, <1>8, SeqEqual

(* The bytes of command_buffer implement the line editor: a command is given *)
(* what was typed since the last Enter and not taken back, and nothing else. *)
THEOREM SessionGivesLine == Spec => GivesLine
<1>1. Init => Edited!EditorInit
  <2> SUFFICES ASSUME Init PROVE Edited!EditorInit
    OBVIOUS
  <2>1. Line = <<>>
    BY DEF Init, ConsoleInit, Line
  <2> QED
    BY <2>1 DEF Init, ConsoleInit, Edited!EditorInit
<1>2. ASSUME SessionInv, [Next]_sessionVars PROVE [Edited!EditorNext]_<<Kept, executed>>
  <2>1. CASE Edit
    <3>0. ~Running /\ ~Running'
      BY <2>1 DEF Edit, menuVars, Running
    <3>1. CASE Backspace
      <4>1. Line # <<>> /\ Line' = Front(Line)
        BY <1>2, <3>1, CharTakenBack
      <4>2. executed' = executed
        BY <3>1 DEF Backspace
      <4> QED
        BY <3>0, <4>1, <4>2 DEF Edited!EditorNext, Edited!Erase, Edited!Front, Front
    <3>2. ASSUME NEW c \in Printable, TypeChar(c) PROVE Edited!Type(c)
      <4>1. Len(Line) < MAX_COMMAND_LENGTH - 1
        BY <1>2, <3>2, LineTyped DEF SessionInv, TypeChar, HasRoom
      <4> QED
        BY <1>2, <3>0, <3>2, <4>1, CharAppended DEF Edited!Type, TypeChar
    <3>3. CASE Enter
      <4>1. executed' = Line
        BY <1>2, <3>3, SubmitInv DEF SessionInv, Enter
      <4>2. Line' = <<>>
        BY <3>3, NoLine DEF Enter, Done
      <4> QED
        BY <3>0, <4>1, <4>2 DEF Edited!EditorNext, Edited!Submit
    <3> QED
      BY <2>1, <3>1, <3>2, <3>3 DEF Edit, Edited!EditorNext
  <2>2. ASSUME NEW menu \in DOMAIN Command, OpenMenu(menu) PROVE Edited!Submit
    BY <1>2, <2>2, OpenMenuInv DEF OpenMenu, Edited!Submit
  <2>3. CASE Type
    BY <2>3 DEF Type, TypeKey, Running, Kept, consoleVars
  <2>4. CASE Poll
    <3>1. CASE Running'
      BY <2>4, <3>1 DEF Poll, Kept, consoleVars
    <3>2. CASE ~Running'
      <4>1. Line' = <<>> /\ executed' = executed
        BY <2>4, <3>2, NoLine DEF Poll, Done
      <4> QED
        BY <2>4, <3>2, <4>1 DEF Poll, Kept
    <3> QED
      BY <3>1, <3>2
  <2>5. CASE UNCHANGED sessionVars
    BY <2>5 DEF sessionVars, consoleVars, menuVars, Kept, Running, Line
  <2> QED
    BY <1>2, <2>1, <2>2, <2>3, <2>4, <2>5 DEF Next, Edited!EditorNext
<1> QED
  BY <1>1, <1>2, SessionInvariant, PTL DEF Spec, GivesLine, Edited!EditorSpec, Kept
-----------------------------------------------------------------------------
(* The characters of a pane just before its cursor. *)
ShowsText(p, text, n) ==
  /\ CursorOf(p) >= n
  /\ \A i \in 1 .. n : CellAt(p, CursorOf(p) - n + i - 1) = text[i]

(* The cursor is on the pane. *)
LEMMA CursorPlace ==
  ASSUME NEW p, IsPane(p)
  PROVE  /\ CursorOf(p) \in 0 .. (WIDTH * HEIGHT - 1) /\ CursorOf(p) \in Nat
         /\ WIDTH * HEIGHT \in Nat
<1>1. WIDTH * HEIGHT \in Nat
  BY PaneSize
<1>2. CursorOf(p) \in 0 .. (WIDTH * HEIGHT - 1)
  BY PlaceOf DEF IsPane, CursorOf
<1> QED
  BY <1>1, <1>2

(* One cell is drawn, the others are not. *)
LEMMA DrawnAt ==
  ASSUME NEW cell \in Canvas, NEW y \in Rows, NEW x \in Columns, NEW c \in Glyphs,
         NEW i \in 0 .. (WIDTH * HEIGHT - 1)
  PROVE  [cell EXCEPT ![<<y, x>>] = c][<<i \div WIDTH, i % WIDTH>>] =
           IF i = y * WIDTH + x THEN c ELSE cell[<<i \div WIDTH, i % WIDTH>>]
<1>1. PICK z \in Rows, w \in Columns :
        i = z * WIDTH + w /\ i \div WIDTH = z /\ i % WIDTH = w
  BY ReadingOrder
<1>2. <<z, w>> \in Cells /\ <<z, w>>[1] = z /\ <<z, w>>[2] = w
  BY CellParts
<1>3. CASE i = y * WIDTH + x
  <2>1. z = y /\ w = x
    BY <1>1, <1>3, PlaceOf
  <2>2. [cell EXCEPT ![<<y, x>>] = c][<<y, x>>] = c
    <3>1. <<y, x>> \in DOMAIN cell
      BY CellParts DEF Canvas
    <3> QED
      BY <3>1
  <2> QED
    BY <1>1, <1>3, <2>1, <2>2
<1>4. CASE i # y * WIDTH + x
  <2>1. z # y \/ w # x
    BY <1>1, <1>4
  <2>2. [cell EXCEPT ![<<y, x>>] = c][<<z, w>>] = cell[<<z, w>>]
    BY <1>2, <2>1, DrawnCells
  <2> QED
    BY <1>1, <1>4, <2>2
<1> QED
  BY <1>3, <1>4

(* What has moved up is found a row before where it was. *)
LEMMA MovedUpAt ==
  ASSUME NEW cell \in Canvas, NEW i \in WIDTH .. (WIDTH * HEIGHT - 1)
  PROVE  MovedUp(cell)[<<(i - WIDTH) \div WIDTH, (i - WIDTH) % WIDTH>>] =
           cell[<<i \div WIDTH, i % WIDTH>>]
<1>0. /\ WIDTH \in Nat \ {0} /\ HEIGHT \in Nat /\ WIDTH * HEIGHT \in Nat
      /\ i \in Nat /\ i >= WIDTH /\ i \in 0 .. (WIDTH * HEIGHT - 1)
  BY PaneSize
<1>1. PICK y \in Rows, x \in Columns :
        i = y * WIDTH + x /\ i \div WIDTH = y /\ i % WIDTH = x
  BY <1>0, ReadingOrder
<1>2. y \in Nat /\ x \in Nat /\ x < WIDTH /\ y < HEIGHT
  BY <1>0, <1>1 DEF Rows, Columns
<1>3. y # 0
  BY <1>0, <1>1, <1>2
<1>4. y - 1 \in Rows /\ y - 1 # HEIGHT - 1 /\ (y - 1) + 1 = y
  BY <1>0, <1>2, <1>3 DEF Rows
<1>5. (y - 1) * WIDTH + x = i - WIDTH
  <2>1. (y - 1) * WIDTH = y * WIDTH - WIDTH /\ y * WIDTH \in Nat
    BY <1>0, <1>2
  <2> DEFINE a == y * WIDTH
             b == (y - 1) * WIDTH
  <2>2. a \in Nat /\ b = a - WIDTH /\ i = a + x
    BY <1>1, <2>1
  <2> HIDE DEF a, b
  <2>3. b + x = i - WIDTH
    BY <1>0, <1>2, <2>2
  <2> QED
    BY <2>3 DEF b
<1>6. (i - WIDTH) \div WIDTH = y - 1 /\ (i - WIDTH) % WIDTH = x
  BY <1>1, <1>4, <1>5, PlaceOf
<1>7. <<y - 1, x>> \in Cells /\ <<y - 1, x>>[1] = y - 1 /\ <<y - 1, x>>[2] = x
  BY <1>1, <1>4, CellParts
<1>8. MovedUp(cell)[<<y - 1, x>>] = cell[<<(y - 1) + 1, x>>]
  BY <1>4, <1>7, MovedUpCells
<1> QED
  BY <1>1, <1>4, <1>6, <1>8

(* A character in reading order: it is drawn at the cursor, which moves on   *)
(* by one; the pane scrolls by a row at the very end.                       *)
LEMMA GlyphLinear ==
  ASSUME NEW p, IsPane(p), NEW c \in Glyphs
  PROVE  \E k \in {0, WIDTH} :
           /\ CursorOf(PutChar(p, c)) = CursorOf(p) + 1 - k
           /\ k = 0 \/ CursorOf(p) + 1 = WIDTH * HEIGHT
           /\ \A i \in k .. (CursorOf(p) - 1) : CellAt(PutChar(p, c), i - k) = CellAt(p, i)
           /\ CursorOf(p) >= k => CellAt(PutChar(p, c), CursorOf(p) - k) = c
<1> DEFINE cell == [p.cell EXCEPT ![<<p.y, p.x>>] = c]
           w == CursorOf(p)
<1>1. /\ p.y \in Rows /\ p.y \in Nat /\ p.y < HEIGHT
      /\ p.x \in Columns /\ p.x \in Nat /\ p.x < WIDTH
      /\ p.cell \in Canvas
  BY PaneSize DEF IsPane, Rows, Columns
<1>2. w \in 0 .. (WIDTH * HEIGHT - 1) /\ w \in Nat /\ WIDTH * HEIGHT \in Nat
      /\ WIDTH \in Nat /\ HEIGHT \in Nat /\ w = p.y * WIDTH + p.x
  BY CursorPlace, PaneSize DEF CursorOf
<1>3. /\ cell \in Canvas
      /\ \A i \in 0 .. (WIDTH * HEIGHT - 1) :
           cell[<<i \div WIDTH, i % WIDTH>>] = IF i = w THEN c ELSE CellAt(p, i)
  <2>1. cell \in Canvas
    BY <1>1, DrawnCells
  <2> QED
    BY <1>1, <2>1, DrawnAt DEF CellAt, CursorOf
<1>4. c # NL /\ c # BS
  BY ConsoleAssumption
<1>5. PutChar(p, c) =
           IF p.x < WIDTH - 1 THEN Pane(cell, p.x + 1, p.y)
           ELSE IF p.y < HEIGHT - 1 THEN Pane(cell, 0, p.y + 1)
           ELSE Pane(MovedUp(cell), 0, HEIGHT - 1)
  BY <1>4, PutGlyph
<1> HIDE DEF cell
<1>6. CASE p.x < WIDTH - 1 \/ p.y < HEIGHT - 1
  <2>1. PutChar(p, c).cell = cell
    BY <1>1, <1>5, <1>6, PaneParts
  <2>2. CursorOf(PutChar(p, c)) = w + 1
    <3>1. CASE p.x < WIDTH - 1
      <4>1. CursorOf(PutChar(p, c)) = p.y * WIDTH + (p.x + 1)
        BY <1>5, <3>1, PaneParts DEF CursorOf
      <4> DEFINE a == p.y * WIDTH
      <4>2. a \in Nat /\ w = a + p.x
        BY <1>1, <1>2
      <4> HIDE DEF a, w
      <4>3. a + (p.x + 1) = w + 1
        BY <1>1, <4>2
      <4> QED
        BY <4>1, <4>3 DEF a
    <3>2. CASE ~ p.x < WIDTH - 1
      <4>1. CursorOf(PutChar(p, c)) = (p.y + 1) * WIDTH + 0
        BY <1>5, <1>6, <3>2, PaneParts DEF CursorOf
      <4>2. (p.y + 1) * WIDTH = p.y * WIDTH + WIDTH /\ p.y * WIDTH \in Nat /\ p.x = WIDTH - 1
        <5>1. \A a, b \in Nat : (a + 1) * b = a * b + b /\ a * b \in Nat
          OBVIOUS
        <5>2. p.y \in Nat /\ p.x \in Nat /\ WIDTH \in Nat /\ p.x < WIDTH
          BY <1>1, PaneSize
        <5>3. p.x = WIDTH - 1
          BY <3>2, <5>2
        <5> QED
          BY <5>1, <5>2, <5>3
      <4> DEFINE a == p.y * WIDTH
                 b == (p.y + 1) * WIDTH
      <4>3. a \in Nat /\ b = a + WIDTH /\ w = a + p.x
        BY <1>2, <4>2
      <4> HIDE DEF a, b, w
      <4>4. b + 0 = w + 1
        BY <1>1, <1>2, <4>2, <4>3
      <4> QED
        BY <4>1, <4>4 DEF b
    <3> QED
      BY <3>1, <3>2
  <2> HIDE DEF w
  <2>3. \A i \in 0 .. w : CellAt(PutChar(p, c), i) = IF i = w THEN c ELSE CellAt(p, i)
    BY <1>2, <1>3, <2>1 DEF CellAt
  <2>4. \A i \in 0 .. (w - 1) : CellAt(PutChar(p, c), i - 0) = CellAt(p, i)
    BY <1>2, <2>3
  <2>5. CellAt(PutChar(p, c), w - 0) = c
    BY <1>2, <2>3
  <2>6. w + 1 - 0 = w + 1
    BY <1>2
  <2> QED
    BY <2>2, <2>4, <2>5, <2>6 DEF w
<1>7. CASE ~ p.x < WIDTH - 1 /\ ~ p.y < HEIGHT - 1
  <2>1. PutChar(p, c) = Pane(MovedUp(cell), 0, HEIGHT - 1)
    BY <1>5, <1>7
  <2>2. w + 1 = WIDTH * HEIGHT /\ CursorOf(PutChar(p, c)) = w + 1 - WIDTH
    <3>1. CursorOf(PutChar(p, c)) = (HEIGHT - 1) * WIDTH + 0
      BY <2>1, PaneParts DEF CursorOf
    <3>2. p.x = WIDTH - 1 /\ p.y = HEIGHT - 1
      BY <1>1, <1>2, <1>7
    <3>3. /\ (HEIGHT - 1) * WIDTH = WIDTH * HEIGHT - WIDTH
          /\ w = (HEIGHT - 1) * WIDTH + (WIDTH - 1)
      BY <1>2, <3>2
    <3> DEFINE a == (HEIGHT - 1) * WIDTH
               b == WIDTH * HEIGHT
    <3>4. b \in Nat /\ a = b - WIDTH /\ w = a + (WIDTH - 1) /\ CursorOf(PutChar(p, c)) = a + 0
      BY <1>2, <3>1, <3>3
    <3> HIDE DEF a, b, w
    <3>5. w + 1 = b /\ a + 0 = w + 1 - WIDTH
      BY <3>4, PaneSize
    <3> QED
      BY <3>4, <3>5 DEF b
  <2> HIDE DEF w
  <2>3. \A i \in WIDTH .. w : CellAt(PutChar(p, c), i - WIDTH) = IF i = w THEN c ELSE CellAt(p, i)
    <3> TAKE i \in WIDTH .. w
    <3>1. i \in WIDTH .. (WIDTH * HEIGHT - 1) /\ i \in 0 .. (WIDTH * HEIGHT - 1)
      BY <1>2
    <3>2. CellAt(PutChar(p, c), i - WIDTH) = cell[<<i \div WIDTH, i % WIDTH>>]
      BY <1>3, <2>1, <3>1, MovedUpAt, PaneParts DEF CellAt
    <3> QED
      BY <1>3, <3>1, <3>2
  <2>4. \A i \in WIDTH .. (w - 1) : CellAt(PutChar(p, c), i - WIDTH) = CellAt(p, i)
    BY <1>2, <2>3
  <2>5. w >= WIDTH => CellAt(PutChar(p, c), w - WIDTH) = c
    BY <1>2, <2>3
  <2> QED
    BY <2>2, <2>4, <2>5 DEF w
<1> QED
  BY <1>6, <1>7

(* The prompt and the longest line fit above the last row of the pane: a    *)
(* scroll does not take the beginning of the line with it.  "skullos> " and *)
(* 79 characters do, by far, in the 40 by 25 of the screen.                 *)
LineFits == Len(Prompt) + MAX_COMMAND_LENGTH - 1 <= WIDTH * (HEIGHT - 1)

(* The text before the cursor grows by the character ... *)
LEMMA GlyphShows ==
  ASSUME NEW p, IsPane(p), NEW c \in Glyphs, NEW n \in Nat, NEW text, NEW longer,
         ShowsText(p, text, n), n + 1 <= WIDTH * (HEIGHT - 1),
         \A i \in 1 .. n : longer[i] = text[i], longer[n + 1] = c
  PROVE  ShowsText(PutChar(p, c), longer, n + 1)
<1> DEFINE w == CursorOf(p)
           v == CursorOf(PutChar(p, c))
<1>1. w \in Nat /\ WIDTH * HEIGHT \in Nat /\ WIDTH \in Nat
  BY CursorPlace, PaneSize
<1>2. PICK k \in {0, WIDTH} :
           /\ v = w + 1 - k
           /\ k = 0 \/ w + 1 = WIDTH * HEIGHT
           /\ \A i \in k .. (w - 1) : CellAt(PutChar(p, c), i - k) = CellAt(p, i)
           /\ w >= k => CellAt(PutChar(p, c), w - k) = c
  BY GlyphLinear
<1>3. w >= n /\ \A i \in 1 .. n : CellAt(p, w - n + i - 1) = text[i]
  BY DEF ShowsText
<1>4. n + 1 <= WIDTH * HEIGHT - WIDTH
  <2>1. WIDTH * (HEIGHT - 1) = WIDTH * HEIGHT - WIDTH
    BY PaneSize
  <2> QED
    BY <2>1
<1> DEFINE a == WIDTH * HEIGHT
<1>5. a \in Nat /\ n + 1 <= a - WIDTH /\ (k = 0 \/ w + 1 = a)
  BY <1>1, <1>2, <1>4
<1> HIDE DEF w, v, a
<1>6. k \in Nat /\ v >= n + 1 /\ w >= k
  BY <1>1, <1>2, <1>3, <1>5
<1>7. ASSUME NEW i \in 1 .. (n + 1)
      PROVE  CellAt(PutChar(p, c), v - (n + 1) + i - 1) = longer[i]
  <2>1. CASE i = n + 1
    <3>1. v - (n + 1) + i - 1 = w - k
      BY <1>1, <1>2, <1>6, <2>1
    <3> QED
      BY <1>2, <1>6, <2>1, <3>1
  <2>2. CASE i \in 1 .. n
    <3>1. /\ v - (n + 1) + i - 1 = (w - n + i - 1) - k
          /\ w - n + i - 1 \in k .. (w - 1)
      BY <1>1, <1>2, <1>6, <2>2
    <3> QED
      BY <1>2, <1>3, <2>2, <3>1
  <2>3. i = n + 1 \/ i \in 1 .. n
    OBVIOUS
  <2> QED
    BY <2>1, <2>2, <2>3
<1> QED
  BY <1>6, <1>7 DEF ShowsText, v

(* ... by the whole prompt ... *)
LEMMA PromptShows ==
  ASSUME LineFits, NEW p, CleanPane(p)
  PROVE  ShowsText(Puts(p, Prompt), Prompt, Len(Prompt))
<1>1. Len(Prompt) \in Nat /\ \A n \in 1 .. Len(Prompt) : Prompt[n] \in Glyphs
  BY ConsoleAssumption, LenProperties, ElementOfSeq
<1>2. PICK f : f = [n \in 0 .. Len(Prompt) |-> Step(p, Prompt, f, n)]
               /\ Puts(p, Prompt) = f[Len(Prompt)]
  BY <1>1, PutsSteps
<1> DEFINE T == {n \in Nat : n <= Len(Prompt) => CleanPane(f[n]) /\ ShowsText(f[n], Prompt, n)}
<1>3. 0 \in T
  <2>1. f[0] = p
    BY <1>1, <1>2 DEF Step
  <2>2. ShowsText(p, Prompt, 0)
    BY CursorPlace DEF ShowsText, CleanPane
  <2> QED
    BY <2>1, <2>2
<1>4. ASSUME NEW n \in Nat, n \in T PROVE n + 1 \in T
  <2> SUFFICES ASSUME n + 1 <= Len(Prompt)
               PROVE CleanPane(f[n + 1]) /\ ShowsText(f[n + 1], Prompt, n + 1)
    OBVIOUS
  <2>1. CleanPane(f[n]) /\ ShowsText(f[n], Prompt, n)
    BY <1>1, <1>4
  <2>2. n + 1 \in 0 .. Len(Prompt) /\ n + 1 \in 1 .. Len(Prompt) /\ n + 1 # 0 /\ (n + 1) - 1 = n
    BY <1>1
  <2>3. f[n + 1] = PutChar(f[n], Prompt[n + 1])
    BY <1>2, <2>2 DEF Step
  <2>4. Prompt[n + 1] \in Glyphs /\ Prompt[n + 1] \in Characters
    BY <1>1, <2>2 DEF Characters
  <2>5. n + 1 <= WIDTH * (HEIGHT - 1)
    <3>1. WIDTH * (HEIGHT - 1) \in Nat /\ MAX_COMMAND_LENGTH \in Nat \ {0}
      BY PaneSize, ConsoleAssumption
    <3> DEFINE a == WIDTH * (HEIGHT - 1)
    <3>2. a \in Nat /\ Len(Prompt) + MAX_COMMAND_LENGTH - 1 <= a
      BY <3>1 DEF LineFits
    <3> HIDE DEF a
    <3>3. n + 1 <= a
      BY <1>1, <3>1, <3>2
    <3> QED
      BY <3>3 DEF a
  <2>6. CleanPane(f[n + 1])
    BY <2>1, <2>3, <2>4, PutClean
  <2>7. ShowsText(f[n + 1], Prompt, n + 1)
    BY <2>1, <2>3, <2>4, <2>5, GlyphShows DEF CleanPane
  <2> QED
    BY <2>6, <2>7
<1> HIDE DEF T
<1>5. Len(Prompt) \in T
  BY <1>1, <1>3, <1>4, Inductive
<1> QED
  BY <1>1, <1>2, <1>5 DEF T

(* Backspace, blank, backspace: one character less before the cursor. *)
LEMMA BackspaceShows ==
  ASSUME NEW p, IsPane(p), p.x > 0, NEW n \in Nat, NEW text, ShowsText(p, text, n + 1)
  PROVE  ShowsText(Puts(p, <<BS, Blank, BS>>), text, n)
<1> DEFINE s == <<BS, Blank, BS>>
<1>0. /\ p.y \in Rows /\ p.x \in Columns /\ p.x - 1 \in Columns /\ p.cell \in Canvas
      /\ p.x \in Nat /\ p.x < WIDTH /\ p.y \in Nat /\ WIDTH \in Nat
  BY PaneSize DEF IsPane, Rows, Columns
<1>1. Len(s) = 3 /\ s[1] = BS /\ s[2] = Blank /\ s[3] = BS
  OBVIOUS
<1>2. Blank \in Glyphs /\ Blank # NL /\ Blank # BS
  BY ConsoleAssumption, ControlsDiffer
<1> HIDE DEF s
<1>3. PICK f : f = [k \in 0 .. Len(s) |-> Step(p, s, f, k)] /\ Puts(p, s) = f[Len(s)]
  BY <1>1, PutsSteps
<1>4. /\ f[0] = p /\ f[1] = PutChar(f[0], BS) /\ f[2] = PutChar(f[1], Blank)
      /\ f[3] = PutChar(f[2], BS) /\ Puts(p, s) = f[3]
  <2>1. f[0] = Step(p, s, f, 0) /\ f[1] = Step(p, s, f, 1) /\ f[2] = Step(p, s, f, 2)
        /\ f[3] = Step(p, s, f, 3)
    BY <1>1, <1>3
  <2> QED
    BY <1>1, <1>3, <2>1 DEF Step
<1> PICK x \in Columns : x = p.x - 1
  BY <1>0
<1> DEFINE Blanked(cell) == [cell EXCEPT ![<<p.y, x>>] = Blank]
<1>5. \A cell \in Canvas : Blanked(cell) \in Canvas
  BY <1>0, <1>2, DrawnCells
<1>6. f[1] = Pane(Blanked(p.cell), x, p.y) /\ IsPane(f[1])
  BY <1>0, <1>4, <1>5, PutBackspace, PaneIs
<1>7. f[2] = Pane(Blanked(Blanked(p.cell)), p.x, p.y) /\ IsPane(f[2])
  <2>1. f[1].x = x /\ f[1].y = p.y /\ f[1].cell = Blanked(p.cell)
    BY <1>6, PaneParts
  <2>2. x < WIDTH - 1 /\ x + 1 = p.x
    BY <1>0
  <2>3. f[2] = Pane(Blanked(Blanked(p.cell)), x + 1, p.y)
    BY <1>2, <1>4, <1>6, <2>1, <2>2, PutGlyph
  <2> QED
    BY <1>0, <1>5, <2>2, <2>3, PaneIs
<1>8. f[3] = Pane(Blanked(Blanked(Blanked(p.cell))), x, p.y)
  <2>1. f[2].x = p.x /\ f[2].y = p.y /\ f[2].cell = Blanked(Blanked(p.cell))
    BY <1>7, PaneParts
  <2> QED
    BY <1>4, <1>7, <2>1, PutBackspace
<1> DEFINE w == CursorOf(p)
<1>9. CursorOf(f[3]) = w - 1 /\ p.y * WIDTH + x = w - 1 /\ w \in Nat
  <2>1. CursorOf(f[3]) = p.y * WIDTH + x /\ w = p.y * WIDTH + p.x /\ p.y * WIDTH \in Nat
    BY <1>0, <1>8, PaneParts DEF CursorOf
  <2> DEFINE a == p.y * WIDTH
  <2>2. CursorOf(f[3]) = a + x /\ w = a + p.x /\ a \in Nat
    BY <2>1
  <2> HIDE DEF a, w
  <2>3. a + x = w - 1 /\ w \in Nat
    BY <1>0, <2>2
  <2> QED
    BY <2>2, <2>3 DEF a
<1>10. ASSUME NEW cell \in Canvas, NEW i \in 0 .. (w - 2)
       PROVE  Blanked(cell)[<<i \div WIDTH, i % WIDTH>>] = cell[<<i \div WIDTH, i % WIDTH>>]
  <2>1. i \in 0 .. (WIDTH * HEIGHT - 1) /\ i # p.y * WIDTH + x
    <3>1. w \in 0 .. (WIDTH * HEIGHT - 1) /\ WIDTH * HEIGHT \in Nat
      BY CursorPlace
    <3> DEFINE a == WIDTH * HEIGHT
               b == p.y * WIDTH + x
    <3>2. w \in 0 .. (a - 1) /\ a \in Nat /\ b = w - 1
      BY <1>9, <3>1
    <3> HIDE DEF a, b, w
    <3>3. i \in 0 .. (a - 1) /\ i # b
      BY <1>9, <3>2
    <3> QED
      BY <3>3 DEF a, b
  <2> QED
    BY <1>0, <1>2, <2>1, DrawnAt
<1> HIDE DEF Blanked
<1>11. \A i \in 0 .. (w - 2) : CellAt(f[3], i) = CellAt(p, i)
  BY <1>0, <1>5, <1>8, <1>10, PaneParts DEF CellAt
<1>12. w >= n + 1 /\ \A i \in 1 .. (n + 1) : CellAt(p, w - (n + 1) + i - 1) = text[i]
  BY DEF ShowsText
<1> HIDE DEF w
<1>13. ASSUME NEW i \in 1 .. n PROVE CellAt(f[3], (w - 1) - n + i - 1) = text[i]
  <2>1. /\ (w - 1) - n + i - 1 = w - (n + 1) + i - 1
        /\ w - (n + 1) + i - 1 \in 0 .. (w - 2) /\ i \in 1 .. (n + 1)
    BY <1>9, <1>12
  <2> QED
    BY <1>11, <1>12, <2>1
<1>14. w - 1 >= n
  BY <1>9, <1>12
<1> QED
  BY <1>4, <1>9, <1>13, <1>14 DEF ShowsText, s

(* The text on the screen: the prompt and the line. *)
LEMMA TextOf ==
  ASSUME NEW line \in Seq(Printable)
  PROVE  /\ Len(Prompt) \in Nat /\ Len(line) \in Nat
         /\ Len(Prompt \o line) = Len(Prompt) + Len(line)
         /\ DOMAIN (Prompt \o line) = 1 .. (Len(Prompt) + Len(line))
         /\ \A i \in 1 .. Len(Prompt) + Len(line) :
              (Prompt \o line)[i] = IF i <= Len(Prompt) THEN Prompt[i] ELSE line[i - Len(Prompt)]
<1>1. Prompt \in Seq(Glyphs \cup Printable) /\ line \in Seq(Glyphs \cup Printable)
  <2>1. Prompt \in Seq(Glyphs)
    BY ConsoleAssumption
  <2>2. \A S, T : S \subseteq T => Seq(S) \subseteq Seq(T)
    BY SMT
  <2> QED
    BY <2>1, <2>2
<1>2. Len(Prompt) \in Nat /\ Len(line) \in Nat
  BY <1>1, LenProperties
<1>3. /\ Prompt \o line \in Seq(Glyphs \cup Printable)
      /\ Len(Prompt \o line) = Len(Prompt) + Len(line)
      /\ \A i \in 1 .. Len(Prompt) + Len(line) :
           (Prompt \o line)[i] = IF i <= Len(Prompt) THEN Prompt[i] ELSE line[i - Len(Prompt)]
  BY <1>1, ConcatProperties
<1>4. DOMAIN (Prompt \o line) = 1 .. (Len(Prompt) + Len(line))
  BY <1>3, LenProperties
<1> QED
  BY <1>2, <1>3, <1>4

(* Shown, now and after a step. *)
LEMMA ShownIs ==
  ASSUME Line \in Seq(Printable)
  PROVE  Shown <=> ShowsText(pane, Prompt \o Line, Len(Prompt) + Len(Line))
  BY TextOf DEF Shown, ShowsText, Cell, CellAt, Cursor, CursorOf

(* What it is for the line to be shown, after a step. *)
LEMMA ShownIsNext ==
  ASSUME Line' \in Seq(Printable)
  PROVE  Shown' <=> ShowsText(pane', Prompt \o Line', Len(Prompt) + Len(Line'))
  BY TextOf DEF Shown, ShowsText, Cell, CellAt, Cursor, CursorOf

(* Enter, and a menu that returns, end with the prompt and no line. *)
LEMMA DoneShows ==
  ASSUME LineFits, NEW p, CleanPane(p), Done(p)
  PROVE  Shown'
<1>1. Line' = <<>>
  BY NoLine DEF Done
<1>2. <<>> \in Seq(Printable) /\ Len(<<>>) = 0
  BY EmptySeq
<1>3. /\ Len(Prompt) \in Nat
      /\ \A i \in 1 .. Len(Prompt) : (Prompt \o <<>>)[i] = Prompt[i]
  BY <1>2, TextOf
<1>4. ShowsText(pane', Prompt, Len(Prompt))
  BY PromptShows DEF Done
<1>5. ShowsText(pane', Prompt \o <<>>, Len(Prompt))
  BY <1>3, <1>4 DEF ShowsText
<1> QED
  BY <1>1, <1>2, <1>3, <1>5, ShownIsNext

(* A typed character is seen behind the line ... *)
LEMMA TypeCharShows ==
  ASSUME LineFits, SessionInv, Shown, NEW c \in Printable, TypeChar(c)
  PROVE  Shown'
<1> DEFINE n == Len(Prompt) + Len(Line)
           text == Prompt \o Line
           longer == Prompt \o Append(Line, c)
<1>1. /\ LineInv /\ IsPane(pane) /\ Line \in Seq(Printable) /\ Len(Line) = command_length
      /\ Len(Line) \in Nat
  BY LineTyped, ConsoleAssumption DEF SessionInv, CleanPane, LineInv, Indices
<1>2. Line' = Append(Line, c)
  BY CharAppended
<1>3. /\ Append(Line, c) \in Seq(Printable) /\ Len(Append(Line, c)) = Len(Line) + 1
      /\ \A i \in 1 .. Len(Line) : Append(Line, c)[i] = Line[i]
      /\ Append(Line, c)[Len(Line) + 1] = c
  BY <1>1, AppendProperties
<1>4. /\ Len(Prompt) \in Nat /\ n \in Nat
      /\ \A i \in 1 .. n : text[i] = IF i <= Len(Prompt) THEN Prompt[i] ELSE Line[i - Len(Prompt)]
  BY <1>1, TextOf
<1>5. \A i \in 1 .. n + 1 :
        longer[i] = IF i <= Len(Prompt) THEN Prompt[i] ELSE Append(Line, c)[i - Len(Prompt)]
  <2>1. Len(Prompt) + Len(Append(Line, c)) = n + 1
    BY <1>1, <1>3, <1>4
  <2> QED
    BY <1>3, <2>1, TextOf
<1>6. ASSUME NEW i \in 1 .. n PROVE longer[i] = text[i]
  <2> HIDE DEF text, longer
  <2>1. CASE i <= Len(Prompt)
    BY <1>4, <1>5, <2>1
  <2>2. CASE ~ i <= Len(Prompt)
    <3>1. i - Len(Prompt) \in 1 .. Len(Line)
      BY <1>1, <1>4, <2>2
    <3> QED
      BY <1>3, <1>4, <1>5, <2>2, <3>1
  <2> QED
    BY <2>1, <2>2
<1>7. longer[n + 1] = c
  <2> HIDE DEF text, longer
  <2>1. n + 1 \in 1 .. n + 1 /\ ~(n + 1 <= Len(Prompt)) /\ (n + 1) - Len(Prompt) = Len(Line) + 1
    BY <1>1, <1>4
  <2> QED
    BY <1>3, <1>5, <2>1
<1>8. ShowsText(pane, text, n)
  BY <1>1, ShownIs
<1>9. n + 1 <= WIDTH * (HEIGHT - 1)
  <2>1. Len(Line) < MAX_COMMAND_LENGTH - 1 /\ MAX_COMMAND_LENGTH \in Nat
    BY <1>1, ConsoleAssumption DEF TypeChar, HasRoom
  <2> DEFINE a == WIDTH * (HEIGHT - 1)
  <2>2. a \in Int /\ Len(Prompt) + MAX_COMMAND_LENGTH - 1 <= a
    BY PaneSize DEF LineFits
  <2> HIDE DEF a
  <2>3. n + 1 <= a
    BY <1>1, <1>4, <2>1, <2>2
  <2> QED
    BY <2>3 DEF a
<1>10. c \in Glyphs
  BY ConsoleAssumption DEF Printable
<1> HIDE DEF n, text, longer
<1>11. ShowsText(PutChar(pane, c), longer, n + 1)
  BY <1>1, <1>4, <1>6, <1>7, <1>8, <1>9, <1>10, GlyphShows
<1>12. Len(Prompt) + Len(Line') = n + 1
  BY <1>1, <1>2, <1>3, <1>4 DEF n
<1>13. pane' = PutChar(pane, c) /\ Prompt \o Line' = longer /\ Line' \in Seq(Printable)
  BY <1>2, <1>3 DEF TypeChar, longer
<1> QED
  BY <1>11, <1>12, <1>13, ShownIsNext

(* ... and a backspace takes it off the screen too. *)
LEMMA BackspaceKeepsShown ==
  ASSUME SessionInv, Shown, Backspace, pane.x # 0
  PROVE  Shown'
<1> DEFINE n == Len(Prompt) + Len(Line')
           text == Prompt \o Line
           shorter == Prompt \o Line'
<1>1. /\ LineInv /\ LineInv' /\ IsPane(pane) /\ Line \in Seq(Printable)
      /\ Len(Line) = command_length /\ command_length \in Nat /\ command_length > 0
  BY LineTyped, BackspaceInv, ConsoleAssumption
     DEF SessionInv, CleanPane, LineInv, Indices, Backspace
<1>2. /\ Line' \in Seq(Printable) /\ Len(Line') = command_length - 1
      /\ \A i \in 1 .. (command_length - 1) : Line'[i] = command_buffer'[i - 1]
  BY <1>1, LineTypedNext DEF Backspace
<1>3. \A i \in 1 .. (command_length - 1) : Line'[i] = Line[i]
  <2> SUFFICES ASSUME NEW i \in 1 .. (command_length - 1) PROVE Line'[i] = Line[i]
    OBVIOUS
  <2>1. i - 1 \in Indices /\ i - 1 # command_length - 1 /\ i \in 1 .. command_length
    BY <1>1, ConsoleAssumption DEF LineInv, Indices
  <2>2. command_buffer'[i - 1] = command_buffer[i - 1]
    BY <1>1, <2>1 DEF Backspace, LineInv
  <2> QED
    BY <1>1, <1>2, <2>1, <2>2, LineTyped
<1>4. /\ Len(Prompt) \in Nat /\ n \in Nat /\ n + 1 = Len(Prompt) + Len(Line)
      /\ \A i \in 1 .. n + 1 : text[i] = IF i <= Len(Prompt) THEN Prompt[i] ELSE Line[i - Len(Prompt)]
  <2>1. Len(Prompt) \in Nat
    BY <1>1, TextOf
  <2>2. n \in Nat /\ n + 1 = Len(Prompt) + Len(Line)
    BY <1>1, <1>2, <2>1
  <2> QED
    BY <1>1, <2>1, <2>2, TextOf
<1>5. \A i \in 1 .. n :
        shorter[i] = IF i <= Len(Prompt) THEN Prompt[i] ELSE Line'[i - Len(Prompt)]
  BY <1>2, TextOf
<1>6. ASSUME NEW i \in 1 .. n PROVE shorter[i] = text[i]
  <2> HIDE DEF text, shorter
  <2>1. CASE i <= Len(Prompt)
    BY <1>4, <1>5, <2>1
  <2>2. CASE ~ i <= Len(Prompt)
    <3>1. i - Len(Prompt) \in 1 .. (command_length - 1)
      BY <1>1, <1>4, <1>2, <2>2
    <3> QED
      BY <1>3, <1>4, <1>5, <2>2, <3>1
  <2> QED
    BY <2>1, <2>2
<1>7. ShowsText(pane, text, n + 1)
  BY <1>1, <1>4, ShownIs
<1>8. pane.x > 0
  BY <1>1, PaneSize DEF IsPane, Columns
<1> HIDE DEF n, text, shorter
<1>9. ShowsText(pane', text, n)
  BY <1>1, <1>4, <1>7, <1>8, BackspaceShows DEF Backspace
<1>10. ShowsText(pane', shorter, n)
  BY <1>6, <1>9 DEF ShowsText
<1> QED
  BY <1>2, <1>10, ShownIsNext DEF n, shorter

(* However the line wraps and the pane scrolls, a key keeps the line on the *)
(* screen, and a menu that returns brings it back.                          *)
THEOREM SessionEchoKeepsStep ==
  ASSUME LineFits
  PROVE  Spec => EchoKeepsStep
<1>1. ASSUME SessionInv, [Next]_sessionVars
      PROVE  [InStep /\ ~(command_length' = command_length - 1 /\ pane.x = 0) => InStep']_sessionVars
  <2> SUFFICES ASSUME Next, InStep, ~(command_length' = command_length - 1 /\ pane.x = 0)
               PROVE  InStep'
    BY <1>1
  <2>1. CASE Edit
    <3>1. Shown
      BY <2>1 DEF InStep, Edit
    <3>2. CASE Backspace
      BY <1>1, <3>1, <3>2, BackspaceKeepsShown DEF Backspace, InStep
    <3>3. CASE \E c \in Printable : TypeChar(c)
      BY <1>1, <3>1, <3>3, TypeCharShows DEF InStep
    <3>4. CASE Enter
      BY <1>1, <3>4, CommandPane, DoneShows DEF SessionInv, Enter, InStep
    <3> QED
      BY <2>1, <3>2, <3>3, <3>4 DEF Edit
  <2>2. CASE \E menu \in DOMAIN Command : OpenMenu(menu)
    BY <1>1, <2>2, OpenMenuInv DEF InStep
  <2>3. CASE Type
    BY <2>3 DEF Type, TypeKey, Running, InStep
  <2>4. CASE Poll
    <3>1. CleanPane(Left(Head(shows.open).menu))
      BY <1>1, ClearedPane DEF Left, SessionInv
    <3> QED
      BY <2>4, <3>1, DoneShows DEF Poll, InStep
  <2> QED
    BY <2>1, <2>2, <2>3, <2>4 DEF Next
<1> QED
  BY <1>1, SessionInvariant, PTL DEF Spec, EchoKeepsStep
-----------------------------------------------------------------------------
(* Where the word that starts at i ends: before the next blank, or with the  *)
(* line. *)
Ends(line, i, e) ==
  /\ e \in i .. Len(line)
  /\ \A j \in i .. e : line[j] # Blank
  /\ e < Len(line) => line[e + 1] = Blank

(* A word runs up to the next blank, or to the end of the line. *)
LEMMA WordEnds ==
  ASSUME NEW line \in Seq(Printable), NEW i \in 1 .. Len(line), line[i] # Blank
  PROVE  \E e : Ends(line, i, e) /\ WordAt(line, i) = SubSeq(line, i, e)
<1> DEFINE end == {j \in i .. Len(line) : line[j] = Blank}
           first == CHOOSE j \in end : \A k \in end : j <= k
<1>0. Len(line) \in Nat
  BY LenProperties
<1>1. WordAt(line, i) = SubSeq(line, i, IF end = {} THEN Len(line) ELSE first - 1)
  BY DEF WordAt
<1>2. CASE end = {}
  <2>1. Ends(line, i, Len(line))
    BY <1>0, <1>2 DEF Ends
  <2> QED
    BY <1>1, <1>2, <2>1
<1>3. CASE end # {}
  <2>1. end \in SUBSET Nat
    BY <1>0
  <2>2. first \in end /\ \A k \in end : first <= k
    <3> HIDE DEF end
    <3> QED
      BY <1>3, <2>1, FirstOne
  <2>3. first \in i .. Len(line) /\ line[first] = Blank
    BY <2>2
  <2>4. \A j \in i .. Len(line) : line[j] = Blank => first <= j
    BY <2>2
  <2> HIDE DEF first, end
  <2>5. Ends(line, i, first - 1)
    BY <1>0, <2>3, <2>4 DEF Ends
  <2> QED
    BY <1>1, <1>3, <2>5
<1> QED
  BY <1>2, <1>3

(* It ends at one place. *)
LEMMA EndsOnce ==
  ASSUME NEW line \in Seq(Printable), NEW i \in 1 .. Len(line),
         NEW d, NEW e, Ends(line, i, d), Ends(line, i, e)
  PROVE  d = e
<1>1. Len(line) \in Nat /\ d \in i .. Len(line) /\ e \in i .. Len(line)
  BY LenProperties DEF Ends
<1>2. ~ d < e
  BY <1>1 DEF Ends
<1>3. ~ e < d
  BY <1>1 DEF Ends
<1> QED
  BY <1>1, <1>2, <1>3

(* How many words start up to a place. *)
Started(line, i) == Cardinality(WordStarts(line) \cap 1 .. i)

(* Each place adds the words that start behind it. *)
LEMMA StartedUp ==
  ASSUME NEW line \in Seq(Printable), NEW i \in Nat, NEW j \in Nat, i <= j
  PROVE  /\ Started(line, i) \in Nat /\ Started(line, j) \in Nat
         /\ IsFiniteSet(WordStarts(line) \cap (i + 1) .. j)
         /\ Started(line, j) = Started(line, i) + Cardinality(WordStarts(line) \cap (i + 1) .. j)
<1> DEFINE A == WordStarts(line) \cap 1 .. i
           B == WordStarts(line) \cap (i + 1) .. j
<1>1. IsFiniteSet(1 .. i) /\ IsFiniteSet((i + 1) .. j)
  BY FS_Interval
<1>2. IsFiniteSet(A) /\ IsFiniteSet(B)
  BY <1>1, FS_Subset
<1>3. A \cup B = WordStarts(line) \cap 1 .. j /\ A \cap B = {}
  OBVIOUS
<1>4. Cardinality(A) \in Nat /\ Cardinality(B) \in Nat
  BY <1>2, FS_CardinalityType
<1>5. Cardinality(A \cup B) = Cardinality(A) + Cardinality(B) - Cardinality(A \cap B)
  BY <1>2, FS_Union
<1>6. Cardinality(A \cap B) = 0
  BY <1>3, FS_EmptySet
<1>7. Started(line, i) = Cardinality(A) /\ Started(line, j) = Cardinality(A \cup B)
  BY <1>3 DEF Started
<1> HIDE DEF A, B
<1>8. Started(line, j) = Started(line, i) + Cardinality(B)
  BY <1>4, <1>5, <1>6, <1>7
<1> QED
  BY <1>2, <1>4, <1>7, <1>8 DEF B

(* A word counts from where it starts. *)
LEMMA StartedMore ==
  ASSUME NEW line \in Seq(Printable), NEW i \in Nat, NEW j \in WordStarts(line), i < j
  PROVE  Started(line, i) < Started(line, j)
<1>1. j \in Nat /\ i <= j
  BY StartsCounted
<1>2. j \in WordStarts(line) \cap (i + 1) .. j
  BY <1>1
<1>3. IsFiniteSet(WordStarts(line) \cap (i + 1) .. j)
  BY <1>1, StartedUp
<1>4. Cardinality(WordStarts(line) \cap (i + 1) .. j) \in Nat
  BY <1>3, FS_CardinalityType
<1>5. Cardinality(WordStarts(line) \cap (i + 1) .. j) # 0
  BY <1>2, <1>3, FS_EmptySet
<1>6. /\ Started(line, i) \in Nat /\ Started(line, j) \in Nat
      /\ Started(line, j) = Started(line, i) + Cardinality(WordStarts(line) \cap (i + 1) .. j)
  BY <1>1, StartedUp
<1> QED
  BY <1>4, <1>5, <1>6

(* Words are counted in the order in which they start. *)
LEMMA StartIs ==
  ASSUME NEW line \in Seq(Printable)
  PROVE  /\ Len(line) \in Nat
         /\ WordCount(line) = Started(line, Len(line))
         /\ \A k \in 1 .. WordCount(line) :
              /\ WordStart(line, k) \in WordStarts(line)
              /\ Started(line, WordStart(line, k)) = k
         /\ \A i \in WordStarts(line) :
              Started(line, i) \in 1 .. WordCount(line) /\ WordStart(line, Started(line, i)) = i
<1>1. Len(line) \in Nat
  BY LenProperties
<1>2. WordStarts(line) \in SUBSET (1 .. Len(line)) /\ WordCount(line) \in Nat
  BY StartsCounted
<1>3. WordStarts(line) \cap 1 .. Len(line) = WordStarts(line)
  BY <1>2
<1>4. WordCount(line) = Started(line, Len(line))
  BY <1>3 DEF WordCount, Started
<1>5. ASSUME NEW k, \E i \in WordStarts(line) : Started(line, i) = k
      PROVE  /\ WordStart(line, k) \in WordStarts(line)
             /\ Started(line, WordStart(line, k)) = k
  BY <1>5 DEF WordStart, Started
<1>6. ASSUME NEW k \in 1 .. WordCount(line)
      PROVE  \E i \in WordStarts(line) : Started(line, i) = k
  BY <1>1, <1>2, CountUp DEF WordCount, Started
<1>7. ASSUME NEW i \in WordStarts(line)
      PROVE  Started(line, i) \in 1 .. WordCount(line) /\ WordStart(line, Started(line, i)) = i
  <2>1. i \in Nat /\ i > 0 /\ i <= Len(line)
    BY <1>1, <1>2
  <2>2. Started(line, 0) < Started(line, i) /\ Started(line, 0) \in Nat /\ Started(line, i) \in Nat
    <3>1. 0 \in Nat /\ 0 < i /\ 0 <= i
      BY <2>1
    <3>2. Started(line, 0) < Started(line, i)
      BY <3>1, StartedMore
    <3>3. Started(line, 0) \in Nat /\ Started(line, i) \in Nat
      BY <2>1, <3>1, StartedUp
    <3> QED
      BY <3>2, <3>3
  <2>3. Started(line, i) <= Started(line, Len(line))
    <3>1. IsFiniteSet(WordStarts(line) \cap (i + 1) .. Len(line))
      BY <1>1, <2>1, StartedUp
    <3>2. Cardinality(WordStarts(line) \cap (i + 1) .. Len(line)) \in Nat
      BY <3>1, FS_CardinalityType
    <3>3. Started(line, Len(line)) =
            Started(line, i) + Cardinality(WordStarts(line) \cap (i + 1) .. Len(line))
      BY <1>1, <2>1, StartedUp
    <3> QED
      BY <2>2, <3>2, <3>3
  <2>4. PICK j \in WordStarts(line) :
          j = WordStart(line, Started(line, i)) /\ Started(line, j) = Started(line, i)
    BY <1>5
  <2>5. j \in Nat /\ Started(line, j) \in Nat
    BY <1>2, <2>2, <2>4
  <2>6. ~ i < j
    BY <2>1, <2>2, <2>4, StartedMore
  <2>7. ~ j < i
    BY <2>5, <2>2, <2>4, StartedMore
  <2> QED
    BY <1>2, <1>4, <2>1, <2>2, <2>3, <2>4, <2>5, <2>6, <2>7
<1> QED
  BY <1>1, <1>4, <1>5, <1>6, <1>7
(* The words of what is left from the start of a word on. *)
LEMMA RestStarts ==
  ASSUME NEW line \in Seq(Printable), NEW s \in WordStarts(line), NEW t,
         t = SubSeq(line, s, Len(line))
  PROVE  /\ t \in Seq(Printable) /\ Len(t) = Len(line) - s + 1
         /\ s \in 1 .. Len(line)
         /\ \A i \in 1 .. Len(t) : t[i] = line[s + i - 1]
         /\ \A i \in 1 .. Len(t) : i \in WordStarts(t) <=> s + i - 1 \in WordStarts(line)
<1>1. Len(line) \in Nat /\ DOMAIN line = 1 .. Len(line) /\ \A i \in 1 .. Len(line) : line[i] \in Printable
  BY LenProperties, ElementOfSeq
<1>2. s \in 1 .. Len(line) /\ line[s] # Blank
  BY <1>1 DEF WordStarts
<1>3. t \in Seq(Printable) /\ Len(t) = Len(line) - s + 1
  BY <1>1, <1>2, SubSeqProperties
<1>4. \A i \in 1 .. Len(t) : t[i] = line[s + i - 1]
  <2>1. \A i \in 1 .. Len(line) - s + 1 : t[i] = line[s + i - 1]
    BY <1>1, <1>2, SubSeqProperties
  <2> QED
    BY <1>3, <2>1
<1>5. DOMAIN t = 1 .. Len(t)
  BY <1>3, LenProperties
<1>6. ASSUME NEW i \in 1 .. Len(t) PROVE i \in WordStarts(t) <=> s + i - 1 \in WordStarts(line)
  <2>1. s + i - 1 \in DOMAIN line /\ i \in DOMAIN t /\ t[i] = line[s + i - 1]
    BY <1>1, <1>2, <1>3, <1>4, <1>5
  <2>2. CASE i = 1
    <3>1. s + i - 1 = s /\ t[i] # Blank
      BY <1>2, <2>1, <2>2
    <3>2. i \in WordStarts(t)
      BY <2>1, <2>2, <3>1 DEF WordStarts
    <3> QED
      BY <3>1, <3>2
  <2>3. CASE i > 1
    <3>1. /\ i - 1 \in 1 .. Len(t) /\ s + i - 1 > 1
          /\ s + (i - 1) - 1 = (s + i - 1) - 1
      BY <1>1, <1>2, <1>3, <2>3
    <3>2. t[i - 1] = line[(s + i - 1) - 1]
      BY <1>4, <3>1
    <3> QED
      BY <2>1, <2>3, <3>1, <3>2 DEF WordStarts
  <2> QED
    BY <2>2, <2>3
<1> QED
  BY <1>2, <1>3, <1>4, <1>6

(* They are counted from there. *)
LEMMA RestStarted ==
  ASSUME NEW line \in Seq(Printable), NEW s \in WordStarts(line), NEW t,
         t = SubSeq(line, s, Len(line)), NEW m \in 0 .. Len(t)
  PROVE  Started(t, m) = Started(line, s + m - 1) - Started(line, s) + 1
<1>1. /\ t \in Seq(Printable) /\ Len(t) = Len(line) - s + 1
      /\ s \in 1 .. Len(line)
      /\ \A i \in 1 .. Len(t) : i \in WordStarts(t) <=> s + i - 1 \in WordStarts(line)
  BY RestStarts
<1>2. Len(line) \in Nat /\ s \in Nat /\ s - 1 \in Nat /\ m \in Nat /\ s + m - 1 \in Nat
  BY <1>1, LenProperties
<1> DEFINE A == WordStarts(t) \cap 1 .. m
           B == WordStarts(line) \cap s .. (s + m - 1)
           f == [i \in A |-> s + i - 1]
<1>3. f \in Bijection(A, B)
  <2>1. \A i \in A : s + i - 1 \in B
    BY <1>1, <1>2
  <2>2. \A i, j \in A : s + i - 1 = s + j - 1 => i = j
    BY <1>2
  <2>3. ASSUME NEW j \in B PROVE \E i \in A : s + i - 1 = j
    <3>1. j - s + 1 \in 1 .. m /\ s + (j - s + 1) - 1 = j
      BY <1>2
    <3>2. j - s + 1 \in 1 .. Len(t)
      BY <1>1, <1>2, <3>1
    <3>3. j - s + 1 \in A
      BY <1>1, <3>1, <3>2
    <3> QED
      BY <3>1, <3>3
  <2> HIDE DEF A, B
  <2>4. f \in [A -> B] /\ \A i \in A : f[i] = s + i - 1
    BY <2>1
  <2> HIDE DEF f
  <2> QED
    BY <2>2, <2>3, <2>4 DEF Bijection, Injection, Surjection, IsInjective
<1>4. IsFiniteSet(A)
  <2>1. IsFiniteSet(1 .. m)
    BY <1>2, FS_Interval
  <2> QED
    BY <2>1, FS_Subset
<1>5. Cardinality(B) = Cardinality(A)
  <2> HIDE DEF A, B, f
  <2> QED
    BY <1>3, <1>4, FS_Bijection DEF ExistsBijection
<1>6. Started(t, m) = Cardinality(B)
  BY <1>5 DEF Started
<1>7. /\ Started(line, s - 1) \in Nat /\ Started(line, s + m - 1) \in Nat
      /\ Started(line, s + m - 1) = Started(line, s - 1) + Cardinality(WordStarts(line) \cap ((s - 1) + 1) .. (s + m - 1))
  <2>1. s - 1 <= s + m - 1
    BY <1>2
  <2> QED
    BY <1>2, <2>1, StartedUp
<1>8. (s - 1) + 1 = s
  BY <1>2
<1>9. Started(line, s + m - 1) = Started(line, s - 1) + Cardinality(B)
  BY <1>7, <1>8
<1>10. Started(line, s) = Started(line, s - 1) + 1 /\ Started(line, s) \in Nat
  <2>1. s - 1 <= s
    BY <1>2
  <2>2. /\ Started(line, s) \in Nat
        /\ Started(line, s) = Started(line, s - 1) + Cardinality(WordStarts(line) \cap ((s - 1) + 1) .. s)
    BY <1>2, <2>1, StartedUp
  <2>3. WordStarts(line) \cap s .. s = {s}
    BY <1>2
  <2>4. Cardinality({s}) = 1
    BY FS_Singleton
  <2> QED
    BY <1>8, <2>2, <2>3, <2>4
<1>11. Cardinality(B) \in Nat
  <2> HIDE DEF A, B
  <2> QED
    BY <1>4, <1>5, FS_CardinalityType
<1> HIDE DEF A, B, f
<1> QED
  BY <1>6, <1>7, <1>9, <1>10, <1>11

(* A word of the rest is the word of the line there. *)
LEMMA RestWordAt ==
  ASSUME NEW line \in Seq(Printable), NEW s \in WordStarts(line), NEW t,
         t = SubSeq(line, s, Len(line)),
         NEW i \in WordStarts(line), s <= i
  PROVE  i - s + 1 \in WordStarts(t) /\ WordAt(t, i - s + 1) = WordAt(line, i)
<1>1. /\ t \in Seq(Printable) /\ Len(t) = Len(line) - s + 1
      /\ s \in 1 .. Len(line)
      /\ \A j \in 1 .. Len(t) : t[j] = line[s + j - 1]
      /\ \A j \in 1 .. Len(t) : j \in WordStarts(t) <=> s + j - 1 \in WordStarts(line)
  BY RestStarts
<1>2. Len(line) \in Nat /\ i \in 1 .. Len(line) /\ line[i] # Blank
  BY LenProperties, StartsCounted DEF WordStarts
<1>3. s \in Nat /\ i \in Nat
  BY <1>1, <1>2
<1>4. i - s + 1 \in 1 .. Len(t) /\ s + (i - s + 1) - 1 = i
  BY <1>1, <1>2, <1>3
<1>5. PICK a \in 1 .. Len(t) : a = i - s + 1
  BY <1>4
<1>6. s + a - 1 = i
  BY <1>4, <1>5
<1>7. a \in WordStarts(t) /\ t[a] # Blank
  BY <1>1, <1>2, <1>6
<1>8. PICK e : Ends(line, i, e) /\ WordAt(line, i) = SubSeq(line, i, e)
  BY <1>2, WordEnds
<1>9. e \in i .. Len(line) /\ e \in Nat
  BY <1>2, <1>8 DEF Ends
<1>10. PICK b \in Nat : b = e - s + 1 /\ s + b - 1 = e
  <2>1. e - s + 1 \in Nat /\ s + (e - s + 1) - 1 = e
    BY <1>1, <1>3, <1>9
  <2> QED
    BY <2>1
<1>11. Ends(t, a, b)
  <2>1. b \in a .. Len(t)
    BY <1>1, <1>2, <1>3, <1>5, <1>9, <1>10
  <2>2. ASSUME NEW j \in a .. b PROVE t[j] # Blank
    <3>1. j \in 1 .. Len(t) /\ s + j - 1 \in i .. e
      BY <1>1, <1>2, <1>3, <1>5, <1>6, <1>9, <1>10, <2>1
    <3> QED
      BY <1>1, <1>8, <3>1 DEF Ends
  <2>3. ASSUME b < Len(t) PROVE t[b + 1] = Blank
    <3>1. b + 1 \in 1 .. Len(t) /\ s + (b + 1) - 1 = e + 1 /\ e < Len(line)
      BY <1>1, <1>2, <1>3, <1>9, <1>10, <2>3
    <3> QED
      BY <1>1, <1>8, <3>1 DEF Ends
  <2> QED
    BY <2>1, <2>2, <2>3 DEF Ends
<1>12. WordAt(t, a) = SubSeq(t, a, b)
  <2>1. PICK d : Ends(t, a, d) /\ WordAt(t, a) = SubSeq(t, a, d)
    BY <1>1, <1>7, WordEnds
  <2> QED
    BY <1>1, <1>11, <2>1, EndsOnce
<1>13. SubSeq(t, a, b) = SubSeq(line, i, e)
  <2>1. /\ a \in 1 .. Len(line) - s + 1 /\ b \in 1 .. Len(line) - s + 1
        /\ Len(line) \in 1 .. Len(line)
    BY <1>1, <1>2, <1>11 DEF Ends
  <2>2. SubSeq(SubSeq(line, s, Len(line)), a, b) = SubSeq(line, s + a - 1, s + b - 1)
    BY <1>1, <2>1, SubSeqOfSubSeq
  <2> QED
    BY <1>6, <1>10, <2>2
<1> QED
  BY <1>5, <1>7, <1>8, <1>12, <1>13

(* The words of a line, as a sequence of strings. *)
LEMMA WordsTyped ==
  ASSUME NEW line \in Seq(Printable)
  PROVE  /\ Words(line) \in Seq(Seq(Printable)) /\ Len(Words(line)) = WordCount(line)
         /\ WordCount(line) \in Nat
         /\ \A k \in 1 .. WordCount(line) : Words(line)[k] = WordAt(line, WordStart(line, k))
<1>1. WordCount(line) \in Nat /\ Len(line) \in Nat
  BY StartsCounted, LenProperties
<1>2. ASSUME NEW k \in 1 .. WordCount(line) PROVE WordAt(line, WordStart(line, k)) \in Seq(Printable)
  <2>1. PICK i \in 1 .. Len(line) : i = WordStart(line, k)
    BY StartsCounted
  <2>2. PICK last \in i .. Len(line) \cup {i - 1} : WordAt(line, i) = SubSeq(line, i, last)
    BY WordIs
  <2>3. \A j \in i .. last : line[j] \in Printable
    BY <1>1, ElementOfSeq
  <2>4. SubSeq(line, i, last) \in Seq(Printable)
    BY <1>1, <2>3, SubSeqProperties
  <2> QED
    BY <2>1, <2>2, <2>4
<1>3. Words(line) \in [1 .. WordCount(line) -> Seq(Printable)]
  BY <1>2 DEF Words
<1>4. Words(line) \in Seq(Seq(Printable))
  BY <1>1, <1>3, SeqDef
<1>5. Len(Words(line)) = WordCount(line)
  BY <1>1, <1>4, LenProperties DEF Words
<1> QED
  BY <1>1, <1>4, <1>5 DEF Words

(* The words of the rest are the rest of the words: the last argument has   *)
(* them all. *)
LEMMA RestWords ==
  ASSUME NEW line \in Seq(Printable), NEW k \in 1 .. WordCount(line)
  PROVE  Words(SubSeq(line, WordStart(line, k), Len(line)))
           = SubSeq(Words(line), k, WordCount(line))
<1>1. PICK s \in WordStarts(line) : s = WordStart(line, k) /\ Started(line, s) = k
  BY StartIs
<1>2. PICK t : t = SubSeq(line, s, Len(line))
  OBVIOUS
<1>3. t \in Seq(Printable) /\ Len(t) = Len(line) - s + 1 /\ s \in 1 .. Len(line) /\ Len(line) \in Nat
  BY <1>2, RestStarts, LenProperties
<1>4. PICK n \in Nat : n = WordCount(line)
  BY StartsCounted
<1>5. WordCount(t) = n - k + 1
  <2>1. Len(t) \in 0 .. Len(t) /\ s + Len(t) - 1 = Len(line)
    BY <1>3
  <2>2. Started(t, Len(t)) = Started(line, s + Len(t) - 1) - Started(line, s) + 1
    BY <1>2, <2>1, RestStarted
  <2> QED
    BY <1>1, <1>3, <1>4, <2>1, <2>2, StartIs
<1>6. ASSUME NEW j \in 1 .. WordCount(t) PROVE Words(t)[j] = Words(line)[k + j - 1]
  <2>1. k + j - 1 \in 1 .. n /\ k + j - 1 >= k /\ k \in Nat /\ j \in Nat
    BY <1>4, <1>5
  <2>2. PICK i \in WordStarts(line) : i = WordStart(line, k + j - 1) /\ Started(line, i) = k + j - 1
    BY <1>4, <2>1, StartIs
  <2>3. i \in Nat /\ i \in 1 .. Len(line)
    BY StartsCounted
  <2>4. s <= i
    <3>1. ASSUME i < s PROVE FALSE
      <4>1. Started(line, i) < Started(line, s)
        BY <2>3, <3>1, StartedMore
      <4> QED
        BY <1>1, <2>1, <2>2, <4>1
    <3> QED
      BY <1>3, <2>3, <3>1
  <2>5. i - s + 1 \in WordStarts(t) /\ WordAt(t, i - s + 1) = WordAt(line, i)
    BY <1>2, <2>4, RestWordAt
  <2>6. Started(t, i - s + 1) = j
    <3>1. i - s + 1 \in 0 .. Len(t) /\ s + (i - s + 1) - 1 = i
      BY <1>3, <2>3, <2>4
    <3>2. Started(t, i - s + 1) = Started(line, s + (i - s + 1) - 1) - Started(line, s) + 1
      BY <1>2, <3>1, RestStarted
    <3> QED
      BY <1>1, <2>1, <2>2, <3>1, <3>2
  <2>7. WordStart(t, j) = i - s + 1
    BY <1>3, <2>5, <2>6, StartIs
  <2>8. Words(t)[j] = WordAt(t, WordStart(t, j))
    BY <1>3, WordsTyped
  <2>9. Words(line)[k + j - 1] = WordAt(line, WordStart(line, k + j - 1))
    BY <1>4, <2>1, WordsTyped
  <2> QED
    BY <2>2, <2>5, <2>7, <2>8, <2>9
<1>7. PICK w \in Seq(Seq(Printable)) : w = Words(line) /\ Len(w) = n
  BY <1>4, WordsTyped
<1>8. /\ SubSeq(w, k, n) \in Seq(Seq(Printable)) /\ Len(SubSeq(w, k, n)) = n - k + 1
      /\ \A j \in 1 .. n - k + 1 : SubSeq(w, k, n)[j] = w[k + j - 1]
  <2>1. \A j \in k .. n : w[j] \in Seq(Printable)
    BY <1>4, <1>7, ElementOfSeq
  <2>2. k \in Int /\ n \in Int /\ k <= n
    BY <1>4
  <2> QED
    BY <2>1, <2>2, SubSeqProperties
<1>9. Words(t) \in Seq(Seq(Printable)) /\ Len(Words(t)) = n - k + 1
  BY <1>3, <1>5, WordsTyped
<1>10. \A j \in 1 .. Len(Words(t)) : Words(t)[j] = SubSeq(w, k, n)[j]
  BY <1>5, <1>6, <1>7, <1>8, <1>9
<1>11. Words(t) = SubSeq(w, k, n)
  BY <1>8, <1>9, <1>10, SeqEqual
<1> QED
  BY <1>1, <1>2, <1>4, <1>7, <1>11

(* A word by itself is one word. *)
LEMMA WordAlone ==
  ASSUME NEW line \in Seq(Printable), NEW i \in WordStarts(line)
  PROVE  Words(WordAt(line, i)) = <<WordAt(line, i)>>
<1>1. Len(line) \in Nat /\ i \in 1 .. Len(line) /\ line[i] # Blank
  BY LenProperties, StartsCounted DEF WordStarts
<1>2. PICK e : Ends(line, i, e) /\ WordAt(line, i) = SubSeq(line, i, e)
  BY <1>1, WordEnds
<1>3. e \in i .. Len(line) /\ e \in Nat
  BY <1>1, <1>2 DEF Ends
<1>4. PICK w : w = SubSeq(line, i, e)
  OBVIOUS
<1>5. /\ w \in Seq(Printable) /\ Len(w) = e - i + 1
      /\ \A j \in 1 .. Len(w) : w[j] = line[i + j - 1]
  <2>1. \A j \in i .. e : line[j] \in Printable
    BY <1>1, <1>3, ElementOfSeq
  <2>2. i \in Int /\ e \in Int /\ i <= e
    BY <1>1, <1>3
  <2> QED
    BY <1>4, <2>1, <2>2, SubSeqProperties
<1>6. Len(w) \in Nat /\ Len(w) >= 1 /\ DOMAIN w = 1 .. Len(w)
  BY <1>1, <1>3, <1>5, LenProperties
<1>7. \A j \in 1 .. Len(w) : w[j] # Blank
  <2>1. ASSUME NEW j \in 1 .. Len(w) PROVE i + j - 1 \in i .. e
    BY <1>1, <1>3, <1>5
  <2> QED
    BY <1>2, <1>5, <2>1 DEF Ends
<1>8. WordStarts(w) = {1}
  <2>1. 1 \in WordStarts(w)
    BY <1>6, <1>7 DEF WordStarts
  <2>2. ASSUME NEW j \in WordStarts(w) PROVE j = 1
    <3>1. j \in 1 .. Len(w) /\ (j > 1 => w[j - 1] = Blank)
      BY <1>6 DEF WordStarts
    <3>2. j > 1 => j - 1 \in 1 .. Len(w)
      BY <1>6, <3>1
    <3> QED
      BY <1>6, <1>7, <3>1, <3>2
  <2> QED
    BY <2>1, <2>2
<1>9. WordCount(w) = 1
  BY <1>8, FS_Singleton DEF WordCount
<1>10. WordStart(w, 1) = 1
  <2>1. WordStart(w, 1) \in WordStarts(w)
    BY <1>5, <1>9, StartIs
  <2> QED
    BY <1>8, <2>1
<1>11. WordAt(w, 1) = w
  <2>1. PICK d : Ends(w, 1, d) /\ WordAt(w, 1) = SubSeq(w, 1, d)
    BY <1>5, <1>6, <1>7, WordEnds
  <2>2. Ends(w, 1, Len(w))
    BY <1>6, <1>7 DEF Ends
  <2>3. d = Len(w)
    BY <1>5, <1>6, <2>1, <2>2, EndsOnce
  <2> QED
    BY <1>5, <2>1, <2>3, SubSeqFull
<1>12. Words(w)[1] = w /\ Words(w) \in Seq(Seq(Printable)) /\ Len(Words(w)) = 1
  <2>1. Words(w) \in Seq(Seq(Printable)) /\ Len(Words(w)) = 1
    BY <1>5, <1>9, WordsTyped
  <2>2. Words(w)[1] = WordAt(w, WordStart(w, 1))
    BY <1>9 DEF Words
  <2> QED
    BY <1>10, <1>11, <2>1, <2>2
<1>13. <<w>> \in Seq(Seq(Printable)) /\ Len(<<w>>) = 1 /\ <<w>>[1] = w
  BY <1>5
<1>14. Words(w) = <<w>>
  <2>1. \A j \in 1 .. Len(Words(w)) : Words(w)[j] = <<w>>[j]
    BY <1>12, <1>13
  <2> QED
    BY <1>12, <1>13, <2>1, SeqEqual
<1> QED
  BY <1>2, <1>4, <1>14

(* What flattening q does at i, with what it did before that. *)
Joined(q, f, i) == IF i = 1 THEN q[i] ELSE f[i - 1] \o q[i]

(* A sequence of sequences is flattened one after another. *)
LEMMA FlattenSteps ==
  ASSUME NEW q, Len(q) \in Nat \ {0}
  PROVE  \E f : /\ \A i \in 1 .. Len(q) : f[i] = Joined(q, f, i)
                /\ FlattenSeq(q) = f[Len(q)]
<1> DEFINE Upto(m) == \E f : f = [i \in 1 .. m |-> Joined(q, f, i)]
           T == {m \in Nat : Upto(m)}
<1>1. 0 \in T
  <2>1. [i \in 1 .. 0 |-> q] = [i \in 1 .. 0 |-> Joined(q, [k \in 1 .. 0 |-> q], i)]
    OBVIOUS
  <2> QED
    BY <2>1
<1>2. ASSUME NEW m \in Nat, m \in T PROVE m + 1 \in T
  <2>1. PICK f : f = [i \in 1 .. m |-> Joined(q, f, i)]
    BY <1>2
  <2> DEFINE g == [i \in 1 .. (m + 1) |-> IF i = m + 1 THEN Joined(q, f, m + 1) ELSE f[i]]
  <2>2. ASSUME NEW i \in 1 .. (m + 1) PROVE g[i] = Joined(q, g, i)
    <3>0. i # 1 => i - 1 \in 1 .. m /\ i - 1 \in 1 .. (m + 1) /\ i - 1 # m + 1
      OBVIOUS
    <3>1. i # 1 => g[i - 1] = f[i - 1]
      BY <3>0
    <3>2. Joined(q, g, i) = Joined(q, f, i)
      BY <3>1 DEF Joined
    <3>3. CASE i = m + 1
      BY <3>2, <3>3
    <3>4. CASE i # m + 1
      <4>1. i \in 1 .. m
        BY <3>4
      <4>2. f[i] = Joined(q, f, i)
        BY <2>1, <4>1
      <4> QED
        BY <3>2, <3>4, <4>2
    <3> QED
      BY <3>3, <3>4
  <2>3. g = [i \in 1 .. (m + 1) |-> Joined(q, g, i)]
    BY <2>2
  <2> HIDE DEF g
  <2> QED
    BY <2>3
<1>3. Len(q) \in T
  <2> HIDE DEF T
  <2> QED
    BY <1>1, <1>2, Inductive
<1>4. FlattenSeq(q) = (CHOOSE f : f = [i \in 1 .. Len(q) |-> Joined(q, f, i)])[Len(q)]
  BY DEF FlattenSeq, Joined
<1>5. PICK f : f = [i \in 1 .. Len(q) |-> Joined(q, f, i)] /\ FlattenSeq(q) = f[Len(q)]
  BY <1>3, <1>4
<1>6. \A i \in 1 .. Len(q) : f[i] = Joined(q, f, i)
  BY <1>5
<1> QED
  BY <1>5, <1>6

(* Single elements of a sequence in their order, and the rest of it last,   *)
(* flatten to the sequence. *)
LEMMA FlattenParts ==
  ASSUME NEW X, NEW w \in Seq(X), NEW a \in 1 .. Len(w), NEW q \in Seq(Seq(X)), Len(q) = a,
         \A i \in 1 .. a - 1 : q[i] = SubSeq(w, i, i),
         q[a] = SubSeq(w, a, Len(w))
  PROVE  FlattenSeq(q) = w
<1>1. Len(w) \in Nat /\ a \in Nat \ {0}
  BY LenProperties
<1>2. PICK f : (\A i \in 1 .. a : f[i] = Joined(q, f, i)) /\ FlattenSeq(q) = f[a]
  BY <1>1, FlattenSteps
<1> DEFINE T == {i \in Nat : i \in 1 .. a - 1 => f[i] = SubSeq(w, 1, i)}
<1>3. 0 \in T
  OBVIOUS
<1>4. ASSUME NEW i \in Nat, i \in T PROVE i + 1 \in T
  <2> SUFFICES ASSUME i + 1 \in 1 .. a - 1 PROVE f[i + 1] = SubSeq(w, 1, i + 1)
    OBVIOUS
  <2>1. f[i + 1] = Joined(q, f, i + 1) /\ q[i + 1] = SubSeq(w, i + 1, i + 1)
    BY <1>1, <1>2
  <2>2. CASE i = 0
    BY <2>1, <2>2 DEF Joined
  <2>3. CASE i # 0
    <3>1. i \in 1 .. a - 1 /\ i + 1 # 1 /\ (i + 1) - 1 = i
      BY <1>1, <2>3
    <3>2. f[i + 1] = f[i] \o q[i + 1]
      BY <2>1, <3>1 DEF Joined
    <3>3. f[i] = SubSeq(w, 1, i)
      BY <1>4, <3>1
    <3>4. 1 \in 1 .. Len(w) + 1 /\ i \in 1 - 1 .. Len(w) /\ i + 1 \in i .. Len(w)
      BY <1>1, <3>1
    <3>5. SubSeq(w, 1, i) \o SubSeq(w, i + 1, i + 1) = SubSeq(w, 1, i + 1)
      BY <3>4, ConcatAdjacentSubSeq
    <3> QED
      BY <2>1, <3>2, <3>3, <3>5
  <2> QED
    BY <2>2, <2>3
<1>5. \A i \in 1 .. a - 1 : f[i] = SubSeq(w, 1, i)
  <2>1. Nat \subseteq T
    <3> HIDE DEF T
    <3> QED
      BY <1>3, <1>4, Inductive
  <2> QED
    BY <1>1, <2>1
<1>6. f[a] = Joined(q, f, a)
  BY <1>1, <1>2
<1>7. SubSeq(w, 1, Len(w)) = w
  BY SubSeqFull
<1>8. CASE a = 1
  BY <1>2, <1>6, <1>7, <1>8 DEF Joined
<1>9. CASE a # 1
  <2>1. a - 1 \in 1 .. a - 1 /\ (a - 1) + 1 = a
    BY <1>1, <1>9
  <2>2. f[a] = SubSeq(w, 1, a - 1) \o SubSeq(w, a, Len(w))
    BY <1>5, <1>6, <1>9, <2>1 DEF Joined
  <2>3. 1 \in 1 .. Len(w) + 1 /\ a - 1 \in 1 - 1 .. Len(w) /\ Len(w) \in a - 1 .. Len(w)
    BY <1>1, <1>9
  <2>4. SubSeq(w, 1, a - 1) \o SubSeq(w, (a - 1) + 1, Len(w)) = SubSeq(w, 1, Len(w))
    BY <2>3, ConcatAdjacentSubSeq
  <2> QED
    BY <1>2, <1>7, <2>1, <2>2, <2>4
<1> QED
  BY <1>8, <1>9

(* The arguments have the words of the line. *)
LEMMA ArgumentsJoin ==
  ASSUME NEW line \in Seq(Printable), NEW args, args = Arguments(line)
  PROVE  FlattenSeq([k \in DOMAIN args |-> Words(args[k])]) = Words(line)
<1> DEFINE q == [k \in DOMAIN args |-> Words(args[k])]
           w == Words(line)
           a == ArgCount(line)
           X == Seq(Printable)
<1>1. w \in Seq(X) /\ Len(w) = WordCount(line) /\ WordCount(line) \in Nat
  BY WordsTyped
<1>2. /\ MaxArgs \in Nat /\ MaxArgs > 1 /\ a \in Nat /\ a <= WordCount(line) /\ a <= MaxArgs - 1
      /\ a < MaxArgs - 1 => a = WordCount(line)
      /\ a = 0 => WordCount(line) = 0
  BY <1>1, ConsoleAssumption DEF ArgCount
<1>3. DOMAIN args = 1 .. a /\ args \in Seq(X)
  BY ArgumentsTyped DEF Arguments
<1>4. ASSUME NEW k \in 1 .. a PROVE q[k] = Words(args[k]) /\ q[k] \in Seq(X)
  <2>1. q[k] = Words(args[k])
    BY <1>3
  <2>2. args[k] \in X
    BY <1>3, LenProperties
  <2> HIDE DEF q
  <2> QED
    BY <2>1, <2>2, WordsTyped
<1>5. q \in Seq(Seq(X)) /\ Len(q) = a
  <2>1. q \in [1 .. a -> Seq(X)]
    BY <1>3, <1>4
  <2> HIDE DEF q, a
  <2>2. q \in Seq(Seq(X))
    BY <1>2, <2>1, SeqDef
  <2> QED
    BY <1>2, <2>1, <2>2, LenProperties
<1>6. ASSUME NEW k \in 1 .. a, k # MaxArgs - 1 PROVE q[k] = SubSeq(w, k, k)
  <2>1. k \in 1 .. Len(w) /\ k \in 1 .. WordCount(line)
    BY <1>1, <1>2
  <2>2. PICK i \in WordStarts(line) : i = WordStart(line, k)
    BY <2>1, StartIs
  <2>3. args[k] = WordAt(line, i)
    BY <1>6, <2>2 DEF Arguments
  <2>4. Words(WordAt(line, i)) = <<WordAt(line, i)>>
    BY WordAlone
  <2>5. w[k] = WordAt(line, i)
    BY <2>1, <2>2, WordsTyped
  <2> HIDE DEF w, q, a
  <2>6. SubSeq(w, k, k) = SubSeq(w, k, k - 1) \o <<w[k]>>
    BY <1>1, <2>1, SubSeqRecursiveSecond
  <2>7. SubSeq(w, k, k - 1) = <<>>
    BY <2>1, SubSeqEmpty
  <2>8. <<w[k]>> \in Seq(X)
    BY <1>1, <2>1, ElementOfSeq
  <2>9. <<>> \o <<w[k]>> = <<w[k]>>
    BY <2>8, ConcatEmptySeq
  <2> QED
    BY <1>4, <2>3, <2>4, <2>5, <2>6, <2>7, <2>9
<1>7. CASE a = 0
  <2>1. w = <<>> /\ q = <<>>
    <3> HIDE DEF w, q, a
    <3> QED
      BY <1>1, <1>2, <1>5, <1>7, EmptySeq
  <2> HIDE DEF w, q, a
  <2> QED
    BY <1>5, <1>7, <2>1 DEF FlattenSeq, q, w
<1>8. CASE a # 0
  <2>1. a \in 1 .. Len(w) /\ a \in 1 .. a
    BY <1>1, <1>2, <1>8
  <2>2. q[a] = SubSeq(w, a, Len(w))
    <3>1. CASE a = MaxArgs - 1
      <4>1. args[a] = SubSeq(line, WordStart(line, a), Len(line))
        BY <2>1, <3>1 DEF Arguments
      <4>2. a \in 1 .. WordCount(line)
        BY <1>1, <2>1
      <4>3. Words(SubSeq(line, WordStart(line, a), Len(line))) = SubSeq(w, a, WordCount(line))
        BY <4>2, RestWords
      <4> HIDE DEF w, q, a
      <4> QED
        BY <1>1, <1>4, <2>1, <4>1, <4>3
    <3>2. CASE a # MaxArgs - 1
      <4>1. a = Len(w)
        BY <1>1, <1>2, <3>2
      <4> HIDE DEF w, q, a
      <4> QED
        BY <1>6, <2>1, <3>2, <4>1
    <3> QED
      BY <3>1, <3>2
  <2>3. \A k \in 1 .. a - 1 : q[k] = SubSeq(w, k, k)
    <3>1. \A k \in 1 .. a - 1 : k \in 1 .. a /\ k # MaxArgs - 1
      BY <1>2
    <3> HIDE DEF w, q, a
    <3> QED
      BY <1>6, <3>1
  <2> HIDE DEF w, q, a, X
  <2>4. FlattenSeq(q) = w
    BY <1>1, <1>5, <2>1, <2>2, <2>3, FlattenParts
  <2> QED
    BY <2>4 DEF q, w
<1> QED
  BY <1>7, <1>8

(* An empty line has no arguments. *)
LEMMA NoArguments == Arguments(<<>>) = <<>>
<1> SUFFICES ASSUME NEW line \in Seq(Printable), line = <<>> PROVE Arguments(line) = <<>>
  BY EmptySeq
<1>1. Len(line) = 0
  BY EmptySeq
<1>2. WordCount(line) = 0
  <2>1. WordStarts(line) \subseteq 1 .. 0
    BY <1>1, StartsCounted
  <2>2. WordStarts(line) = {}
    BY <2>1
  <2> QED
    BY <2>2, FS_EmptySet DEF WordCount
<1>3. ArgCount(line) = 0
  BY <1>2, ConsoleAssumption DEF ArgCount
<1>4. Arguments(line) \in Seq(Seq(Printable)) /\ DOMAIN Arguments(line) = 1 .. 0
  BY <1>3, ArgumentsTyped DEF Arguments
<1>5. Len(Arguments(line)) = 0
  BY <1>4, LenProperties
<1> QED
  BY <1>4, <1>5, EmptySeq

(* argv is what was made of the command given last. *)
Parsed == argv = Arguments(executed)

(* The arguments have every word of the command, once and in its place, for  *)
(* lines of any number of words and every size of argv.                     *)
THEOREM SessionNoWordLost == Spec => []NoWordLost
<1>1. Init => Parsed
  BY NoArguments DEF Init, ConsoleInit, Parsed
<1>2. Parsed /\ [Next]_sessionVars => Parsed'
  <2> SUFFICES ASSUME Parsed, [Next]_sessionVars PROVE Parsed'
    OBVIOUS
  <2>1. CASE UNCHANGED <<executed, argv>>
    BY <2>1 DEF Parsed
  <2>2. CASE Submit
    BY <2>2 DEF Parsed, Submit
  <2>3. UNCHANGED <<executed, argv>> \/ Submit
    BY DEF Next, sessionVars, consoleVars, Edit, OpenMenu, Type, Poll, Enter, Backspace, TypeChar
  <2> QED
    BY <2>1, <2>2, <2>3
<1>3. SessionInv /\ Parsed => NoWordLost
  BY ArgumentsTyped, ArgumentsJoin DEF SessionInv, Parsed, NoWordLost
<1> QED
  BY <1>1, <1>2, <1>3, SessionInvariant, PTL DEF Spec
=============================================================================
