------------------------------- MODULE Menus -------------------------------
(***************************************************************************)
(* The full-screen menus: the setup utility and its configuration page     *)
(* (bios/bios.c), the list of games (games/games.c) and its one game        *)
(* (games/snake/snake.c).  All four poll the ring of the keyboard in the    *)
(* same way, for "debounce": a key is kept until a poll finds the ring      *)
(* empty, and obeyed then.  Keys may be typed between any two polls.        *)
(*                                                                         *)
(* The save of the settings is in WorkingDir; delays are left out.          *)
(***************************************************************************)
EXTENDS Integers, Sequences, SequencesExt

CONSTANT MaxKeys  (* keys that wait in the ring: the bound of the model     *)

ASSUME MenusAssumption == MaxKeys \in Nat \ {0}

VARIABLES
  keys,      (* typed, and not yet found by a poll                          *)
  last_key,  (* found last, and not yet obeyed                              *)
  shows,     (* the menus on the screen, from the one the shell called to   *)
             (* the one in front, and the settings                          *)
  ideal      (* where obeying each key as it was typed would have led; NULL *)
             (* once a key was typed into a menu that was not at rest       *)

menuVars == <<keys, last_key, shows, ideal>>

Keys == {"down", "up", "enter", "esc", "other"}
None == "none"
NULL == [open |-> <<>>]

menu_items == [setup |-> 4, config |-> 2, games |-> 1]
Settings == <<"show_fps", "debug_mode">>

Opened(s, menu) == [s EXCEPT !.open = Append(@, [menu |-> menu, selected_item |-> 0])]
Closed(s) == [s EXCEPT !.open = Front(@)]
Select(s, by) ==
  LET n == menu_items[Last(s.open).menu]
  IN  [s EXCEPT !.open[Len(s.open)].selected_item = (@ + by) % n]
Toggle(s, setting) == [s EXCEPT !.set[setting] = ~@]

(* Enter, on an item: of setup, 1 is System Configuration and 3 Save & Exit. *)
SetupChosen(s, item) ==
  CASE item = 1 -> Opened(s, "config")
    [] item = 3 -> Closed(s)
    [] OTHER -> s
ConfigChosen(s, item) == Toggle(s, Settings[item + 1])
GamesChosen(s, item) == Opened(s, "snake")

Chosen(s) ==
  LET front == Last(s.open)
  IN  CASE front.menu = "setup" -> SetupChosen(s, front.selected_item)
        [] front.menu = "config" -> ConfigChosen(s, front.selected_item)
        [] front.menu = "games" -> GamesChosen(s, front.selected_item)

(* The game knows one key. *)
SnakeObeyed(s, key) == IF key = "esc" THEN Closed(s) ELSE s

(* What the menu in front does with a key. *)
Obeyed(s, key) ==
  IF Last(s.open).menu = "snake" THEN SnakeObeyed(s, key)
  ELSE CASE key = "down" -> Select(s, 1)
         [] key = "up" -> Select(s, -1)
         [] key = "enter" -> Chosen(s)
         [] key = "esc" -> Closed(s)
         [] OTHER -> s
-----------------------------------------------------------------------------
Running == shows.open # <<>>
Settled == keys = <<>> /\ last_key = None

MenusInit ==
  /\ keys = <<>> /\ last_key = None
  /\ shows = [open |-> <<>>, set |-> [s \in ToSet(Settings) |-> FALSE]]
  /\ ideal = shows

(* What was typed ahead is still in the ring: TypeKey may come before the   *)
(* first poll.                                                              *)
Open(menu) ==
  /\ shows' = Opened(shows, menu) /\ ideal' = shows'
  /\ UNCHANGED <<keys, last_key>>

(* The keyboard: a key that finds the ring full is dropped. *)
TypeKey ==
  \E key \in Keys :
    /\ Len(keys) < MaxKeys
    /\ keys' = Append(keys, key)
    /\ ideal' = IF Settled /\ ideal # NULL THEN Obeyed(ideal, key) ELSE NULL
    /\ UNCHANGED <<last_key, shows>>

(* keyboard_get_scancode, in each menu. *)
FindKey_Unchecked ==
  /\ keys # <<>> \/ last_key # None
  /\ last_key' = IF keys = <<>> THEN None ELSE Head(keys)
  /\ keys' = IF keys = <<>> THEN keys ELSE Tail(keys)
  /\ UNCHANGED <<shows, ideal>>
FindKey ==
  /\ keys # <<>>
  /\ last_key' = Head(keys) /\ keys' = Tail(keys)
  /\ UNCHANGED <<shows, ideal>>

ObeyKey_Again ==
  /\ keys = <<>> /\ last_key # None
  /\ shows' = Obeyed(shows, last_key)
  /\ ideal' = IF ideal = NULL /\ ~Running' THEN shows' ELSE ideal
  /\ UNCHANGED <<keys, last_key>>
ObeyKey ==
  /\ keys = <<>> /\ last_key # None
  /\ shows' = Obeyed(shows, last_key) /\ last_key' = None
  /\ ideal' = IF ideal = NULL /\ ~Running' THEN shows' ELSE ideal
  /\ UNCHANGED keys
-----------------------------------------------------------------------------
MenusOK ==
  /\ keys \in Seq(Keys) /\ Len(keys) <= MaxKeys
  /\ last_key \in Keys \cup {None}
  /\ \A i \in DOMAIN shows.open :
       LET menu == shows.open[i].menu
       IN  shows.open[i].selected_item \in
             0 .. (IF menu \in DOMAIN menu_items THEN menu_items[menu] - 1 ELSE 0)
  /\ shows.set \in [ToSet(Settings) -> BOOLEAN]

(* Who waits for a menu to come to rest before the next key gets what the   *)
(* keys ask for, one by one, in whatever menus they lead through: no key is *)
(* lost between two polls, none acts twice, and none that closed a menu     *)
(* acts in the one behind it.  Only the last key of a burst is obeyed: that *)
(* is the debounce, and an arrow with an Enter close behind is lost.        *)
PatientUserObeyed == Settled /\ ideal # NULL => shows = ideal
=============================================================================
