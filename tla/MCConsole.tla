----------------------------- MODULE MCConsole -----------------------------
(* A pane of two rows by four columns and lines of up to five characters     *)
(* after a prompt of one: a line wraps in the middle and at the end of a row, *)
(* and scrolls the pane.  argv holds two arguments, so a line may have a word *)
(* more than that.  One command prints nothing, one prints past the end of a  *)
(* row; "aa" and "aaa" open menus.                                            *)
EXTENDS Session

MCLetters == {"a"}
MCGlyphs == {"a", " ", "$", "#"}
MCPrompt == <<"$">>
MCOutputs == {<<>>, <<"#", "#", " ", "#", "\n">>}
MCCommand == [setup |-> <<"a", "a">>, games |-> <<"a", "a", "a">>]
MCMenuText == <<"#", " ", "#", "\n">>
=============================================================================
