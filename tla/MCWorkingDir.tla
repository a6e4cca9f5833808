---------------------------- MODULE MCWorkingDir ----------------------------
(* The instance of MCSkullFS with a current_dir of seven bytes: two steps   *)
(* down or a step down and one back up fit, and one more may be cut.  The    *)
(* settings are saved under a name that files and directories get too.  cat  *)
(* reads two bytes at a time.                                                *)
EXTENDS MCSkullFS, WorkingDir

MCArgs == {<<".", ".">>, <<".">>, <<"t">>, <<"/", "t">>, <<".", "/", "t">>}
MCConfigText == <<2, 2, 2>>
=============================================================================
