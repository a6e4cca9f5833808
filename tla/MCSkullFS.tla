----------------------------- MODULE MCSkullFS -----------------------------
(* Four nodes: the root, a default directory and two more, so that a        *)
(* directory inside a directory, a file in either and a directory with two  *)
(* entries all fit.  The texts are of one and of three characters: the      *)
(* second write of a file fits, grows it in its buffer or grows the buffer. *)
EXTENDS SkullFS, TLC

CONSTANTS root, n1, n2, n3

MCAddresses == {root, n1, n2, n3}
MCDefaultDirs == <<"t">>
MCPaths ==
  {<<"f">>, <<"t">>, <<"", "f">>, <<".", "t">>, <<"f", "..">>, <<"t", ".">>,
   <<"t", "">>, <<"t", "f">>, <<"t", "t">>, <<"f", "f">>, <<"f", "t">>,
   <<"t", "..", "f">>, <<"t", "", "f">>, <<"t", "f", "f">>, <<"f", "t", "t">>}
MCTexts == {<<1>>, <<2, 2, 2>>}

AddressSymmetry == Permutations({n1, n2, n3})
=============================================================================
