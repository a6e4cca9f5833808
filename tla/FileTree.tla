------------------------------ MODULE FileTree ------------------------------
(***************************************************************************)
(* What a file system promises, whatever it keeps in memory: a tree of     *)
(* directories and files named by the path from the root.  A path is the   *)
(* sequence of names along the way; the root is the empty one.             *)
(***************************************************************************)
EXTENDS Naturals, Sequences, SequencesExt

CONSTANTS
  Texts,     (* what can be written to a file                            *)
  Dir,       (* what a directory holds in place of a text                *)
  Defaults   (* the names of the directories a new tree comes with        *)

VARIABLE tree  (* path -> Dir, or the text of the file there             *)

IsDir(p) == p \in DOMAIN tree /\ tree[p] = Dir
IsFile(p) == p \in DOMAIN tree /\ tree[p] # Dir

(* p is not there yet, and what would hold it is a directory. *)
CanMake(p) == p # <<>> /\ p \notin DOMAIN tree /\ IsDir(Front(p))

Holding(p, x) == [q \in DOMAIN tree \cup {p} |-> IF q = p THEN x ELSE tree[q]]

(* A text written over another from its start; what is longer stays. *)
Over(text, old) == text \o SubSeq(old, Len(text) + 1, Len(old))

TreeInit ==
  tree = [p \in {<<>>} \cup {<<n>> : n \in Defaults} |-> Dir]

MakeDir(p) == CanMake(p) /\ tree' = Holding(p, Dir)
MakeFile(p) == CanMake(p) /\ tree' = Holding(p, <<>>)
Write(p, text) == IsFile(p) /\ tree' = Holding(p, Over(text, tree[p]))
MakeAndWrite(p, text) == CanMake(p) /\ tree' = Holding(p, text)

Unlink(p) ==
  /\ p \in DOMAIN tree /\ p # <<>>
  /\ ~ \E q \in DOMAIN tree : q # <<>> /\ Front(q) = p
  /\ tree' = Restrict(tree, DOMAIN tree \ {p})

(* An operation is about a path that is there, or that it puts there. *)
TreeNext ==
  \/ \E p \in DOMAIN tree' \ DOMAIN tree :
       MakeDir(p) \/ MakeFile(p) \/ \E text \in Texts : MakeAndWrite(p, text)
  \/ \E p \in DOMAIN tree :
       Unlink(p) \/ \E text \in Texts : Write(p, text)

TreeSpec == TreeInit /\ [][TreeNext]_tree
=============================================================================
