----------------------------- MODULE WorkingDir -----------------------------
(***************************************************************************)
(* What else of the shell meets the file system: the current directory of  *)
(* cd and pwd (kernel/shell.c), which is text and not a node, the file that *)
(* the setup utility saves its settings in (bios/bios.c), and what cat and *)
(* ls read.  The other commands take every path from the root.             *)
(***************************************************************************)
EXTENDS SkullFS

CONSTANTS
  PATH,        (* bytes of current_dir and of a path (256)                 *)
  Args,        (* what cd may be given: sequences of characters            *)
  ConfigFile,  (* the name of the file of the settings (bios.cfg)          *)
  ConfigText,  (* what it holds; the value of a setting is left out        *)
  CHUNK        (* bytes cat reads at a time (256)                          *)

ASSUME WorkingDirAssumption ==
  /\ PATH \in Nat \ {0, 1} /\ CHUNK \in Nat \ {0}
  /\ Args \subseteq Seq(STRING) /\ \A arg \in Args : arg # <<>>
  /\ <<ConfigFile>> \in Paths /\ ConfigText \in Texts

VARIABLES
  current_dir,  (* its characters                                          *)
  here          (* for the properties: the directory cd has led to; NULL   *)
                (* when one it passed through on the way was removed       *)

shellVars == <<vars, current_dir, here>>

Slash == "/"

(* The names between the slashes of a text. *)
NamesOf(text) ==
  FoldLeft(LAMBDA names, c : IF c = Slash THEN Append(names, "")
                             ELSE Append(Front(names), Last(names) \o c),
           <<"">>, text)

(* strncpy and strncat keep what fits. *)
Cut(text) == IF Len(text) < PATH THEN text ELSE SubSeq(text, 1, PATH - 1)

(* "Ensure it ends with /" *)
WithSlash(text) == IF Last(text) = Slash THEN text ELSE Append(text, Slash)

IsAbsolute(arg) == Head(arg) = Slash
FullPath_FromRoot(arg) == arg
FullPath(arg) == IF IsAbsolute(arg) THEN arg ELSE WithSlash(current_dir) \o arg
-----------------------------------------------------------------------------
ShellInit == Init /\ current_dir = <<Slash>> /\ here = Root

(* "No argument, go to root" *)
CdHome ==
  /\ current_dir' = <<Slash>> /\ here' = Root
  /\ UNCHANGED vars

(* A current_dir that fills its array is copied without its end, and one    *)
(* that fills it before the slash is added is overrun by a byte: both are   *)
(* undefined, and the model leaves them out.  What is no directory is       *)
(* refused with a message.                                                  *)
Cd(arg) ==
  LET new_path == Cut(FullPath(arg))
      dir == Resolve(NamesOf(new_path))
  IN  /\ IsAbsolute(arg) \/ Len(current_dir) < PATH - 1
      /\ dir # NULL /\ IsDir(dir)
      /\ Len(WithSlash(new_path)) < PATH
      /\ current_dir' = WithSlash(new_path)
      /\ here' = IF new_path # FullPath(arg) THEN NULL
                 ELSE FoldLeft(Walk, IF IsAbsolute(arg) THEN Root ELSE here, NamesOf(arg))
      /\ UNCHANGED vars

(* bios_save_config: what goes wrong is not reported. *)
SaveConfig == WriteOld(<<ConfigFile>>, ConfigText) \/ WriteNew(<<ConfigFile>>, ConfigText)

(* A file command leaves current_dir as it is, whatever it removes. *)
Route == LET names == NamesOf(current_dir)
         IN  {Resolve(SubSeq(names, 1, k)) : k \in DOMAIN names}
FileCommand ==
  /\ CarefulNext \/ SaveConfig
  /\ here' = IF Route \subseteq DOMAIN node' THEN here ELSE NULL
  /\ UNCHANGED current_dir

ShellNext == CdHome \/ (\E arg \in Args : Cd(arg)) \/ FileCommand

ShellSpec == ShellInit /\ [][ShellNext]_shellVars
-----------------------------------------------------------------------------
(* skullfs_read *)
Read_FromStart(f, offset, size) ==
  LET data == IF HasData(f) THEN node[f].data ELSE <<>>
  IN  IF offset >= Len(data) THEN <<>>
      ELSE SubSeq(data, 1, IF size > Len(data) THEN Len(data) ELSE size)
Read(f, offset, size) ==
  LET data == IF HasData(f) THEN node[f].data ELSE <<>>
  IN  IF offset >= Len(data) THEN <<>>
      ELSE SubSeq(data, offset + 1,
                  IF offset + size > Len(data) THEN Len(data) ELSE offset + size)

(* cmd_cat: as many chunks as the length of the file asks for, or up to the *)
(* first that is empty.  upto[n] is what it has printed after n of them.    *)
(* The shell finds f by its name in the root, and nowhere else.             *)
Cat(f) ==
  LET Rest(n) == node[f].length - n
      upto[n \in 0 .. node[f].length] ==
        IF n = 0 THEN <<>>
        ELSE LET out == upto[n - 1]
             IN  out \o Read(f, Len(out), IF Rest(Len(out)) > CHUNK THEN CHUNK ELSE Rest(Len(out)))
  IN  upto[node[f].length]

(* skullfs_readdir: . and .. come first. *)
Readdir(d, i) ==
  CASE i = 0 -> "."
    [] i = 1 -> ".."
    [] i - 1 \in DOMAIN node[d].entries -> node[d].entries[i - 1].name
    [] OTHER -> NULL

(* list_directory: the names up to the first that is not there, and whether *)
(* a slash follows.                                                         *)
Listing(d) ==
  LET end == Min({i \in 0 .. Len(node[d].entries) + 2 : Readdir(d, i) = NULL})
  IN  [i \in 1 .. end |->
         LET name == Readdir(d, i - 1)
         IN  [name |-> name, slash |-> IsDir(Lookup(d, name))]]
-----------------------------------------------------------------------------
(* current_dir names the directory that the cd commands have led to, one    *)
(* step after the other, through any mkdir, rm and write in between, as long *)
(* as no directory that the text passes through was removed.                *)
CwdIsHere ==
  here # NULL => IsDir(here) /\ Resolve(NamesOf(current_dir)) = here

(* What ls and cat show is what is there: every name of a directory once,   *)
(* with its kind, after . and .., and all of a file, from its start to its  *)
(* end, however many reads it takes.                                        *)
ShowsTree ==
  /\ \A d \in Dirs :
       LET shown == Listing(d)
       IN  /\ [i \in DOMAIN shown |-> shown[i].name] \in
                {<<".", "..">> \o s : s \in SetToSeqs({e.name : e \in EntriesOf(d)})}
           /\ \A e \in EntriesOf(d) : [name |-> e.name, slash |-> IsDir(e.node)] \in Range(shown)
  /\ \A f \in DOMAIN node \ Dirs : Cat(f) = IF HasData(f) THEN node[f].data ELSE <<>>
=============================================================================
