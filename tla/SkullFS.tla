------------------------------ MODULE SkullFS ------------------------------
(***************************************************************************)
(* The in-memory file system: fs/src/skullfs.c on the nodes of fs/src/fs.c *)
(* and the paths of fs/src/path.c, driven by the shell's commands mkdir,   *)
(* touch, rm and write of kernel/fs.c.  Commands run one at a time, to     *)
(* their end; what makes them hard is that each takes several blocks of    *)
(* the kernel heap, any of which kmalloc may refuse.                       *)
(*                                                                         *)
(* Nodes are heap addresses: a node that was freed may be handed out       *)
(* again.  Inode numbers, permissions and names longer than the 127        *)
(* characters of an entry (a command line holds 79) are left out.          *)
(***************************************************************************)
EXTENDS Naturals, Sequences, FiniteSets, FiniteSetsExt, SequencesExt, Functions

CONSTANTS
  Addresses,    (* where kmalloc may put an fs_node_t                      *)
  Root,         (* where it put fs_root                                    *)
  NULL,
  DefaultDirs,  (* the directories skullfs_init makes, in its order        *)
  Paths,        (* the paths a command may be given: sequences of names    *)
  Texts         (* the texts of write: sequences of characters             *)

(* No argument of a command is empty.                                       *)
ASSUME SkullFSAssumption ==
  /\ IsFiniteSet(Addresses)
  /\ Root \in Addresses /\ NULL \notin Addresses \cup STRING \cup {".", ".."} \cup Seq(Nat)
  /\ DefaultDirs \in Seq(STRING \ {".", ".."}) /\ IsInjective(DefaultDirs)
  /\ Paths \subseteq Seq(STRING)
  /\ \A path \in Paths : path # <<>> /\ path # <<"">>
  /\ Texts \subseteq Seq(Nat) \ {<<>>}

VARIABLES
  node,     (* address of a live fs_node_t -> what it and its ptr hold     *)
  blocks    (* kmalloc'ed blocks the file system has not freed             *)

vars == <<node, blocks>>

NewDir(parent) ==
  [kind |-> "dir", entries |-> <<>>, num_entries |-> 0, parent |-> parent]

(* No file_data_t yet: it comes with the first write. *)
NewFile == [kind |-> "file", data |-> NULL, capacity |-> 0, length |-> 0]

IsDir(n) == node[n].kind = "dir"
HasData(n) == node[n].data # NULL

Free == Addresses \ DOMAIN node
-----------------------------------------------------------------------------
(* skullfs_finddir *)
Lookup(d, name) ==
  IF name = "." THEN d
  ELSE IF name = ".." THEN IF node[d].parent = NULL THEN d ELSE node[d].parent
  ELSE IF \E i \in DOMAIN node[d].entries : node[d].entries[i].name = name
       THEN node[d].entries[SelectInSeq(node[d].entries,
                                        LAMBDA e : e.name = name)].node
       ELSE NULL

(* A path is split at its slashes, so that an empty name stands for a      *)
(* leading, a doubled or a trailing one.  resolve_path: empty names are  *)
(* skipped, and a file cannot be entered.                                   *)
Walk(n, c) ==
  IF n = NULL \/ c = "" THEN n ELSE IF ~IsDir(n) THEN NULL ELSE Lookup(n, c)
Resolve(path) == FoldLeft(Walk, Root, path)

(* get_parent_dir and get_filename: up to the last slash, and past it. *)
ParentDir(path) == Resolve(Front(path))
Filename(path) == Last(path)
-----------------------------------------------------------------------------
(* The entry skullfs_add_entry puts in front of the list of d. *)
AddEntry_NoCount(f, d, name, n) ==
  [f EXCEPT ![d].entries = <<[name |-> name, node |-> n]>> \o @]
AddEntry(f, d, name, n) ==
  [f EXCEPT ![d].entries = <<[name |-> name, node |-> n]>> \o @,
            ![d].num_entries = @ + 1]

With(n, x) == [m \in DOMAIN node \cup {n} |-> IF m = n THEN x ELSE node[m]]

(* "Already exists": neither . nor .. nor a name in use can be created. *)
CanCreate(d, name) == IsDir(d) /\ Lookup(d, name) = NULL

(* kfree calls of a create that got `got` blocks and was refused the next. *)
UndoDir_NoStruct(got) == IF got = 2 THEN 1 ELSE got
UndoDir(got) == got
UndoFile(got) == got

(* skullfs_create_file, of a file that then holds x: a node and an entry. *)
CreateFile(d, name, n, x) ==
  /\ CanCreate(d, name)
  /\ n \in Free
  /\ node' = AddEntry(With(n, x), d, name, n)
CreateFileFails(d, name) ==
  /\ CanCreate(d, name)
  /\ \E got \in 0 .. 1 : blocks' = blocks + got - UndoFile(got)
  /\ UNCHANGED node

(* skullfs_create_dir: a node, its skullfs_dir_t and an entry. *)
CreateDir(d, name, n) ==
  /\ CanCreate(d, name)
  /\ n \in Free
  /\ node' = AddEntry(With(n, NewDir(d)), d, name, n)
  /\ blocks' = blocks + 3
CreateDirFails(d, name) ==
  /\ CanCreate(d, name)
  /\ \E got \in 0 .. 2 : blocks' = blocks + got - UndoDir(got)
  /\ UNCHANGED node
-----------------------------------------------------------------------------
(* resize_file_data: "Double capacity until it's enough". *)
Grown_Once(capacity, size) == IF size <= capacity THEN capacity ELSE 2 * capacity
Grown(capacity, size) ==
  LET doubled[i \in 0 .. size] == IF i = 0 THEN capacity ELSE 2 * doubled[i - 1]
  IN  doubled[CHOOSE i \in 0 .. size :
                doubled[i] >= size /\ \A j \in 0 .. (i - 1) : doubled[j] < size]

(* memcpy of text to the start of the old data. *)
Overwrite_Truncate(old, text) == text
Overwrite(old, text) == text \o SubSeq(old, Len(text) + 1, Len(old))

(* What skullfs_write makes of file x, whose data is allocated or not. *)
Written(x, text) ==
  LET old == IF x.data = NULL THEN <<>> ELSE x.data
      new == Overwrite(old, text)
  IN  [kind |-> "file", data |-> new, length |-> Len(new),
       capacity |-> IF x.data = NULL THEN Len(text) ELSE Grown(x.capacity, Len(text))]

(* The file_data_t and its buffer; a larger buffer takes the place of it. *)
DataBlocks(x) == IF x.data = NULL THEN 0 ELSE 2

(* kmalloc refuses the file_data_t, or its buffer, or the larger buffer. *)
UndoWrite(got) == got
WriteFails(x, text) ==
  /\ x.data = NULL \/ Len(text) > x.capacity
  /\ \E got \in IF x.data = NULL THEN 0 .. 1 ELSE {0} :
       blocks' = blocks + got - UndoWrite(got)
-----------------------------------------------------------------------------
(* skullfs_delete.  The entries of . and .. it speaks of are never stored. *)
NotEmpty(d) == node[d].num_entries > 2

(* The blocks of one node: itself, then its ptr and what hangs from it. *)
BlocksOf(x) ==
  1 + (IF x.kind = "dir" THEN 1 + Len(x.entries) ELSE DataBlocks(x))

RemoveEntry(f, d, name) ==
  LET i == SelectInSeq(f[d].entries, LAMBDA e : e.name = name)
  IN  IF i = 0 THEN f
      ELSE [f EXCEPT ![d].entries = RemoveAt(@, i), ![d].num_entries = @ - 1]

Delete_KeepEntry(d, name, n) ==
  /\ node' = [m \in DOMAIN node \ {n} |-> node[m]]
  /\ blocks' = blocks - BlocksOf(node[n])
Delete(d, name, n) ==
  /\ node' = [m \in DOMAIN node \ {n} |-> RemoveEntry(node, d, name)[m]]
  /\ blocks' = blocks - BlocksOf(node[n])
                 - (IF RemoveEntry(node, d, name) = node THEN 0 ELSE 1)
-----------------------------------------------------------------------------
(* The commands.  A path whose parent is missing or is no directory, a name *)
(* that is taken or not there, and a directory given to write, are refused  *)
(* with a message and change nothing.                                       *)
Mkdir(path) ==
  \E d \in DOMAIN node :
    /\ d = ParentDir(path)
    /\ \/ \E n \in Free : CreateDir(d, Filename(path), n)
       \/ CreateDirFails(d, Filename(path))

Touch(path) ==
  \E d \in DOMAIN node :
    /\ d = ParentDir(path)
    /\ \/ /\ \E n \in Free : CreateFile(d, Filename(path), n, NewFile)
          /\ blocks' = blocks + 2
       \/ CreateFileFails(d, Filename(path))

Rm(path) ==
  \E d, n \in DOMAIN node :
    /\ d = ParentDir(path) /\ IsDir(d)
    /\ n = Lookup(d, Filename(path))
    /\ ~(IsDir(n) /\ NotEmpty(n))
    /\ Delete(d, Filename(path), n)

(* The file is there: "Not a file" is refused. *)
WriteOld(path, text) ==
  \E f \in DOMAIN node :
    /\ f = Resolve(path) /\ ~IsDir(f)
    /\ \/ /\ node' = [node EXCEPT ![f] = Written(@, text)]
          /\ blocks' = blocks + DataBlocks(Written(node[f], text)) - DataBlocks(node[f])
       \/ WriteFails(node[f], text) /\ UNCHANGED node

(* "File doesn't exist, try to create it": an empty file remains when there *)
(* is no memory for its data.                                               *)
WriteNew(path, text) ==
  /\ Resolve(path) = NULL
  /\ \E d \in DOMAIN node :
       /\ d = ParentDir(path)
       /\ \/ \E n \in Free, x \in {NewFile, Written(NewFile, text)} :
               /\ CreateFile(d, Filename(path), n, x)
               /\ blocks' = blocks + 2 + DataBlocks(x)
          \/ CreateFileFails(d, Filename(path))
-----------------------------------------------------------------------------
(* skullfs_init: the root and the default directories, each in front of the *)
(* ones before.  The heap is empty then, and has room for all of them.      *)
Init ==
  \E at \in Injection(ToSet(DefaultDirs), Addresses \ {Root}) :
    /\ node = [n \in {Root} \cup Range(at) |->
                 IF n # Root THEN NewDir(Root)
                 ELSE [NewDir(NULL) EXCEPT
                         !.entries = Reverse([i \in DOMAIN DefaultDirs |->
                                        [name |-> DefaultDirs[i], node |-> at[DefaultDirs[i]]]]),
                         !.num_entries = Len(DefaultDirs)]]
    /\ blocks = 2 + 3 * Len(DefaultDirs)

(* No live node points to a freed one. *)
Defined ==
  /\ Root \in DOMAIN node
  /\ \A d \in {m \in DOMAIN node : IsDir(m)} :
       /\ node[d].parent \in DOMAIN node \cup {NULL}
       /\ \A i \in DOMAIN node[d].entries : node[d].entries[i].node \in DOMAIN node

(* What a command does with a pointer to a freed node is undefined, and the *)
(* model stops there.                                                       *)
Next ==
  /\ Defined
  /\ \E path \in Paths :
       \/ Mkdir(path) \/ Touch(path) \/ Rm(path)
       \/ \E text \in Texts : WriteOld(path, text) \/ WriteNew(path, text)

Spec == Init /\ [][Next]_vars

(* rm of a file or an empty directory, by its name.  The code lets more     *)
(* pass: see OnlyEmptyDirsDeleted, and rm of . and .., which frees a node   *)
(* that its parent goes on pointing to.                                     *)
Careful(path) ==
  /\ Filename(path) \notin {".", ".."}
  /\ LET d == ParentDir(path)
         n == Lookup(d, Filename(path))
     IN  IsDir(n) => Len(node[n].entries) \notin 1 .. 2

CarefulNext ==
  \E path \in Paths :
    \/ Mkdir(path)
    \/ Touch(path)
    \/ Rm(path) /\ Careful(path)
    \/ \E text \in Texts : WriteOld(path, text) \/ WriteNew(path, text)
-----------------------------------------------------------------------------
Names == ToSet(DefaultDirs) \cup UNION {ToSet(path) : path \in Paths}
Entry == [name : Names \ {".", ".."}, node : Addresses]

TypeOK ==
  /\ Root \in DOMAIN node /\ DOMAIN node \subseteq Addresses
  /\ \A n \in DOMAIN node :
       IF IsDir(n)
       THEN /\ node[n].entries \in Seq(Entry)
            /\ node[n].num_entries \in Nat
            /\ node[n].parent \in Addresses \cup {NULL}
       ELSE node[n].length \in Nat /\ node[n].capacity \in Nat
  /\ blocks \in Nat

EntriesOf(d) == ToSet(node[d].entries)
Dirs == {n \in DOMAIN node : IsDir(n)}

(* The paths from the root of k names, each with where it ends. *)
Below[k \in 0 .. Cardinality(Addresses)] ==
  IF k = 0 THEN {<<<<>>, Root>>}
  ELSE UNION {{<<Append(x[1], e.name), e.node>> : e \in EntriesOf(x[2])}
                : x \in {y \in Below[k - 1] : IsDir(y[2])}}
Located == UNION {Below[k] : k \in 0 .. (Cardinality(Addresses) - 1)}

(* The nodes make up a tree: nothing points to a freed node, names are      *)
(* unique in a directory, .. leads back up, and every live node is an entry *)
(* of exactly one directory, so that none is lost and none freed twice.     *)
Tree ==
  /\ Defined
  /\ \A d \in Dirs :
       /\ node[d].num_entries = Len(node[d].entries)
       /\ \A i, j \in DOMAIN node[d].entries :
            i # j => node[d].entries[i].name # node[d].entries[j].name
       /\ \A e \in EntriesOf(d) : IsDir(e.node) => node[e.node].parent = d
  /\ \A n \in DOMAIN node \ {Root} :
       Cardinality({d \in Dirs : \E e \in EntriesOf(d) : e.node = n}) = 1
  /\ {x[2] : x \in Located} = DOMAIN node

(* Every block the file system took and did not give back can be reached    *)
(* from the root, and every block there is still its own: no failing        *)
(* allocation, no rm and no growing file leaks or frees too much.           *)
NoLeak ==
  Defined => blocks = SumFunction([n \in {x[2] : x \in Located} |-> BlocksOf(node[n])])

(* What a file claims to hold is there: its length is that of its data, and *)
(* the data fits in the buffer, whatever texts were written in what order.  *)
FileFits ==
  \A n \in DOMAIN node \ Dirs :
    IF HasData(n)
    THEN node[n].length = Len(node[n].data) /\ node[n].length <= node[n].capacity
    ELSE node[n].length = 0

(* The path of every node, with what a file holds. *)
NamedTree ==
  LET at == Located
      Content(n) == IF IsDir(n) THEN NULL ELSE IF HasData(n) THEN node[n].data ELSE <<>>
  IN  [p \in {x[1] : x \in at} |-> Content((CHOOSE x \in at : x[1] = p)[2])]

Promised == INSTANCE FileTree WITH
  Dir <- NULL, Defaults <- ToSet(DefaultDirs), tree <- NamedTree

(* The commands keep the promise of FileTree, memory or no memory: each     *)
(* changes what is at one path, to what it says, or changes nothing.  This  *)
(* is Promised!TreeSpec: the tree depends on the nodes alone, and naming    *)
(* them spares TLC to build it for the steps that leave them as they are.   *)
KeepsTree ==
  Promised!TreeInit /\ [][UNCHANGED node \/ Promised!TreeNext]_node

(* "If it's a directory, make sure it's empty (except . and ..)"            *)
(* (skullfs.c:336): a directory that rm frees, other than the root, has no   *)
(* entries.                                                                 *)
OnlyEmptyDirsDeleted ==
  [][\A d \in Dirs \ {Root} : d \notin DOMAIN node' => node[d].entries = <<>>]_vars
=============================================================================
