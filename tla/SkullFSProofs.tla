---------------------------- MODULE SkullFSProofs ----------------------------
(***************************************************************************)
(* What the commands of the shell do to the nodes keeps them a tree, with  *)
(* every block accounted for.  The inductive invariant speaks of the nodes *)
(* as one function f, so that one lemma serves for what the code does in   *)
(* several places: an entry put in front of a directory (GrowsWell), an    *)
(* entry taken out together with its node (ShrinksWell), a file given new  *)
(* contents (WritesWell).  That the nodes hang together is said without    *)
(* paths: a set of nodes that has the root, and with a directory all its   *)
(* entries, is the set of all nodes (Reached).  The number of blocks is    *)
(* the sum over the nodes (Held), which each of the three changes by what  *)
(* the code allocates or frees.                                            *)
(***************************************************************************)
EXTENDS WorkingDir, FiniteSums, SequenceTheorems

(* The doublings of the capacity of a buffer. *)
IsDoubled(v, capacity, size) ==
  v = [i \in 0 .. size |-> IF i = 0 THEN capacity ELSE 2 * v[i - 1]]

(* The recursion of the doublings has a solution. *)
LEMMA DoubledExists ==
  ASSUME NEW capacity \in Nat, NEW size \in Nat
  PROVE  \E v : IsDoubled(v, capacity, size)
<1> DEFINE Solved(n) == \E v : v = [i \in 0 .. n |-> IF i = 0 THEN capacity ELSE 2 * v[i - 1]]
           T == {n \in Nat : Solved(n)}
<1>1. 0 \in T
  <2> DEFINE v == [i \in 0 .. 0 |-> capacity]
  <2>1. v = [i \in 0 .. 0 |-> IF i = 0 THEN capacity ELSE 2 * v[i - 1]]
    OBVIOUS
  <2> QED
    BY <2>1
<1>2. ASSUME NEW n \in Nat, n \in T PROVE n + 1 \in T
  <2>1. PICK v : v = [i \in 0 .. n |-> IF i = 0 THEN capacity ELSE 2 * v[i - 1]]
    BY <1>2
  <2> DEFINE w == [i \in 0 .. (n + 1) |-> IF i = n + 1 THEN 2 * v[n] ELSE v[i]]
  <2>2. ASSUME NEW i \in 0 .. (n + 1)
        PROVE  w[i] = IF i = 0 THEN capacity ELSE 2 * w[i - 1]
    <3>1. CASE i = n + 1
      BY <3>1
    <3>2. CASE i = 0
      BY <2>1, <3>2
    <3>3. CASE i # 0 /\ i # n + 1
      <4>1. i \in 0 .. n /\ i - 1 \in 0 .. (n + 1) /\ i - 1 # n + 1
        BY <3>3
      <4>2. w[i] = v[i] /\ w[i - 1] = v[i - 1]
        BY <3>3, <4>1
      <4>3. v[i] = 2 * v[i - 1]
        BY <2>1, <3>3, <4>1
      <4> QED
        BY <3>3, <4>2, <4>3
    <3> QED
      BY <3>1, <3>2, <3>3
  <2>3. w = [i \in 0 .. (n + 1) |-> IF i = 0 THEN capacity ELSE 2 * w[i - 1]]
    BY <2>2
  <2> HIDE DEF w
  <2> QED
    BY <2>3
<1>3. size \in T
  <2> HIDE DEF T
  <2> QED
    BY <1>1, <1>2, Inductive
<1> QED
  BY <1>3 DEF IsDoubled

(* resize_file_data makes room: the doubling ends, and when it is enough.   *)
LEMMA GrownFits ==
  ASSUME NEW capacity \in Nat \ {0}, NEW size \in Nat
  PROVE  /\ Grown(capacity, size) \in Nat
         /\ Grown(capacity, size) >= size /\ Grown(capacity, size) >= capacity
<1> DEFINE IsIt(v) == IsDoubled(v, capacity, size)
           v == CHOOSE v : IsIt(v)
           Enough(i) == v[i] >= size /\ \A j \in 0 .. (i - 1) : v[j] < size
           k == CHOOSE i \in 0 .. size : Enough(i)
<1>1. Grown(capacity, size) = v[k]
  BY DEF Grown, IsDoubled
<1>2. IsIt(v)
  <2>1. \E w : IsIt(w)
    BY DoubledExists
  <2> QED
    BY <2>1
<1>3. \A i \in 0 .. size : v[i] = IF i = 0 THEN capacity ELSE 2 * v[i - 1]
  BY <1>2 DEF IsDoubled
<1> HIDE DEF v
<1>4. \A i \in 0 .. size : v[i] \in Nat /\ v[i] >= i + 1 /\ v[i] >= capacity
  <2> DEFINE T == {n \in Nat : n <= size => v[n] \in Nat /\ v[n] >= n + 1 /\ v[n] >= capacity}
  <2>1. 0 \in T
    BY <1>3
  <2>2. ASSUME NEW n \in Nat, n \in T PROVE n + 1 \in T
    <3> SUFFICES ASSUME n + 1 <= size PROVE v[n + 1] \in Nat /\ v[n + 1] >= n + 2 /\ v[n + 1] >= capacity
      OBVIOUS
    <3>1. v[n] \in Nat /\ v[n] >= n + 1 /\ v[n] >= capacity
      BY <2>2
    <3>2. v[n + 1] = 2 * v[n]
      BY <1>3
    <3> QED
      BY <3>1, <3>2
  <2>3. Nat \subseteq T
    <3> HIDE DEF T
    <3> QED
      BY <2>1, <2>2, Inductive
  <2> QED
    BY <2>3
<1>5. \E i \in 0 .. size : Enough(i)
  <2> DEFINE T == {n \in Nat : \/ \A j \in 0 .. n : j <= size => v[j] < size
                               \/ \E i \in 0 .. size : Enough(i)}
  <2>1. 0 \in T
    BY <1>4
  <2>2. ASSUME NEW n \in Nat, n \in T PROVE n + 1 \in T
    <3>1. CASE \E i \in 0 .. size : Enough(i)
      BY <3>1
    <3>2. CASE \A j \in 0 .. n : j <= size => v[j] < size
      <4>1. CASE n + 1 <= size /\ v[n + 1] >= size
        <5>1. Enough(n + 1)
          BY <3>2, <4>1
        <5> QED
          BY <4>1, <5>1
      <4>2. CASE ~(n + 1 <= size /\ v[n + 1] >= size)
        <5>1. \A j \in 0 .. (n + 1) : j <= size => v[j] < size
          BY <1>4, <3>2, <4>2
        <5> QED
          BY <5>1
      <4> QED
        BY <4>1, <4>2
    <3> QED
      BY <2>2, <3>1, <3>2
  <2>3. size \in T
    <3> HIDE DEF T
    <3> QED
      BY <2>1, <2>2, Inductive
  <2>4. v[size] >= size
    BY <1>4
  <2> QED
    BY <1>4, <2>3, <2>4
<1>6. k \in 0 .. size /\ Enough(k)
  <2> HIDE DEF Enough
  <2> QED
    BY <1>5
<1> QED
  BY <1>1, <1>4, <1>6
-----------------------------------------------------------------------------
DirNode == [kind : {"dir"}, entries : Seq(Entry), num_entries : Nat,
            parent : Addresses \cup {NULL}]
FileNode == [kind : {"file"}, data : Seq(Nat) \cup {NULL}, capacity : Nat, length : Nat]

(* A file's length is that of its data, and its buffer has room for it. *)
Fit(x) ==
  IF x.data = NULL THEN x.length = 0
  ELSE x.length = Len(x.data) /\ x.length <= x.capacity /\ x.capacity > 0

Typed(f) ==
  /\ DOMAIN f \subseteq Addresses
  /\ \A n \in DOMAIN f : f[n] \in DirNode \/ (f[n] \in FileNode /\ Fit(f[n]))

(* NULL is none of the data a file may hold, and no address. *)
LEMMA NullIsNoText == NULL \notin Seq(Nat) /\ NULL \notin Addresses
  BY SkullFSAssumption

(* Whatever is written to a file, it keeps within its buffer. *)
LEMMA WrittenFits ==
  ASSUME NEW x \in FileNode, Fit(x), NEW text \in Texts
  PROVE  /\ Written(x, text) \in FileNode
         /\ Fit(Written(x, text))
         /\ Written(x, text).data # NULL
<1> DEFINE old == IF x.data = NULL THEN <<>> ELSE x.data
           new == Overwrite(old, text)
           room == IF x.data = NULL THEN Len(text) ELSE Grown(x.capacity, Len(text))
<1>1. Written(x, text) = [kind |-> "file", data |-> new, length |-> Len(new), capacity |-> room]
  BY DEF Written
<1>2. text \in Seq(Nat) /\ text # <<>>
  BY SkullFSAssumption
<1>3. Len(text) \in Nat \ {0}
  BY <1>2, EmptySeq
<1>4. old \in Seq(Nat) /\ Len(old) \in Nat
  <2>1. old \in Seq(Nat)
    BY EmptySeq DEF FileNode
  <2> HIDE DEF old
  <2> QED
    BY <2>1, LenProperties
<1> DEFINE rest == SubSeq(old, Len(text) + 1, Len(old))
<1>5. /\ rest \in Seq(Nat)
      /\ Len(rest) = IF Len(text) + 1 <= Len(old) THEN Len(old) - Len(text) ELSE 0
  <2> HIDE DEF old
  <2>1. \A i \in (Len(text) + 1) .. Len(old) : old[i] \in Nat
    BY <1>3, <1>4, ElementOfSeq
  <2>2. /\ SubSeq(old, Len(text) + 1, Len(old)) \in Seq(Nat)
        /\ Len(SubSeq(old, Len(text) + 1, Len(old))) =
             IF Len(text) + 1 <= Len(old) THEN Len(old) - (Len(text) + 1) + 1 ELSE 0
    BY <2>1, <1>3, <1>4, SubSeqProperties
  <2> QED
    BY <2>2, <1>3, <1>4
<1>6. new \in Seq(Nat) /\ Len(new) = Len(text) + Len(rest)
  <2> HIDE DEF old, rest
  <2>1. text \o rest \in Seq(Nat) /\ Len(text \o rest) = Len(text) + Len(rest)
    BY <1>2, <1>5, ConcatProperties
  <2> QED
    BY <2>1 DEF Overwrite, rest
<1>7. Len(new) \in Nat \ {0} /\ new # NULL
  BY <1>3, <1>4, <1>5, <1>6, NullIsNoText
<1>8. room \in Nat /\ Len(new) <= room
  <2>1. CASE x.data = NULL
    <3>1. Len(old) = 0
      BY <2>1, EmptySeq
    <3> QED
      BY <2>1, <3>1, <1>3, <1>5, <1>6
  <2>2. CASE x.data # NULL
    <3>1. Len(old) <= x.capacity /\ x.capacity \in Nat \ {0}
      BY <2>2 DEF Fit, FileNode
    <3>2. /\ Grown(x.capacity, Len(text)) \in Nat
          /\ Grown(x.capacity, Len(text)) >= Len(text) /\ Grown(x.capacity, Len(text)) >= x.capacity
      BY <3>1, <1>3, GrownFits
    <3> QED
      BY <2>2, <3>1, <3>2, <1>3, <1>4, <1>5, <1>6
  <2> QED
    BY <2>1, <2>2
<1> HIDE DEF new, room
<1>9. room > 0
  BY <1>7, <1>8
<1> QED
  BY <1>1, <1>6, <1>7, <1>8, <1>9 DEF FileNode, Fit
-----------------------------------------------------------------------------
(* Every set of numbers has a least one. *)
LEMMA Least ==
  ASSUME NEW I \in SUBSET Nat, I # {}
  PROVE  \E m \in I : \A x \in I : m <= x
<1> SUFFICES ASSUME \A m \in I : \E x \in I : x < m PROVE FALSE
  OBVIOUS
<1> DEFINE T == {n \in Nat : \A m \in I : n < m}
<1>1. 0 \in T
  <2>1. ASSUME 0 \in I PROVE FALSE
    BY <2>1
  <2> QED
    BY <2>1
<1>2. ASSUME NEW n \in Nat, n \in T PROVE n + 1 \in T
  <2>1. ASSUME n + 1 \in I PROVE FALSE
    <3>1. PICK x \in I : x < n + 1
      BY <2>1
    <3> QED
      BY <1>2, <3>1
  <2>2. \A m \in I : n < m /\ m # n + 1
    BY <1>2, <2>1
  <2> QED
    BY <2>2
<1>3. Nat \subseteq T
  <2> HIDE DEF T
  <2> QED
    BY <1>1, <1>2, Inductive
<1>4. PICK m \in I : TRUE
  OBVIOUS
<1>5. m \in T
  BY <1>3
<1> QED
  BY <1>5

(* The loops over the entries of a directory find the first of a name. *)
Find(s, name) == SelectInSeq(s, LAMBDA e : e.name = name)

(* What the search of the entries gives: the place of the name, or 0. *)
LEMMA Found ==
  ASSUME NEW s \in Seq(Entry), NEW name
  PROVE  IF \E i \in DOMAIN s : s[i].name = name
         THEN Find(s, name) \in DOMAIN s /\ s[Find(s, name)].name = name
         ELSE Find(s, name) = 0
<1> DEFINE I == {i \in 1 .. Len(s) : s[i].name = name}
<1>1. Find(s, name) = IF I # {} THEN CHOOSE m \in I : \A x \in I : m <= x ELSE 0
  BY DEF Find, SelectInSeq, Min
<1>2. DOMAIN s = 1 .. Len(s) /\ Len(s) \in Nat
  BY LenProperties
<1>3. I # {} => \E m \in I : \A x \in I : m <= x
  <2>1. I \in SUBSET Nat
    BY <1>2
  <2> HIDE DEF I
  <2> QED
    BY <2>1, Least
<1>4. I # {} => (CHOOSE m \in I : \A x \in I : m <= x) \in I
  <2> HIDE DEF I
  <2> QED
    BY <1>3
<1> QED
  BY <1>1, <1>2, <1>4

(* skullfs_finddir finds what is there, . and .. apart. *)
LEMMA LookupFinds ==
  ASSUME Typed(node), NEW d \in DOMAIN node, IsDir(d), NEW name
  PROVE  /\ Lookup(d, name) = NULL =>
              name \notin {".", ".."} /\ \A i \in DOMAIN node[d].entries : node[d].entries[i].name # name
         /\ name \notin {".", ".."} /\ Lookup(d, name) # NULL =>
              LET i == Find(node[d].entries, name)
              IN  /\ i \in DOMAIN node[d].entries
                  /\ node[d].entries[i] = [name |-> name, node |-> Lookup(d, name)]
<1>1. node[d] \in DirNode /\ d \in Addresses
  BY DEF Typed, IsDir, FileNode
<1>2. node[d].entries \in Seq(Entry) /\ node[d].parent \in Addresses \cup {NULL}
  BY <1>1 DEF DirNode
<1> DEFINE s == node[d].entries
           there == \E i \in DOMAIN s : s[i].name = name
<1>3. IF there THEN Find(s, name) \in DOMAIN s /\ s[Find(s, name)].name = name
      ELSE Find(s, name) = 0
  BY <1>2, Found
<1>4. ASSUME NEW i \in DOMAIN s PROVE s[i] \in Entry
  BY <1>2, LenProperties, ElementOfSeq
<1>5. Lookup(d, name) = IF name = "." THEN d
                        ELSE IF name = ".." THEN IF node[d].parent = NULL THEN d ELSE node[d].parent
                        ELSE IF there THEN s[Find(s, name)].node ELSE NULL
  BY DEF Lookup, Find
<1>6. \A i \in DOMAIN s : s[i] = [name |-> s[i].name, node |-> s[i].node] /\ s[i].node \in Addresses
  BY <1>4 DEF Entry
<1> HIDE DEF s, there
<1>7. there => Find(s, name) \in DOMAIN s /\ s[Find(s, name)].name = name /\ s[Find(s, name)].node \in Addresses
  BY <1>3, <1>6
<1>8. ~there => \A i \in DOMAIN s : s[i].name # name
  BY DEF there
<1>9. NULL \notin Addresses
  BY NullIsNoText
<1>10. Lookup(d, name) = NULL => name \notin {".", ".."} /\ \A i \in DOMAIN s : s[i].name # name
  BY <1>1, <1>5, <1>7, <1>8, <1>9
<1>11. ASSUME name \notin {".", ".."}, Lookup(d, name) # NULL
       PROVE  Find(s, name) \in DOMAIN s /\ s[Find(s, name)] = [name |-> name, node |-> Lookup(d, name)]
  <2>1. there /\ Lookup(d, name) = s[Find(s, name)].node
    BY <1>5, <1>11
  <2> QED
    BY <1>6, <1>7, <2>1
<1> QED
  BY <1>10, <1>11 DEF s
-----------------------------------------------------------------------------
(* skullfs_add_entry: what was in d is in it still, after the new entry.    *)
Grows(f, g, d, name, n, x) ==
  /\ DOMAIN g = DOMAIN f \cup {n}
  /\ g[n] = x
  /\ \A m \in DOMAIN f \ {d} : g[m] = f[m]
  /\ g[d] \in DirNode
  /\ g[d].parent = f[d].parent
  /\ g[d].num_entries = f[d].num_entries + 1
  /\ DOMAIN g[d].entries = 1 .. (Len(f[d].entries) + 1)
  /\ Len(g[d].entries) = Len(f[d].entries) + 1
  /\ g[d].entries[1] = [name |-> name, node |-> n]
  /\ \A i \in 1 .. Len(f[d].entries) : g[d].entries[i + 1] = f[d].entries[i]

InFront(q, r, e) == q = [r EXCEPT !.entries = <<e>> \o @, !.num_entries = @ + 1]

(* A directory with an entry more, which comes first. *)
LEMMA EntryInFront ==
  ASSUME NEW r \in DirNode, NEW e \in Entry, NEW q, InFront(q, r, e)
  PROVE  /\ q \in DirNode
         /\ q.parent = r.parent /\ q.num_entries = r.num_entries + 1
         /\ Len(r.entries) \in Nat /\ Len(q.entries) = Len(r.entries) + 1
         /\ DOMAIN q.entries = 1 .. (Len(r.entries) + 1)
         /\ q.entries[1] = e
         /\ \A i \in 1 .. Len(r.entries) : q.entries[i + 1] = r.entries[i]
<1>1. r.entries \in Seq(Entry) /\ r.num_entries \in Nat /\ <<e>> \in Seq(Entry) /\ Len(<<e>>) = 1 /\ <<e>>[1] = e
  BY DEF DirNode
<1> DEFINE s == <<e>> \o r.entries
<1>2. /\ s \in Seq(Entry)
      /\ Len(s) = 1 + Len(r.entries)
      /\ \A i \in 1 .. (1 + Len(r.entries)) : s[i] = IF i <= 1 THEN <<e>>[i] ELSE r.entries[i - 1]
  BY <1>1, ConcatProperties
<1>3. Len(r.entries) \in Nat /\ DOMAIN s = 1 .. Len(s)
  BY <1>1, <1>2, LenProperties
<1>4. s[1] = e /\ \A i \in 1 .. Len(r.entries) : s[i + 1] = r.entries[i]
  <2> HIDE DEF s
  <2> QED
    BY <1>1, <1>2, <1>3
<1>5. q = [r EXCEPT !.entries = s, !.num_entries = r.num_entries + 1]
  BY DEF InFront
<1> HIDE DEF s
<1>6. q \in DirNode /\ q.entries = s /\ q.num_entries = r.num_entries + 1 /\ q.parent = r.parent
  <2>1. PICK t \in Nat : t = r.num_entries + 1
    BY <1>1
  <2>2. PICK u \in Seq(Entry) : u = s
    BY <1>2
  <2>3. q = [r EXCEPT !.entries = u, !.num_entries = t]
    BY <1>5, <2>1, <2>2
  <2>4. q \in DirNode /\ q.entries = u /\ q.num_entries = t /\ q.parent = r.parent
    BY <2>3 DEF DirNode
  <2> QED
    BY <2>1, <2>2, <2>4
<1> QED
  BY <1>2, <1>3, <1>4, <1>6

(* skullfs_add_entry, of a new node, is such a growth. *)
LEMMA AddGrows ==
  ASSUME Typed(node), NEW d \in DOMAIN node, IsDir(d),
         NEW name \in Names \ {".", ".."}, NEW n \in Free, NEW x
  PROVE  Grows(node, AddEntry(With(n, x), d, name, n), d, name, n, x)
<1> DEFINE e == [name |-> name, node |-> n]
           g == AddEntry(With(n, x), d, name, n)
           h == With(n, x)
<1>1. node[d] \in DirNode /\ d # n /\ n \notin DOMAIN node /\ e \in Entry
  BY DEF Typed, IsDir, FileNode, Free, Entry
<1>2. DOMAIN h = DOMAIN node \cup {n} /\ h[n] = x /\ \A m \in DOMAIN node : h[m] = node[m]
  BY <1>1 DEF With
<1> HIDE DEF h
<1>3. /\ DOMAIN g = DOMAIN node \cup {n}
      /\ g[n] = x
      /\ \A m \in DOMAIN node \ {d} : g[m] = node[m]
  BY <1>1, <1>2 DEF AddEntry, h
<1>4. InFront(g[d], node[d], e)
  <2>1. g[d] = [h[d] EXCEPT !.entries = <<e>> \o @, !.num_entries = @ + 1]
    BY <1>1, <1>2 DEF AddEntry, h
  <2>2. h[d] = node[d]
    BY <1>2
  <2> HIDE DEF g, e
  <2> QED
    BY <2>1, <2>2 DEF InFront
<1> HIDE DEF g, e
<1>5. /\ g[d] \in DirNode
      /\ g[d].parent = node[d].parent /\ g[d].num_entries = node[d].num_entries + 1
      /\ Len(g[d].entries) = Len(node[d].entries) + 1
      /\ DOMAIN g[d].entries = 1 .. (Len(node[d].entries) + 1)
      /\ g[d].entries[1] = e
      /\ \A i \in 1 .. Len(node[d].entries) : g[d].entries[i + 1] = node[d].entries[i]
  BY <1>1, <1>4, EntryInFront
<1> QED
  BY <1>3, <1>5 DEF Grows, g, h, e

(* skullfs_remove_entry: the others keep their order. *)
Shrinks(f, g, d, k, n) ==
  /\ DOMAIN g = DOMAIN f \ {n}
  /\ \A m \in DOMAIN f \ {d, n} : g[m] = f[m]
  /\ g[d] \in DirNode
  /\ g[d].parent = f[d].parent
  /\ g[d].num_entries = f[d].num_entries - 1
  /\ Len(g[d].entries) = Len(f[d].entries) - 1
  /\ DOMAIN g[d].entries = 1 .. (Len(f[d].entries) - 1)
  /\ \A i \in 1 .. (Len(f[d].entries) - 1) :
       g[d].entries[i] = f[d].entries[IF i < k THEN i ELSE i + 1]

(* A sequence without its k-th element. *)
LEMMA RemovedAt ==
  ASSUME NEW S, NEW s \in Seq(S), NEW k \in 1 .. Len(s)
  PROVE  /\ RemoveAt(s, k) \in Seq(S)
         /\ Len(RemoveAt(s, k)) = Len(s) - 1
         /\ \A i \in 1 .. (Len(s) - 1) : RemoveAt(s, k)[i] = s[IF i < k THEN i ELSE i + 1]
<1>1. Len(s) \in Nat
  BY LenProperties
<1> DEFINE a == SubSeq(s, 1, k - 1)
           b == SubSeq(s, k + 1, Len(s))
<1>2. /\ a \in Seq(S)
      /\ Len(a) = k - 1
      /\ \A i \in 1 .. (k - 1) : a[i] = s[i]
  <2>1. \A i \in 1 .. (k - 1) : s[i] \in S
    BY <1>1, ElementOfSeq
  <2>2. /\ SubSeq(s, 1, k - 1) \in Seq(S)
        /\ Len(SubSeq(s, 1, k - 1)) = IF 1 <= k - 1 THEN k - 1 - 1 + 1 ELSE 0
        /\ \A i \in 1 .. (k - 1) - 1 + 1 : SubSeq(s, 1, k - 1)[i] = s[1 + i - 1]
    BY <1>1, <2>1, SubSeqProperties
  <2> QED
    BY <1>1, <2>2
<1>3. /\ b \in Seq(S)
      /\ Len(b) = Len(s) - k
      /\ \A i \in 1 .. (Len(s) - k) : b[i] = s[k + i]
  <2>1. \A i \in (k + 1) .. Len(s) : s[i] \in S
    BY <1>1, ElementOfSeq
  <2>2. /\ SubSeq(s, k + 1, Len(s)) \in Seq(S)
        /\ Len(SubSeq(s, k + 1, Len(s))) = IF k + 1 <= Len(s) THEN Len(s) - (k + 1) + 1 ELSE 0
        /\ \A i \in 1 .. Len(s) - (k + 1) + 1 : SubSeq(s, k + 1, Len(s))[i] = s[(k + 1) + i - 1]
    BY <1>1, <2>1, SubSeqProperties
  <2> QED
    BY <1>1, <2>2
<1>4. RemoveAt(s, k) = a \o b
  BY DEF RemoveAt
<1> HIDE DEF a, b
<1>5. /\ a \o b \in Seq(S) /\ Len(a \o b) = Len(a) + Len(b)
      /\ \A i \in 1 .. Len(a) + Len(b) : (a \o b)[i] = IF i <= Len(a) THEN a[i] ELSE b[i - Len(a)]
  BY <1>2, <1>3, ConcatProperties
<1>6. ASSUME NEW i \in 1 .. (Len(s) - 1) PROVE (a \o b)[i] = s[IF i < k THEN i ELSE i + 1]
  <2>1. i \in 1 .. Len(a) + Len(b)
    BY <1>1, <1>2, <1>3
  <2>2. CASE i < k
    BY <1>1, <1>2, <1>5, <2>1, <2>2
  <2>3. CASE ~(i < k)
    <3>1. i - Len(a) \in 1 .. (Len(s) - k) /\ k + (i - Len(a)) = i + 1 /\ ~(i <= Len(a))
      BY <1>1, <1>2, <2>3
    <3> QED
      BY <1>3, <1>5, <2>1, <2>3, <3>1
  <2> QED
    BY <2>2, <2>3
<1> QED
  BY <1>1, <1>2, <1>3, <1>4, <1>5, <1>6

Taken(q, r, k) == q = [r EXCEPT !.entries = RemoveAt(@, k), !.num_entries = @ - 1]

(* A directory with an entry less. *)
LEMMA EntryTaken ==
  ASSUME NEW r \in DirNode, r.num_entries = Len(r.entries), NEW k \in DOMAIN r.entries,
         NEW q, Taken(q, r, k)
  PROVE  /\ q \in DirNode
         /\ q.parent = r.parent /\ q.num_entries = r.num_entries - 1
         /\ Len(q.entries) = Len(r.entries) - 1
         /\ DOMAIN q.entries = 1 .. (Len(r.entries) - 1)
         /\ \A i \in 1 .. (Len(r.entries) - 1) :
              q.entries[i] = r.entries[IF i < k THEN i ELSE i + 1]
<1>1. r.entries \in Seq(Entry) /\ r.num_entries \in Nat
  BY DEF DirNode
<1>2. DOMAIN r.entries = 1 .. Len(r.entries) /\ Len(r.entries) \in Nat
  BY <1>1, LenProperties
<1> DEFINE s == RemoveAt(r.entries, k)
<1>3. /\ s \in Seq(Entry)
      /\ Len(s) = Len(r.entries) - 1
      /\ \A i \in 1 .. (Len(r.entries) - 1) : s[i] = r.entries[IF i < k THEN i ELSE i + 1]
  BY <1>1, <1>2, RemovedAt
<1>4. DOMAIN s = 1 .. Len(s)
  BY <1>3, LenProperties
<1>5. q = [r EXCEPT !.entries = s, !.num_entries = r.num_entries - 1]
  BY DEF Taken
<1> HIDE DEF s
<1>6. q \in DirNode /\ q.entries = s /\ q.num_entries = r.num_entries - 1 /\ q.parent = r.parent
  <2>0. PICK l \in Nat : l = Len(r.entries)
    BY <1>2
  <2>5. k \in 1 .. l /\ l - 1 \in Nat
    BY <1>2, <2>0
  <2>6. r.num_entries - 1 = l - 1
    BY <2>0
  <2>1. PICK t \in Nat : t = r.num_entries - 1
    BY <2>5, <2>6
  <2>2. PICK u \in Seq(Entry) : u = s
    BY <1>3
  <2>3. q = [r EXCEPT !.entries = u, !.num_entries = t]
    BY <1>5, <2>1, <2>2
  <2>4. q \in DirNode /\ q.entries = u /\ q.num_entries = t /\ q.parent = r.parent
    BY <2>3 DEF DirNode
  <2> QED
    BY <2>1, <2>2, <2>4
<1> QED
  BY <1>3, <1>4, <1>6

(* skullfs_delete of an entry takes it out, with its node, and frees the    *)
(* blocks of both.                                                          *)
LEMMA DeleteShrinks ==
  ASSUME Typed(node), NEW d \in DOMAIN node, IsDir(d), node[d].num_entries = Len(node[d].entries),
         NEW name, name \notin {".", ".."}, NEW n \in DOMAIN node \ {d}, n = Lookup(d, name),
         Delete(d, name, n)
  PROVE  /\ \E k \in DOMAIN node[d].entries :
              /\ node[d].entries[k] = [name |-> name, node |-> n]
              /\ Shrinks(node, node', d, k, n)
         /\ blocks' = blocks - BlocksOf(node[n]) - 1
<1>1. node[d] \in DirNode /\ n \in Addresses /\ n # NULL
  BY NullIsNoText DEF Typed, IsDir, FileNode
<1> DEFINE k == Find(node[d].entries, name)
           g == RemoveEntry(node, d, name)
<1>2. k \in DOMAIN node[d].entries /\ node[d].entries[k] = [name |-> name, node |-> n]
  BY <1>1, LookupFinds
<1>3. k # 0 /\ node[d].num_entries \in Nat
  <2>1. node[d].entries \in Seq(Entry) /\ node[d].num_entries \in Nat
    BY <1>1 DEF DirNode
  <2>2. DOMAIN node[d].entries = 1 .. Len(node[d].entries)
    BY <2>1, LenProperties
  <2> HIDE DEF k
  <2> QED
    BY <1>2, <2>1, <2>2
<1>4. g = [node EXCEPT ![d].entries = RemoveAt(@, k), ![d].num_entries = @ - 1]
  BY <1>3 DEF RemoveEntry, Find
<1> HIDE DEF k, g
<1>5. /\ DOMAIN g = DOMAIN node
      /\ \A m \in DOMAIN node \ {d} : g[m] = node[m]
  BY <1>4
<1>6. Taken(g[d], node[d], k)
  <2>1. g[d] = [node[d] EXCEPT !.entries = RemoveAt(@, k), !.num_entries = @ - 1]
    BY <1>4
  <2> QED
    BY <2>1 DEF Taken
<1>7. /\ g[d] \in DirNode
      /\ g[d].parent = node[d].parent /\ g[d].num_entries = node[d].num_entries - 1
      /\ Len(g[d].entries) = Len(node[d].entries) - 1
      /\ DOMAIN g[d].entries = 1 .. (Len(node[d].entries) - 1)
      /\ \A i \in 1 .. (Len(node[d].entries) - 1) :
           g[d].entries[i] = node[d].entries[IF i < k THEN i ELSE i + 1]
  BY <1>1, <1>2, <1>6, EntryTaken
<1>8. DOMAIN node' = DOMAIN node \ {n} /\ \A m \in DOMAIN node \ {n} : node'[m] = g[m]
  BY DEF Delete, g
<1>9. Shrinks(node, node', d, k, n)
  <2>1. node'[d] = g[d] /\ \A m \in DOMAIN node \ {d, n} : node'[m] = node[m]
    BY <1>5, <1>8
  <2> QED
    BY <1>7, <1>8, <2>1 DEF Shrinks
<1>10. g # node
  BY <1>3, <1>7
<1>11. blocks' = blocks - BlocksOf(node[n]) - 1
  <2>1. blocks' = blocks - BlocksOf(node[n]) - (IF g = node THEN 0 ELSE 1)
    BY DEF Delete, g
  <2> QED
    BY <1>10, <2>1
<1> QED
  BY <1>2, <1>9, <1>11
-----------------------------------------------------------------------------
DirsOf(f) == {d \in DOMAIN f : f[d].kind = "dir"}

Rooted(f) == Root \in DirsOf(f) /\ f[Root].parent = NULL

(* What a directory says of itself and of its entries is so. *)
Listed(f) ==
  \A d \in DirsOf(f) :
    /\ f[d].num_entries = Len(f[d].entries)
    /\ \A i, j \in DOMAIN f[d].entries :
         f[d].entries[i].name = f[d].entries[j].name => i = j
    /\ \A i \in DOMAIN f[d].entries :
         /\ f[d].entries[i].node \in DOMAIN f \ {Root}
         /\ f[f[d].entries[i].node].kind = "dir" => f[f[d].entries[i].node].parent = d

(* No node has two entries. *)
Once(f) ==
  \A c, d \in DirsOf(f) : \A i \in DOMAIN f[c].entries, j \in DOMAIN f[d].entries :
    f[c].entries[i].node = f[d].entries[j].node => c = d /\ i = j

(* What has the root, and with a directory all its entries, has everything. *)
Closed(f, S) ==
  /\ Root \in S
  /\ \A d \in DirsOf(f) \cap S : \A i \in DOMAIN f[d].entries : f[d].entries[i].node \in S
Reached(f) == \A S \in SUBSET DOMAIN f : Closed(f, S) => S = DOMAIN f

Well(f) == Typed(f) /\ Rooted(f) /\ Listed(f) /\ Once(f) /\ Reached(f)

(* The entries of a directory are entries. *)
LEMMA DirTyped ==
  ASSUME NEW f, Typed(f), NEW d \in DirsOf(f)
  PROVE  /\ d \in DOMAIN f /\ f[d] \in DirNode
         /\ Len(f[d].entries) \in Nat
         /\ DOMAIN f[d].entries = 1 .. Len(f[d].entries)
         /\ \A i \in DOMAIN f[d].entries : f[d].entries[i] \in Entry
<1>1. d \in DOMAIN f /\ f[d] \in DirNode
  BY DEF Typed, DirsOf, FileNode
<1>2. f[d].entries \in Seq(Entry)
  BY <1>1 DEF DirNode
<1> QED
  BY <1>1, <1>2, LenProperties, ElementOfSeq

(* Where an entry was before another was put in front of it. *)
LEMMA GrownEntries ==
  ASSUME NEW f, Typed(f), NEW d \in DirsOf(f), NEW n, n \notin DOMAIN f, NEW name, NEW x,
         x \in FileNode \/ x = NewDir(d),
         NEW g, Grows(f, g, d, name, n, x)
  PROVE  /\ DirsOf(g) = DirsOf(f) \cup (IF x.kind = "dir" THEN {n} ELSE {})
         /\ \A c \in DirsOf(g) : \A i \in DOMAIN g[c].entries :
              \/ c = d /\ i = 1 /\ g[c].entries[i] = [name |-> name, node |-> n]
              \/ c = d /\ i # 1 /\ i - 1 \in DOMAIN f[c].entries /\ g[c].entries[i] = f[c].entries[i - 1]
              \/ c # d /\ c # n /\ c \in DirsOf(f) /\ g[c] = f[c]
         /\ \A i \in DOMAIN f[d].entries :
              i + 1 \in DOMAIN g[d].entries /\ g[d].entries[i + 1] = f[d].entries[i]
<1>1. /\ DOMAIN g = DOMAIN f \cup {n} /\ g[n] = x /\ d \in DOMAIN f /\ d # n
      /\ \A m \in DOMAIN f \ {d} : g[m] = f[m]
      /\ g[d].kind = "dir" /\ f[d].kind = "dir"
  BY DEF Grows, DirsOf, DirNode
<1>2. DirsOf(g) = DirsOf(f) \cup (IF x.kind = "dir" THEN {n} ELSE {})
  BY <1>1 DEF DirsOf
<1>3. DOMAIN f[d].entries = 1 .. Len(f[d].entries) /\ Len(f[d].entries) \in Nat
  BY DirTyped
<1>4. /\ DOMAIN g[d].entries = 1 .. (Len(f[d].entries) + 1)
      /\ g[d].entries[1] = [name |-> name, node |-> n]
      /\ \A i \in 1 .. Len(f[d].entries) : g[d].entries[i + 1] = f[d].entries[i]
  BY DEF Grows
<1>5. x.kind = "dir" => x.entries = <<>>
  BY DEF FileNode, NewDir
<1>6. ASSUME NEW i \in DOMAIN g[d].entries, i # 1
      PROVE  i - 1 \in DOMAIN f[d].entries /\ g[d].entries[i] = f[d].entries[i - 1]
  <2>1. i - 1 \in 1 .. Len(f[d].entries) /\ (i - 1) + 1 = i
    BY <1>3, <1>4, <1>6
  <2> QED
    BY <1>3, <1>4, <2>1
<1>7. ASSUME NEW c \in DirsOf(g), NEW i \in DOMAIN g[c].entries
      PROVE  \/ c = d /\ i = 1 /\ g[c].entries[i] = [name |-> name, node |-> n]
             \/ c = d /\ i # 1 /\ i - 1 \in DOMAIN f[c].entries /\ g[c].entries[i] = f[c].entries[i - 1]
             \/ c # d /\ c # n /\ c \in DirsOf(f) /\ g[c] = f[c]
  <2>1. CASE c = d
    BY <1>4, <1>6, <2>1
  <2>2. CASE c = n
    <3>1. g[c].entries = <<>>
      BY <1>1, <1>5, <2>2 DEF DirsOf
    <3> QED
      BY <3>1
  <2>3. CASE c # d /\ c # n
    BY <1>1, <2>3 DEF DirsOf
  <2> QED
    BY <2>1, <2>2, <2>3
<1>8. \A i \in DOMAIN f[d].entries : i + 1 \in DOMAIN g[d].entries /\ g[d].entries[i + 1] = f[d].entries[i]
  BY <1>3, <1>4
<1> QED
  BY <1>2, <1>7, <1>8

(* A tree with a node more, put in front of a directory that has no other   *)
(* of its name, is a tree.                                                  *)
LEMMA GrowsWell ==
  ASSUME NEW f, Well(f), NEW d \in DirsOf(f), NEW n \in Addresses \ DOMAIN f,
         NEW name, \A i \in DOMAIN f[d].entries : f[d].entries[i].name # name,
         NEW x, (x \in FileNode /\ Fit(x)) \/ x = NewDir(d),
         NEW g, Grows(f, g, d, name, n, x)
  PROVE  Well(g)
<1> DEFINE new == [name |-> name, node |-> n]
<1>1. /\ DOMAIN g = DOMAIN f \cup {n} /\ g[n] = x /\ d \in DOMAIN f /\ d # n /\ n \notin DOMAIN f
      /\ \A m \in DOMAIN f \ {d} : g[m] = f[m]
      /\ g[d] \in DirNode /\ g[d].parent = f[d].parent /\ g[d].kind = "dir"
      /\ f[d] \in DirNode /\ f[d].kind = "dir"
  BY DEF Grows, DirsOf, DirNode, Well, Typed, FileNode
<1>2. /\ DirsOf(g) = DirsOf(f) \cup (IF x.kind = "dir" THEN {n} ELSE {})
      /\ \A c \in DirsOf(g) : \A i \in DOMAIN g[c].entries :
           \/ c = d /\ i = 1 /\ g[c].entries[i] = new
           \/ c = d /\ i # 1 /\ i - 1 \in DOMAIN f[c].entries /\ g[c].entries[i] = f[c].entries[i - 1]
           \/ c # d /\ c # n /\ c \in DirsOf(f) /\ g[c] = f[c]
      /\ \A i \in DOMAIN f[d].entries :
           i + 1 \in DOMAIN g[d].entries /\ g[d].entries[i + 1] = f[d].entries[i]
  BY GrownEntries, <1>1 DEF Well
<1>3. Typed(g)
  <2>1. d \in Addresses /\ (x \in DirNode \/ (x \in FileNode /\ Fit(x)))
    <3>1. d \in Addresses
      BY <1>1 DEF Well, Typed
    <3>2. NewDir(d) \in DirNode
      BY <3>1, EmptySeq DEF NewDir, DirNode
    <3> QED
      BY <3>1, <3>2
  <2> QED
    BY <1>1, <2>1 DEF Well, Typed
<1>4. Rooted(g)
  BY <1>1, <1>2 DEF Well, Rooted, DirsOf
<1>5. \A m \in DOMAIN f : g[m].kind = f[m].kind /\ (f[m].kind = "dir" => g[m].parent = f[m].parent)
  BY <1>1
<1>6. Listed(g)
  <2> SUFFICES ASSUME NEW c \in DirsOf(g)
               PROVE  /\ g[c].num_entries = Len(g[c].entries)
                      /\ \A i, j \in DOMAIN g[c].entries :
                           g[c].entries[i].name = g[c].entries[j].name => i = j
                      /\ \A i \in DOMAIN g[c].entries :
                           /\ g[c].entries[i].node \in DOMAIN g \ {Root}
                           /\ g[g[c].entries[i].node].kind = "dir" => g[g[c].entries[i].node].parent = c
    BY DEF Listed
  <2>1. CASE c = d
    <3>1. g[d].num_entries = Len(g[d].entries)
      <4>1. f[d].num_entries = Len(f[d].entries)
        BY DEF Well, Listed
      <4> QED
        BY <4>1 DEF Grows
    <3>2. ASSUME NEW i \in DOMAIN g[d].entries, NEW j \in DOMAIN g[d].entries,
                 g[d].entries[i].name = g[d].entries[j].name
          PROVE  i = j
      <4>1. \A a, b \in DOMAIN f[d].entries : f[d].entries[a].name = f[d].entries[b].name => a = b
        BY DEF Well, Listed
      <4>2. i \in Int /\ j \in Int
        <5>1. DOMAIN g[d].entries = 1 .. (Len(f[d].entries) + 1)
          BY DEF Grows
        <5> QED
          BY <5>1
      <4>3. \/ i = 1 /\ g[d].entries[i] = new
            \/ i # 1 /\ i - 1 \in DOMAIN f[d].entries /\ g[d].entries[i] = f[d].entries[i - 1]
        BY <1>2, <2>1
      <4>4. \/ j = 1 /\ g[d].entries[j] = new
            \/ j # 1 /\ j - 1 \in DOMAIN f[d].entries /\ g[d].entries[j] = f[d].entries[j - 1]
        BY <1>2, <2>1
      <4>5. new.name = name
        OBVIOUS
      <4> HIDE DEF new
      <4> QED
        BY <3>2, <4>1, <4>2, <4>3, <4>4, <4>5
    <3>3. ASSUME NEW i \in DOMAIN g[d].entries
          PROVE  /\ g[d].entries[i].node \in DOMAIN g \ {Root}
                 /\ g[g[d].entries[i].node].kind = "dir" => g[g[d].entries[i].node].parent = d
      <4>1. CASE g[d].entries[i] = new
        <5>1. g[d].entries[i].node = n /\ n # Root
          BY <4>1, <1>1 DEF Well, Rooted, DirsOf
        <5>2. x.kind = "dir" => x.parent = d
          BY DEF NewDir, FileNode
        <5> QED
          BY <1>1, <5>1, <5>2
      <4>2. CASE i - 1 \in DOMAIN f[d].entries /\ g[d].entries[i] = f[d].entries[i - 1]
        <5> DEFINE m == f[d].entries[i - 1].node
        <5>1. m \in DOMAIN f \ {Root} /\ (f[m].kind = "dir" => f[m].parent = d)
          BY <4>2 DEF Well, Listed
        <5>2. g[d].entries[i].node = m
          BY <4>2
        <5> HIDE DEF m
        <5> QED
          BY <1>1, <1>5, <5>1, <5>2
      <4> QED
        BY <1>2, <2>1, <4>1, <4>2
    <3> QED
      BY <2>1, <3>1, <3>2, <3>3
  <2>2. CASE c = n
    <3>1. x = NewDir(d)
      BY <1>1, <2>2 DEF DirsOf, FileNode
    <3>2. g[c].entries = <<>> /\ g[c].num_entries = 0
      BY <1>1, <2>2, <3>1 DEF NewDir
    <3> QED
      BY <3>2
  <2>3. CASE c # d /\ c # n
    <3>1. c \in DirsOf(f) /\ g[c] = f[c]
      BY <1>1, <1>2, <2>3 DEF DirsOf
    <3>2. /\ f[c].num_entries = Len(f[c].entries)
          /\ \A i, j \in DOMAIN f[c].entries :
               f[c].entries[i].name = f[c].entries[j].name => i = j
          /\ \A i \in DOMAIN f[c].entries :
               /\ f[c].entries[i].node \in DOMAIN f \ {Root}
               /\ f[f[c].entries[i].node].kind = "dir" => f[f[c].entries[i].node].parent = c
      BY <3>1 DEF Well, Listed
    <3> QED
      BY <1>1, <1>5, <3>1, <3>2
  <2> QED
    BY <2>1, <2>2, <2>3
<1>7. Once(g)
  <2> SUFFICES ASSUME NEW a \in DirsOf(g), NEW b \in DirsOf(g),
                      NEW i \in DOMAIN g[a].entries, NEW j \in DOMAIN g[b].entries,
                      g[a].entries[i].node = g[b].entries[j].node
               PROVE  a = b /\ i = j
    BY DEF Once
  <2>1. \A c \in DirsOf(f) : \A k \in DOMAIN f[c].entries : f[c].entries[k].node # n
    BY <1>1 DEF Well, Listed
  <2>2. \A c, e \in DirsOf(f) : \A k \in DOMAIN f[c].entries, l \in DOMAIN f[e].entries :
          f[c].entries[k].node = f[e].entries[l].node => c = e /\ k = l
    BY DEF Well, Once
  <2>3. new.node = n
    OBVIOUS
  <2> HIDE DEF new
  <2>4. \/ a = d /\ i = 1 /\ g[a].entries[i] = new
        \/ a = d /\ i # 1 /\ i - 1 \in DOMAIN f[a].entries /\ g[a].entries[i] = f[a].entries[i - 1]
        \/ a # d /\ a \in DirsOf(f) /\ i \in DOMAIN f[a].entries /\ g[a] = f[a]
    BY <1>2
  <2>5. \/ b = d /\ j = 1 /\ g[b].entries[j] = new
        \/ b = d /\ j # 1 /\ j - 1 \in DOMAIN f[b].entries /\ g[b].entries[j] = f[b].entries[j - 1]
        \/ b # d /\ b \in DirsOf(f) /\ j \in DOMAIN f[b].entries /\ g[b] = f[b]
    BY <1>2
  <2>6. DOMAIN g[d].entries = 1 .. (Len(f[d].entries) + 1)
    BY DEF Grows
  <2>7. CASE a = d /\ b = d
    <3>1. i \in Int /\ j \in Int
      BY <2>6, <2>7
    <3> QED
      BY <2>1, <2>2, <2>3, <2>4, <2>5, <2>7, <3>1
  <2>8. CASE ~(a = d /\ b = d)
    BY <2>1, <2>2, <2>3, <2>4, <2>5, <2>8
  <2> QED
    BY <2>7, <2>8
<1>8. Reached(g)
  <2> SUFFICES ASSUME NEW S \in SUBSET DOMAIN g, Closed(g, S) PROVE S = DOMAIN g
    BY DEF Reached
  <2> DEFINE T == S \ {n}
  <2>1. T \in SUBSET DOMAIN f
    BY <1>1
  <2>2. Root \in T
    BY <1>1 DEF Closed, Well, Rooted, DirsOf
  <2>3. ASSUME NEW c \in DirsOf(f) \cap T, NEW i \in DOMAIN f[c].entries
        PROVE  f[c].entries[i].node \in T
    <3>1. f[c].entries[i].node \in DOMAIN f
      BY <2>3 DEF Well, Listed
    <3>2. CASE c = d
      <4>1. f[c].entries[i].node \in S
        BY <1>2, <2>3, <3>2 DEF Closed
      <4> QED
        BY <1>1, <3>1, <4>1
    <3>3. CASE c # d
      <4>1. g[c] = f[c] /\ c \in DirsOf(g) \cap S
        BY <1>1, <1>2, <3>3 DEF DirsOf
      <4>2. f[c].entries[i].node \in S
        BY <4>1 DEF Closed
      <4> QED
        BY <1>1, <3>1, <4>2
    <3> QED
      BY <3>2, <3>3
  <2>4. T = DOMAIN f
    <3>1. Closed(f, T)
      BY <2>2, <2>3 DEF Closed
    <3> QED
      BY <2>1, <3>1 DEF Well, Reached
  <2>5. n \in S
    <3>1. d \in DirsOf(g) \cap S
      BY <1>1, <1>2, <2>4
    <3>2. 1 \in DOMAIN g[d].entries /\ g[d].entries[1] = new
      <4>1. Len(f[d].entries) \in Nat
        BY DirTyped DEF Well
      <4> QED
        BY <4>1 DEF Grows
    <3>3. g[d].entries[1].node \in S
      BY <3>1, <3>2 DEF Closed
    <3> QED
      BY <3>2, <3>3
  <2> QED
    BY <1>1, <2>4, <2>5
<1> QED
  BY <1>3, <1>4, <1>6, <1>7, <1>8 DEF Well

(* Where an entry was before another was taken out. *)
Was(i, k) == IF i < k THEN i ELSE i + 1

(* The directories and entries that are left are those there were. *)
LEMMA ShrunkEntries ==
  ASSUME NEW f, Typed(f), NEW d \in DirsOf(f), NEW k \in DOMAIN f[d].entries,
         NEW n \in DOMAIN f \ {d}, NEW g, Shrinks(f, g, d, k, n)
  PROVE  /\ DirsOf(g) = DirsOf(f) \ {n}
         /\ \A i \in DOMAIN g[d].entries :
              /\ i \in Nat /\ Was(i, k) \in DOMAIN f[d].entries \ {k}
              /\ g[d].entries[i] = f[d].entries[Was(i, k)]
         /\ \A i \in DOMAIN f[d].entries \ {k} :
              \E j \in DOMAIN g[d].entries : g[d].entries[j] = f[d].entries[i]
<1>1. d \in DOMAIN f /\ f[d].kind = "dir" /\ g[d].kind = "dir"
  BY DEF Shrinks, DirsOf, DirNode
<1>2. DirsOf(g) = DirsOf(f) \ {n}
  BY <1>1 DEF DirsOf, Shrinks
<1>3. PICK l \in Nat : l = Len(f[d].entries)
  BY DirTyped
<1>4. k \in 1 .. l /\ DOMAIN f[d].entries = 1 .. l
  BY <1>3, DirTyped
<1>5. /\ DOMAIN g[d].entries = 1 .. (l - 1)
      /\ \A i \in 1 .. (l - 1) : g[d].entries[i] = f[d].entries[Was(i, k)]
  BY <1>3 DEF Shrinks, Was
<1>6. \A i \in 1 .. (l - 1) : i \in Nat /\ Was(i, k) \in 1 .. l /\ Was(i, k) # k
  BY <1>4 DEF Was
<1>7. ASSUME NEW i \in (1 .. l) \ {k}
      PROVE  \E j \in 1 .. (l - 1) : Was(j, k) = i
  <2>1. CASE i < k
    <3>1. i \in 1 .. (l - 1) /\ Was(i, k) = i
      BY <1>4, <2>1 DEF Was
    <3> QED
      BY <3>1
  <2>2. CASE ~(i < k)
    <3>1. i - 1 \in 1 .. (l - 1) /\ Was(i - 1, k) = i
      BY <1>4, <2>2 DEF Was
    <3> QED
      BY <3>1
  <2> QED
    BY <2>1, <2>2
<1>8. ASSUME NEW i \in (1 .. l) \ {k}
      PROVE  \E j \in 1 .. (l - 1) : g[d].entries[j] = f[d].entries[i]
  <2>1. PICK j \in 1 .. (l - 1) : Was(j, k) = i
    BY <1>7
  <2> QED
    BY <1>5, <2>1
<1> QED
  BY <1>2, <1>4, <1>5, <1>6, <1>8

(* A node with no entries goes with the only entry it has. *)
LEMMA ShrinksWell ==
  ASSUME NEW f, Well(f), NEW d \in DirsOf(f), NEW k \in DOMAIN f[d].entries,
         NEW n \in DOMAIN f \ {d}, f[d].entries[k].node = n,
         n \in DirsOf(f) => f[n].entries = <<>>,
         NEW g, Shrinks(f, g, d, k, n)
  PROVE  Well(g)
<1>1. /\ DOMAIN g = DOMAIN f \ {n} /\ d \in DOMAIN f /\ d # n /\ n \in DOMAIN f
      /\ \A m \in DOMAIN f \ {d, n} : g[m] = f[m]
      /\ g[d] \in DirNode /\ g[d].parent = f[d].parent /\ g[d].kind = "dir" /\ f[d].kind = "dir"
  BY DEF Shrinks, DirsOf, DirNode
<1>2. /\ DirsOf(g) = DirsOf(f) \ {n}
      /\ \A i \in DOMAIN g[d].entries :
           /\ i \in Nat /\ Was(i, k) \in DOMAIN f[d].entries \ {k}
           /\ g[d].entries[i] = f[d].entries[Was(i, k)]
      /\ \A i \in DOMAIN f[d].entries \ {k} :
           \E j \in DOMAIN g[d].entries : g[d].entries[j] = f[d].entries[i]
  BY ShrunkEntries DEF Well
<1>3. Typed(g)
  BY <1>1 DEF Well, Typed
<1>4. n # Root
  BY DEF Well, Listed
<1>5. Rooted(g)
  BY <1>1, <1>2, <1>4 DEF Well, Rooted, DirsOf
<1>6. \A m \in DOMAIN g : g[m].kind = f[m].kind /\ (f[m].kind = "dir" => g[m].parent = f[m].parent)
  BY <1>1
<1>7. k \in Nat
  BY DirTyped DEF Well
<1>8. ASSUME NEW c \in DirsOf(f), NEW i \in DOMAIN f[c].entries, f[c].entries[i].node = n
      PROVE  c = d /\ i = k
  BY <1>8 DEF Well, Once
<1>9. ASSUME NEW c \in DirsOf(g), NEW i \in DOMAIN g[c].entries
      PROVE  \E j \in DOMAIN f[c].entries :
               g[c].entries[i] = f[c].entries[j] /\ f[c].entries[j].node # n
  <2>0. c \in DirsOf(f)
    BY <1>2
  <2>1. CASE c = d
    <3>1. Was(i, k) \in DOMAIN f[c].entries \ {k} /\ g[c].entries[i] = f[c].entries[Was(i, k)]
      BY <1>2, <2>1
    <3>2. f[c].entries[Was(i, k)].node # n
      BY <1>8, <2>0, <3>1
    <3> QED
      BY <3>1, <3>2
  <2>2. CASE c # d
    BY <1>1, <1>2, <1>8, <2>2 DEF DirsOf
  <2> QED
    BY <2>1, <2>2
<1>10. Listed(g)
  <2> SUFFICES ASSUME NEW c \in DirsOf(g)
               PROVE  /\ g[c].num_entries = Len(g[c].entries)
                      /\ \A i, j \in DOMAIN g[c].entries :
                           g[c].entries[i].name = g[c].entries[j].name => i = j
                      /\ \A i \in DOMAIN g[c].entries :
                           /\ g[c].entries[i].node \in DOMAIN g \ {Root}
                           /\ g[g[c].entries[i].node].kind = "dir" => g[g[c].entries[i].node].parent = c
    BY DEF Listed
  <2>0. c \in DirsOf(f)
    BY <1>2
  <2>1. /\ f[c].num_entries = Len(f[c].entries)
        /\ \A i, j \in DOMAIN f[c].entries : f[c].entries[i].name = f[c].entries[j].name => i = j
        /\ \A i \in DOMAIN f[c].entries :
             /\ f[c].entries[i].node \in DOMAIN f \ {Root}
             /\ f[f[c].entries[i].node].kind = "dir" => f[f[c].entries[i].node].parent = c
    BY <2>0 DEF Well, Listed
  <2>2. g[c].num_entries = Len(g[c].entries)
    <3>1. CASE c = d
      BY <2>1, <3>1 DEF Shrinks
    <3>2. CASE c # d
      BY <1>1, <1>2, <2>1, <3>2 DEF DirsOf
    <3> QED
      BY <3>1, <3>2
  <2>3. ASSUME NEW i \in DOMAIN g[c].entries, NEW j \in DOMAIN g[c].entries,
               g[c].entries[i].name = g[c].entries[j].name
        PROVE  i = j
    <3>1. CASE c = d
      <4>0. /\ i \in Nat /\ Was(i, k) \in DOMAIN f[d].entries /\ g[d].entries[i] = f[d].entries[Was(i, k)]
            /\ j \in Nat /\ Was(j, k) \in DOMAIN f[d].entries /\ g[d].entries[j] = f[d].entries[Was(j, k)]
        BY <1>2, <2>3, <3>1
      <4>1. Was(i, k) = Was(j, k)
        BY <2>1, <2>3, <3>1, <4>0
      <4> QED
        BY <1>7, <4>0, <4>1 DEF Was
    <3>2. CASE c # d
      BY <1>1, <1>2, <2>1, <2>3, <3>2 DEF DirsOf
    <3> QED
      BY <3>1, <3>2
  <2>4. ASSUME NEW i \in DOMAIN g[c].entries
        PROVE  /\ g[c].entries[i].node \in DOMAIN g \ {Root}
               /\ g[g[c].entries[i].node].kind = "dir" => g[g[c].entries[i].node].parent = c
    <3>1. PICK j \in DOMAIN f[c].entries : g[c].entries[i] = f[c].entries[j] /\ f[c].entries[j].node # n
      BY <1>9
    <3>2. PICK m \in DOMAIN f \ {Root, n} : m = f[c].entries[j].node
      BY <2>1, <3>1
    <3>3. m \in DOMAIN g \ {Root} /\ (f[m].kind = "dir" => f[m].parent = c)
      BY <1>1, <2>1, <3>2
    <3>4. g[m].kind = "dir" => g[m].parent = c
      BY <1>6, <3>3
    <3> QED
      BY <3>1, <3>2, <3>3, <3>4
  <2> QED
    BY <2>2, <2>3, <2>4
<1>11. Once(g)
  <2> SUFFICES ASSUME NEW a \in DirsOf(g), NEW b \in DirsOf(g),
                      NEW i \in DOMAIN g[a].entries, NEW j \in DOMAIN g[b].entries,
                      g[a].entries[i].node = g[b].entries[j].node
               PROVE  a = b /\ i = j
    BY DEF Once
  <2>1. a \in DirsOf(f) /\ b \in DirsOf(f)
    BY <1>2
  <2>2. \A c, e \in DirsOf(f) : \A p \in DOMAIN f[c].entries, q \in DOMAIN f[e].entries :
          f[c].entries[p].node = f[e].entries[q].node => c = e /\ p = q
    BY DEF Well, Once
  <2>3. PICK p \in DOMAIN f[a].entries :
          /\ g[a].entries[i] = f[a].entries[p]
          /\ p = IF a = d THEN Was(i, k) ELSE i
    BY <1>1, <1>2 DEF DirsOf
  <2>4. PICK q \in DOMAIN f[b].entries :
          /\ g[b].entries[j] = f[b].entries[q]
          /\ q = IF b = d THEN Was(j, k) ELSE j
    BY <1>1, <1>2 DEF DirsOf
  <2>5. a = b /\ p = q
    BY <2>1, <2>2, <2>3, <2>4
  <2>6. CASE a = d
    <3>1. i \in Nat /\ j \in Nat /\ Was(i, k) = Was(j, k)
      BY <1>2, <2>3, <2>4, <2>5, <2>6
    <3>2. i = j
      BY <1>7, <3>1 DEF Was
    <3> QED
      BY <2>5, <3>2
  <2>7. CASE a # d
    BY <2>3, <2>4, <2>5, <2>7
  <2> QED
    BY <2>6, <2>7
<1>12. Reached(g)
  <2> SUFFICES ASSUME NEW S \in SUBSET DOMAIN g, Closed(g, S) PROVE S = DOMAIN g
    BY DEF Reached
  <2> DEFINE T == S \cup {n}
  <2>1. T \in SUBSET DOMAIN f /\ Root \in T
    BY <1>1 DEF Closed
  <2>2. ASSUME NEW c \in DirsOf(f) \cap T, NEW i \in DOMAIN f[c].entries
        PROVE  f[c].entries[i].node \in T
    <3>1. CASE c = n
      <4>1. DOMAIN f[c].entries = {}
        BY <3>1, EmptySeq
      <4> QED
        BY <4>1
    <3>2. CASE c = d
      <4>1. CASE i = k
        BY <3>2, <4>1
      <4>2. CASE i # k
        <5>1. PICK j \in DOMAIN g[d].entries : g[d].entries[j] = f[d].entries[i]
          BY <1>2, <3>2, <4>2
        <5>2. d \in DirsOf(g) \cap S
          BY <1>1, <1>2, <3>2
        <5>3. g[d].entries[j].node \in S
          BY <5>2 DEF Closed
        <5> QED
          BY <3>2, <5>1, <5>3
      <4> QED
        BY <4>1, <4>2
    <3>3. CASE c # n /\ c # d
      <4>1. g[c] = f[c] /\ c \in DirsOf(g) \cap S
        BY <1>1, <1>2, <3>3 DEF DirsOf
      <4>2. f[c].entries[i].node \in S
        BY <4>1 DEF Closed
      <4> QED
        BY <4>2
    <3> QED
      BY <3>1, <3>2, <3>3
  <2>3. T = DOMAIN f
    <3>1. Closed(f, T)
      BY <2>1, <2>2 DEF Closed
    <3> QED
      BY <2>1, <3>1 DEF Well, Reached
  <2> QED
    BY <1>1, <2>3
<1> QED
  BY <1>3, <1>5, <1>10, <1>11, <1>12 DEF Well

(* A file stays where it is, whatever is in it. *)
LEMMA WritesWell ==
  ASSUME NEW f, Well(f), NEW n \in DOMAIN f \ DirsOf(f), NEW x \in FileNode, Fit(x),
         NEW g, g = [f EXCEPT ![n] = x]
  PROVE  Well(g)
<1>1. /\ DOMAIN g = DOMAIN f /\ g[n] = x /\ x.kind = "file"
      /\ \A m \in DOMAIN f \ {n} : g[m] = f[m]
  BY DEF FileNode
<1>2. DirsOf(g) = DirsOf(f) /\ \A c \in DirsOf(f) : g[c] = f[c]
  BY <1>1 DEF DirsOf
<1>3. Typed(g)
  BY <1>1 DEF Well, Typed
<1>4. Rooted(g)
  BY <1>2 DEF Well, Rooted
<1>5. Listed(g)
  <2> SUFFICES ASSUME NEW c \in DirsOf(g)
               PROVE  /\ g[c].num_entries = Len(g[c].entries)
                      /\ \A i, j \in DOMAIN g[c].entries :
                           g[c].entries[i].name = g[c].entries[j].name => i = j
                      /\ \A i \in DOMAIN g[c].entries :
                           /\ g[c].entries[i].node \in DOMAIN g \ {Root}
                           /\ g[g[c].entries[i].node].kind = "dir" => g[g[c].entries[i].node].parent = c
    BY DEF Listed
  <2>1. /\ f[c].num_entries = Len(f[c].entries)
        /\ \A i, j \in DOMAIN f[c].entries : f[c].entries[i].name = f[c].entries[j].name => i = j
        /\ \A i \in DOMAIN f[c].entries :
             /\ f[c].entries[i].node \in DOMAIN f \ {Root}
             /\ f[f[c].entries[i].node].kind = "dir" => f[f[c].entries[i].node].parent = c
    BY <1>2 DEF Well, Listed
  <2>2. g[c] = f[c]
    BY <1>2
  <2>3. \A m \in DOMAIN f : g[m].kind = "dir" => f[m].kind = "dir" /\ g[m].parent = f[m].parent
    BY <1>1
  <2> QED
    BY <1>1, <2>1, <2>2, <2>3
<1>6. Once(g)
  BY <1>2 DEF Well, Once
<1>7. Reached(g)
  <2>1. \A S : Closed(g, S) => Closed(f, S)
    BY <1>2 DEF Closed
  <2> QED
    BY <1>1, <2>1 DEF Well, Reached
<1> QED
  BY <1>3, <1>4, <1>5, <1>6, <1>7 DEF Well
-----------------------------------------------------------------------------
(* The blocks of all nodes. *)
BlocksIn(f) == [n \in DOMAIN f |-> BlocksOf(f[n])]
Held(f) == SumFunctionOnSet(BlocksIn(f), DOMAIN f)

(* The sum is over a finite set of numbers. *)
LEMMA BlocksCounted ==
  ASSUME NEW f, Typed(f)
  PROVE  /\ IsFiniteSet(DOMAIN f)
         /\ \A n \in DOMAIN f : BlocksIn(f)[n] = BlocksOf(f[n]) /\ BlocksIn(f)[n] \in Nat
         /\ Held(f) \in Nat
<1>1. IsFiniteSet(DOMAIN f)
  <2>1. DOMAIN f \subseteq Addresses /\ IsFiniteSet(Addresses)
    BY SkullFSAssumption DEF Typed
  <2> QED
    BY <2>1, FS_Subset
<1>2. ASSUME NEW n \in DOMAIN f PROVE BlocksOf(f[n]) \in Nat
  <2>1. CASE f[n] \in DirNode
    <3>1. PICK l \in Nat : l = Len(f[n].entries)
      BY <2>1, LenProperties DEF DirNode
    <3>2. f[n].kind = "dir"
      BY <2>1 DEF DirNode
    <3>3. BlocksOf(f[n]) = 1 + (1 + l)
      BY <3>1, <3>2 DEF BlocksOf
    <3> QED
      BY <3>3
  <2>2. CASE f[n] \in FileNode
    <3>1. f[n].kind = "file"
      BY <2>2 DEF FileNode
    <3>2. DataBlocks(f[n]) \in Nat
      BY DEF DataBlocks
    <3>3. BlocksOf(f[n]) = 1 + DataBlocks(f[n])
      BY <3>1 DEF BlocksOf
    <3> QED
      BY <3>2, <3>3
  <2> QED
    BY <2>1, <2>2 DEF Typed
<1>3. \A n \in DOMAIN f : BlocksIn(f)[n] = BlocksOf(f[n]) /\ BlocksIn(f)[n] \in Nat
  BY <1>2 DEF BlocksIn
<1>4. Held(f) \in Nat
  BY <1>1, <1>3, SumNat DEF Held
<1> QED
  BY <1>1, <1>3, <1>4

(* The sum, with one node first. *)
LEMMA HeldFirst ==
  ASSUME NEW f, Typed(f), NEW n \in DOMAIN f
  PROVE  Held(f) = BlocksOf(f[n]) + SumFunctionOnSet(BlocksIn(f), DOMAIN f \ {n})
<1>1. /\ IsFiniteSet(DOMAIN f)
      /\ \A m \in DOMAIN f : BlocksIn(f)[m] = BlocksOf(f[m]) /\ BlocksIn(f)[m] \in Nat
  BY BlocksCounted
<1> DEFINE b == BlocksIn(f)
           S == DOMAIN f
<1>2. IsFiniteSet(S) /\ (\A m \in S : b[m] \in Nat) /\ n \in S
  BY <1>1
<1> HIDE DEF b, S
<1>3. SumFunctionOnSet(b, S) = b[n] + SumFunctionOnSet(b, S \ {n})
  BY <1>2, SumFirst
<1> QED
  BY <1>1, <1>3 DEF b, S, Held

(* The rest is the same when it is the same nodes. *)
LEMMA HeldSame ==
  ASSUME NEW f, Typed(f), NEW g, Typed(g), NEW S \in SUBSET DOMAIN f, S \subseteq DOMAIN g,
         \A m \in S : g[m] = f[m]
  PROVE  /\ SumFunctionOnSet(BlocksIn(f), S) = SumFunctionOnSet(BlocksIn(g), S)
         /\ SumFunctionOnSet(BlocksIn(f), S) \in Nat
<1>1. \A m \in S : BlocksIn(f)[m] = BlocksIn(g)[m]
  BY DEF BlocksIn
<1>2. IsFiniteSet(S)
  BY BlocksCounted, FS_Subset
<1>3. \A m \in S : BlocksIn(f)[m] \in Nat
  BY BlocksCounted
<1> DEFINE a == BlocksIn(f)
           b == BlocksIn(g)
<1>4. (\A m \in S : a[m] = b[m]) /\ \A m \in S : a[m] \in Nat
  BY <1>1, <1>3
<1> HIDE DEF a, b
<1>5. SumFunctionOnSet(a, S) = SumFunctionOnSet(b, S)
  BY <1>2, <1>4, SumSame
<1>6. SumFunctionOnSet(a, S) \in Nat
  BY <1>2, <1>4, SumNat
<1> QED
  BY <1>5, <1>6 DEF a, b

(* One node's blocks more or less are so many in all more or less. *)
LEMMA HeldChanged ==
  ASSUME NEW f, Typed(f), NEW g, Typed(g), DOMAIN g = DOMAIN f, NEW n \in DOMAIN f,
         \A m \in DOMAIN f \ {n} : g[m] = f[m]
  PROVE  Held(g) = Held(f) + BlocksOf(g[n]) - BlocksOf(f[n])
<1> DEFINE S == DOMAIN f \ {n}
<1>1. S \in SUBSET DOMAIN f /\ S \subseteq DOMAIN g /\ \A m \in S : g[m] = f[m]
  OBVIOUS
<1>2. SumFunctionOnSet(BlocksIn(f), S) = SumFunctionOnSet(BlocksIn(g), S)
      /\ SumFunctionOnSet(BlocksIn(f), S) \in Nat
  <2> HIDE DEF S
  <2> QED
    BY <1>1, HeldSame
<1>3. Held(f) = BlocksOf(f[n]) + SumFunctionOnSet(BlocksIn(f), S)
  BY HeldFirst
<1>4. Held(g) = BlocksOf(g[n]) + SumFunctionOnSet(BlocksIn(g), S)
  BY HeldFirst
<1>5. BlocksOf(f[n]) \in Nat /\ BlocksOf(g[n]) \in Nat
  BY BlocksCounted
<1> HIDE DEF S
<1> QED
  BY <1>2, <1>3, <1>4, <1>5

(* A node less is as many blocks less as it had. *)
LEMMA HeldLess ==
  ASSUME NEW f, Typed(f), NEW g, Typed(g), NEW n \in DOMAIN f, DOMAIN g = DOMAIN f \ {n},
         \A m \in DOMAIN g : g[m] = f[m]
  PROVE  Held(f) = Held(g) + BlocksOf(f[n])
<1> DEFINE S == DOMAIN f \ {n}
<1>1. S \in SUBSET DOMAIN f /\ S \subseteq DOMAIN g /\ \A m \in S : g[m] = f[m]
  OBVIOUS
<1>2. SumFunctionOnSet(BlocksIn(f), S) = SumFunctionOnSet(BlocksIn(g), S)
      /\ SumFunctionOnSet(BlocksIn(f), S) \in Nat
  <2> HIDE DEF S
  <2> QED
    BY <1>1, HeldSame
<1>3. Held(f) = BlocksOf(f[n]) + SumFunctionOnSet(BlocksIn(f), S)
  BY HeldFirst
<1>4. Held(g) = SumFunctionOnSet(BlocksIn(g), S)
  BY DEF Held
<1>5. BlocksOf(f[n]) \in Nat
  BY BlocksCounted
<1> HIDE DEF S
<1> QED
  BY <1>2, <1>3, <1>4, <1>5

(* A new entry is a block more, besides those of the new node. *)
LEMMA GrowsHeld ==
  ASSUME NEW f, Typed(f), NEW d \in DirsOf(f), NEW n, n \notin DOMAIN f, NEW name, NEW x,
         NEW g, Typed(g), Grows(f, g, d, name, n, x)
  PROVE  Held(g) = Held(f) + BlocksOf(x) + 1
<1> DEFINE h == [m \in DOMAIN f |-> g[m]]
<1>1. DOMAIN g = DOMAIN f \cup {n} /\ g[n] = x /\ d \in DOMAIN f /\ d # n /\ \A m \in DOMAIN f \ {d} : g[m] = f[m]
  BY DEF Grows, DirsOf
<1>2. Typed(h) /\ DOMAIN h = DOMAIN f /\ \A m \in DOMAIN f : h[m] = g[m]
  BY <1>1 DEF Typed
<1>3. PICK l \in Nat : l = Len(f[d].entries)
  BY DirTyped
<1>4. BlocksOf(g[d]) = 2 + l + 1 /\ BlocksOf(f[d]) = 2 + l
  <2>1. f[d].kind = "dir" /\ g[d].kind = "dir" /\ Len(g[d].entries) = l + 1
    BY <1>3 DEF DirsOf, Grows, DirNode
  <2> QED
    BY <1>3, <2>1 DEF BlocksOf
<1> HIDE DEF h
<1>5. Held(h) = Held(f) + BlocksOf(h[d]) - BlocksOf(f[d])
  <2>1. DOMAIN h = DOMAIN f /\ \A m \in DOMAIN f \ {d} : h[m] = f[m]
    BY <1>1, <1>2
  <2> QED
    BY <1>1, <1>2, <2>1, HeldChanged
<1>6. Held(g) = Held(h) + BlocksOf(g[n])
  <2>1. n \in DOMAIN g /\ DOMAIN h = DOMAIN g \ {n} /\ \A m \in DOMAIN h : h[m] = g[m]
    BY <1>1, <1>2
  <2> QED
    BY <1>2, <2>1, HeldLess
<1>7. Held(h) \in Nat /\ Held(f) \in Nat /\ BlocksOf(g[n]) \in Nat
  <2>1. n \in DOMAIN g
    BY <1>1
  <2> QED
    BY <1>2, <2>1, BlocksCounted
<1>8. h[d] = g[d]
  BY <1>1, <1>2
<1> QED
  BY <1>1, <1>4, <1>5, <1>6, <1>7, <1>8

(* An entry less is a block less, besides those of its node. *)
LEMMA ShrinksHeld ==
  ASSUME NEW f, Typed(f), NEW d \in DirsOf(f), NEW k, NEW n \in DOMAIN f \ {d},
         NEW g, Typed(g), Shrinks(f, g, d, k, n)
  PROVE  Held(g) = Held(f) - BlocksOf(f[n]) - 1
<1> DEFINE h == [m \in DOMAIN g |-> f[m]]
<1>1. /\ DOMAIN g = DOMAIN f \ {n} /\ d \in DOMAIN f /\ d # n /\ d \in DOMAIN g
      /\ \A m \in DOMAIN g \ {d} : g[m] = f[m]
  BY DEF Shrinks, DirsOf
<1>2. Typed(h) /\ DOMAIN h = DOMAIN g /\ \A m \in DOMAIN g : h[m] = f[m]
  BY <1>1 DEF Typed
<1>3. PICK l \in Nat : l = Len(f[d].entries)
  BY DirTyped
<1>4. BlocksOf(g[d]) = 2 + (l - 1) /\ BlocksOf(f[d]) = 2 + l
  <2>1. f[d].kind = "dir" /\ g[d].kind = "dir" /\ Len(g[d].entries) = l - 1
    BY <1>3 DEF DirsOf, Shrinks, DirNode
  <2> QED
    BY <1>3, <2>1 DEF BlocksOf
<1> HIDE DEF h
<1>5. Held(g) = Held(h) + BlocksOf(g[d]) - BlocksOf(h[d])
  <2>1. DOMAIN g = DOMAIN h /\ d \in DOMAIN h /\ \A m \in DOMAIN h \ {d} : g[m] = h[m]
    BY <1>1, <1>2
  <2> QED
    BY <1>2, <2>1, HeldChanged
<1>6. Held(f) = Held(h) + BlocksOf(f[n])
  <2>1. DOMAIN h = DOMAIN f \ {n} /\ \A m \in DOMAIN h : h[m] = f[m]
    BY <1>1, <1>2
  <2> QED
    BY <1>2, <2>1, HeldLess
<1>7. Held(h) \in Nat /\ Held(f) \in Nat /\ Held(g) \in Nat /\ BlocksOf(f[n]) \in Nat
  BY <1>1, <1>2, BlocksCounted
<1>8. h[d] = f[d]
  BY <1>1, <1>2
<1> QED
  BY <1>4, <1>5, <1>6, <1>7, <1>8
-----------------------------------------------------------------------------
(* What a command leaves of the nodes: those that stay are what they were,  *)
(* where they were, with the entries whose nodes stay. *)
Kept(f, g) ==
  \A n \in DOMAIN f \cap DOMAIN g :
    /\ g[n].kind = f[n].kind
    /\ n \in DirsOf(f) =>
         /\ g[n].parent = f[n].parent
         /\ \A i \in DOMAIN f[n].entries :
              f[n].entries[i].node \in DOMAIN g =>
                \E j \in DOMAIN g[n].entries : g[n].entries[j] = f[n].entries[i]

(* A node more and its entry, ... *)
LEMMA GrowsKept ==
  ASSUME NEW f, Well(f), NEW d \in DirsOf(f), NEW n \in Addresses \ DOMAIN f, NEW name, NEW x, NEW g,
         Grows(f, g, d, name, n, x)
  PROVE  Kept(f, g)
<1>1. d \in DOMAIN f /\ f[d].kind = "dir" /\ g[d].kind = "dir" /\ g[d].parent = f[d].parent
  BY DEF Grows, DirsOf, DirNode
<1>2. PICK l \in Nat : l = Len(f[d].entries) /\ DOMAIN f[d].entries = 1 .. l
  BY DirTyped DEF Well
<1>3. DOMAIN g[d].entries = 1 .. (l + 1) /\ \A i \in 1 .. l : g[d].entries[i + 1] = f[d].entries[i]
  BY <1>2 DEF Grows
<1>4. ASSUME NEW i \in DOMAIN f[d].entries
      PROVE  \E j \in DOMAIN g[d].entries : g[d].entries[j] = f[d].entries[i]
  <2>1. i + 1 \in DOMAIN g[d].entries /\ g[d].entries[i + 1] = f[d].entries[i]
    BY <1>2, <1>3
  <2> QED
    BY <2>1
<1>5. \A m \in DOMAIN f \ {d} : g[m] = f[m]
  BY DEF Grows
<1> QED
  BY <1>1, <1>4, <1>5 DEF Kept

(* ... a node and its entry less, ... *)
LEMMA ShrinksKept ==
  ASSUME NEW f, Well(f), NEW d \in DirsOf(f), NEW k \in DOMAIN f[d].entries, NEW n \in DOMAIN f \ {d},
         f[d].entries[k].node = n, NEW g, Shrinks(f, g, d, k, n)
  PROVE  Kept(f, g)
<1>1. d \in DOMAIN f /\ f[d].kind = "dir" /\ g[d].kind = "dir" /\ g[d].parent = f[d].parent
      /\ n \notin DOMAIN g
  BY DEF Shrinks, DirsOf, DirNode
<1>2. PICK l \in Nat : l = Len(f[d].entries) /\ DOMAIN f[d].entries = 1 .. l
  BY DirTyped DEF Well
<1>3. /\ DOMAIN g[d].entries = 1 .. (l - 1)
      /\ \A i \in 1 .. (l - 1) : g[d].entries[i] = f[d].entries[IF i < k THEN i ELSE i + 1]
  BY <1>2 DEF Shrinks
<1>4. ASSUME NEW i \in DOMAIN f[d].entries, f[d].entries[i].node \in DOMAIN g
      PROVE  \E j \in DOMAIN g[d].entries : g[d].entries[j] = f[d].entries[i]
  <2>1. i # k /\ i \in 1 .. l /\ k \in 1 .. l
    BY <1>1, <1>2, <1>4
  <2>2. CASE i < k
    <3>1. i \in 1 .. (l - 1)
      BY <2>1, <2>2
    <3>2. g[d].entries[i] = f[d].entries[i]
      BY <1>3, <2>2, <3>1
    <3> QED
      BY <1>3, <3>1, <3>2
  <2>3. CASE ~(i < k)
    <3>1. PICK j \in 1 .. (l - 1) : j = i - 1 /\ ~(j < k) /\ j + 1 = i
      <4>1. i - 1 \in 1 .. (l - 1) /\ ~(i - 1 < k) /\ (i - 1) + 1 = i
        BY <2>1, <2>3
      <4> QED
        BY <4>1
    <3>2. g[d].entries[j] = f[d].entries[i]
      BY <1>3, <3>1
    <3> QED
      BY <1>3, <3>2
  <2> QED
    BY <2>2, <2>3
<1>5. \A m \in DOMAIN f \ {d, n} : g[m] = f[m]
  BY DEF Shrinks
<1> QED
  BY <1>1, <1>4, <1>5 DEF Kept

(* ... or new contents of a file. *)
LEMMA WritesKept ==
  ASSUME NEW f, Well(f), NEW n \in DOMAIN f \ DirsOf(f), NEW x \in FileNode, NEW g, g = [f EXCEPT ![n] = x]
  PROVE  Kept(f, g)
<1>1. f[n].kind = "file" /\ x.kind = "file"
  BY DEF Well, Typed, DirsOf, DirNode, FileNode
<1>2. g[n] = x /\ \A m \in DOMAIN f \ {n} : g[m] = f[m]
  OBVIOUS
<1> QED
  BY <1>1, <1>2 DEF Kept
-----------------------------------------------------------------------------
(* The inductive invariant: the nodes make up a tree, and their blocks are  *)
(* all there are.                                                           *)
FSInv == Well(node) /\ blocks = Held(node)

(* Every node but the root is an entry. *)
LEMMA WellHolds ==
  ASSUME NEW f, Well(f), NEW m \in DOMAIN f \ {Root}
  PROVE  \E d \in DirsOf(f) : \E i \in DOMAIN f[d].entries : f[d].entries[i].node = m
<1> SUFFICES ASSUME \A d \in DirsOf(f) : \A i \in DOMAIN f[d].entries : f[d].entries[i].node # m
             PROVE  FALSE
  OBVIOUS
<1>1. Closed(f, DOMAIN f \ {m})
  BY DEF Closed, Well, Rooted, Listed, DirsOf
<1> QED
  BY <1>1 DEF Well, Reached

(* No node points to one that is gone. *)
LEMMA WellIsDefined == Well(node) => Defined /\ Dirs = DirsOf(node)
<1> SUFFICES ASSUME Well(node) PROVE Defined /\ Dirs = DirsOf(node)
  OBVIOUS
<1>1. Dirs = DirsOf(node)
  BY DEF Dirs, DirsOf, IsDir
<1>2. Root \in DOMAIN node /\ Root \in DirsOf(node)
  BY DEF Well, Rooted, DirsOf
<1>3. \A d \in DirsOf(node) : \A i \in DOMAIN node[d].entries : node[d].entries[i].node \in DOMAIN node
  BY DEF Well, Listed
<1>4. ASSUME NEW m \in DOMAIN node \ {Root}
      PROVE  \E d \in DirsOf(node) : \E i \in DOMAIN node[d].entries : node[d].entries[i].node = m
  BY WellHolds
<1>5. ASSUME NEW m \in DirsOf(node) PROVE node[m].parent \in DOMAIN node \cup {NULL}
  <2>1. CASE m = Root
    BY <2>1 DEF Well, Rooted
  <2>2. CASE m # Root
    <3>1. m \in DOMAIN node /\ node[m].kind = "dir"
      BY DEF DirsOf
    <3>2. PICK d \in DirsOf(node) : \E i \in DOMAIN node[d].entries : node[d].entries[i].node = m
      BY <1>4, <2>2, <3>1
    <3>3. node[m].parent = d
      BY <3>1, <3>2 DEF Well, Listed
    <3> QED
      BY <3>3 DEF DirsOf
  <2> QED
    BY <2>1, <2>2
<1> QED
  BY <1>1, <1>2, <1>3, <1>5 DEF Defined, Dirs

(* What get_filename returns is one of the names. *)
LEMMA FilenameNamed == ASSUME NEW path \in Paths PROVE Filename(path) \in Names
<1>1. path \in Seq(STRING) /\ path # <<>>
  BY SkullFSAssumption
<1>2. Len(path) \in Nat \ {0} /\ DOMAIN path = 1 .. Len(path)
  BY <1>1, EmptySeq, LenProperties
<1>3. path[Len(path)] \in ToSet(path)
  BY <1>2 DEF ToSet
<1> QED
  BY <1>3 DEF Names, Filename, Last

(* What there is of a node that a command makes. *)
LEMMA NewNodes ==
  /\ NewFile \in FileNode /\ Fit(NewFile) /\ BlocksOf(NewFile) = 1 /\ NewFile.data = NULL
  /\ \A d : NewDir(d).kind = "dir" /\ BlocksOf(NewDir(d)) = 2
  /\ \A x \in FileNode : BlocksOf(x) = 1 + DataBlocks(x) /\ DataBlocks(x) \in Nat
<1>1. NewFile \in FileNode /\ Fit(NewFile) /\ NewFile.data = NULL /\ NewFile.kind = "file"
  BY DEF NewFile, FileNode, Fit
<1>2. BlocksOf(NewFile) = 1
  BY <1>1 DEF BlocksOf, DataBlocks
<1>3. ASSUME NEW d PROVE NewDir(d).kind = "dir" /\ BlocksOf(NewDir(d)) = 2
  <2>1. NewDir(d).kind = "dir" /\ Len(NewDir(d).entries) = 0
    BY EmptySeq DEF NewDir
  <2> QED
    BY <2>1 DEF BlocksOf
<1>4. ASSUME NEW x \in FileNode PROVE BlocksOf(x) = 1 + DataBlocks(x) /\ DataBlocks(x) \in Nat
  <2>1. x.kind = "file"
    BY DEF FileNode
  <2> QED
    BY <2>1 DEF BlocksOf, DataBlocks
<1> QED
  BY <1>1, <1>2, <1>3, <1>4

(* What a command does to the nodes: one more, with its entry, ... *)
Made(d, x) == x = NewDir(d) \/ x = NewFile \/ \E text \in Texts : x = Written(NewFile, text)
Grow ==
  \E d \in DirsOf(node), n \in Addresses \ DOMAIN node, name \in Names : \E x :
    /\ Made(d, x)
    /\ \A i \in DOMAIN node[d].entries : node[d].entries[i].name # name
    /\ Grows(node, node', d, name, n, x)

(* ... one less, that holds nothing, with its entry, ... *)
Shrink ==
  \E d \in DirsOf(node), n \in DOMAIN node : \E k \in DOMAIN node[d].entries :
    /\ n # d /\ node[d].entries[k].node = n
    /\ n \in DirsOf(node) => node[n].entries = <<>>
    /\ Shrinks(node, node', d, k, n)

(* ... or another text in a file; or nothing. *)
Change ==
  \E n \in DOMAIN node \ DirsOf(node), text \in Texts :
    node' = [node EXCEPT ![n] = Written(node[n], text)]

(* What it comes to: one of these, and the invariant again. *)
Does == UNCHANGED node \/ Grow \/ Shrink \/ Change
Proceeds == FSInv' /\ Does

(* The node of a create is a file that fits its buffer, or a directory. *)
LEMMA MadeFits ==
  ASSUME NEW d, NEW x, Made(d, x)
  PROVE  (x \in FileNode /\ Fit(x)) \/ x = NewDir(d)
  BY NewNodes, WrittenFits DEF Made

(* skullfs_create_file and skullfs_create_dir: both put a node in a         *)
(* directory that has no other of the name.                                 *)
LEMMA CreateKeepsInv ==
  ASSUME FSInv, NEW d \in DOMAIN node, NEW name \in Names, CanCreate(d, name),
         NEW n \in Free, NEW x, Made(d, x),
         node' = AddEntry(With(n, x), d, name, n), blocks' = blocks + BlocksOf(x) + 1
  PROVE  Proceeds
<1>0. (x \in FileNode /\ Fit(x)) \/ x = NewDir(d)
  BY MadeFits
<1>1. Typed(node) /\ Well(node) /\ d \in DirsOf(node) /\ IsDir(d) /\ n \in Addresses \ DOMAIN node
  BY DEF FSInv, Well, CanCreate, IsDir, DirsOf, Free
<1>2. name \notin {".", ".."} /\ \A i \in DOMAIN node[d].entries : node[d].entries[i].name # name
  BY <1>1, LookupFinds DEF CanCreate
<1>3. Grows(node, node', d, name, n, x)
  BY <1>1, <1>2, AddGrows
<1>4. Well(node')
  BY <1>0, <1>1, <1>2, <1>3, GrowsWell
<1>5. Held(node') = Held(node) + BlocksOf(x) + 1
  BY <1>0, <1>1, <1>3, <1>4, GrowsHeld DEF Well
<1>6. Does
  BY <1>1, <1>2, <1>3 DEF Does, Grow
<1> QED
  BY <1>4, <1>5, <1>6 DEF FSInv, Proceeds

(* A command that was refused memory gives back all it got. *)
LEMMA CountIsNat == FSInv => blocks \in Nat
  BY BlocksCounted DEF FSInv, Well

(* What leaves nodes and blocks alone keeps the invariant. *)
LEMMA RefusedKeepsInv == FSInv /\ UNCHANGED <<node, blocks>> => Proceeds
  BY DEF FSInv, Does, Proceeds

(* mkdir, done or refused. *)
LEMMA MkdirKeepsInv ==
  ASSUME FSInv, NEW path \in Paths, Mkdir(path)
  PROVE  Proceeds
<1>1. PICK d \in DOMAIN node :
        \/ \E n \in Free : CreateDir(d, Filename(path), n)
        \/ CreateDirFails(d, Filename(path))
  BY DEF Mkdir
<1>2. ASSUME NEW n \in Free, CreateDir(d, Filename(path), n) PROVE Proceeds
  <2>1. blocks' = blocks + BlocksOf(NewDir(d)) + 1
    BY <1>2, CountIsNat, NewNodes DEF CreateDir
  <2> QED
    BY <1>2, <2>1, CreateKeepsInv, FilenameNamed DEF CreateDir, Made
<1>3. CASE CreateDirFails(d, Filename(path))
  <2>1. blocks' = blocks
    BY <1>3, CountIsNat DEF CreateDirFails, UndoDir
  <2> QED
    BY <1>3, <2>1, RefusedKeepsInv DEF CreateDirFails
<1> QED
  BY <1>1, <1>2, <1>3

(* A file that is refused memory. *)
LEMMA CreateFileFailsKeepsInv ==
  ASSUME FSInv, NEW d, NEW name, CreateFileFails(d, name)
  PROVE  Proceeds
<1>1. blocks' = blocks
  BY CountIsNat DEF CreateFileFails, UndoFile
<1> QED
  BY <1>1, RefusedKeepsInv DEF CreateFileFails

(* A new file, empty or with its first data. *)
LEMMA CreateFileKeepsInv ==
  ASSUME FSInv, NEW path \in Paths, NEW d \in DOMAIN node, NEW n \in Free,
         NEW x \in FileNode, Made(d, x), CreateFile(d, Filename(path), n, x),
         blocks' = blocks + 2 + DataBlocks(x)
  PROVE  Proceeds
<1>1. blocks' = blocks + BlocksOf(x) + 1
  BY CountIsNat, NewNodes
<1> QED
  BY <1>1, CreateKeepsInv, FilenameNamed DEF CreateFile

(* touch, done or refused. *)
LEMMA TouchKeepsInv ==
  ASSUME FSInv, NEW path \in Paths, Touch(path)
  PROVE  Proceeds
<1>1. PICK d \in DOMAIN node :
        \/ (\E n \in Free : CreateFile(d, Filename(path), n, NewFile)) /\ blocks' = blocks + 2
        \/ CreateFileFails(d, Filename(path))
  BY DEF Touch
<1>2. ASSUME NEW n \in Free, CreateFile(d, Filename(path), n, NewFile), blocks' = blocks + 2
      PROVE  Proceeds
  <2>1. DataBlocks(NewFile) = 0
    BY NewNodes DEF DataBlocks
  <2>2. blocks' = blocks + 2 + DataBlocks(NewFile)
    BY <1>2, <2>1, CountIsNat
  <2> QED
    BY <1>2, <2>2, NewNodes, CreateFileKeepsInv DEF Made
<1> QED
  BY <1>1, <1>2, CreateFileFailsKeepsInv

(* write to a file that is not there yet, which may remain empty. *)
LEMMA WriteNewKeepsInv ==
  ASSUME FSInv, NEW path \in Paths, NEW text \in Texts, WriteNew(path, text)
  PROVE  Proceeds
<1>1. PICK d \in DOMAIN node :
        \/ \E n \in Free, x \in {NewFile, Written(NewFile, text)} :
             CreateFile(d, Filename(path), n, x) /\ blocks' = blocks + 2 + DataBlocks(x)
        \/ CreateFileFails(d, Filename(path))
  BY DEF WriteNew
<1>2. ASSUME NEW n \in Free, NEW x \in {NewFile, Written(NewFile, text)},
             CreateFile(d, Filename(path), n, x), blocks' = blocks + 2 + DataBlocks(x)
      PROVE  Proceeds
  <2>1. x \in FileNode /\ Made(d, x)
    BY NewNodes, WrittenFits DEF Made
  <2> QED
    BY <1>2, <2>1, CreateFileKeepsInv
<1> QED
  BY <1>1, <1>2, CreateFileFailsKeepsInv

(* write to a file that is there: it keeps its entry, and has as many       *)
(* blocks more as its data takes.                                           *)
LEMMA WriteOldKeepsInv ==
  ASSUME FSInv, NEW path, NEW text \in Texts, WriteOld(path, text)
  PROVE  Proceeds
<1>1. PICK f \in DOMAIN node :
        /\ ~IsDir(f)
        /\ \/ /\ node' = [node EXCEPT ![f] = Written(@, text)]
              /\ blocks' = blocks + DataBlocks(Written(node[f], text)) - DataBlocks(node[f])
           \/ WriteFails(node[f], text) /\ UNCHANGED node
  BY DEF WriteOld
<1>2. node[f] \in FileNode /\ Fit(node[f]) /\ f \in DOMAIN node \ DirsOf(node) /\ Well(node) /\ Typed(node)
  BY <1>1 DEF FSInv, Well, Typed, IsDir, DirNode, DirsOf
<1>3. CASE /\ node' = [node EXCEPT ![f] = Written(@, text)]
           /\ blocks' = blocks + DataBlocks(Written(node[f], text)) - DataBlocks(node[f])
  <2> DEFINE x == Written(node[f], text)
  <2>1. x \in FileNode /\ Fit(x)
    BY <1>2, WrittenFits
  <2>2. node' = [node EXCEPT ![f] = x]
    BY <1>3
  <2> HIDE DEF x
  <2>3. Well(node')
    BY <1>2, <2>1, <2>2, WritesWell
  <2>4. Held(node') = Held(node) + BlocksOf(x) - BlocksOf(node[f])
    <3>1. node'[f] = x /\ DOMAIN node' = DOMAIN node /\ \A m \in DOMAIN node \ {f} : node'[m] = node[m]
      BY <2>2
    <3> QED
      BY <1>2, <2>3, <3>1, HeldChanged DEF Well
  <2>5. BlocksOf(x) = 1 + DataBlocks(x) /\ BlocksOf(node[f]) = 1 + DataBlocks(node[f])
        /\ DataBlocks(x) \in Nat /\ DataBlocks(node[f]) \in Nat
    BY <1>2, <2>1, NewNodes
  <2>6. blocks' = blocks + DataBlocks(x) - DataBlocks(node[f])
    BY <1>3 DEF x
  <2>7. blocks' = Held(node')
    BY <2>4, <2>5, <2>6, CountIsNat DEF FSInv
  <2>8. Does
    BY <1>2, <2>2 DEF Does, Change, x
  <2> QED
    BY <2>3, <2>7, <2>8 DEF FSInv, Proceeds
<1>4. CASE WriteFails(node[f], text) /\ UNCHANGED node
  <2>1. blocks' = blocks
    BY <1>4, CountIsNat DEF WriteFails, UndoWrite
  <2> QED
    BY <1>4, <2>1, RefusedKeepsInv
<1> QED
  BY <1>1, <1>3, <1>4

(* rm, of a file or of a directory that has no entries. *)
LEMMA RmKeepsInv ==
  ASSUME FSInv, NEW path \in Paths, Rm(path), Careful(path)
  PROVE  Proceeds
<1>1. PICK d \in DOMAIN node, n \in DOMAIN node :
        /\ d = ParentDir(path) /\ IsDir(d)
        /\ n = Lookup(d, Filename(path))
        /\ ~(IsDir(n) /\ NotEmpty(n))
        /\ Delete(d, Filename(path), n)
  BY DEF Rm
<1>2. Filename(path) \notin {".", ".."} /\ (IsDir(n) => Len(node[n].entries) \notin 1 .. 2)
  BY <1>1 DEF Careful
<1>3. Typed(node) /\ Well(node) /\ d \in DirsOf(node)
      /\ node[d].num_entries = Len(node[d].entries)
  BY <1>1 DEF FSInv, Well, Listed, DirsOf, IsDir
<1>4. n \in DirsOf(node) => node[n].entries = <<>>
  <2> SUFFICES ASSUME n \in DirsOf(node) PROVE node[n].entries = <<>>
    OBVIOUS
  <2>1. node[n].num_entries = Len(node[n].entries) /\ Len(node[n].entries) \in Nat
        /\ node[n].entries \in Seq(Entry)
    BY <1>3, DirTyped DEF Well, Listed, DirNode
  <2>2. Len(node[n].entries) = 0
    <3>1. IsDir(n)
      BY DEF DirsOf, IsDir
    <3>2. Len(node[n].entries) \notin 1 .. 2 /\ ~(node[n].num_entries > 2)
      BY <1>1, <1>2, <3>1 DEF NotEmpty
    <3>3. PICK l \in Nat : l = Len(node[n].entries)
      BY <2>1
    <3>4. l \notin 1 .. 2 /\ ~(l > 2)
      BY <2>1, <3>2, <3>3
    <3>5. l = 0
      BY <3>4
    <3> QED
      BY <3>3, <3>5
  <2>3. PICK s \in Seq(Entry) : s = node[n].entries
    BY <2>1
  <2>4. Len(s) = 0
    BY <2>2, <2>3
  <2>5. s = <<>>
    BY <2>4, EmptySeq
  <2> QED
    BY <2>3, <2>5
<1>5. n # d
  <2> SUFFICES ASSUME n = d PROVE FALSE
    OBVIOUS
  <2>1. n # NULL
    BY <1>3, NullIsNoText DEF Typed
  <2>2. \E i \in DOMAIN node[d].entries : TRUE
    BY <1>1, <1>2, <1>3, <2>1, LookupFinds
  <2>3. node[d].entries = <<>>
    BY <1>3, <1>4
  <2> QED
    BY <2>2, <2>3, EmptySeq
<1>6. /\ \E k \in DOMAIN node[d].entries :
           /\ node[d].entries[k] = [name |-> Filename(path), node |-> n]
           /\ Shrinks(node, node', d, k, n)
      /\ blocks' = blocks - BlocksOf(node[n]) - 1
  BY <1>1, <1>2, <1>3, <1>5, DeleteShrinks
<1>7. PICK k \in DOMAIN node[d].entries :
        node[d].entries[k].node = n /\ Shrinks(node, node', d, k, n)
  BY <1>6
<1>8. Well(node')
  BY <1>1, <1>3, <1>4, <1>5, <1>7, ShrinksWell
<1>9. Held(node') = Held(node) - BlocksOf(node[n]) - 1
  BY <1>1, <1>3, <1>5, <1>7, <1>8, ShrinksHeld DEF Well
<1>10. Does
  BY <1>3, <1>4, <1>5, <1>7 DEF Does, Shrink
<1> QED
  BY <1>6, <1>8, <1>9, <1>10 DEF FSInv, Proceeds

(* Every command on a path keeps the invariant. *)
LEMMA CarefulNextKeepsInv == ASSUME FSInv, CarefulNext PROVE Proceeds
<1>1. PICK path \in Paths :
        \/ Mkdir(path)
        \/ Touch(path)
        \/ Rm(path) /\ Careful(path)
        \/ \E text \in Texts : WriteOld(path, text) \/ WriteNew(path, text)
  BY DEF CarefulNext
<1> QED
  BY <1>1, MkdirKeepsInv, TouchKeepsInv, RmKeepsInv, WriteOldKeepsInv, WriteNewKeepsInv

(* ... and so does every command of the shell that changes the files. *)
LEMMA FileCommandKeepsInv == ASSUME FSInv, FileCommand PROVE Proceeds
<1>1. CASE SaveConfig
  <2>1. <<ConfigFile>> \in Paths /\ ConfigText \in Texts
    BY WorkingDirAssumption
  <2> QED
    BY <1>1, <2>1, WriteOldKeepsInv, WriteNewKeepsInv DEF SaveConfig
<1> QED
  BY <1>1, CarefulNextKeepsInv DEF FileCommand

(* Whatever a command does, the nodes that stay are as they were. *)
LEMMA DoesKeep == ASSUME FSInv, Does PROVE Kept(node, node')
<1>0. Well(node)
  BY DEF FSInv
<1>1. CASE UNCHANGED node
  BY <1>1 DEF Kept
<1>2. CASE Grow
  BY <1>0, <1>2, GrowsKept DEF Grow
<1>3. CASE Shrink
  <2>1. PICK d \in DirsOf(node), n \in DOMAIN node :
          \E k \in DOMAIN node[d].entries :
            n # d /\ node[d].entries[k].node = n /\ Shrinks(node, node', d, k, n)
    BY <1>3 DEF Shrink
  <2> QED
    BY <1>0, <2>1, ShrinksKept
<1>4. CASE Change
  <2>1. PICK n \in DOMAIN node \ DirsOf(node), text \in Texts :
          node' = [node EXCEPT ![n] = Written(node[n], text)]
    BY <1>4 DEF Change
  <2>2. node[n] \in FileNode /\ Fit(node[n])
    BY <1>0 DEF Well, Typed, DirNode, DirsOf
  <2>3. PICK x \in FileNode : x = Written(node[n], text)
    BY <2>2, WrittenFits
  <2> QED
    BY <1>0, <2>1, <2>3, WritesKept
<1> QED
  BY <1>1, <1>2, <1>3, <1>4 DEF Does

(* cd leaves the files alone. *)
LEMMA ShellKeepsInv == ASSUME FSInv, [ShellNext]_shellVars PROVE FSInv'
<1>1. CASE CdHome
  BY <1>1, RefusedKeepsInv DEF CdHome, vars, Proceeds
<1>2. ASSUME NEW arg \in Args, Cd(arg) PROVE FSInv'
  BY <1>2, RefusedKeepsInv DEF Cd, vars, Proceeds
<1>3. CASE FileCommand
  BY <1>3, FileCommandKeepsInv DEF Proceeds
<1>4. CASE UNCHANGED shellVars
  BY <1>4, RefusedKeepsInv DEF shellVars, vars, Proceeds
<1> QED
  BY <1>1, <1>2, <1>3, <1>4 DEF ShellNext
-----------------------------------------------------------------------------
(* What is there at first: directories, all of them but the root empty, with *)
(* the names of default_dirs as the entries of the root.                     *)
AtFirst ==
  /\ \A n \in DOMAIN node : node[n].kind = "dir" /\ (n # Root => node[n].entries = <<>>)
  /\ {node[Root].entries[i].name : i \in DOMAIN node[Root].entries} = ToSet(DefaultDirs)

(* skullfs_init: the default directories are entries of the root, and of     *)
(* nothing else; the blocks taken are theirs.                                *)
LEMMA InitInv == Init => FSInv /\ AtFirst
<1> SUFFICES ASSUME Init PROVE FSInv /\ AtFirst
  OBVIOUS
<1> DEFINE D == DefaultDirs
           T == ToSet(D)
<1>1. PICK at \in Injection(T, Addresses \ {Root}) :
        /\ node = [n \in {Root} \cup Range(at) |->
                     IF n # Root THEN NewDir(Root)
                     ELSE [NewDir(NULL) EXCEPT
                             !.entries = Reverse([i \in DOMAIN D |->
                                            [name |-> D[i], node |-> at[D[i]]]]),
                             !.num_entries = Len(D)]]
        /\ blocks = 2 + 3 * Len(D)
  BY DEF Init
<1>2. D \in Seq(STRING \ {".", ".."}) /\ (\A i, j \in DOMAIN D : D[i] = D[j] => i = j)
  BY SkullFSAssumption DEF IsInjective
<1>3. PICK l \in Nat : l = Len(D) /\ DOMAIN D = 1 .. l
  BY <1>2, LenProperties
<1>4. \A i \in 1 .. l : D[i] \in T /\ D[i] \in Names \ {".", ".."}
  <2>1. \A i \in 1 .. l : D[i] \in STRING \ {".", ".."}
    BY <1>2, <1>3, ElementOfSeq
  <2>2. \A i \in 1 .. l : D[i] \in ToSet(D)
    BY <1>3 DEF ToSet
  <2>3. ToSet(D) \subseteq Names
    BY DEF Names
  <2>4. \A i \in 1 .. l : D[i] \in Names
    BY <2>2, <2>3
  <2>5. \A i \in 1 .. l : D[i] \notin {".", ".."}
    BY <2>1
  <2> QED
    BY <2>2, <2>4, <2>5
<1>5. T = {D[i] : i \in 1 .. l}
  BY <1>3 DEF ToSet
<1>6. /\ at \in [T -> Addresses \ {Root}]
      /\ \A a, b \in T : at[a] = at[b] => a = b
  BY DEF Injection, IsInjective
<1> HIDE DEF D, T
<1> DEFINE e(i) == [name |-> D[(l - i) + 1], node |-> at[D[(l - i) + 1]]]
           E == [i \in 1 .. l |-> e(i)]
<1>7. \A i \in 1 .. l : (l - i) + 1 \in 1 .. l /\ e(i) \in Entry
  BY <1>4, <1>6 DEF Entry
<1>8. E \in Seq(Entry) /\ Len(E) = l /\ DOMAIN E = 1 .. l
  <2>1. E \in [1 .. l -> Entry]
    BY <1>7
  <2>2. E \in Seq(Entry)
    <3> HIDE DEF E
    <3> QED
      BY <2>1, SeqDef
  <2>3. DOMAIN E = 1 .. l
    OBVIOUS
  <2> HIDE DEF E
  <2>4. Len(E) \in Nat /\ DOMAIN E = 1 .. Len(E)
    BY <2>2, LenProperties
  <2> QED
    BY <2>2, <2>3, <2>4
<1>9. Reverse([i \in DOMAIN D |-> [name |-> D[i], node |-> at[D[i]]]]) = E
  <2> DEFINE s == [i \in 1 .. l |-> [name |-> D[i], node |-> at[D[i]]]]
  <2>1. s \in Seq(Entry)
    <3>1. s \in [1 .. l -> Entry]
      BY <1>4, <1>6 DEF Entry
    <3> HIDE DEF s
    <3> QED
      BY <3>1, SeqDef
  <2>2. Len(s) = l
    <3>1. DOMAIN s = 1 .. l
      OBVIOUS
    <3> HIDE DEF s
    <3>2. Len(s) \in Nat /\ DOMAIN s = 1 .. Len(s)
      BY <2>1, LenProperties
    <3> QED
      BY <3>1, <3>2
  <2>3. \A i \in 1 .. l : s[(l - i) + 1] = e(i)
    BY <1>7
  <2>4. Reverse(s) = E
    BY <2>2, <2>3 DEF Reverse
  <2> QED
    BY <1>3, <2>4
<1> DEFINE root == [kind |-> "dir", entries |-> E, num_entries |-> l, parent |-> NULL]
<1>10. /\ DOMAIN node = {Root} \cup Range(at)
       /\ node[Root] = root
       /\ \A n \in Range(at) : node[n] = NewDir(Root)
       /\ Root \notin Range(at) /\ Range(at) \subseteq Addresses
  <2>1. Root \notin Range(at) /\ Range(at) \subseteq Addresses
    BY <1>6 DEF Range
  <2>2. DOMAIN node = {Root} \cup Range(at) /\ \A n \in Range(at) : node[n] = NewDir(Root)
    BY <1>1, <2>1
  <2>3. node[Root] = [NewDir(NULL) EXCEPT !.entries = E, !.num_entries = l]
    BY <1>1, <1>3, <1>9
  <2> HIDE DEF E
  <2>4. node[Root] = root
    BY <2>3 DEF NewDir
  <2> QED
    BY <2>1, <2>2, <2>4
<1>11. \A i \in 1 .. l : E[i] = e(i) /\ E[i].name = D[(l - i) + 1] /\ E[i].node = at[D[(l - i) + 1]]
                         /\ E[i].node \in Range(at)
  BY <1>4, <1>6, <1>7 DEF Range
<1>12. \A n \in Range(at) : \E i \in 1 .. l : E[i].node = n
  <2> SUFFICES ASSUME NEW n \in Range(at) PROVE \E i \in 1 .. l : E[i].node = n
    OBVIOUS
  <2>1. PICK a \in T : n = at[a]
    BY <1>6 DEF Range
  <2>2. PICK j \in 1 .. l : a = D[j]
    BY <1>5
  <2>3. (l - j) + 1 \in 1 .. l /\ (l - ((l - j) + 1)) + 1 = j
    OBVIOUS
  <2>4. E[(l - j) + 1].node = at[D[j]]
    BY <1>11, <2>3
  <2> QED
    BY <2>1, <2>2, <2>3, <2>4
<1>13. \A i, j \in 1 .. l : E[i].name = E[j].name \/ E[i].node = E[j].node => i = j
  <2> SUFFICES ASSUME NEW i \in 1 .. l, NEW j \in 1 .. l, E[i].name = E[j].name \/ E[i].node = E[j].node
               PROVE  i = j
    OBVIOUS
  <2>1. D[(l - i) + 1] = D[(l - j) + 1]
    BY <1>4, <1>6, <1>7, <1>11
  <2>2. (l - i) + 1 = (l - j) + 1
    BY <1>2, <1>3, <1>7, <2>1
  <2> QED
    BY <2>2
<1> HIDE DEF E
<1>14. root.kind = "dir" /\ root.entries = E /\ root.num_entries = l /\ root.parent = NULL /\ root \in DirNode
  BY <1>8 DEF DirNode
<1> HIDE DEF root
<1>15. NewDir(Root) \in DirNode /\ NewDir(Root).kind = "dir" /\ NewDir(Root).entries = <<>>
       /\ NewDir(Root).num_entries = 0 /\ NewDir(Root).parent = Root
  BY SkullFSAssumption, EmptySeq DEF NewDir, DirNode
<1>16. DirsOf(node) = DOMAIN node
  BY <1>10, <1>14, <1>15 DEF DirsOf
<1>17. \A d \in DOMAIN node : d # Root => DOMAIN node[d].entries = {}
  BY <1>10, <1>15
<1>18. Typed(node)
  BY <1>10, <1>14, <1>15, SkullFSAssumption DEF Typed
<1>19. Rooted(node)
  BY <1>10, <1>14, <1>16 DEF Rooted
<1>20. Listed(node)
  <2> SUFFICES ASSUME NEW d \in DOMAIN node
               PROVE  /\ node[d].num_entries = Len(node[d].entries)
                      /\ \A i, j \in DOMAIN node[d].entries :
                           node[d].entries[i].name = node[d].entries[j].name => i = j
                      /\ \A i \in DOMAIN node[d].entries :
                           /\ node[d].entries[i].node \in DOMAIN node \ {Root}
                           /\ node[node[d].entries[i].node].kind = "dir" => node[node[d].entries[i].node].parent = d
    BY <1>16 DEF Listed
  <2>1. CASE d = Root
    BY <1>8, <1>10, <1>11, <1>13, <1>14, <1>15, <2>1
  <2>2. CASE d # Root
    <3>1. node[d] = NewDir(Root)
      BY <1>10, <2>2
    <3>2. node[d].num_entries = Len(node[d].entries)
      BY <1>15, <3>1, EmptySeq
    <3> QED
      BY <1>17, <2>2, <3>2
  <2> QED
    BY <2>1, <2>2
<1>21. Once(node)
  <2> SUFFICES ASSUME NEW c \in DOMAIN node, NEW d \in DOMAIN node,
                      NEW i \in DOMAIN node[c].entries, NEW j \in DOMAIN node[d].entries,
                      node[c].entries[i].node = node[d].entries[j].node
               PROVE  c = d /\ i = j
    BY <1>16 DEF Once
  <2>1. c = Root /\ d = Root
    BY <1>17
  <2>2. i \in 1 .. l /\ j \in 1 .. l /\ E[i].node = E[j].node
    BY <1>8, <1>10, <1>14, <2>1
  <2> QED
    BY <1>13, <2>1, <2>2
<1>22. Reached(node)
  <2> SUFFICES ASSUME NEW S \in SUBSET DOMAIN node, Closed(node, S) PROVE S = DOMAIN node
    BY DEF Reached
  <2>1. Root \in S
    BY DEF Closed
  <2>2. \A i \in 1 .. l : E[i].node \in S
    BY <1>8, <1>10, <1>14, <1>16, <2>1 DEF Closed
  <2> QED
    BY <1>10, <1>12, <2>1, <2>2
<1>23. blocks = Held(node)
  <2> DEFINE R == Range(at)
             b == BlocksIn(node)
  <2>1. R = DOMAIN node \ {Root} /\ Root \in DOMAIN node
    BY <1>10
  <2>2. IsFiniteSet(R) /\ Cardinality(R) = l
    <3> DEFINE h == [i \in 1 .. l |-> E[i].node]
    <3>1. h \in [1 .. l -> R] /\ \A i, j \in 1 .. l : h[i] = h[j] => i = j
      BY <1>11, <1>13
    <3>2. \A n \in R : \E i \in 1 .. l : h[i] = n
      BY <1>12
    <3>3. DOMAIN h = 1 .. l
      OBVIOUS
    <3> HIDE DEF h, R
    <3>4. h \in Bijection(1 .. l, R)
      BY <3>1, <3>2, <3>3 DEF Bijection, Injection, Surjection, IsInjective
    <3>5. ExistsBijection(1 .. l, R)
      BY <3>4 DEF ExistsBijection
    <3> QED
      BY <3>5, FS_NatBijection, FS_CountingElements
  <2>3. BlocksOf(node[Root]) = 2 + l
    BY <1>8, <1>10, <1>14 DEF BlocksOf
  <2>4. Held(node) = BlocksOf(node[Root]) + SumFunctionOnSet(b, R)
    BY <1>18, <2>1, HeldFirst
  <2>5. \A n \in R : b[n] = 2
    BY <1>10, NewNodes DEF BlocksIn
  <2>6. SumFunctionOnSet(b, R) = 2 * l
    <3> HIDE DEF R, b
    <3> QED
      BY <2>2, <2>5, SumOfEquals
  <2> HIDE DEF R, b
  <2>7. Held(node) = (2 + l) + 2 * l
    BY <2>3, <2>4, <2>6
  <2>8. blocks = 2 + 3 * l
    BY <1>1, <1>3
  <2> QED
    BY <2>7, <2>8
<1>24. AtFirst
  <2>1. \A n \in DOMAIN node : node[n].kind = "dir" /\ (n # Root => node[n].entries = <<>>)
    BY <1>10, <1>14, <1>15
  <2>2. {E[i].name : i \in 1 .. l} = T
    <3>1. \A i \in 1 .. l : E[i].name \in T
      BY <1>4, <1>7, <1>11
    <3>2. ASSUME NEW c \in T PROVE \E i \in 1 .. l : E[i].name = c
      <4>1. PICK j \in 1 .. l : c = D[j]
        BY <1>5
      <4>2. (l - j) + 1 \in 1 .. l /\ (l - ((l - j) + 1)) + 1 = j
        OBVIOUS
      <4> QED
        BY <1>11, <4>1, <4>2
    <3> QED
      BY <3>1, <3>2
  <2>3. DOMAIN node[Root].entries = 1 .. l /\ node[Root].entries = E
    BY <1>8, <1>10, <1>14
  <2> QED
    BY <2>1, <2>2, <2>3 DEF AtFirst, D, T
<1> QED
  BY <1>18, <1>19, <1>20, <1>21, <1>22, <1>23, <1>24 DEF FSInv, Well
-----------------------------------------------------------------------------
(* Every live node is found on some path from the root, and none on more    *)
(* than there can be nodes. *)
Deepest == Cardinality(Addresses)
Under(S) == UNION {{<<Append(x[1], e.name), e.node>> : e \in EntriesOf(x[2])}
                     : x \in {y \in S : IsDir(y[2])}}
IsBelow(b) ==
  b = [k \in 0 .. Deepest |-> IF k = 0 THEN {<<<<>>, Root>>} ELSE Under(b[k - 1])]

(* There is an address, that of the root. *)
LEMMA SomeAddresses == Deepest \in Nat \ {0}
<1>1. IsFiniteSet(Addresses) /\ Root \in Addresses
  BY SkullFSAssumption
<1>2. Cardinality(Addresses) \in Nat /\ Cardinality(Addresses) # 0
  BY <1>1, FS_CardinalityType, FS_EmptySet
<1> QED
  BY <1>2 DEF Deepest

(* The recursion has a solution. *)
LEMMA BelowIs == IsBelow(Below)
<1> DEFINE First == {<<<<>>, Root>>}
           Step(b, k) == IF k = 0 THEN First ELSE Under(b[k - 1])
           Solved(n) == \E b : /\ b = [k \in 0 .. Deepest |-> b[k]]
                               /\ \A k \in 0 .. Deepest : k <= n => b[k] = Step(b, k)
           N == {n \in Nat : Solved(n)}
<1>0. Deepest \in Nat
  BY SomeAddresses
<1> HIDE DEF First
<1>1. 0 \in N
  <2> DEFINE b == [k \in 0 .. Deepest |-> First]
  <2>1. \A k \in 0 .. Deepest : k <= 0 => b[k] = Step(b, k)
    BY <1>0
  <2>2. b = [k \in 0 .. Deepest |-> b[k]]
    OBVIOUS
  <2> HIDE DEF b, Step
  <2>3. Solved(0)
    BY <2>1, <2>2
  <2> HIDE DEF Solved
  <2> QED
    BY <2>3
<1>2. ASSUME NEW n \in Nat, n \in N PROVE n + 1 \in N
  <2>1. PICK b : /\ b = [k \in 0 .. Deepest |-> b[k]]
                 /\ \A k \in 0 .. Deepest : k <= n => b[k] = Step(b, k)
    BY <1>2
  <2> DEFINE h == [k \in 0 .. Deepest |-> IF k <= n THEN b[k] ELSE Step(b, k)]
  <2>2. ASSUME NEW k \in 0 .. Deepest, k <= n + 1 PROVE h[k] = Step(h, k)
    <3>1. CASE k = 0
      BY <1>0, <2>1, <3>1
    <3>2. CASE k # 0
      <4>1. k - 1 \in 0 .. Deepest /\ k - 1 <= n
        BY <1>0, <2>2, <3>2
      <4>2. h[k - 1] = b[k - 1]
        BY <4>1
      <4>3. h[k] = Step(b, k)
        BY <2>1
      <4> HIDE DEF h
      <4> QED
        BY <3>2, <4>2, <4>3
    <3> QED
      BY <3>1, <3>2
  <2>3. h = [k \in 0 .. Deepest |-> h[k]]
    OBVIOUS
  <2> HIDE DEF h, Step
  <2>4. Solved(n + 1)
    BY <2>2, <2>3
  <2> HIDE DEF Solved
  <2> QED
    BY <2>4
<1>3. Deepest \in N
  <2> HIDE DEF N
  <2> QED
    BY <1>0, <1>1, <1>2, Inductive
<1>4. PICK b : b = [k \in 0 .. Deepest |-> b[k]] /\ \A k \in 0 .. Deepest : b[k] = Step(b, k)
  <2>1. PICK b : /\ b = [k \in 0 .. Deepest |-> b[k]]
                 /\ \A k \in 0 .. Deepest : k <= Deepest => b[k] = Step(b, k)
    BY <1>3
  <2>2. \A k \in 0 .. Deepest : k <= Deepest
    BY <1>0
  <2> HIDE DEF Step
  <2> QED
    BY <2>1, <2>2
<1>5. IsBelow(b)
  BY <1>4 DEF IsBelow, First
<1>6. Below = CHOOSE b1 : IsBelow(b1)
  BY DEF Below, IsBelow, Deepest, Under
<1> QED
  BY <1>5, <1>6

(* The nodes that are k names away from the root, or fewer. *)
Level(k) == {x[2] : x \in Below[k]}
Within(k) == UNION {Level(j) : j \in 0 .. k}

(* A level has the entries of the directories of the level above, and no    *)
(* others.                                                                  *)
LEMMA Levels ==
  ASSUME Well(node)
  PROVE  /\ Level(0) = {Root}
         /\ \A k \in 1 .. Deepest :
              /\ \A n \in Level(k) :
                   \E d \in Level(k - 1) \cap DirsOf(node) : \E i \in DOMAIN node[d].entries :
                     n = node[d].entries[i].node
              /\ \A d \in Level(k - 1) \cap DirsOf(node) : \A i \in DOMAIN node[d].entries :
                   node[d].entries[i].node \in Level(k)
         /\ \A k \in 0 .. Deepest : Level(k) \subseteq DOMAIN node
<1>0. Deepest \in Nat
  BY SomeAddresses
<1>1. \A k \in 0 .. Deepest : Below[k] = IF k = 0 THEN {<<<<>>, Root>>} ELSE Under(Below[k - 1])
  BY BelowIs DEF IsBelow
<1>2. Level(0) = {Root}
  <2>1. Below[0] = {<<<<>>, Root>>}
    BY <1>0, <1>1
  <2>2. \A x \in {<<<<>>, Root>>} : x[2] = Root
    OBVIOUS
  <2> QED
    BY <2>1, <2>2 DEF Level
<1>3. \A S : \A y \in Under(S) :
        \E x \in S : IsDir(x[2]) /\ \E e \in EntriesOf(x[2]) : y = <<Append(x[1], e.name), e.node>>
  BY DEF Under
<1>4. \A S : \A x \in S : IsDir(x[2]) =>
        \A e \in EntriesOf(x[2]) : <<Append(x[1], e.name), e.node>> \in Under(S)
  BY DEF Under
<1> DEFINE Up(k) == \A n \in Level(k) :
                      \E d \in Level(k - 1) : IsDir(d) /\ \E i \in DOMAIN node[d].entries :
                        n = node[d].entries[i].node
<1>5. ASSUME NEW k \in 1 .. Deepest PROVE Up(k)
  <2> SUFFICES ASSUME NEW n \in Level(k)
               PROVE  \E d \in Level(k - 1) : IsDir(d) /\ \E i \in DOMAIN node[d].entries :
                        n = node[d].entries[i].node
    OBVIOUS
  <2>1. PICK y \in Below[k] : n = y[2]
    BY DEF Level
  <2>2. y \in Under(Below[k - 1])
    BY <1>0, <1>1
  <2>3. PICK x \in Below[k - 1] : IsDir(x[2]) /\ \E e \in EntriesOf(x[2]) : y = <<Append(x[1], e.name), e.node>>
    BY <1>3, <2>2
  <2>4. PICK e \in EntriesOf(x[2]) : y = <<Append(x[1], e.name), e.node>>
    BY <2>3
  <2>5. n = e.node
    BY <2>1, <2>4
  <2>6. x[2] \in Level(k - 1)
    BY DEF Level
  <2> QED
    BY <2>3, <2>5, <2>6 DEF EntriesOf, ToSet
<1>6. ASSUME NEW k \in 1 .. Deepest, NEW d \in Level(k - 1), IsDir(d), NEW i \in DOMAIN node[d].entries
      PROVE  node[d].entries[i].node \in Level(k)
  <2>1. PICK x \in Below[k - 1] : d = x[2]
    BY DEF Level
  <2> DEFINE e == node[d].entries[i]
  <2>2. e \in EntriesOf(x[2])
    BY <2>1 DEF EntriesOf, ToSet
  <2> HIDE DEF e
  <2>3. <<Append(x[1], e.name), e.node>> \in Under(Below[k - 1])
    BY <1>4, <1>6, <2>1, <2>2
  <2>4. <<Append(x[1], e.name), e.node>> \in Below[k]
    BY <1>0, <1>1, <2>3
  <2>5. <<Append(x[1], e.name), e.node>>[2] \in Level(k)
    BY <2>4 DEF Level
  <2> QED
    BY <2>5 DEF e
<1> DEFINE T == {k \in Nat : k <= Deepest => Level(k) \subseteq DOMAIN node}
<1>7. 0 \in T
  BY <1>2 DEF Well, Rooted, DirsOf
<1>8. ASSUME NEW k \in Nat, k \in T PROVE k + 1 \in T
  <2> SUFFICES ASSUME k + 1 <= Deepest, NEW n \in Level(k + 1) PROVE n \in DOMAIN node
    OBVIOUS
  <2>1. k + 1 \in 1 .. Deepest /\ (k + 1) - 1 = k /\ Level(k) \subseteq DOMAIN node
    BY <1>0, <1>8
  <2>2. PICK d \in Level(k) : IsDir(d) /\ \E i \in DOMAIN node[d].entries : n = node[d].entries[i].node
    BY <1>5, <2>1
  <2>3. d \in DirsOf(node)
    BY <2>1, <2>2 DEF DirsOf, IsDir
  <2> QED
    BY <2>2, <2>3 DEF Well, Listed
<1>9. \A k \in 0 .. Deepest : Level(k) \subseteq DOMAIN node
  <2>1. Nat \subseteq T
    <3> HIDE DEF T
    <3> QED
      BY <1>7, <1>8, Inductive
  <2> QED
    BY <1>0, <2>1
<1>10. ASSUME NEW k \in 1 .. Deepest
       PROVE  \A n \in Level(k) :
                \E d \in Level(k - 1) \cap DirsOf(node) : \E i \in DOMAIN node[d].entries :
                  n = node[d].entries[i].node
  <2>1. k - 1 \in 0 .. Deepest
    BY <1>0
  <2>2. \A d \in Level(k - 1) : IsDir(d) => d \in DirsOf(node)
    BY <1>9, <2>1 DEF DirsOf, IsDir
  <2> QED
    BY <1>5, <2>2
<1>11. \A d \in DirsOf(node) : IsDir(d)
  BY DEF DirsOf, IsDir
<1> QED
  BY <1>2, <1>6, <1>9, <1>10, <1>11

(* A set of nodes that is not all of them lacks an entry of its own, so     *)
(* that each level adds a node until all are there. *)
LEMMA WithinGrows ==
  ASSUME Well(node), NEW k \in 0 .. (Deepest - 1)
  PROVE  /\ Within(k) \subseteq DOMAIN node
         /\ Within(k) = DOMAIN node \/ Cardinality(Within(k)) >= k + 1
<1>0. Deepest \in Nat \ {0}
  BY SomeAddresses
<1>1. \A j \in 0 .. Deepest : Level(j) \subseteq DOMAIN node
  BY Levels
<1>2. \A j \in 0 .. Deepest : Within(j) \subseteq DOMAIN node /\ Root \in Within(j) /\ IsFiniteSet(Within(j))
  <2> SUFFICES ASSUME NEW j \in 0 .. Deepest
               PROVE  Within(j) \subseteq DOMAIN node /\ Root \in Within(j) /\ IsFiniteSet(Within(j))
    OBVIOUS
  <2>1. Within(j) \subseteq DOMAIN node
    BY <1>0, <1>1 DEF Within
  <2>2. Root \in Within(j)
    <3>1. Root \in Level(0) /\ 0 \in 0 .. j
      BY <1>0, Levels
    <3> QED
      BY <3>1 DEF Within
  <2>3. IsFiniteSet(DOMAIN node)
    BY BlocksCounted DEF Well
  <2> QED
    BY <2>1, <2>2, <2>3, FS_Subset
<1> DEFINE Done(j) == Within(j) = DOMAIN node \/ Cardinality(Within(j)) >= j + 1
           T == {j \in Nat : j <= Deepest - 1 => Done(j)}
<1>3. 0 \in T
  <2>1. Within(0) # {} /\ IsFiniteSet(Within(0))
    BY <1>0, <1>2
  <2>2. Cardinality(Within(0)) \in Nat /\ Cardinality(Within(0)) # 0
    BY <2>1, FS_CardinalityType, FS_EmptySet
  <2> QED
    BY <2>2
<1>4. ASSUME NEW j \in Nat, j \in T PROVE j + 1 \in T
  <2> SUFFICES ASSUME j + 1 <= Deepest - 1, Within(j + 1) # DOMAIN node
               PROVE  Cardinality(Within(j + 1)) >= (j + 1) + 1
    OBVIOUS
  <2>0. j \in 0 .. Deepest /\ j + 1 \in 0 .. Deepest /\ j + 1 \in 1 .. Deepest /\ Done(j)
    BY <1>0, <1>4
  <2>1. Within(j) \subseteq Within(j + 1)
    BY DEF Within
  <2>2. Within(j) # DOMAIN node
    BY <1>2, <2>0, <2>1
  <2>3. ~Closed(node, Within(j))
    BY <1>2, <2>0, <2>2 DEF Well, Reached
  <2>4. PICK d \in DirsOf(node) \cap Within(j) : \E i \in DOMAIN node[d].entries :
          node[d].entries[i].node \notin Within(j)
    BY <1>2, <2>0, <2>3 DEF Closed
  <2>4a. PICK i \in DOMAIN node[d].entries : node[d].entries[i].node \notin Within(j)
    BY <2>4
  <2> DEFINE n == node[d].entries[i].node
  <2>5. PICK m \in 0 .. j : d \in Level(m)
    BY <2>4 DEF Within
  <2>6. m + 1 \in 1 .. Deepest /\ (m + 1) - 1 = m /\ m + 1 \in 0 .. (j + 1)
    BY <1>0, <2>0
  <2>7. n \in Level(m + 1)
    <3>1. \A e \in Level((m + 1) - 1) \cap DirsOf(node) : \A a \in DOMAIN node[e].entries :
            node[e].entries[a].node \in Level(m + 1)
      BY <2>6, Levels
    <3> QED
      BY <2>4, <2>5, <2>6, <3>1
  <2>8. n \in Within(j + 1) \ Within(j)
    BY <2>4a, <2>6, <2>7 DEF Within
  <2> HIDE DEF n
  <2>9. /\ IsFiniteSet(Within(j) \cup {n}) /\ Cardinality(Within(j) \cup {n}) = Cardinality(Within(j)) + 1
        /\ Cardinality(Within(j)) \in Nat
    BY <1>2, <2>0, <2>8, FS_AddElement, FS_CardinalityType
  <2>10. Cardinality(Within(j) \cup {n}) <= Cardinality(Within(j + 1)) /\ Cardinality(Within(j + 1)) \in Nat
    <3>1. Within(j) \cup {n} \subseteq Within(j + 1)
      BY <2>1, <2>8
    <3> QED
      BY <1>2, <2>0, <3>1, FS_Subset, FS_CardinalityType
  <2> QED
    BY <2>0, <2>2, <2>9, <2>10
<1>5. Nat \subseteq T
  <2> HIDE DEF T
  <2> QED
    BY <1>3, <1>4, Inductive
<1>6. k \in Nat /\ k <= Deepest - 1 /\ k \in 0 .. Deepest
  BY <1>0
<1> QED
  BY <1>2, <1>5, <1>6

(* The paths from the root lead to every live node, and to no other. *)
LEMMA AllLocated == Well(node) => {x[2] : x \in Located} = DOMAIN node
<1> SUFFICES ASSUME Well(node) PROVE {x[2] : x \in Located} = DOMAIN node
  OBVIOUS
<1> DEFINE k == Deepest - 1
<1>0. Deepest \in Nat \ {0} /\ k \in 0 .. (Deepest - 1)
  BY SomeAddresses
<1>1. {x[2] : x \in Located} = Within(k)
  BY DEF Located, Within, Level, Deepest
<1>2. Within(k) \subseteq DOMAIN node /\ (Within(k) = DOMAIN node \/ Cardinality(Within(k)) >= k + 1)
  BY <1>0, WithinGrows
<1>3. CASE Cardinality(Within(k)) >= k + 1
  <2> HIDE DEF k
  <2>1. DOMAIN node \subseteq Addresses /\ IsFiniteSet(Addresses)
    BY SkullFSAssumption DEF Well, Typed
  <2>2. IsFiniteSet(DOMAIN node) /\ Cardinality(DOMAIN node) <= Deepest
    BY <2>1, FS_Subset DEF Deepest
  <2>3. IsFiniteSet(Within(k)) /\ Cardinality(Within(k)) <= Cardinality(DOMAIN node)
    BY <1>2, <2>2, FS_Subset
  <2>4. Cardinality(Within(k)) = Cardinality(DOMAIN node)
    <3>1. Cardinality(Within(k)) \in Nat /\ Cardinality(DOMAIN node) \in Nat
      BY <2>2, <2>3, FS_CardinalityType
    <3>2. k + 1 = Deepest
      BY <1>0 DEF k
    <3> QED
      BY <1>0, <1>3, <2>2, <2>3, <3>1, <3>2
  <2>5. Within(k) = DOMAIN node
    BY <1>2, <2>2, <2>4, FS_Subset
  <2> QED
    BY <1>1, <2>5
<1> QED
  BY <1>1, <1>2, <1>3
-----------------------------------------------------------------------------
(* The invariant holds throughout, whatever the commands are given and      *)
(* whichever of their allocations is refused. *)
THEOREM SkullFSInvariant == ShellSpec => []FSInv
<1>1. ShellInit => FSInv
  BY InitInv DEF ShellInit
<1>2. FSInv /\ [ShellNext]_shellVars => FSInv'
  BY ShellKeepsInv
<1> QED
  BY <1>1, <1>2, PTL DEF ShellSpec

(* The invariant has the types ... *)
LEMMA InvIsTyped == FSInv => TypeOK
<1> SUFFICES ASSUME FSInv PROVE TypeOK
  OBVIOUS
<1>1. Typed(node) /\ Rooted(node) /\ blocks \in Nat
  BY CountIsNat DEF FSInv, Well
<1>2. Root \in DOMAIN node /\ DOMAIN node \subseteq Addresses
  BY <1>1 DEF Typed, Rooted, DirsOf
<1>3. ASSUME NEW n \in DOMAIN node
      PROVE  IF IsDir(n)
             THEN /\ node[n].entries \in Seq(Entry)
                  /\ node[n].num_entries \in Nat
                  /\ node[n].parent \in Addresses \cup {NULL}
             ELSE node[n].length \in Nat /\ node[n].capacity \in Nat
  <2>1. CASE node[n] \in DirNode
    <3>1. IsDir(n)
      BY <2>1 DEF IsDir, DirNode
    <3> QED
      BY <2>1, <3>1 DEF DirNode
  <2>2. CASE node[n] \in FileNode
    <3>1. ~IsDir(n)
      BY <2>2 DEF IsDir, FileNode
    <3> QED
      BY <2>2, <3>1 DEF FileNode
  <2> QED
    BY <1>1, <2>1, <2>2 DEF Typed
<1> QED
  BY <1>1, <1>2, <1>3 DEF TypeOK

(* ... the tree ... *)
LEMMA InvIsTree == FSInv => Tree
<1> SUFFICES ASSUME FSInv PROVE Tree
  OBVIOUS
<1>1. Well(node) /\ Defined /\ Dirs = DirsOf(node)
  BY WellIsDefined DEF FSInv
<1>2. ASSUME NEW d \in Dirs
      PROVE  /\ node[d].num_entries = Len(node[d].entries)
             /\ \A i, j \in DOMAIN node[d].entries :
                  i # j => node[d].entries[i].name # node[d].entries[j].name
             /\ \A e \in EntriesOf(d) : IsDir(e.node) => node[e.node].parent = d
  BY <1>1 DEF Well, Listed, EntriesOf, ToSet, IsDir
<1>3. ASSUME NEW n \in DOMAIN node \ {Root}
      PROVE  Cardinality({d \in Dirs : \E e \in EntriesOf(d) : e.node = n}) = 1
  <2>1. PICK d \in Dirs : \E i \in DOMAIN node[d].entries : node[d].entries[i].node = n
    BY <1>1, WellHolds
  <2>2. \E e \in EntriesOf(d) : e.node = n
    BY <2>1 DEF EntriesOf, ToSet
  <2>3. ASSUME NEW c \in Dirs, \E e \in EntriesOf(c) : e.node = n PROVE c = d
    <3>1. \E j \in DOMAIN node[c].entries : node[c].entries[j].node = n
      BY <2>3 DEF EntriesOf, ToSet
    <3> QED
      BY <1>1, <2>1, <3>1 DEF Well, Once
  <2>4. {c \in Dirs : \E e \in EntriesOf(c) : e.node = n} = {d}
    BY <2>2, <2>3
  <2> QED
    BY <2>4, FS_Singleton
<1>4. {x[2] : x \in Located} = DOMAIN node
  BY <1>1, AllLocated
<1> QED
  BY <1>1, <1>2, <1>3, <1>4 DEF Tree

(* ... the blocks ... *)
LEMMA InvHasNoLeak == FSInv => NoLeak
<1> SUFFICES ASSUME FSInv PROVE NoLeak
  OBVIOUS
<1>1. {x[2] : x \in Located} = DOMAIN node
  BY AllLocated DEF FSInv
<1> DEFINE b == [n \in {x[2] : x \in Located} |-> BlocksOf(node[n])]
<1>2. b = BlocksIn(node) /\ DOMAIN b = DOMAIN node
  BY <1>1 DEF BlocksIn
<1>3. SumFunction(b) = Held(node)
  <2> HIDE DEF b
  <2> QED
    BY <1>2 DEF SumFunction, Held
<1> QED
  BY <1>3 DEF NoLeak, FSInv

(* ... and the buffers. *)
LEMMA InvFits == FSInv => FileFits
<1> SUFFICES ASSUME FSInv, NEW n \in DOMAIN node \ Dirs
             PROVE  IF HasData(n)
                    THEN node[n].length = Len(node[n].data) /\ node[n].length <= node[n].capacity
                    ELSE node[n].length = 0
  BY DEF FileFits
<1>1. Fit(node[n])
  BY DEF FSInv, Well, Typed, DirNode, Dirs, IsDir
<1> QED
  BY <1>1 DEF Fit, HasData

(* Directories and files have what belongs to them, and the blocks of the   *)
(* file system never count below none. *)
THEOREM SkullFSTypeCorrect == ShellSpec => []TypeOK
  BY SkullFSInvariant, InvIsTyped, PTL

(* Through any mkdir, touch, rm of a file or of an empty directory, write   *)
(* and save of the settings, refused memory or not, the nodes make up a     *)
(* tree: no pointer to a freed node, no name twice, no node lost. *)
THEOREM SkullFSTree == ShellSpec => []Tree
  BY SkullFSInvariant, InvIsTree, PTL

(* Every block kmalloc gave the file system is part of a node that can be   *)
(* reached, or was given back. *)
THEOREM SkullFSNoLeak == ShellSpec => []NoLeak
  BY SkullFSInvariant, InvHasNoLeak, PTL

(* skullfs_write leaves no file longer than its data or than its buffer. *)
THEOREM SkullFSFileFits == ShellSpec => []FileFits
  BY SkullFSInvariant, InvFits, PTL
-----------------------------------------------------------------------------
(* The first k elements of a sequence. *)
LEMMA PrefixIs ==
  ASSUME NEW S, NEW s \in Seq(S), NEW k \in 0 .. Len(s)
  PROVE  /\ SubSeq(s, 1, k) \in Seq(S) /\ Len(SubSeq(s, 1, k)) = k
         /\ \A i \in 1 .. k : SubSeq(s, 1, k)[i] = s[i]
         /\ k = 0 => SubSeq(s, 1, k) = <<>>
         /\ k = Len(s) => SubSeq(s, 1, k) = s
<1>1. Len(s) \in Nat
  BY LenProperties
<1>2. \A i \in 1 .. k : s[i] \in S
  BY <1>1, ElementOfSeq
<1> DEFINE p == SubSeq(s, 1, k)
<1>3. /\ SubSeq(s, 1, k) \in Seq(S)
      /\ Len(SubSeq(s, 1, k)) = IF 1 <= k THEN k - 1 + 1 ELSE 0
      /\ \A i \in 1 .. k - 1 + 1 : SubSeq(s, 1, k)[i] = s[1 + i - 1]
  BY <1>1, <1>2, SubSeqProperties
<1>4. p \in Seq(S) /\ Len(p) = k /\ \A i \in 1 .. k : p[i] = s[i]
  BY <1>1, <1>3
<1> HIDE DEF p
<1>5. k = 0 => p = <<>>
  BY <1>4, EmptySeq
<1>6. k = Len(s) => p = s
  BY <1>4, SeqEqual
<1> QED
  BY <1>4, <1>5, <1>6 DEF p

(* A prefix and the piece after it are a longer prefix. *)
LEMMA PrefixAndPiece ==
  ASSUME NEW S, NEW s \in Seq(S), NEW m \in 0 .. Len(s), NEW t \in m .. Len(s)
  PROVE  SubSeq(s, 1, m) \o SubSeq(s, m + 1, t) = SubSeq(s, 1, t)
<1>1. Len(s) \in Nat /\ m \in Nat /\ t \in 0 .. Len(s) /\ t \in Nat /\ m <= t
  BY LenProperties
<1> DEFINE p == SubSeq(s, 1, m)
           q == SubSeq(s, m + 1, t)
           r == SubSeq(s, 1, t)
<1>2. p \in Seq(S) /\ Len(p) = m /\ \A i \in 1 .. m : p[i] = s[i]
  BY <1>1, PrefixIs
<1>3. r \in Seq(S) /\ Len(r) = t /\ \A i \in 1 .. t : r[i] = s[i]
  BY <1>1, PrefixIs
<1>4. q \in Seq(S) /\ Len(q) = t - m /\ \A i \in 1 .. (t - m) : q[i] = s[m + i]
  <2>1. \A i \in (m + 1) .. t : s[i] \in S
    BY <1>1, ElementOfSeq
  <2>2. /\ SubSeq(s, m + 1, t) \in Seq(S)
        /\ Len(SubSeq(s, m + 1, t)) = IF m + 1 <= t THEN t - (m + 1) + 1 ELSE 0
        /\ \A i \in 1 .. t - (m + 1) + 1 : SubSeq(s, m + 1, t)[i] = s[(m + 1) + i - 1]
    BY <1>1, <2>1, SubSeqProperties
  <2> QED
    BY <1>1, <2>2
<1> HIDE DEF p, q, r
<1>5. /\ p \o q \in Seq(S) /\ Len(p \o q) = Len(p) + Len(q)
      /\ \A i \in 1 .. Len(p) + Len(q) : (p \o q)[i] = IF i <= Len(p) THEN p[i] ELSE q[i - Len(p)]
  BY <1>2, <1>4, ConcatProperties
<1>6. Len(p \o q) = t
  BY <1>1, <1>2, <1>4, <1>5
<1>7. ASSUME NEW i \in 1 .. t PROVE (p \o q)[i] = r[i]
  <2>1. i \in 1 .. Len(p) + Len(q)
    BY <1>1, <1>2, <1>4
  <2>2. CASE i <= m
    BY <1>1, <1>2, <1>3, <1>5, <2>1, <2>2
  <2>3. CASE ~(i <= m)
    <3>1. i - m \in 1 .. (t - m) /\ m + (i - m) = i
      BY <1>1, <2>3
    <3> QED
      BY <1>2, <1>3, <1>4, <1>5, <2>1, <2>3, <3>1
  <2> QED
    BY <2>2, <2>3
<1>8. p \o q = r
  BY <1>3, <1>5, <1>6, <1>7, SeqEqual
<1> QED
  BY <1>8 DEF p, q, r

(* cat: every read adds the next piece, until nothing is left. *)
Piece(n) == IF n > CHUNK THEN CHUNK ELSE n

(* What cat prints of a file is its data. *)
LEMMA CatShows ==
  ASSUME FSInv, NEW f \in DOMAIN node \ Dirs
  PROVE  Cat(f) = IF HasData(f) THEN node[f].data ELSE <<>>
<1> DEFINE data == IF HasData(f) THEN node[f].data ELSE <<>>
           Step(u, n) ==
             IF n = 0 THEN <<>>
             ELSE u[n - 1] \o Read(f, Len(u[n - 1]), Piece(node[f].length - Len(u[n - 1])))
           IsUpto(u) == u = [n \in 0 .. node[f].length |-> Step(u, n)]
<1>1. node[f] \in FileNode /\ Fit(node[f])
  BY DEF FSInv, Well, Typed, DirNode, Dirs, IsDir
<1>2. data \in Seq(Nat) /\ node[f].length = Len(data)
  <2>1. CASE HasData(f)
    BY <1>1, <2>1 DEF FileNode, Fit, HasData
  <2>2. CASE ~HasData(f)
    BY <1>1, <2>2, EmptySeq DEF FileNode, Fit, HasData
  <2> QED
    BY <2>1, <2>2
<1>3. PICK len \in Nat : len = Len(data) /\ len = node[f].length
  BY <1>2, LenProperties
<1>4. CHUNK \in Nat \ {0}
  BY WorkingDirAssumption
<1>5. \A o, s : Read(f, o, s) = IF o >= len THEN <<>>
                                ELSE SubSeq(data, o + 1, IF o + s > len THEN len ELSE o + s)
  BY <1>3 DEF Read
<1>6. \E u : IsUpto(u)
  <2> DEFINE Solved(n) == \E u : /\ u = [k \in 0 .. len |-> u[k]]
                                 /\ \A k \in 0 .. len : k <= n => u[k] = Step(u, k)
             N == {n \in Nat : Solved(n)}
  <2>1. 0 \in N
    <3> DEFINE u == [k \in 0 .. len |-> <<>>]
    <3>1. ASSUME NEW k \in 0 .. len, k <= 0 PROVE u[k] = Step(u, k)
      <4>1. k = 0 /\ u[k] = <<>>
        BY <3>1
      <4> HIDE DEF u
      <4> QED
        BY <4>1
    <3>2. u = [k \in 0 .. len |-> u[k]]
      OBVIOUS
    <3> HIDE DEF u, Step
    <3>3. Solved(0)
      BY <3>1, <3>2
    <3> HIDE DEF Solved
    <3> QED
      BY <3>3
  <2>2. ASSUME NEW n \in Nat, n \in N PROVE n + 1 \in N
    <3>1. PICK u : /\ u = [k \in 0 .. len |-> u[k]]
                   /\ \A k \in 0 .. len : k <= n => u[k] = Step(u, k)
      BY <2>2
    <3> DEFINE h == [k \in 0 .. len |-> IF k <= n THEN u[k] ELSE Step(u, k)]
    <3>2. ASSUME NEW k \in 0 .. len, k <= n + 1 PROVE h[k] = Step(h, k)
      <4>1. CASE k = 0
        <5>1. h[k] = u[k] /\ u[k] = Step(u, k)
          BY <3>1, <4>1
        <5> HIDE DEF h
        <5> QED
          BY <4>1, <5>1
      <4>2. CASE k # 0
        <5>1. k - 1 \in 0 .. len /\ k - 1 <= n
          BY <3>2, <4>2
        <5>2. h[k - 1] = u[k - 1]
          BY <5>1
        <5>3. h[k] = Step(u, k)
          BY <3>1
        <5> HIDE DEF h
        <5> QED
          BY <4>2, <5>2, <5>3
      <4> QED
        BY <4>1, <4>2
    <3>3. h = [k \in 0 .. len |-> h[k]]
      OBVIOUS
    <3> HIDE DEF h, Step
    <3>4. Solved(n + 1)
      BY <3>2, <3>3
    <3> HIDE DEF Solved
    <3> QED
      BY <3>4
  <2>3. len \in N
    <3> HIDE DEF N
    <3> QED
      BY <2>1, <2>2, Inductive
  <2>4. PICK u : u = [k \in 0 .. len |-> u[k]] /\ \A k \in 0 .. len : k <= len => u[k] = Step(u, k)
    BY <2>3
  <2>5. \A k \in 0 .. len : k <= len
    OBVIOUS
  <2> HIDE DEF Step
  <2> QED
    BY <1>3, <2>4, <2>5
<1>7. Cat(f) = (CHOOSE u : IsUpto(u))[node[f].length]
  BY DEF Cat, Piece
<1>8. PICK u : IsUpto(u) /\ Cat(f) = u[len]
  BY <1>3, <1>6, <1>7
<1>9. \A n \in 0 .. len : u[n] = Step(u, n)
  BY <1>3, <1>8
<1> HIDE DEF data
<1> DEFINE T == {n \in Nat : n <= len => \E m \in n .. len : u[n] = SubSeq(data, 1, m)}
<1>10. 0 \in T
  <2>1. u[0] = <<>> /\ SubSeq(data, 1, 0) = <<>>
    BY <1>2, <1>3, <1>9, PrefixIs
  <2>2. 0 \in 0 .. len /\ u[0] = SubSeq(data, 1, 0)
    BY <2>1
  <2>3. \E m \in 0 .. len : u[0] = SubSeq(data, 1, m)
    BY <2>2
  <2> QED
    BY <2>3
<1>11. ASSUME NEW n \in Nat, n \in T PROVE n + 1 \in T
  <2> SUFFICES ASSUME n + 1 <= len PROVE \E m \in (n + 1) .. len : u[n + 1] = SubSeq(data, 1, m)
    OBVIOUS
  <2>1. PICK m \in n .. len : u[n] = SubSeq(data, 1, m)
    BY <1>11
  <2>2. Len(u[n]) = m
    BY <1>2, <1>3, <2>1, PrefixIs
  <2> DEFINE s == Piece(len - m)
             t == IF m + s > len THEN len ELSE m + s
  <2>3. u[n + 1] = SubSeq(data, 1, m) \o Read(f, m, s)
    <3>1. n + 1 \in 0 .. len /\ n + 1 # 0 /\ (n + 1) - 1 = n
      OBVIOUS
    <3>2. u[n + 1] = u[n] \o Read(f, Len(u[n]), Piece(len - Len(u[n])))
      BY <1>3, <1>9, <3>1
    <3> QED
      BY <2>1, <2>2, <3>2
  <2>4. CASE m >= len
    <3>1. m = len /\ m \in (n + 1) .. len
      BY <2>4
    <3>2. Read(f, m, s) = <<>>
      BY <1>5, <2>4
    <3>3. SubSeq(data, 1, m) \in Seq(Nat)
      BY <1>2, <1>3, PrefixIs
    <3>4. SubSeq(data, 1, m) \o <<>> = SubSeq(data, 1, m)
      BY <3>3, ConcatEmptySeq
    <3> QED
      BY <2>3, <3>1, <3>2, <3>4
  <2>5. CASE ~(m >= len)
    <3>1. t \in (n + 1) .. len /\ t \in m .. len
      BY <1>4, <2>5 DEF Piece
    <3>2. Read(f, m, s) = SubSeq(data, m + 1, t)
      BY <1>5, <2>5
    <3>3. SubSeq(data, 1, m) \o SubSeq(data, m + 1, t) = SubSeq(data, 1, t)
      <4> HIDE DEF t
      <4>1. m \in 0 .. Len(data) /\ t \in m .. Len(data)
        BY <1>3, <3>1
      <4> QED
        BY <1>2, <4>1, PrefixAndPiece
    <3> HIDE DEF t, s
    <3> QED
      BY <2>3, <3>1, <3>2, <3>3
  <2> QED
    BY <2>4, <2>5
<1>12. len \in T
  <2> HIDE DEF T
  <2> QED
    BY <1>10, <1>11, Inductive
<1>13. u[len] = SubSeq(data, 1, len)
  <2>1. PICK m \in len .. len : u[len] = SubSeq(data, 1, m)
    BY <1>12
  <2> QED
    BY <2>1
<1>14. u[len] = data
  BY <1>2, <1>3, <1>13, PrefixIs
<1> QED
  BY <1>8, <1>14 DEF data

(* Names are texts, and NULL is none. *)
LEMMA NamesAreText == Names \subseteq STRING /\ NULL \notin STRING /\ NULL # "." /\ NULL # ".."
<1>1. \A path \in Paths : ToSet(path) \subseteq STRING
  <2> SUFFICES ASSUME NEW path \in Paths, NEW c \in ToSet(path) PROVE c \in STRING
    OBVIOUS
  <2>1. path \in Seq(STRING)
    BY SkullFSAssumption
  <2>2. DOMAIN path = 1 .. Len(path)
    BY <2>1, LenProperties
  <2>3. PICK i \in 1 .. Len(path) : c = path[i]
    BY <2>2 DEF ToSet
  <2> QED
    BY <2>1, <2>3, ElementOfSeq
<1>2. ToSet(DefaultDirs) \subseteq STRING
  <2> SUFFICES ASSUME NEW c \in ToSet(DefaultDirs) PROVE c \in STRING
    OBVIOUS
  <2>1. DefaultDirs \in Seq(STRING \ {".", ".."})
    BY SkullFSAssumption
  <2>2. DOMAIN DefaultDirs = 1 .. Len(DefaultDirs)
    BY <2>1, LenProperties
  <2>3. PICK i \in 1 .. Len(DefaultDirs) : c = DefaultDirs[i]
    BY <2>2 DEF ToSet
  <2>4. DefaultDirs[i] \in STRING \ {".", ".."}
    BY <2>1, ElementOfSeq
  <2> QED
    BY <2>3, <2>4
<1>3. NULL \notin STRING
  BY SkullFSAssumption
<1>4. NULL # "." /\ NULL # ".."
  BY SkullFSAssumption
<1> QED
  BY <1>1, <1>2, <1>3, <1>4 DEF Names

(* skullfs_readdir gives . and .., and then the entries in their order. *)
LEMMA ReaddirGives ==
  ASSUME FSInv, NEW d \in Dirs, NEW l, l = Len(node[d].entries)
  PROVE  /\ l \in Nat /\ DOMAIN node[d].entries = 1 .. l
         /\ Readdir(d, 0) = "." /\ Readdir(d, 1) = ".."
         /\ \A i \in 1 .. l : /\ Readdir(d, i + 1) = node[d].entries[i].name
                              /\ node[d].entries[i].name \in STRING \ {".", ".."}
         /\ {i \in 0 .. l + 2 : Readdir(d, i) = NULL} = {l + 2}
<1>1. Typed(node) /\ d \in DirsOf(node)
  BY WellIsDefined DEF FSInv, Well
<1>2. l \in Nat /\ DOMAIN node[d].entries = 1 .. l /\ \A i \in 1 .. l : node[d].entries[i] \in Entry
  BY <1>1, DirTyped
<1>3. \A i \in 1 .. l : node[d].entries[i].name \in STRING \ {".", ".."}
  BY <1>2, NamesAreText DEF Entry
<1>4. Readdir(d, 0) = "." /\ Readdir(d, 1) = ".."
  BY DEF Readdir
<1>5. \A i \in 1 .. l : Readdir(d, i + 1) = node[d].entries[i].name
  BY <1>2 DEF Readdir
<1>6. Readdir(d, l + 2) = NULL
  BY <1>2 DEF Readdir
<1>7. ASSUME NEW i \in 0 .. l + 2, i # l + 2 PROVE Readdir(d, i) # NULL
  <2>1. CASE i = 0 \/ i = 1
    BY <1>4, <2>1, NamesAreText
  <2>2. CASE i # 0 /\ i # 1
    <3>1. i - 1 \in 1 .. l /\ (i - 1) + 1 = i
      BY <1>2, <1>7, <2>2
    <3>2. Readdir(d, i) \in STRING
      BY <1>3, <1>5, <3>1
    <3> QED
      BY <3>2, NamesAreText
  <2> QED
    BY <2>1, <2>2
<1> QED
  BY <1>2, <1>3, <1>4, <1>5, <1>6, <1>7

(* ls shows what readdir gives, up to the end. *)
LEMMA ListingIs ==
  ASSUME FSInv, NEW d \in Dirs, NEW l, l = Len(node[d].entries)
  PROVE  Listing(d) = [i \in 1 .. l + 2 |->
                         [name |-> Readdir(d, i - 1), slash |-> IsDir(Lookup(d, Readdir(d, i - 1)))]]
<1> DEFINE E == {i \in 0 .. Len(node[d].entries) + 2 : Readdir(d, i) = NULL}
<1>1. l \in Nat /\ E = {l + 2}
  BY ReaddirGives
<1> HIDE DEF E
<1>2. Min(E) = l + 2
  BY <1>1 DEF Min
<1> QED
  BY <1>2 DEF Listing, E

(* An entry is what its name is looked up to be. *)
LEMMA LookupIsEntry ==
  ASSUME FSInv, NEW d \in DirsOf(node), NEW i \in DOMAIN node[d].entries
  PROVE  Lookup(d, node[d].entries[i].name) = node[d].entries[i].node
<1> DEFINE s == node[d].entries
           name == s[i].name
           k == Find(s, name)
<1>1. node[d] \in DirNode /\ s[i] \in Entry
  BY DirTyped DEF FSInv, Well
<1>2. name \notin {".", ".."}
  BY <1>1 DEF Entry
<1>3. s \in Seq(Entry)
  BY <1>1 DEF DirNode
<1>4. k \in DOMAIN s /\ s[k].name = name
  BY <1>3, Found
<1>5. k = i
  BY <1>4 DEF FSInv, Well, Listed
<1>6. Lookup(d, name) = s[k].node
  BY <1>2 DEF Lookup, Find
<1> QED
  BY <1>5, <1>6

(* ls shows . and .., then each entry once, with its kind. *)
LEMMA ListingShows ==
  ASSUME FSInv, NEW d \in Dirs
  PROVE  LET shown == Listing(d)
         IN  /\ [i \in DOMAIN shown |-> shown[i].name] \in
                  {<<".", "..">> \o s : s \in SetToSeqs({e.name : e \in EntriesOf(d)})}
             /\ \A e \in EntriesOf(d) : [name |-> e.name, slash |-> IsDir(e.node)] \in Range(shown)
<1> DEFINE shown == Listing(d)
           l == Len(node[d].entries)
           entry(i) == node[d].entries[i]
           N == {e.name : e \in EntriesOf(d)}
<1>1. /\ l \in Nat /\ DOMAIN node[d].entries = 1 .. l
      /\ Readdir(d, 0) = "." /\ Readdir(d, 1) = ".."
      /\ \A i \in 1 .. l : Readdir(d, i + 1) = entry(i).name /\ entry(i).name \in STRING \ {".", ".."}
  BY ReaddirGives
<1>2. Typed(node) /\ d \in DirsOf(node) /\ d \in DOMAIN node /\ IsDir(d)
      /\ \A i, j \in 1 .. l : entry(i).name = entry(j).name => i = j
  <2>1. Typed(node) /\ d \in DirsOf(node)
    BY WellIsDefined DEF FSInv, Well
  <2> QED
    BY <1>1, <2>1 DEF FSInv, Well, Listed, DirsOf, IsDir
<1>3. EntriesOf(d) = {entry(i) : i \in 1 .. l}
  BY <1>1 DEF EntriesOf, ToSet
<1>4. shown = [i \in 1 .. l + 2 |->
                 [name |-> Readdir(d, i - 1), slash |-> IsDir(Lookup(d, Readdir(d, i - 1)))]]
  BY ListingIs
<1> HIDE DEF shown, l
<1>5. /\ DOMAIN shown = 1 .. l + 2
      /\ shown[1].name = "." /\ shown[2].name = ".."
      /\ \A i \in 1 .. l : shown[i + 2].name = entry(i).name
  <2>1. \A i \in 1 .. l + 2 : shown[i].name = Readdir(d, i - 1)
    BY <1>4
  <2>2. 1 \in 1 .. l + 2 /\ 2 \in 1 .. l + 2 /\ 1 - 1 = 0 /\ 2 - 1 = 1
    BY <1>1
  <2>3. \A i \in 1 .. l : i + 2 \in 1 .. l + 2 /\ (i + 2) - 1 = i + 1
    BY <1>1
  <2> QED
    BY <1>1, <1>4, <2>1, <2>2, <2>3
<1>6. [i \in DOMAIN shown |-> shown[i].name] \in {<<".", "..">> \o s : s \in SetToSeqs(N)}
  <2> DEFINE n == [i \in 1 .. l |-> entry(i).name]
             v == [i \in DOMAIN shown |-> shown[i].name]
             two == <<".", "..">>
             S == STRING \cup {".", ".."}
  <2>1. n \in [1 .. l -> N] /\ (\A i, j \in 1 .. l : n[i] = n[j] => i = j) /\ DOMAIN n = 1 .. l
    BY <1>2, <1>3
  <2>2. \A x \in N : \E i \in 1 .. l : n[i] = x
    BY <1>3
  <2>3. n \in Seq(S) /\ v \in Seq(S) /\ Len(n) = l /\ Len(v) = l + 2
    <3>1. n \in [1 .. l -> S]
      BY <1>1
    <3>2. v \in [1 .. l + 2 -> S]
      <4> SUFFICES ASSUME NEW i \in 1 .. l + 2 PROVE shown[i].name \in S
        BY <1>5
      <4>1. CASE i = 1 \/ i = 2
        BY <1>5, <4>1
      <4>2. CASE i # 1 /\ i # 2
        <5>1. i - 2 \in 1 .. l /\ (i - 2) + 2 = i
          BY <1>1, <4>2
        <5> QED
          BY <1>1, <1>5, <5>1
      <4> QED
        BY <4>1, <4>2
    <3>3. l + 2 \in Nat
      BY <1>1
    <3>4. DOMAIN n = 1 .. l /\ DOMAIN v = 1 .. l + 2
      BY <1>5
    <3> HIDE DEF n, v
    <3>5. n \in Seq(S) /\ v \in Seq(S)
      BY <1>1, <3>1, <3>2, <3>3, SeqDef
    <3>6. Len(n) \in Nat /\ DOMAIN n = 1 .. Len(n) /\ Len(v) \in Nat /\ DOMAIN v = 1 .. Len(v)
      BY <3>5, LenProperties
    <3> QED
      BY <1>1, <3>4, <3>5, <3>6
  <2>4. n \in SetToSeqs(N)
    <3> HIDE DEF n, N
    <3>1. n \in Bijection(1 .. l, N)
      BY <2>1, <2>2 DEF Bijection, Injection, Surjection, IsInjective
    <3>2. Cardinality(N) = l
      BY <1>1, <3>1, FS_CountingElements DEF ExistsBijection
    <3> QED
      BY <2>1, <3>2 DEF SetToSeqs
  <2>5. two \in Seq(S) /\ Len(two) = 2 /\ two[1] = "." /\ two[2] = ".."
    <3>1. two \in [1 .. 2 -> S]
      OBVIOUS
    <3> QED
      BY <3>1, SeqDef
  <2>6. \A i \in 1 .. l : n[i] = entry(i).name
    OBVIOUS
  <2>7. \A i \in 1 .. l + 2 : v[i] = shown[i].name
    BY <1>5
  <2> HIDE DEF n, v, two
  <2>8. /\ two \o n \in Seq(S) /\ Len(two \o n) = Len(two) + Len(n)
        /\ \A i \in 1 .. Len(two) + Len(n) : (two \o n)[i] = IF i <= Len(two) THEN two[i] ELSE n[i - Len(two)]
    BY <2>3, <2>5, ConcatProperties
  <2>9. ASSUME NEW i \in 1 .. l + 2 PROVE v[i] = (two \o n)[i]
    <3>1. i \in 1 .. Len(two) + Len(n)
      BY <1>1, <2>3, <2>5
    <3>2. CASE i = 1 \/ i = 2
      BY <1>5, <2>5, <2>7, <2>8, <3>1, <3>2
    <3>3. CASE i # 1 /\ i # 2
      <4>1. i - 2 \in 1 .. l /\ (i - 2) + 2 = i /\ ~(i <= 2)
        BY <1>1, <3>3
      <4>2. v[i] = entry(i - 2).name
        BY <1>5, <2>7, <4>1
      <4>3. (two \o n)[i] = n[i - 2]
        BY <2>5, <2>8, <3>1, <4>1
      <4> QED
        BY <2>6, <4>1, <4>2, <4>3
    <3> QED
      BY <3>2, <3>3
  <2>10. v = two \o n
    <3>1. Len(v) = Len(two \o n)
      BY <1>1, <2>3, <2>5, <2>8
    <3> QED
      BY <2>3, <2>8, <2>9, <3>1, SeqEqual
  <2> QED
    BY <2>4, <2>10 DEF v, two
<1>7. ASSUME NEW e \in EntriesOf(d)
      PROVE  [name |-> e.name, slash |-> IsDir(e.node)] \in Range(shown)
  <2>1. PICK i \in 1 .. l : e = entry(i)
    BY <1>3
  <2>2. Lookup(d, e.name) = e.node
    BY <1>1, <1>2, <2>1, LookupIsEntry DEF l
  <2>3. i + 2 \in 1 .. l + 2 /\ (i + 2) - 1 = i + 1
    BY <1>1
  <2>4. shown[i + 2] = [name |-> Readdir(d, i + 1), slash |-> IsDir(Lookup(d, Readdir(d, i + 1)))]
    BY <1>4, <2>3
  <2>5. Readdir(d, i + 1) = e.name
    BY <1>1, <2>1
  <2>6. shown[i + 2] = [name |-> e.name, slash |-> IsDir(e.node)]
    BY <2>2, <2>4, <2>5
  <2> QED
    BY <1>5, <2>3, <2>6 DEF Range
<1> QED
  BY <1>6, <1>7 DEF shown, N

(* The invariant is enough for both. *)
LEMMA InvShowsTree == FSInv => ShowsTree
  BY ListingShows, CatShows DEF ShowsTree

(* Whatever commands came before, ls shows each name of a directory once    *)
(* with its kind, and cat all of a file. *)
THEOREM SkullFSShowsTree == ShellSpec => []ShowsTree
  BY SkullFSInvariant, InvShowsTree, PTL
-----------------------------------------------------------------------------
(* A walk from n by the name c, over the nodes f. *)
LookupIn(f, d, name) ==
  IF name = "." THEN d
  ELSE IF name = ".." THEN IF f[d].parent = NULL THEN d ELSE f[d].parent
  ELSE IF \E i \in DOMAIN f[d].entries : f[d].entries[i].name = name
       THEN f[d].entries[Find(f[d].entries, name)].node
       ELSE NULL
WalkIn(f, n, c) ==
  IF n = NULL \/ c = "" THEN n ELSE IF ~(f[n].kind = "dir") THEN NULL ELSE LookupIn(f, n, c)

(* Append and concatenation, by names that hide what they are: the provers  *)
(* would take them to pieces. *)
Put(s, v) == Append(s, v)
Join(s, t) == s \o t

(* The names so far, and one more character. *)
NextName(names, c) ==
  IF c = Slash THEN Put(names, "") ELSE Put(Front(names), Join(Last(names), c))

(* Texts and paths are read from the left, one by NextName, the other by    *)
(* WalkIn; what follows does not depend on which.  Iter is the recursion of  *)
(* FoldLeft, over sets of places, and Run what it comes to, place by place. *)
Take(what, f, x, c) == IF what = "path" THEN WalkIn(f, x, c) ELSE NextName(x, c)
Iter(it, what, f, base, s, n) ==
  it = [x \in SUBSET (1 .. n) |->
          IF x = {} THEN base ELSE Take(what, f, it[x \ {Max(x)}], s[Max(x)])]
Run(r, what, f, base, s, n) ==
  r = [k \in 0 .. n |-> IF k = 0 THEN base ELSE Take(what, f, r[k - 1], s[k])]

(* The recursion has a solution: taking the last place away leads to no     *)
(* place left. *)
LEMMA IterExists ==
  ASSUME NEW what, NEW f, NEW base, NEW s, NEW n \in Nat
  PROVE  \E it : Iter(it, what, f, base, s, n)
<1> DEFINE Step(it, x) == IF x = {} THEN base ELSE Take(what, f, it[x \ {Max(x)}], s[Max(x)])
           Upto(it, m) == \A x \in SUBSET (1 .. n) : x \subseteq 1 .. m => it[x] = Step(it, x)
           Solved(m) == \E it : it = [x \in SUBSET (1 .. n) |-> it[x]] /\ Upto(it, m)
           N == {m \in Nat : Solved(m)}
<1>1. 0 \in N
  <2> DEFINE it == [x \in SUBSET (1 .. n) |-> base]
  <2>1. ASSUME NEW x \in SUBSET (1 .. n), x \subseteq 1 .. 0 PROVE it[x] = Step(it, x)
    <3>1. x = {} /\ it[x] = base
      BY <2>1
    <3> HIDE DEF it
    <3> QED
      BY <3>1
  <2>2. it = [x \in SUBSET (1 .. n) |-> it[x]]
    OBVIOUS
  <2> HIDE DEF it, Step
  <2>3. Solved(0)
    BY <2>1, <2>2
  <2> HIDE DEF Solved
  <2> QED
    BY <2>3
<1>2. ASSUME NEW m \in Nat, m \in N PROVE m + 1 \in N
  <2>1. PICK it : Upto(it, m)
    BY <1>2
  <2> DEFINE h == [x \in SUBSET (1 .. n) |-> IF x \subseteq 1 .. m THEN it[x] ELSE Step(it, x)]
  <2>2. ASSUME NEW x \in SUBSET (1 .. n), x \subseteq 1 .. (m + 1) PROVE h[x] = Step(h, x)
    <3>1. h[x] = Step(it, x)
      BY <2>1
    <3>2. CASE x = {}
      <4> HIDE DEF h
      <4> QED
        BY <3>1, <3>2
    <3>3. CASE x # {} /\ x \subseteq 1 .. m
      <4>1. h[x \ {Max(x)}] = it[x \ {Max(x)}]
        BY <3>3
      <4> HIDE DEF h
      <4> QED
        BY <3>1, <3>3, <4>1
    <3>4. CASE ~(x \subseteq 1 .. m)
      <4>1. m + 1 \in x /\ \A y \in x : m + 1 >= y /\ y \in Nat
        BY <2>2, <3>4
      <4>2. Max(x) \in x /\ \A y \in x : Max(x) >= y
        BY <4>1 DEF Max
      <4>3. Max(x) = m + 1
        <5>1. PICK y \in x : y = Max(x)
          BY <4>2
        <5>2. y >= m + 1 /\ m + 1 >= y /\ y \in Nat
          BY <4>1, <4>2, <5>1
        <5>3. y = m + 1
          BY <5>2
        <5> QED
          BY <5>1, <5>3
      <4>4. x \ {Max(x)} \in SUBSET (1 .. n) /\ x \ {Max(x)} \subseteq 1 .. m
        BY <2>2, <4>3
      <4>5. h[x \ {Max(x)}] = it[x \ {Max(x)}]
        BY <4>4
      <4> HIDE DEF h
      <4> QED
        BY <3>1, <4>5
    <3> QED
      BY <3>2, <3>3, <3>4
  <2>3. h = [x \in SUBSET (1 .. n) |-> h[x]]
    OBVIOUS
  <2> HIDE DEF h, Step
  <2>4. Solved(m + 1)
    BY <2>2, <2>3
  <2> HIDE DEF Solved
  <2> QED
    BY <2>4
<1>3. n \in N
  <2> HIDE DEF N
  <2> QED
    BY <1>1, <1>2, Inductive
<1>4. PICK it : it = [x \in SUBSET (1 .. n) |-> it[x]] /\ Upto(it, n)
  BY <1>3
<1>5. \A x \in SUBSET (1 .. n) : it[x] = Step(it, x)
  BY <1>4
<1> HIDE DEF Step
<1>6. it = [x \in SUBSET (1 .. n) |-> Step(it, x)]
  BY <1>4, <1>5
<1> QED
  BY <1>6 DEF Iter, Step

(* Its values on the first places are a run. *)
LEMMA IterRuns ==
  ASSUME NEW what, NEW f, NEW base, NEW s, NEW n \in Nat,
         NEW it, Iter(it, what, f, base, s, n)
  PROVE  \E r : Run(r, what, f, base, s, n) /\ it[1 .. n] = r[n]
<1> DEFINE r == [k \in 0 .. n |-> it[1 .. k]]
<1>1. \A x \in SUBSET (1 .. n) :
        it[x] = IF x = {} THEN base ELSE Take(what, f, it[x \ {Max(x)}], s[Max(x)])
  BY DEF Iter
<1>2. ASSUME NEW k \in 0 .. n
      PROVE  r[k] = IF k = 0 THEN base ELSE Take(what, f, r[k - 1], s[k])
  <2>1. 1 .. k \in SUBSET (1 .. n) /\ r[k] = it[1 .. k]
    OBVIOUS
  <2>2. CASE k = 0
    <3>1. 1 .. k = {}
      BY <2>2
    <3> HIDE DEF r
    <3> QED
      BY <1>1, <2>1, <2>2, <3>1
  <2>3. CASE k # 0
    <3>1. k \in 1 .. k /\ (\A y \in 1 .. k : k >= y) /\ 1 .. k # {}
      BY <2>3
    <3>2. Max(1 .. k) \in 1 .. k /\ \A y \in 1 .. k : Max(1 .. k) >= y
      BY <3>1 DEF Max
    <3>3. Max(1 .. k) = k
      BY <3>1, <3>2
    <3>4. (1 .. k) \ {k} = 1 .. (k - 1) /\ k - 1 \in 0 .. n
      BY <2>3
    <3>5. r[k - 1] = it[1 .. (k - 1)]
      BY <3>4
    <3> HIDE DEF r
    <3>6. it[1 .. k] = Take(what, f, it[(1 .. k) \ {k}], s[k])
      BY <1>1, <2>1, <3>1, <3>3
    <3> QED
      BY <2>1, <2>3, <3>4, <3>5, <3>6
  <2> QED
    BY <2>2, <2>3
<1>3. r = [k \in 0 .. n |-> r[k]] /\ r[n] = it[1 .. n]
  OBVIOUS
<1> HIDE DEF r
<1>4. Run(r, what, f, base, s, n)
  BY <1>2, <1>3 DEF Run
<1> QED
  BY <1>3, <1>4

(* There is a run of every sequence. *)
LEMMA RunExists ==
  ASSUME NEW what, NEW f, NEW base, NEW s, NEW n \in Nat
  PROVE  \E r : Run(r, what, f, base, s, n)
<1>1. PICK it : Iter(it, what, f, base, s, n)
  BY IterExists
<1> QED
  BY <1>1, IterRuns

(* Two runs do the same as far as both go. *)
LEMMA OneRun ==
  ASSUME NEW what, NEW f, NEW base, NEW s, NEW n \in Nat, NEW r, Run(r, what, f, base, s, n),
         NEW l \in 0 .. n, NEW x, Run(x, what, f, base, s, l)
  PROVE  \A i \in 0 .. l : x[i] = r[i]
<1> DEFINE T == {i \in Nat : i <= l => x[i] = r[i]}
<1>1. \A k \in 0 .. n : r[k] = IF k = 0 THEN base ELSE Take(what, f, r[k - 1], s[k])
  BY DEF Run
<1>2. \A k \in 0 .. l : x[k] = IF k = 0 THEN base ELSE Take(what, f, x[k - 1], s[k])
  BY DEF Run
<1>3. 0 \in T
  BY <1>1, <1>2
<1>4. ASSUME NEW i \in Nat, i \in T PROVE i + 1 \in T
  <2> SUFFICES ASSUME i + 1 <= l PROVE x[i + 1] = r[i + 1]
    OBVIOUS
  <2>1. i + 1 \in 0 .. l /\ i + 1 \in 0 .. n /\ i + 1 # 0 /\ (i + 1) - 1 = i
    OBVIOUS
  <2>2. x[i] = r[i]
    BY <1>4
  <2>3. x[i + 1] = Take(what, f, x[i], s[i + 1])
    BY <1>2, <2>1
  <2>4. r[i + 1] = Take(what, f, r[i], s[i + 1])
    BY <1>1, <2>1
  <2> QED
    BY <2>2, <2>3, <2>4
<1>5. Nat \subseteq T
  <2> HIDE DEF T
  <2> QED
    BY <1>3, <1>4, Inductive
<1> QED
  BY <1>5

(* What has come of base after n elements of s. *)
After(what, f, base, s, n) == (CHOOSE r : Run(r, what, f, base, s, n))[n]

(* It is what every run comes to. *)
LEMMA AfterIs ==
  ASSUME NEW what, NEW f, NEW base, NEW s, NEW n \in Nat, NEW r, Run(r, what, f, base, s, n),
         NEW k \in 0 .. n
  PROVE  r[k] = After(what, f, base, s, k)
<1>1. \E x : Run(x, what, f, base, s, k)
  BY RunExists
<1>2. PICK x : Run(x, what, f, base, s, k) /\ After(what, f, base, s, k) = x[k]
  BY <1>1 DEF After
<1>3. \A i \in 0 .. k : x[i] = r[i]
  BY <1>2, OneRun
<1> QED
  BY <1>2, <1>3

(* It takes one element after the other ... *)
LEMMA AfterSteps ==
  ASSUME NEW what, NEW f, NEW base, NEW s, NEW n \in Nat
  PROVE  /\ After(what, f, base, s, 0) = base
         /\ After(what, f, base, s, n + 1) = Take(what, f, After(what, f, base, s, n), s[n + 1])
<1>1. n + 1 \in Nat /\ n + 1 \in 0 .. (n + 1) /\ n \in 0 .. (n + 1) /\ 0 \in 0 .. (n + 1)
      /\ n + 1 # 0 /\ (n + 1) - 1 = n
  OBVIOUS
<1>2. PICK r : Run(r, what, f, base, s, n + 1)
  BY <1>1, RunExists
<1>3. r[0] = base /\ r[n + 1] = Take(what, f, r[n], s[n + 1])
  BY <1>1, <1>2 DEF Run
<1>4. \A k \in 0 .. (n + 1) : r[k] = After(what, f, base, s, k)
  BY <1>1, <1>2, AfterIs
<1> QED
  BY <1>1, <1>3, <1>4

(* ... so that it may as well stop in between, and go on from there. *)
LEMMA AfterParts ==
  ASSUME NEW what, NEW f, NEW base, NEW s, NEW m \in Nat, NEW t, NEW l \in Nat,
         \A i \in 1 .. l : t[i] = s[m + i]
  PROVE  After(what, f, After(what, f, base, s, m), t, l) = After(what, f, base, s, m + l)
<1> DEFINE mid == After(what, f, base, s, m)
           T == {i \in Nat : i <= l => After(what, f, mid, t, i) = After(what, f, base, s, m + i)}
<1>1. 0 \in T
  <2>1. m + 0 = m
    OBVIOUS
  <2>2. After(what, f, mid, t, 0) = mid
    BY AfterSteps
  <2> QED
    BY <2>1, <2>2
<1> HIDE DEF mid
<1>2. ASSUME NEW i \in Nat, i \in T PROVE i + 1 \in T
  <2> SUFFICES ASSUME i + 1 <= l
               PROVE  After(what, f, mid, t, i + 1) = After(what, f, base, s, m + (i + 1))
    OBVIOUS
  <2>1. PICK k \in Nat : k = m + i
    OBVIOUS
  <2>2. m + (i + 1) = k + 1 /\ t[i + 1] = s[k + 1]
    BY <2>1
  <2>3. After(what, f, mid, t, i) = After(what, f, base, s, k)
    BY <1>2, <2>1
  <2>4. After(what, f, mid, t, i + 1) = Take(what, f, After(what, f, mid, t, i), t[i + 1])
    BY AfterSteps
  <2>5. After(what, f, base, s, k + 1) = Take(what, f, After(what, f, base, s, k), s[k + 1])
    BY AfterSteps
  <2> QED
    BY <2>2, <2>3, <2>4, <2>5
<1>3. l \in T
  <2> HIDE DEF T
  <2> QED
    BY <1>1, <1>2, Inductive
<1> QED
  BY <1>3 DEF mid

(* What comes later in a sequence does not matter. *)
LEMMA AfterPrefix ==
  ASSUME NEW what, NEW f, NEW base, NEW s, NEW t, NEW l \in Nat, \A i \in 1 .. l : t[i] = s[i]
  PROVE  After(what, f, base, t, l) = After(what, f, base, s, l)
<1>1. PICK m \in Nat : m = 0
  OBVIOUS
<1>2. \A i \in 1 .. l : t[i] = s[m + i]
  BY <1>1
<1>3. After(what, f, base, s, m) = base
  BY <1>1, AfterSteps
<1>4. After(what, f, After(what, f, base, s, m), t, l) = After(what, f, base, s, m + l)
  BY <1>2, AfterParts
<1>5. m + l = l
  BY <1>1
<1> QED
  BY <1>3, <1>4, <1>5

(* What the folds of the model come to: Resolve, and cd on from where it is, *)
(* read a path ...                                                          *)
Folded(f, base, path) ==
  LET iter[x \in SUBSET DOMAIN path] ==
        IF x = {} THEN base ELSE WalkIn(f, iter[x \ {Max(x)}], path[Max(x)])
  IN  iter[DOMAIN path]

(* ... element by element, ... *)
LEMMA FoldWalks ==
  ASSUME NEW f, NEW base, NEW path, NEW n \in Nat, DOMAIN path = 1 .. n
  PROVE  Folded(f, base, path) = After("path", f, base, path, n)
<1> DEFINE IsIter(it) ==
             it = [x \in SUBSET DOMAIN path |->
                     IF x = {} THEN base ELSE WalkIn(f, it[x \ {Max(x)}], path[Max(x)])]
<1>1. \A m, c : WalkIn(f, m, c) = Take("path", f, m, c)
  BY DEF Take
<1>2. \A it : IsIter(it) <=> Iter(it, "path", f, base, path, n)
  BY <1>1 DEF Iter
<1>3. Folded(f, base, path) = (CHOOSE it : IsIter(it))[DOMAIN path]
  BY DEF Folded
<1> HIDE DEF IsIter
<1>4. \E it : IsIter(it)
  BY <1>2, IterExists
<1>5. PICK it : IsIter(it) /\ Folded(f, base, path) = it[1 .. n]
  BY <1>3, <1>4
<1>6. Iter(it, "path", f, base, path, n)
  BY <1>2, <1>5
<1>7. PICK r : Run(r, "path", f, base, path, n) /\ it[1 .. n] = r[n]
  BY <1>6, IterRuns
<1>8. r[n] = After("path", f, base, path, n)
  BY <1>7, AfterIs
<1> QED
  BY <1>5, <1>7, <1>8

(* ... the one from the root, ... *)
LEMMA ResolveIsFolded == ASSUME NEW path PROVE Resolve(path) = Folded(node, Root, path)
  BY DEF Resolve, FoldLeft, MapThenFoldSet, Walk, Lookup, IsDir, Folded, WalkIn, LookupIn, Find

(* ... the other from here. *)
LEMMA CdIsFolded == ASSUME NEW path PROVE FoldLeft(Walk, here, path) = Folded(node, here, path)
  BY DEF FoldLeft, MapThenFoldSet, Walk, Lookup, IsDir, Folded, WalkIn, LookupIn, Find

(* ... and NamesOf one of a text, that starts with one empty name. *)
Blank == <<"">>
Named(text, n) == After("text", NULL, Blank, text, n)

(* NamesOf reads a text from one empty name. *)
LEMMA FoldNames ==
  ASSUME NEW text, NEW n \in Nat, DOMAIN text = 1 .. n
  PROVE  NamesOf(text) = Named(text, n)
<1> DEFINE IsIter(it) ==
             it = [x \in SUBSET DOMAIN text |->
                     IF x = {} THEN Blank ELSE NextName(it[x \ {Max(x)}], text[Max(x)])]
<1>1. \A m, c : NextName(m, c) = Take("text", NULL, m, c)
  BY DEF Take
<1>2. \A it : IsIter(it) <=> Iter(it, "text", NULL, Blank, text, n)
  BY <1>1 DEF Iter
<1>3. NamesOf(text) = (CHOOSE it : IsIter(it))[DOMAIN text]
  BY DEF NamesOf, FoldLeft, MapThenFoldSet, NextName, Blank, Put, Join
<1> HIDE DEF IsIter
<1>4. \E it : IsIter(it)
  BY <1>2, IterExists
<1>5. PICK it : IsIter(it) /\ NamesOf(text) = it[1 .. n]
  BY <1>3, <1>4
<1>6. Iter(it, "text", NULL, Blank, text, n)
  BY <1>2, <1>5
<1>7. PICK r : Run(r, "text", NULL, Blank, text, n) /\ it[1 .. n] = r[n]
  BY <1>6, IterRuns
<1>8. r[n] = After("text", NULL, Blank, text, n)
  BY <1>7, AfterIs
<1> QED
  BY <1>5, <1>7, <1>8 DEF Named
-----------------------------------------------------------------------------
IsSeq(s) == \E S : s \in Seq(S)

(* Two sequences, and what is put to one of them, have a common set. *)
LEMMA CommonSet ==
  ASSUME NEW s, IsSeq(s), NEW t, IsSeq(t), NEW v
  PROVE  \E S : s \in Seq(S) /\ t \in Seq(S) /\ v \in S
<1>1. PICK A : s \in Seq(A)
  BY DEF IsSeq
<1>2. PICK B : t \in Seq(B)
  BY DEF IsSeq
<1>3. PICK C : C = A \cup B \cup {v}
  OBVIOUS
<1>4. A \subseteq C /\ B \subseteq C /\ v \in C
  BY <1>3
<1>5. s \in Seq(C)
  BY <1>1, <1>4, SeqMonotonic
<1>6. t \in Seq(C)
  BY <1>2, <1>4, SeqMonotonic
<1> QED
  BY <1>4, <1>5, <1>6

(* What they are is needed here, and nowhere else. *)
LEMMA PutIs ==
  ASSUME NEW S, NEW s \in Seq(S), NEW v \in S
  PROVE  /\ Put(s, v) \in Seq(S) /\ Put(s, v) # <<>> /\ Len(Put(s, v)) = Len(s) + 1
         /\ \A i \in 1 .. Len(s) : Put(s, v)[i] = s[i]
         /\ Put(s, v)[Len(s) + 1] = v
  BY AppendProperties DEF Put

(* One sequence after the other, at each place. *)
LEMMA JoinIs ==
  ASSUME NEW S, NEW s \in Seq(S), NEW t \in Seq(S)
  PROVE  /\ Join(s, t) \in Seq(S) /\ Len(Join(s, t)) = Len(s) + Len(t)
         /\ \A i \in 1 .. Len(s) + Len(t) :
              Join(s, t)[i] = IF i <= Len(s) THEN s[i] ELSE t[i - Len(s)]
  BY ConcatProperties DEF Join

(* One element more is a sequence of one more. *)
LEMMA PutIsJoin ==
  ASSUME NEW S, NEW s \in Seq(S), NEW v \in S
  PROVE  \E e \in Seq(S) : e = <<v>> /\ Put(s, v) = Join(s, e)
<1>1. PICK e : e = <<v>>
  OBVIOUS
<1>2. e \in Seq(S)
  <2>1. \A x \in S : <<x>> \in Seq(S)
    OBVIOUS
  <2> QED
    BY <1>1, <2>1
<1>3. Append(s, v) = s \o <<v>>
  BY AppendIsConcat
<1>4. Put(s, v) = Join(s, e)
  BY <1>1, <1>3 DEF Put, Join
<1> QED
  BY <1>1, <1>2, <1>4

(* An element at the end of the second part is one at the end. *)
LEMMA PutAfter ==
  ASSUME NEW S, NEW s \in Seq(S), NEW t \in Seq(S), NEW v \in S
  PROVE  Put(Join(s, t), v) = Join(s, Put(t, v))
<1>1. Join(s, t) \in Seq(S)
  BY JoinIs
<1>2. PICK e \in Seq(S) : e = <<v>> /\ Put(t, v) = Join(t, e)
  BY PutIsJoin
<1>3. Put(Join(s, t), v) = Join(Join(s, t), e)
  BY <1>1, <1>2, PutIsJoin
<1>4. (s \o t) \o e = s \o (t \o e)
  BY <1>2, ConcatAssociative
<1>5. Join(Join(s, t), e) = Join(s, Join(t, e))
  BY <1>4 DEF Join
<1> QED
  BY <1>2, <1>3, <1>5

(* The end of a sequence is that of its second part. *)
LEMMA FrontAfter ==
  ASSUME NEW S, NEW s \in Seq(S), NEW t \in Seq(S), t # <<>>
  PROVE  /\ Join(s, t) # <<>> /\ Last(Join(s, t)) = Last(t)
         /\ Front(t) \in Seq(S) /\ Front(Join(s, t)) = Join(s, Front(t))
<1>1. PICK k \in Nat : k = Len(s)
  BY LenProperties
<1>2. PICK l \in Nat \ {0} : l = Len(t)
  BY EmptySeq
<1>3. PICK u \in Seq(S) : u = Join(s, t)
  BY JoinIs
<1>4. /\ Len(u) = k + l
      /\ \A i \in 1 .. k + l : u[i] = IF i <= k THEN s[i] ELSE t[i - k]
  BY <1>1, <1>2, <1>3, JoinIs
<1>5. k + l \in 1 .. k + l /\ ~(k + l <= k) /\ (k + l) - k = l
  OBVIOUS
<1>6. u[k + l] = t[l]
  BY <1>4, <1>5
<1>7. u # <<>> /\ Last(u) = Last(t)
  BY <1>2, <1>4, <1>5, <1>6, EmptySeq DEF Last
<1>8. l - 1 \in 0 .. Len(t) /\ (k + l) - 1 \in 0 .. Len(u)
  BY <1>2, <1>4
<1>9. PICK p \in Seq(S) : p = Front(t) /\ Len(p) = l - 1 /\ \A i \in 1 .. (l - 1) : p[i] = t[i]
  <2>1. PICK a \in 0 .. Len(t) : a = l - 1
    BY <1>8
  <2>2. SubSeq(t, 1, a) \in Seq(S) /\ Len(SubSeq(t, 1, a)) = a /\ \A i \in 1 .. a : SubSeq(t, 1, a)[i] = t[i]
    BY PrefixIs
  <2>3. SubSeq(t, 1, a) = Front(t)
    BY <1>2, <2>1 DEF Front
  <2> QED
    BY <2>1, <2>2, <2>3
<1>10. PICK q \in Seq(S) : q = Front(u) /\ Len(q) = (k + l) - 1 /\ \A i \in 1 .. ((k + l) - 1) : q[i] = u[i]
  <2>1. PICK a \in 0 .. Len(u) : a = (k + l) - 1
    BY <1>8
  <2>2. SubSeq(u, 1, a) \in Seq(S) /\ Len(SubSeq(u, 1, a)) = a /\ \A i \in 1 .. a : SubSeq(u, 1, a)[i] = u[i]
    BY PrefixIs
  <2>3. SubSeq(u, 1, a) = Front(u)
    BY <1>4, <2>1 DEF Front
  <2> QED
    BY <2>1, <2>2, <2>3
<1>11. PICK w \in Seq(S) : w = Join(s, p)
  BY JoinIs
<1>12. /\ Len(w) = k + (l - 1)
       /\ \A i \in 1 .. k + (l - 1) : w[i] = IF i <= k THEN s[i] ELSE p[i - k]
  <2>1. /\ Len(w) = Len(s) + Len(p)
        /\ \A i \in 1 .. Len(s) + Len(p) : w[i] = IF i <= Len(s) THEN s[i] ELSE p[i - Len(s)]
    BY <1>11, JoinIs
  <2> QED
    BY <1>1, <1>9, <2>1
<1>13. Len(w) = Len(q)
  BY <1>10, <1>12
<1>14. ASSUME NEW i \in 1 .. Len(w) PROVE w[i] = q[i]
  <2>1. i \in 1 .. k + (l - 1) /\ i \in 1 .. ((k + l) - 1) /\ i \in 1 .. k + l
    BY <1>12
  <2>2. w[i] = IF i <= k THEN s[i] ELSE p[i - k]
    BY <1>12, <2>1
  <2>3. q[i] = IF i <= k THEN s[i] ELSE t[i - k]
    BY <1>4, <1>10, <2>1
  <2>4. ~(i <= k) => i - k \in 1 .. (l - 1)
    BY <2>1
  <2> QED
    BY <1>9, <2>2, <2>3, <2>4
<1>15. w = q
  BY <1>13, <1>14, SeqEqual
<1> QED
  BY <1>3, <1>7, <1>9, <1>10, <1>11, <1>15

(* A character goes on with the last name, or starts one. *)
LEMMA NextNameIs ==
  ASSUME NEW names, IsSeq(names), names # <<>>, NEW c
  PROVE  IsSeq(NextName(names, c)) /\ NextName(names, c) # <<>>
<1>1. PICK v : v = IF c = Slash THEN "" ELSE Join(Last(names), c)
  OBVIOUS
<1>2. PICK S : names \in Seq(S) /\ v \in S
  BY CommonSet
<1>3. Front(names) \in Seq(S)
  BY <1>2, FrontAfter
<1>4. PICK s \in Seq(S) : NextName(names, c) = Put(s, v)
  BY <1>1, <1>2, <1>3 DEF NextName
<1> QED
  BY <1>2, <1>4, PutIs DEF IsSeq

(* The names before the last one do not matter to it. *)
LEMMA NextNameAfter ==
  ASSUME NEW N, IsSeq(N), NEW names, IsSeq(names), names # <<>>, NEW c
  PROVE  NextName(Join(N, names), c) = Join(N, NextName(names, c))
<1>1. PICK v : v = IF c = Slash THEN "" ELSE Join(Last(names), c)
  OBVIOUS
<1>2. PICK S : N \in Seq(S) /\ names \in Seq(S) /\ v \in S
  BY CommonSet
<1>3. /\ Front(names) \in Seq(S) /\ Front(Join(N, names)) = Join(N, Front(names))
      /\ Last(Join(N, names)) = Last(names)
  BY <1>2, FrontAfter
<1>4. Put(Join(N, Front(names)), v) = Join(N, Put(Front(names), v))
  BY <1>2, <1>3, PutAfter
<1>5. Put(Join(N, names), v) = Join(N, Put(names, v))
  BY <1>2, PutAfter
<1> QED
  BY <1>1, <1>3, <1>4, <1>5 DEF NextName

(* The empty name alone is a sequence. *)
LEMMA BlankIs == IsSeq(Blank) /\ Blank # <<>>
<1>1. PICK e : e = ""
  OBVIOUS
<1>2. PICK b : b = <<e>>
  OBVIOUS
<1>3. b \in [1 .. 1 -> {e}] /\ b # <<>>
  BY <1>2
<1>4. b \in Seq({e})
  BY <1>3, SeqDef
<1> QED
  BY <1>1, <1>2, <1>3, <1>4 DEF IsSeq, Blank

(* There is a last name at any time. *)
LEMMA SomeNamed ==
  ASSUME NEW text, NEW n \in Nat
  PROVE  IsSeq(Named(text, n)) /\ Named(text, n) # <<>>
<1> DEFINE T == {i \in Nat : IsSeq(Named(text, i)) /\ Named(text, i) # <<>>}
<1>1. 0 \in T
  <2>1. Named(text, 0) = Blank
    BY AfterSteps DEF Named
  <2> QED
    BY <2>1, BlankIs
<1>2. ASSUME NEW i \in Nat, i \in T PROVE i + 1 \in T
  <2>1. Named(text, i + 1) = NextName(Named(text, i), text[i + 1])
    BY AfterSteps DEF Named, Take
  <2> QED
    BY <1>2, <2>1, NextNameIs
<1> HIDE DEF T
<1>3. Nat \subseteq T
  BY <1>1, <1>2, Inductive
<1> QED
  BY <1>3 DEF T

(* A text read after some names gives these names, and those of the text. *)
LEMMA NamedAfter ==
  ASSUME NEW N, IsSeq(N), NEW text, NEW n \in Nat
  PROVE  After("text", NULL, Join(N, Blank), text, n) = Join(N, Named(text, n))
<1> DEFINE A(i) == After("text", NULL, Join(N, Blank), text, i)
           T == {i \in Nat : A(i) = Join(N, Named(text, i))}
<1>1. 0 \in T
  <2>1. A(0) = Join(N, Blank) /\ Named(text, 0) = Blank
    BY AfterSteps DEF Named
  <2> QED
    BY <2>1
<1>2. ASSUME NEW i \in Nat, i \in T PROVE i + 1 \in T
  <2>1. Named(text, i + 1) = NextName(Named(text, i), text[i + 1])
    BY AfterSteps DEF Named, Take
  <2>2. A(i + 1) = NextName(A(i), text[i + 1])
    BY AfterSteps DEF Take
  <2>3. NextName(Join(N, Named(text, i)), text[i + 1]) = Join(N, NextName(Named(text, i), text[i + 1]))
    BY SomeNamed, NextNameAfter
  <2> HIDE DEF A
  <2> QED
    BY <1>2, <2>1, <2>2, <2>3
<1> HIDE DEF T
<1>3. Nat \subseteq T
  BY <1>1, <1>2, Inductive
<1> QED
  BY <1>3 DEF T

(* A text has at least one name. *)
LEMMA SomeNames ==
  ASSUME NEW text, IsSeq(text)
  PROVE  IsSeq(NamesOf(text)) /\ NamesOf(text) # <<>>
<1>1. PICK n \in Nat : DOMAIN text = 1 .. n
  BY LenProperties DEF IsSeq
<1> QED
  BY <1>1, FoldNames, SomeNamed

(* A slash at the end adds an empty name. *)
LEMMA NamesOfSlashed ==
  ASSUME NEW text, IsSeq(text)
  PROVE  NamesOf(Put(text, Slash)) = Put(NamesOf(text), "")
<1>1. PICK S : text \in Seq(S) /\ Slash \in S
  BY CommonSet
<1>2. PICK n \in Nat : n = Len(text) /\ DOMAIN text = 1 .. n
  BY <1>1, LenProperties
<1>3. PICK more \in Seq(S) : more = Put(text, Slash)
  BY <1>1, PutIs
<1>4. /\ Len(more) = n + 1 /\ DOMAIN more = 1 .. (n + 1)
      /\ (\A i \in 1 .. n : text[i] = more[i]) /\ more[n + 1] = Slash
  <2>1. /\ Len(Put(text, Slash)) = Len(text) + 1
        /\ \A i \in 1 .. Len(text) : Put(text, Slash)[i] = text[i]
        /\ Put(text, Slash)[Len(text) + 1] = Slash
    BY <1>1, PutIs
  <2>2. Len(more) = n + 1 /\ (\A i \in 1 .. n : text[i] = more[i]) /\ more[n + 1] = Slash
    BY <1>2, <1>3, <2>1
  <2> QED
    BY <2>2, LenProperties
<1>5. NamesOf(text) = Named(text, n) /\ NamesOf(more) = Named(more, n + 1)
  BY <1>2, <1>4, FoldNames
<1>6. Named(text, n) = Named(more, n)
  BY <1>4, AfterPrefix DEF Named
<1>7. Named(more, n + 1) = NextName(Named(more, n), Slash)
  BY <1>4, AfterSteps DEF Named, Take
<1> QED
  BY <1>3, <1>5, <1>6, <1>7 DEF NextName

(* After a slash, the names of the rest follow. *)
LEMMA NamesJoin ==
  ASSUME NEW text, IsSeq(text), text # <<>>, Last(text) = Slash, NEW arg, IsSeq(arg)
  PROVE  \E N : /\ IsSeq(N)
                /\ NamesOf(text) = Put(N, "")
                /\ NamesOf(Join(text, arg)) = Join(N, NamesOf(arg))
<1>1. PICK S : text \in Seq(S) /\ arg \in Seq(S)
  BY CommonSet
<1>2. PICK n \in Nat \ {0} : n = Len(text) /\ DOMAIN text = 1 .. n
  BY <1>1, EmptySeq, LenProperties
<1>3. PICK l \in Nat : l = Len(arg) /\ DOMAIN arg = 1 .. l
  BY <1>1, LenProperties
<1>4. PICK both \in Seq(S) : both = Join(text, arg)
  BY <1>1, JoinIs
<1>5. /\ Len(both) = n + l
      /\ \A i \in 1 .. n + l : both[i] = IF i <= n THEN text[i] ELSE arg[i - n]
  BY <1>1, <1>2, <1>3, <1>4, JoinIs
<1>6. PICK all \in Nat : all = n + l /\ DOMAIN both = 1 .. all
  BY <1>5, LenProperties
<1>7. \A i \in 1 .. n : text[i] = both[i]
  BY <1>5
<1>8. ASSUME NEW i \in 1 .. l PROVE arg[i] = both[n + i]
  <2>1. n + i \in 1 .. n + l /\ ~(n + i <= n) /\ (n + i) - n = i
    OBVIOUS
  <2> QED
    BY <1>5, <2>1
<1>9. NamesOf(text) = Named(text, n) /\ NamesOf(arg) = Named(arg, l) /\ NamesOf(both) = Named(both, all)
  BY <1>2, <1>3, <1>6, FoldNames
<1>10. PICK m \in Nat : n = m + 1
  <2>1. n - 1 \in Nat /\ n = (n - 1) + 1
    OBVIOUS
  <2> QED
    BY <2>1
<1>11. PICK N : N = Named(text, m) /\ IsSeq(N)
  BY SomeNamed
<1>12. Named(text, n) = Put(N, "")
  <2>1. Named(text, m + 1) = NextName(Named(text, m), text[m + 1])
    BY AfterSteps DEF Named, Take
  <2>2. text[m + 1] = Slash
    BY <1>2, <1>10 DEF Last
  <2> QED
    BY <1>10, <1>11, <2>1, <2>2 DEF NextName
<1>13. Put(N, "") = Join(N, Blank)
  <2>1. PICK e : e = ""
    OBVIOUS
  <2>2. PICK C : N \in Seq(C) /\ e \in C
    BY <1>11, CommonSet
  <2>3. PICK b \in Seq(C) : b = <<e>> /\ Put(N, e) = Join(N, b)
    BY <2>2, PutIsJoin
  <2> QED
    BY <2>1, <2>3 DEF Blank
<1>14. Named(text, n) = Named(both, n)
  BY <1>7, AfterPrefix DEF Named
<1>15. After("text", NULL, Named(both, n), arg, l) = Named(both, all)
  BY <1>6, <1>8, AfterParts DEF Named
<1>16. After("text", NULL, Join(N, Blank), arg, l) = Join(N, Named(arg, l))
  BY <1>11, NamedAfter
<1> QED
  BY <1>4, <1>9, <1>11, <1>12, <1>13, <1>14, <1>15, <1>16
-----------------------------------------------------------------------------
(* A walk leads to a node, or nowhere. *)
LEMMA WalkGives ==
  ASSUME FSInv, NEW n \in DOMAIN node \cup {NULL}, NEW c
  PROVE  WalkIn(node, n, c) \in DOMAIN node \cup {NULL}
<1>1. CASE n = NULL \/ c = ""
  BY <1>1 DEF WalkIn
<1>2. CASE ~(n = NULL \/ c = "") /\ ~(node[n].kind = "dir")
  BY <1>2 DEF WalkIn
<1>3. CASE ~(n = NULL \/ c = "") /\ node[n].kind = "dir"
  <2>1. n \in DOMAIN node /\ n \in DirsOf(node) /\ IsDir(n)
    BY <1>3 DEF DirsOf, IsDir
  <2>2. node[n].parent \in DOMAIN node \cup {NULL}
    BY <2>1, WellIsDefined DEF FSInv, Defined
  <2>3. node[n].entries \in Seq(Entry) /\ \A i \in DOMAIN node[n].entries : node[n].entries[i].node \in DOMAIN node
    BY <2>1, DirTyped DEF FSInv, Well, Listed, DirNode
  <2>4. (\E i \in DOMAIN node[n].entries : node[n].entries[i].name = c)
          => node[n].entries[Find(node[n].entries, c)].node \in DOMAIN node
    BY <2>3, Found
  <2>5. LookupIn(node, n, c) \in DOMAIN node \cup {NULL}
    BY <2>1, <2>2, <2>4 DEF LookupIn
  <2> QED
    BY <1>3, <2>5 DEF WalkIn
<1> QED
  BY <1>1, <1>2, <1>3

(* So does a path, from a node or from nowhere. *)
LEMMA AfterGives ==
  ASSUME FSInv, NEW base \in DOMAIN node \cup {NULL}, NEW path, NEW n \in Nat
  PROVE  After("path", node, base, path, n) \in DOMAIN node \cup {NULL}
<1> DEFINE T == {i \in Nat : After("path", node, base, path, i) \in DOMAIN node \cup {NULL}}
<1>1. 0 \in T
  BY AfterSteps
<1>2. ASSUME NEW i \in Nat, i \in T PROVE i + 1 \in T
  <2>1. After("path", node, base, path, i + 1) = WalkIn(node, After("path", node, base, path, i), path[i + 1])
    BY AfterSteps DEF Take
  <2> QED
    BY <1>2, <2>1, WalkGives
<1> HIDE DEF T
<1>3. Nat \subseteq T
  BY <1>1, <1>2, Inductive
<1> QED
  BY <1>3 DEF T

(* From nowhere a walk leads nowhere. *)
LEMMA AfterNull ==
  ASSUME NEW f, NEW path, NEW n \in Nat
  PROVE  After("path", f, NULL, path, n) = NULL
<1> DEFINE T == {i \in Nat : After("path", f, NULL, path, i) = NULL}
<1>1. 0 \in T
  BY AfterSteps
<1>2. ASSUME NEW i \in Nat, i \in T PROVE i + 1 \in T
  <2>1. After("path", f, NULL, path, i + 1) = WalkIn(f, After("path", f, NULL, path, i), path[i + 1])
    BY AfterSteps DEF Take
  <2> QED
    BY <1>2, <2>1 DEF WalkIn
<1> HIDE DEF T
<1>3. Nat \subseteq T
  BY <1>1, <1>2, Inductive
<1> QED
  BY <1>3 DEF T

(* The entry of a name is what is found. *)
LEMMA FindsEntry ==
  ASSUME NEW f, Well(f), NEW d \in DirsOf(f), NEW i \in DOMAIN f[d].entries
  PROVE  Find(f[d].entries, f[d].entries[i].name) = i
<1>1. f[d].entries \in Seq(Entry)
  BY DirTyped DEF Well, DirNode
<1>2. PICK k \in DOMAIN f[d].entries :
        k = Find(f[d].entries, f[d].entries[i].name) /\ f[d].entries[k].name = f[d].entries[i].name
  BY <1>1, Found
<1>3. k = i
  BY <1>2 DEF Well, Listed
<1> QED
  BY <1>2, <1>3

(* A walk between two nodes that stay leads as before. *)
LEMMA WalkKept ==
  ASSUME NEW f, Well(f), NEW g, Well(g), Kept(f, g), NEW n \in DOMAIN f \cap DOMAIN g, NEW c,
         WalkIn(f, n, c) \in DOMAIN g
  PROVE  WalkIn(g, n, c) = WalkIn(f, n, c)
<1>1. n # NULL /\ NULL \notin DOMAIN g
  BY NullIsNoText DEF Well, Typed
<1>2. g[n].kind = f[n].kind
  BY DEF Kept
<1>3. CASE c = ""
  BY <1>3 DEF WalkIn
<1>4. CASE c # ""
  <2>1. f[n].kind = "dir" /\ WalkIn(f, n, c) = LookupIn(f, n, c)
    BY <1>1, <1>4 DEF WalkIn
  <2>2. n \in DirsOf(f) /\ n \in DirsOf(g) /\ WalkIn(g, n, c) = LookupIn(g, n, c)
    BY <1>1, <1>2, <1>4, <2>1 DEF WalkIn, DirsOf
  <2>3. g[n].parent = f[n].parent
    BY <2>2 DEF Kept
  <2>4. CASE c \in {".", ".."}
    BY <2>1, <2>2, <2>3, <2>4 DEF LookupIn
  <2>5. CASE c \notin {".", ".."}
    <3>1. PICK i \in DOMAIN f[n].entries : f[n].entries[i].name = c
      BY <1>1, <2>1, <2>5 DEF LookupIn
    <3>2. Find(f[n].entries, c) = i
      BY <2>2, <3>1, FindsEntry
    <3>3. LookupIn(f, n, c) = f[n].entries[i].node
      BY <2>5, <3>1, <3>2 DEF LookupIn
    <3>4. PICK j \in DOMAIN g[n].entries : g[n].entries[j] = f[n].entries[i]
      BY <2>1, <2>2, <3>3 DEF Kept
    <3>5. g[n].entries[j].name = c /\ Find(g[n].entries, c) = j
      BY <2>2, <3>1, <3>4, FindsEntry
    <3>6. LookupIn(g, n, c) = g[n].entries[j].node
      BY <2>5, <3>5 DEF LookupIn
    <3> QED
      BY <2>1, <2>2, <3>3, <3>4, <3>6
  <2> QED
    BY <2>4, <2>5
<1> QED
  BY <1>3, <1>4

(* So does a path, when all it passes through stays. *)
LEMMA AfterKept ==
  ASSUME NEW f, Well(f), NEW g, Well(g), Kept(f, g), NEW path, NEW l \in Nat,
         \A k \in 1 .. l : After("path", f, Root, path, k) \in DOMAIN f \cap DOMAIN g,
         NEW n \in 0 .. l
  PROVE  After("path", g, Root, path, n) = After("path", f, Root, path, n)
<1> DEFINE F(i) == After("path", f, Root, path, i)
           G(i) == After("path", g, Root, path, i)
           T == {i \in Nat : i <= l => G(i) = F(i)}
<1>1. F(0) = Root /\ G(0) = Root /\ Root \in DOMAIN f \cap DOMAIN g
  BY AfterSteps DEF Well, Rooted, DirsOf
<1>2. \A i \in 0 .. l : F(i) \in DOMAIN f \cap DOMAIN g
  BY <1>1
<1>3. \A i \in Nat : /\ F(i + 1) = WalkIn(f, F(i), path[i + 1])
                     /\ G(i + 1) = WalkIn(g, G(i), path[i + 1])
  BY AfterSteps DEF Take
<1> HIDE DEF F, G
<1>4. 0 \in T
  BY <1>1
<1>5. ASSUME NEW i \in Nat, i \in T PROVE i + 1 \in T
  <2> SUFFICES ASSUME i + 1 <= l PROVE G(i + 1) = F(i + 1)
    OBVIOUS
  <2>1. G(i) = F(i) /\ F(i) \in DOMAIN f \cap DOMAIN g /\ F(i + 1) \in DOMAIN g
    BY <1>2, <1>5
  <2>2. WalkIn(f, F(i), path[i + 1]) \in DOMAIN g
    BY <1>3, <2>1
  <2>3. WalkIn(g, F(i), path[i + 1]) = WalkIn(f, F(i), path[i + 1])
    BY <2>1, <2>2, WalkKept
  <2> QED
    BY <1>3, <2>1, <2>3
<1>6. Nat \subseteq T
  <2> HIDE DEF T
  <2> QED
    BY <1>4, <1>5, Inductive
<1> QED
  BY <1>6 DEF F, G
-----------------------------------------------------------------------------
(* An empty name is skipped. *)
LEMMA FoldedPut ==
  ASSUME NEW f, NEW base, NEW path, IsSeq(path)
  PROVE  Folded(f, base, Put(path, "")) = Folded(f, base, path)
<1>0. PICK e : e = ""
  OBVIOUS
<1>1. PICK S : path \in Seq(S) /\ e \in S
  BY CommonSet
<1>2. PICK n \in Nat : n = Len(path) /\ DOMAIN path = 1 .. n
  BY <1>1, LenProperties
<1>3. PICK more \in Seq(S) : more = Put(path, e)
  BY <1>1, PutIs
<1>4. /\ DOMAIN more = 1 .. (n + 1)
      /\ (\A i \in 1 .. n : path[i] = more[i]) /\ more[n + 1] = e
  <2>1. /\ Len(Put(path, e)) = Len(path) + 1
        /\ \A i \in 1 .. Len(path) : Put(path, e)[i] = path[i]
        /\ Put(path, e)[Len(path) + 1] = e
    BY <1>1, PutIs
  <2>2. Len(more) = n + 1 /\ (\A i \in 1 .. n : path[i] = more[i]) /\ more[n + 1] = e
    BY <1>2, <1>3, <2>1
  <2> QED
    BY <2>2, LenProperties
<1>5. /\ Folded(f, base, path) = After("path", f, base, path, n)
      /\ Folded(f, base, more) = After("path", f, base, more, n + 1)
  BY <1>2, <1>4, FoldWalks
<1>6. After("path", f, base, path, n) = After("path", f, base, more, n)
  BY <1>4, AfterPrefix
<1>7. After("path", f, base, more, n + 1) = WalkIn(f, After("path", f, base, more, n), e)
  BY <1>4, AfterSteps DEF Take
<1>8. \A m : WalkIn(f, m, e) = m
  BY <1>0 DEF WalkIn
<1> QED
  BY <1>0, <1>3, <1>5, <1>6, <1>7, <1>8

(* The second part of a path is read from where the first leads. *)
LEMMA FoldedJoin ==
  ASSUME NEW f, NEW base, NEW p, IsSeq(p), NEW q, IsSeq(q)
  PROVE  Folded(f, base, Join(p, q)) = Folded(f, Folded(f, base, p), q)
<1>1. PICK S : p \in Seq(S) /\ q \in Seq(S)
  BY CommonSet
<1>2. PICK n \in Nat : n = Len(p) /\ DOMAIN p = 1 .. n
  BY <1>1, LenProperties
<1>3. PICK l \in Nat : l = Len(q) /\ DOMAIN q = 1 .. l
  BY <1>1, LenProperties
<1>4. PICK both \in Seq(S) : both = Join(p, q)
  BY <1>1, JoinIs
<1>5. /\ Len(both) = n + l
      /\ \A i \in 1 .. n + l : both[i] = IF i <= n THEN p[i] ELSE q[i - n]
  BY <1>1, <1>2, <1>3, <1>4, JoinIs
<1>6. PICK all \in Nat : all = n + l /\ DOMAIN both = 1 .. all
  BY <1>5, LenProperties
<1>7. \A i \in 1 .. n : p[i] = both[i]
  BY <1>5
<1>8. ASSUME NEW i \in 1 .. l PROVE q[i] = both[n + i]
  <2>1. n + i \in 1 .. n + l /\ ~(n + i <= n) /\ (n + i) - n = i
    OBVIOUS
  <2> QED
    BY <1>5, <2>1
<1>9. PICK m : m = After("path", f, base, p, n) /\ m = Folded(f, base, p)
  BY <1>2, FoldWalks
<1>10. /\ Folded(f, m, q) = After("path", f, m, q, l)
       /\ Folded(f, base, both) = After("path", f, base, both, all)
  BY <1>3, <1>6, FoldWalks
<1>11. m = After("path", f, base, both, n)
  BY <1>7, <1>9, AfterPrefix
<1>12. After("path", f, m, q, l) = After("path", f, base, both, all)
  BY <1>6, <1>8, <1>11, AfterParts
<1> QED
  BY <1>4, <1>9, <1>10, <1>12

(* A path leads to a node, or nowhere; from nowhere, nowhere. *)
LEMMA FoldedGives ==
  ASSUME FSInv, NEW path, IsSeq(path)
  PROVE  /\ \A base \in DOMAIN node \cup {NULL} : Folded(node, base, path) \in DOMAIN node \cup {NULL}
         /\ Folded(node, NULL, path) = NULL
<1>1. PICK n \in Nat : DOMAIN path = 1 .. n
  BY LenProperties DEF IsSeq
<1> QED
  BY <1>1, FoldWalks, AfterGives, AfterNull

(* A sequence of one element. *)
LEMMA PutFirst ==
  ASSUME NEW v, NEW none, none = <<>>, NEW one, one = <<v>>
  PROVE  Put(none, v) = one
<1>1. none \in Seq({v})
  BY EmptySeq
<1>2. PICK e \in Seq({v}) : e = <<v>> /\ Put(none, v) = Join(none, e)
  BY <1>1, PutIsJoin
<1>3. <<>> \o e = e
  BY ConcatEmptySeq
<1>4. Join(none, e) = e
  BY <1>3 DEF Join
<1>5. e = one
  BY <1>2
<1> QED
  BY <1>2, <1>4, <1>5

(* The slash of the root names the root. *)
LEMMA HomeIsRoot ==
  ASSUME NEW f
  PROVE  \A text : text = <<Slash>> => Folded(f, Root, NamesOf(text)) = Root
<1>0. SUFFICES ASSUME NEW text, text = <<Slash>>
               PROVE  Folded(f, Root, NamesOf(text)) = Root
  OBVIOUS
<1>1. PICK none : none = <<>>
  OBVIOUS
<1>2. none \in Seq({}) /\ IsSeq(none) /\ DOMAIN none = 1 .. 0
  <2>1. none \in Seq({}) /\ Len(none) = 0
    BY <1>1, EmptySeq
  <2> QED
    BY <2>1, LenProperties DEF IsSeq
<1>3. Put(none, Slash) = text
  <2>1. PICK e : e = Slash
    OBVIOUS
  <2>2. text = <<e>>
    BY <1>0, <2>1
  <2>3. Put(none, e) = text
    BY <1>1, <2>2, PutFirst
  <2> QED
    BY <2>1, <2>3
<1>4. PICK blank : blank = Blank
  OBVIOUS
<1>5. Put(none, "") = blank
  <2>1. PICK e : e = ""
    OBVIOUS
  <2>2. blank = <<e>>
    BY <1>4, <2>1 DEF Blank
  <2>3. Put(none, e) = blank
    BY <1>1, <2>2, PutFirst
  <2> QED
    BY <2>1, <2>3
<1>6. NamesOf(none) = blank
  <2>1. NamesOf(none) = After("text", NULL, Blank, none, 0)
    BY <1>2, FoldNames DEF Named
  <2>2. After("text", NULL, Blank, none, 0) = Blank
    BY AfterSteps
  <2> QED
    BY <1>4, <2>1, <2>2
<1>7. NamesOf(Put(none, Slash)) = Put(NamesOf(none), "")
  BY <1>2, NamesOfSlashed
<1>8. NamesOf(text) = Put(blank, "")
  BY <1>3, <1>6, <1>7
<1>9. Folded(f, Root, none) = Root
  <2>1. Folded(f, Root, none) = After("path", f, Root, none, 0)
    BY <1>2, FoldWalks
  <2> QED
    BY <2>1, AfterSteps
<1>10. Folded(f, Root, Put(none, "")) = Folded(f, Root, none)
  BY <1>2, FoldedPut
<1>11. Folded(f, Root, Put(blank, "")) = Folded(f, Root, blank)
  BY <1>4, BlankIs, FoldedPut
<1> QED
  BY <1>5, <1>8, <1>9, <1>10, <1>11
-----------------------------------------------------------------------------
(* current_dir is a text that ends with a slash, and names here. *)
CwdFits(f, dir, h) ==
  /\ IsSeq(dir) /\ dir # <<>> /\ Last(dir) = Slash
  /\ h # NULL => h \in DirsOf(f) /\ Folded(f, Root, NamesOf(dir)) = h
CwdInv == CwdFits(node, current_dir, here)

(* At home the text is the slash. *)
LEMMA HomeFits ==
  ASSUME NEW f, Well(f)
  PROVE  \A t : t = <<Slash>> => CwdFits(f, t, Root)
<1>0. SUFFICES ASSUME NEW t, t = <<Slash>> PROVE CwdFits(f, t, Root)
  OBVIOUS
<1>1. PICK e : e = Slash /\ t = <<e>>
  BY <1>0
<1>2. t \in Seq({e}) /\ t # <<>> /\ Last(t) = e
  <2>1. t \in Seq({e})
    BY <1>1
  <2>2. Len(t) = 1 /\ t[1] = e
    BY <1>1
  <2>3. t # <<>>
    BY <2>2, EmptySeq
  <2> QED
    BY <2>1, <2>2, <2>3 DEF Last
<1>3. Root \in DirsOf(f)
  BY DEF Well, Rooted
<1>4. Folded(f, Root, NamesOf(t)) = Root
  BY <1>0, HomeIsRoot
<1> QED
  BY <1>1, <1>2, <1>3, <1>4 DEF CwdFits, IsSeq

(* Ending a text with a slash changes nothing of what it names. *)
LEMMA Slashed ==
  ASSUME NEW f, NEW text, IsSeq(text), text # <<>>
  PROVE  /\ IsSeq(WithSlash(text)) /\ WithSlash(text) # <<>> /\ Last(WithSlash(text)) = Slash
         /\ Folded(f, Root, NamesOf(WithSlash(text))) = Folded(f, Root, NamesOf(text))
<1>1. CASE Last(text) = Slash
  BY <1>1 DEF WithSlash
<1>2. CASE Last(text) # Slash
  <2>1. WithSlash(text) = Put(text, Slash)
    BY <1>2 DEF WithSlash, Put
  <2>2. PICK S, e : e = Slash /\ text \in Seq(S) /\ e \in S
    <3>1. PICK e : e = Slash
      OBVIOUS
    <3> QED
      BY <3>1, CommonSet
  <2>3. PICK more \in Seq(S) : more = Put(text, e) /\ more # <<>>
    BY <2>2, PutIs
  <2>4. Len(Put(text, e)) = Len(text) + 1 /\ Put(text, e)[Len(text) + 1] = e
    BY <2>2, PutIs
  <2>5. Last(more) = e
    BY <2>3, <2>4 DEF Last
  <2>6. NamesOf(Put(text, Slash)) = Put(NamesOf(text), "")
    BY NamesOfSlashed
  <2>7. Folded(f, Root, Put(NamesOf(text), "")) = Folded(f, Root, NamesOf(text))
    BY SomeNames, FoldedPut
  <2> QED
    BY <2>1, <2>2, <2>3, <2>5, <2>6, <2>7 DEF IsSeq
<1> QED
  BY <1>1, <1>2

(* What is cut off leaves a text. *)
LEMMA CutFits ==
  ASSUME NEW text, IsSeq(text), text # <<>>
  PROVE  IsSeq(Cut(text)) /\ Cut(text) # <<>>
<1>1. CASE Len(text) < PATH
  BY <1>1 DEF Cut
<1>2. CASE ~(Len(text) < PATH)
  <2>1. PICK S : text \in Seq(S)
    BY DEF IsSeq
  <2>2. PICK a \in 0 .. Len(text) : a = PATH - 1 /\ a # 0
    <3>1. PATH \in Nat \ {0, 1} /\ Len(text) \in Nat
      BY <2>1, LenProperties, WorkingDirAssumption
    <3>2. PATH - 1 \in 0 .. Len(text) /\ PATH - 1 # 0
      BY <1>2, <3>1
    <3> QED
      BY <3>2
  <2>3. PICK t \in Seq(S) : t = SubSeq(text, 1, a) /\ Len(t) = a
    BY <2>1, PrefixIs
  <2>4. t # <<>>
    BY <2>2, <2>3, EmptySeq
  <2>5. Cut(text) = t
    BY <1>2, <2>2, <2>3 DEF Cut
  <2> QED
    BY <2>3, <2>4, <2>5 DEF IsSeq
<1> QED
  BY <1>1, <1>2

(* cd leads to what its path names, from the root or from here. *)
LEMMA CdFits ==
  ASSUME FSInv, CwdInv, NEW arg \in Args, Cd(arg)
  PROVE  CwdInv'
<1>1. IsSeq(arg) /\ arg # <<>>
  BY WorkingDirAssumption DEF IsSeq
<1>2. PICK full : full = FullPath(arg)
  OBVIOUS
<1>3. PICK new_path : new_path = Cut(full)
  OBVIOUS
<1>4. PICK dir : dir = Resolve(NamesOf(new_path))
  OBVIOUS
<1>5. /\ dir # NULL /\ IsDir(dir)
      /\ current_dir' = WithSlash(new_path)
      /\ here' = IF new_path # full THEN NULL
                 ELSE FoldLeft(Walk, IF IsAbsolute(arg) THEN Root ELSE here, NamesOf(arg))
      /\ node' = node
  BY <1>2, <1>3, <1>4 DEF Cd, vars
<1>6. IsSeq(current_dir) /\ current_dir # <<>> /\ Last(current_dir) = Slash
  BY DEF CwdInv, CwdFits
<1>7. full = IF IsAbsolute(arg) THEN arg ELSE Join(current_dir, arg)
  BY <1>2, <1>6 DEF FullPath, WithSlash, Join
<1>8. IsSeq(full) /\ full # <<>>
  <2>1. CASE IsAbsolute(arg)
    BY <1>1, <1>7, <2>1
  <2>2. CASE ~IsAbsolute(arg)
    <3>1. PICK S : current_dir \in Seq(S) /\ arg \in Seq(S)
      BY <1>1, <1>6, CommonSet
    <3>2. Join(current_dir, arg) \in Seq(S) /\ Join(current_dir, arg) # <<>>
      BY <1>1, <3>1, JoinIs, FrontAfter
    <3> QED
      BY <1>7, <2>2, <3>2 DEF IsSeq
  <2> QED
    BY <2>1, <2>2
<1>9. IsSeq(new_path) /\ new_path # <<>>
  BY <1>3, <1>8, CutFits
<1>10. PICK cwd : /\ cwd = WithSlash(new_path)
                  /\ IsSeq(cwd) /\ cwd # <<>> /\ Last(cwd) = Slash
                  /\ Folded(node, Root, NamesOf(cwd)) = Folded(node, Root, NamesOf(new_path))
  BY <1>9, Slashed
<1>11. dir = Folded(node, Root, NamesOf(new_path))
  BY <1>4, ResolveIsFolded
<1>12. dir \in DirsOf(node)
  <2>1. Root \in DOMAIN node
    BY DEF FSInv, Well, Rooted, DirsOf
  <2>2. dir \in DOMAIN node \cup {NULL}
    BY <1>9, <1>11, <2>1, SomeNames, FoldedGives
  <2> QED
    BY <1>5, <2>2 DEF DirsOf, IsDir
<1>13. ASSUME here' # NULL PROVE here' = dir
  <2>1. new_path = full
    BY <1>5, <1>13
  <2>2. IsSeq(NamesOf(arg))
    BY <1>1, SomeNames
  <2>3. CASE IsAbsolute(arg)
    <3>1. here' = FoldLeft(Walk, Root, NamesOf(arg))
      BY <1>5, <2>1, <2>3
    <3>2. here' = Resolve(NamesOf(arg))
      BY <3>1 DEF Resolve
    <3> QED
      BY <1>4, <1>7, <2>1, <2>3, <3>2
  <2>4. CASE ~IsAbsolute(arg)
    <3>1. here' = FoldLeft(Walk, here, NamesOf(arg))
      BY <1>5, <2>1, <2>4
    <3>2. here' = Folded(node, here, NamesOf(arg))
      BY <3>1, CdIsFolded
    <3>3. here # NULL
      BY <1>13, <2>2, <3>2, FoldedGives
    <3>4. here = Folded(node, Root, NamesOf(current_dir))
      BY <3>3 DEF CwdInv, CwdFits
    <3>5. PICK N : /\ IsSeq(N)
                   /\ NamesOf(current_dir) = Put(N, "")
                   /\ NamesOf(Join(current_dir, arg)) = Join(N, NamesOf(arg))
      BY <1>1, <1>6, NamesJoin
    <3>6. here = Folded(node, Root, N)
      BY <3>4, <3>5, FoldedPut
    <3>7. Folded(node, Root, Join(N, NamesOf(arg))) = Folded(node, here, NamesOf(arg))
      <4>1. PICK q : q = NamesOf(arg) /\ IsSeq(q)
        BY <2>2
      <4>2. IsSeq(N)
        BY <3>5
      <4>3. Folded(node, Root, Join(N, q)) = Folded(node, Folded(node, Root, N), q)
        BY <4>1, <4>2, FoldedJoin
      <4> QED
        BY <3>6, <4>1, <4>3
    <3> QED
      BY <1>7, <1>11, <2>1, <2>4, <3>2, <3>5, <3>7
  <2> QED
    BY <2>3, <2>4
<1>14. CwdFits(node, cwd, here')
  BY <1>10, <1>11, <1>12, <1>13 DEF CwdFits
<1> QED
  BY <1>5, <1>10, <1>14 DEF CwdInv

(* A route leads through what comes of the text, name by name. *)
LEMMA ResolveIsAfter ==
  ASSUME NEW path, NEW n \in Nat, DOMAIN path = 1 .. n
  PROVE  Resolve(path) = After("path", node, Root, path, n)
<1>1. Resolve(path) = Folded(node, Root, path)
  BY ResolveIsFolded
<1>2. Folded(node, Root, path) = After("path", node, Root, path, n)
  BY FoldWalks
<1> QED
  BY <1>1, <1>2

(* What the text passes through stays, or here is given up. *)
LEMMA FileCommandFits ==
  ASSUME FSInv, FSInv', Kept(node, node'), CwdInv, FileCommand
  PROVE  CwdInv'
<1>1. /\ current_dir' = current_dir
      /\ here' = IF Route \subseteq DOMAIN node' THEN here ELSE NULL
  BY DEF FileCommand
<1>2. IsSeq(current_dir) /\ current_dir # <<>> /\ Last(current_dir) = Slash
  BY DEF CwdInv, CwdFits
<1>3. PICK names : names = NamesOf(current_dir) /\ IsSeq(names) /\ names # <<>>
  BY <1>2, SomeNames
<1>4. PICK S : names \in Seq(S)
  BY <1>3 DEF IsSeq
<1>5. PICK l \in Nat \ {0} : l = Len(names) /\ DOMAIN names = 1 .. l
  BY <1>3, <1>4, EmptySeq, LenProperties
<1>6. Well(node) /\ Well(node')
  BY DEF FSInv
<1>7. ASSUME here' # NULL
      PROVE  here' \in DirsOf(node') /\ Folded(node', Root, names) = here'
  <2>1. here' = here /\ Route \subseteq DOMAIN node'
    BY <1>1, <1>7
  <2>2. here \in DirsOf(node) /\ Folded(node, Root, names) = here
    BY <1>3, <1>7, <2>1 DEF CwdInv, CwdFits
  <2>3. Folded(node, Root, names) = After("path", node, Root, names, l)
        /\ Folded(node', Root, names) = After("path", node', Root, names, l)
    BY <1>5, FoldWalks
  <2>4. ASSUME NEW k \in 1 .. l
        PROVE  After("path", node, Root, names, k) \in DOMAIN node \cap DOMAIN node'
    <3>1. PICK a \in 0 .. Len(names) : a = k /\ a \in Nat /\ a \in DOMAIN names
      BY <1>5
    <3>2. PICK p \in Seq(S) : p = SubSeq(names, 1, a) /\ Len(p) = a /\ \A i \in 1 .. a : p[i] = names[i]
      BY <1>4, PrefixIs
    <3>3. DOMAIN p = 1 .. a
      BY <3>2, LenProperties
    <3>4. Resolve(p) = After("path", node, Root, p, a)
      BY <3>1, <3>3, ResolveIsAfter
    <3>5. After("path", node, Root, p, a) = After("path", node, Root, names, a)
      <4>1. a \in Nat /\ \A i \in 1 .. a : p[i] = names[i]
        BY <3>1, <3>2
      <4> QED
        BY <4>1, AfterPrefix
    <3>6. Resolve(p) \in Route
      BY <1>3, <3>1, <3>2 DEF Route
    <3>7. Resolve(p) \in DOMAIN node'
      BY <2>1, <3>6
    <3>8. NULL \notin DOMAIN node' /\ Root \in DOMAIN node
      BY <1>6, NullIsNoText DEF Well, Typed, Rooted, DirsOf
    <3>9. After("path", node, Root, names, a) \in DOMAIN node \cup {NULL}
      BY <3>1, <3>8, AfterGives
    <3> QED
      BY <3>1, <3>4, <3>5, <3>7, <3>8, <3>9
  <2>5. After("path", node', Root, names, l) = After("path", node, Root, names, l)
    <3>1. l \in 0 .. l /\ l \in Nat
      OBVIOUS
    <3> QED
      BY <1>6, <2>4, <3>1, AfterKept
  <2>6. here \in DOMAIN node'
    <3>1. l \in 1 .. l
      OBVIOUS
    <3> QED
      BY <2>2, <2>3, <2>4, <3>1
  <2>7. here \in DirsOf(node')
    BY <2>2, <2>6 DEF Kept, DirsOf
  <2> QED
    BY <2>1, <2>2, <2>3, <2>5, <2>7
<1> QED
  BY <1>1, <1>2, <1>3, <1>7 DEF CwdInv, CwdFits

(* The invariant of current_dir holds at first, ... *)
LEMMA InitCwd == ShellInit => CwdInv
<1> SUFFICES ASSUME ShellInit PROVE CwdInv
  OBVIOUS
<1>1. Well(node) /\ current_dir = <<Slash>> /\ here = Root
  BY InitInv DEF ShellInit, FSInv
<1> QED
  BY <1>1, HomeFits DEF CwdInv

(* ... every step of the shell keeps it, ... *)
LEMMA ShellKeepsCwd == ASSUME FSInv, CwdInv, [ShellNext]_shellVars PROVE CwdInv'
<1>1. CASE CdHome
  <2>1. current_dir' = <<Slash>> /\ here' = Root /\ node' = node
    BY <1>1 DEF CdHome, vars
  <2>2. CwdFits(node, current_dir', Root)
    BY <2>1, HomeFits DEF FSInv
  <2> QED
    BY <2>1, <2>2 DEF CwdInv
<1>2. ASSUME NEW arg \in Args, Cd(arg) PROVE CwdInv'
  BY <1>2, CdFits
<1>3. CASE FileCommand
  BY <1>3, FileCommandKeepsInv, DoesKeep, FileCommandFits DEF Proceeds
<1>4. CASE UNCHANGED shellVars
  BY <1>4 DEF shellVars, vars, CwdInv
<1> QED
  BY <1>1, <1>2, <1>3, <1>4 DEF ShellNext

(* ... and it is what CwdIsHere states. *)
LEMMA InvIsHere == CwdInv => CwdIsHere
<1> SUFFICES ASSUME CwdInv, here # NULL
             PROVE  IsDir(here) /\ Resolve(NamesOf(current_dir)) = here
  BY DEF CwdIsHere
<1>1. here \in DirsOf(node) /\ Folded(node, Root, NamesOf(current_dir)) = here
  BY DEF CwdInv, CwdFits
<1>2. Resolve(NamesOf(current_dir)) = Folded(node, Root, NamesOf(current_dir))
  BY ResolveIsFolded
<1> QED
  BY <1>1, <1>2 DEF DirsOf, IsDir

(* current_dir names the directory that cd has led to, one after the other, *)
(* whatever mkdir, touch, write and rm have done to the files in between.   *)
THEOREM SkullFSCwdIsHere == ShellSpec => []CwdIsHere
<1>1. FSInv /\ CwdInv /\ [ShellNext]_shellVars => CwdInv'
  BY ShellKeepsCwd
<1> QED
  BY <1>1, SkullFSInvariant, InitCwd, InvIsHere, PTL DEF ShellSpec
-----------------------------------------------------------------------------
(* Every node has its path, the names on the way from the root, and no two  *)
(* have the same. *)
Placed(f, at) ==
  /\ DOMAIN at = DOMAIN f
  /\ \A n \in DOMAIN f : at[n] \in Seq(Names)
  /\ at[Root] = <<>>
  /\ \A d \in DirsOf(f) : \A i \in DOMAIN f[d].entries :
       at[f[d].entries[i].node] = Put(at[d], f[d].entries[i].name)
  /\ \A m, n \in DOMAIN f : at[m] = at[n] => m = n
PlacedInv == \E at : Placed(node, at)

(* What was put to a sequence, and what it was put to. *)
LEMMA PutEnds ==
  ASSUME NEW S, NEW s \in Seq(S), NEW v \in S
  PROVE  Front(Put(s, v)) = s /\ Last(Put(s, v)) = v
<1>1. PICK k \in Nat : k = Len(s)
  BY LenProperties
<1>2. PICK u \in Seq(S) : u = Put(s, v)
  BY PutIs
<1>3. Len(u) = k + 1 /\ (\A i \in 1 .. k : u[i] = s[i]) /\ u[k + 1] = v
  <2>1. /\ Len(Put(s, v)) = Len(s) + 1
        /\ \A i \in 1 .. Len(s) : Put(s, v)[i] = s[i]
        /\ Put(s, v)[Len(s) + 1] = v
    BY PutIs
  <2> QED
    BY <1>1, <1>2, <2>1
<1>4. PICK a \in 0 .. Len(u) : a = k /\ a = Len(u) - 1
  <2>1. k \in 0 .. Len(u) /\ k = Len(u) - 1
    BY <1>3
  <2> QED
    BY <2>1
<1>5. PICK p \in Seq(S) : p = SubSeq(u, 1, a) /\ Len(p) = a /\ \A i \in 1 .. a : p[i] = u[i]
  BY PrefixIs
<1>6. Front(u) = p
  BY <1>4, <1>5 DEF Front
<1>7. Len(p) = Len(s) /\ \A i \in 1 .. Len(p) : p[i] = s[i]
  BY <1>1, <1>3, <1>4, <1>5
<1>8. p = s
  BY <1>7, SeqEqual
<1>9. Last(u) = v
  BY <1>3 DEF Last
<1> QED
  BY <1>2, <1>6, <1>8, <1>9

(* The name of an entry is one of the names. *)
LEMMA EntryNamed ==
  ASSUME NEW f, Well(f), NEW d \in DirsOf(f), NEW i \in DOMAIN f[d].entries
  PROVE  f[d].entries[i].name \in Names
  BY DirTyped DEF Well, Entry

(* What is put to the path of a directory is the path of its entry of that  *)
(* name, and of nothing else. *)
LEMMA PathsOfEntries ==
  ASSUME NEW f, Well(f), NEW at, Placed(f, at), NEW d \in DirsOf(f), NEW name \in Names,
         NEW m \in DOMAIN f, at[m] = Put(at[d], name)
  PROVE  \E i \in DOMAIN f[d].entries : f[d].entries[i].name = name /\ f[d].entries[i].node = m
<1>1. d \in DOMAIN f /\ at[d] \in Seq(Names)
  BY DEF Placed, DirsOf
<1>2. m # Root
  BY <1>1, PutIs DEF Placed
<1>3. PICK c \in DirsOf(f) : \E i \in DOMAIN f[c].entries : f[c].entries[i].node = m
  BY <1>2, WellHolds
<1>4. PICK i \in DOMAIN f[c].entries : f[c].entries[i].node = m
  BY <1>3
<1>5. PICK v \in Names : v = f[c].entries[i].name
  BY EntryNamed
<1>6. c \in DOMAIN f /\ at[c] \in Seq(Names) /\ at[m] = Put(at[c], v)
  BY <1>4, <1>5 DEF Placed, DirsOf
<1>7. Front(at[m]) = at[c] /\ Last(at[m]) = v
  BY <1>6, PutEnds
<1>8. Front(at[m]) = at[d] /\ Last(at[m]) = name
  BY <1>1, PutEnds
<1>9. c = d /\ v = name
  BY <1>1, <1>6, <1>7, <1>8 DEF Placed
<1> QED
  BY <1>4, <1>5, <1>9

(* A node more has a path more, ... *)
LEMMA GrowsPlaced ==
  ASSUME NEW f, Well(f), NEW at, Placed(f, at), NEW d \in DirsOf(f), NEW n \in Addresses \ DOMAIN f,
         NEW name \in Names, \A i \in DOMAIN f[d].entries : f[d].entries[i].name # name,
         NEW x, x \in FileNode \/ x = NewDir(d),
         NEW g, Grows(f, g, d, name, n, x),
         NEW to, to = [m \in DOMAIN g |-> IF m = n THEN Put(at[d], name) ELSE at[m]]
  PROVE  Placed(g, to) /\ \A m \in DOMAIN f : at[m] # Put(at[d], name)
<1>1. /\ DOMAIN g = DOMAIN f \cup {n} /\ d \in DOMAIN f /\ d # n /\ n \notin DOMAIN f /\ Root \in DOMAIN f
      /\ at[d] \in Seq(Names)
  BY DEF Grows, DirsOf, Placed, Well, Rooted
<1>2. \A m \in DOMAIN f : at[m] # Put(at[d], name)
  BY PathsOfEntries
<1>3. /\ to[n] = Put(at[d], name) /\ Put(at[d], name) \in Seq(Names)
      /\ \A m \in DOMAIN f : to[m] = at[m]
  BY <1>1, PutIs
<1>4. \A m \in DOMAIN g : to[m] \in Seq(Names)
  BY <1>1, <1>3 DEF Placed
<1>5. to[Root] = <<>>
  BY <1>1, <1>3 DEF Placed
<1>6. ASSUME NEW c \in DirsOf(g), NEW i \in DOMAIN g[c].entries
      PROVE  to[g[c].entries[i].node] = Put(to[c], g[c].entries[i].name)
  <2>1. \/ c = d /\ i = 1 /\ g[c].entries[i] = [name |-> name, node |-> n]
        \/ c = d /\ i # 1 /\ i - 1 \in DOMAIN f[c].entries /\ g[c].entries[i] = f[c].entries[i - 1]
        \/ c # d /\ c # n /\ c \in DirsOf(f) /\ g[c] = f[c]
    BY GrownEntries DEF Well
  <2>2. CASE c = d /\ i = 1 /\ g[c].entries[i] = [name |-> name, node |-> n]
    BY <1>1, <1>3, <2>2
  <2>3. CASE c = d /\ i # 1 /\ i - 1 \in DOMAIN f[c].entries /\ g[c].entries[i] = f[c].entries[i - 1]
    <3>1. PICK j \in DOMAIN f[d].entries : g[c].entries[i] = f[d].entries[j]
      BY <2>3
    <3>2. f[d].entries[j].node \in DOMAIN f
      BY DEF Well, Listed
    <3>3. at[f[d].entries[j].node] = Put(at[d], f[d].entries[j].name)
      BY DEF Placed
    <3> QED
      BY <1>1, <1>3, <2>3, <3>1, <3>2, <3>3
  <2>4. CASE c # d /\ c # n /\ c \in DirsOf(f) /\ g[c] = f[c]
    <3>1. c \in DOMAIN f /\ f[c].entries[i].node \in DOMAIN f
      BY <2>4 DEF Well, Listed, DirsOf
    <3>2. at[f[c].entries[i].node] = Put(at[c], f[c].entries[i].name)
      BY <2>4 DEF Placed
    <3> QED
      BY <1>3, <2>4, <3>1, <3>2
  <2> QED
    BY <2>1, <2>2, <2>3, <2>4
<1>7. ASSUME NEW l \in DOMAIN g, NEW m \in DOMAIN g, to[l] = to[m] PROVE l = m
  BY <1>1, <1>2, <1>3, <1>7 DEF Placed
<1> QED
  BY <1>2, <1>4, <1>5, <1>6, <1>7 DEF Placed

(* ... a node less a path less, ... *)
LEMMA ShrinksPlaced ==
  ASSUME NEW f, Well(f), NEW at, Placed(f, at), NEW d \in DirsOf(f), NEW k \in DOMAIN f[d].entries,
         NEW n \in DOMAIN f \ {d}, f[d].entries[k].node = n, NEW g, Well(g), Shrinks(f, g, d, k, n),
         NEW to, to = [m \in DOMAIN g |-> at[m]]
  PROVE  Placed(g, to)
<1>1. /\ DOMAIN g = DOMAIN f \ {n} /\ d \in DOMAIN f /\ Root \in DOMAIN g
      /\ \A m \in DOMAIN f \ {d, n} : g[m] = f[m]
      /\ \A m \in DOMAIN g : to[m] = at[m]
  BY DEF Shrinks, DirsOf, Well, Rooted
<1>2. /\ DirsOf(g) = DirsOf(f) \ {n}
      /\ \A i \in DOMAIN g[d].entries :
           Was(i, k) \in DOMAIN f[d].entries \ {k} /\ g[d].entries[i] = f[d].entries[Was(i, k)]
  BY ShrunkEntries DEF Well
<1>3. ASSUME NEW c \in DirsOf(g), NEW i \in DOMAIN g[c].entries
      PROVE  to[g[c].entries[i].node] = Put(to[c], g[c].entries[i].name)
  <2>1. PICK j \in DOMAIN f[c].entries : g[c].entries[i] = f[c].entries[j]
    <3>1. CASE c = d
      BY <1>2, <3>1
    <3>2. CASE c # d
      BY <1>1, <1>2, <3>2 DEF DirsOf
    <3> QED
      BY <3>1, <3>2
  <2>2. c \in DOMAIN g /\ g[c].entries[i].node \in DOMAIN g
    BY DEF Well, Listed, DirsOf
  <2>3. at[f[c].entries[j].node] = Put(at[c], f[c].entries[j].name)
    BY <1>2 DEF Placed
  <2> QED
    BY <1>1, <2>1, <2>2, <2>3
<1>4. \A m \in DOMAIN g : to[m] \in Seq(Names)
  BY <1>1 DEF Placed
<1>5. to[Root] = <<>> /\ \A l, m \in DOMAIN g : to[l] = to[m] => l = m
  BY <1>1 DEF Placed
<1> QED
  BY <1>3, <1>4, <1>5 DEF Placed

(* ... and new contents leave a file where it is. *)
LEMMA WritesPlaced ==
  ASSUME NEW f, NEW at, Placed(f, at), NEW n \in DOMAIN f \ DirsOf(f), NEW x \in FileNode,
         NEW g, g = [f EXCEPT ![n] = x]
  PROVE  Placed(g, at)
<1>1. DOMAIN g = DOMAIN f /\ g[n] = x /\ x.kind = "file" /\ \A m \in DOMAIN f \ {n} : g[m] = f[m]
  BY DEF FileNode
<1>2. DirsOf(g) = DirsOf(f) /\ \A c \in DirsOf(f) : g[c] = f[c]
  BY <1>1 DEF DirsOf
<1> QED
  BY <1>1, <1>2 DEF Placed
-----------------------------------------------------------------------------
(* The paths of the model are those: what is below the root is where it is  *)
(* placed. *)
LEMMA LocatedIs ==
  ASSUME Well(node), NEW at, Placed(node, at)
  PROVE  Located = {<<at[n], n>> : n \in DOMAIN node}
<1> DEFINE P == {<<at[n], n>> : n \in DOMAIN node}
           T == {k \in Nat : k <= Deepest => Below[k] \subseteq P}
<1>0. Deepest \in Nat \ {0}
  BY SomeAddresses
<1>1. \A k \in 0 .. Deepest : Below[k] = IF k = 0 THEN {<<<<>>, Root>>} ELSE Under(Below[k - 1])
  BY BelowIs DEF IsBelow
<1>2. <<<<>>, Root>> \in P
  BY DEF Placed, Well, Rooted, DirsOf
<1>3. 0 \in T
  BY <1>0, <1>1, <1>2
<1>4. ASSUME NEW k \in Nat, k \in T PROVE k + 1 \in T
  <2> SUFFICES ASSUME k + 1 <= Deepest, NEW y \in Below[k + 1] PROVE y \in P
    OBVIOUS
  <2>1. k + 1 \in 0 .. Deepest /\ k + 1 # 0 /\ (k + 1) - 1 = k /\ Below[k] \subseteq P
    BY <1>0, <1>4
  <2>2. y \in Under(Below[k])
    BY <1>1, <2>1
  <2>3. PICK x \in Below[k] : IsDir(x[2]) /\ \E e \in EntriesOf(x[2]) : y = <<Append(x[1], e.name), e.node>>
    BY <2>2 DEF Under
  <2>4. PICK d \in DOMAIN node : x = <<at[d], d>>
    BY <2>1
  <2>5. d \in DirsOf(node) /\ x[1] = at[d] /\ x[2] = d
    BY <2>3, <2>4 DEF DirsOf, IsDir
  <2>6. PICK e \in EntriesOf(d) : y = <<Append(at[d], e.name), e.node>>
    BY <2>3, <2>5
  <2>7. PICK i \in DOMAIN node[d].entries : e = node[d].entries[i]
    BY DEF EntriesOf, ToSet
  <2>8. e.node \in DOMAIN node
    BY <2>5, <2>7 DEF Well, Listed
  <2>9. at[e.node] = Put(at[d], e.name)
    BY <2>5, <2>7 DEF Placed
  <2>10. y = <<at[e.node], e.node>>
    BY <2>6, <2>9 DEF Put
  <2> QED
    BY <2>8, <2>10
<1>5. Nat \subseteq T
  <2> HIDE DEF T
  <2> QED
    BY <1>3, <1>4, Inductive
<1>6. Located \subseteq P
  <2> HIDE DEF P
  <2> QED
    BY <1>0, <1>5 DEF Located, Deepest
<1>7. ASSUME NEW n \in DOMAIN node PROVE <<at[n], n>> \in Located
  <2>1. PICK x \in Located : n = x[2]
    BY AllLocated
  <2>2. PICK m \in DOMAIN node : x = <<at[m], m>>
    BY <1>6
  <2> QED
    BY <2>1, <2>2
<1> QED
  BY <1>6, <1>7

(* What a node holds. *)
Content(x) == IF x.kind = "dir" THEN NULL ELSE IF x.data # NULL THEN x.data ELSE <<>>

(* A tree of the promise, with what each node holds at its path. *)
IsTree(t, f, at) ==
  /\ t = [p \in DOMAIN t |-> t[p]]
  /\ DOMAIN t = {at[n] : n \in DOMAIN f}
  /\ \A n \in DOMAIN f : t[at[n]] = Content(f[n])

(* NamedTree is one: no two nodes have one path, so the path determines what *)
(* is there.                                                                 *)
LEMMA TreeIs ==
  ASSUME Well(node), NEW at, Placed(node, at)
  PROVE  IsTree(NamedTree, node, at)
<1>1. Located = {<<at[n], n>> : n \in DOMAIN node}
  BY LocatedIs
<1>2. {x[1] : x \in Located} = {at[n] : n \in DOMAIN node}
  <2>1. ASSUME NEW x \in Located PROVE x[1] \in {at[n] : n \in DOMAIN node}
    <3>1. PICK n \in DOMAIN node : x = <<at[n], n>>
      BY <1>1
    <3> QED
      BY <3>1
  <2>2. ASSUME NEW n \in DOMAIN node PROVE \E x \in Located : x[1] = at[n]
    <3>1. PICK x \in Located : x = <<at[n], n>>
      BY <1>1
    <3> QED
      BY <3>1
  <2> QED
    BY <2>1, <2>2
<1>3. ASSUME NEW n \in DOMAIN node PROVE (CHOOSE x \in Located : x[1] = at[n])[2] = n
  <2>1. <<at[n], n>> \in Located
    BY <1>1
  <2>2. PICK y \in Located : y = (CHOOSE x \in Located : x[1] = at[n]) /\ y[1] = at[n]
    BY <2>1
  <2>3. PICK m \in DOMAIN node : y = <<at[m], m>>
    BY <1>1
  <2>4. y[1] = at[m] /\ y[2] = m
    BY <2>3
  <2>5. m = n
    BY <2>2, <2>4 DEF Placed
  <2> QED
    BY <2>2, <2>4, <2>5
<1> DEFINE t == NamedTree
<1>4. /\ t = [p \in DOMAIN t |-> t[p]]
      /\ DOMAIN t = {x[1] : x \in Located}
      /\ \A p \in DOMAIN t :
           t[p] = LET n == (CHOOSE x \in Located : x[1] = p)[2]
                  IN  IF IsDir(n) THEN NULL ELSE IF HasData(n) THEN node[n].data ELSE <<>>
  BY DEF NamedTree
<1>5. ASSUME NEW n \in DOMAIN node PROVE t[at[n]] = Content(node[n])
  <2>1. at[n] \in DOMAIN t
    BY <1>2, <1>4
  <2>2. t[at[n]] = IF IsDir(n) THEN NULL ELSE IF HasData(n) THEN node[n].data ELSE <<>>
    BY <1>3, <1>4, <2>1
  <2> QED
    BY <2>2 DEF Content, IsDir, HasData
<1> QED
  BY <1>2, <1>4, <1>5 DEF IsTree
-----------------------------------------------------------------------------
(* A tree with x at the path p, and one without what is there. *)
Plus(t, p, x) == [q \in DOMAIN t \cup {p} |-> IF q = p THEN x ELSE t[q]]
Less(t, p) == [q \in DOMAIN t \ {p} |-> t[q]]

(* In the tree of the promise, a node more is a path more, ... *)
LEMMA TreeGrows ==
  ASSUME NEW f, NEW g, NEW n, n \notin DOMAIN f, DOMAIN g = DOMAIN f \cup {n},
         NEW at, NEW to,
         \A m \in DOMAIN f : to[m] = at[m] /\ at[m] # to[n] /\ Content(g[m]) = Content(f[m]),
         NEW t, IsTree(t, f, at), NEW u, IsTree(u, g, to)
  PROVE  /\ to[n] \in DOMAIN u \ DOMAIN t
         /\ u = Plus(t, to[n], Content(g[n]))
<1>1. DOMAIN t = {at[m] : m \in DOMAIN f} /\ \A m \in DOMAIN f : t[at[m]] = Content(f[m])
  BY DEF IsTree
<1>2. /\ u = [p \in DOMAIN u |-> u[p]]
      /\ DOMAIN u = {to[m] : m \in DOMAIN g} /\ \A m \in DOMAIN g : u[to[m]] = Content(g[m])
  BY DEF IsTree
<1>3. to[n] \notin DOMAIN t
  BY <1>1
<1>4. DOMAIN u = DOMAIN t \cup {to[n]}
  BY <1>1, <1>2
<1>5. u[to[n]] = Content(g[n])
  BY <1>2
<1>6. \A p \in DOMAIN t : u[p] = t[p] /\ p # to[n]
  BY <1>1, <1>2
<1> QED
  BY <1>2, <1>3, <1>4, <1>5, <1>6 DEF Plus

(* ... a node less a path less, ... *)
LEMMA TreeShrinks ==
  ASSUME NEW f, NEW g, NEW n \in DOMAIN f, DOMAIN g = DOMAIN f \ {n},
         NEW at, NEW to,
         \A m \in DOMAIN g : to[m] = at[m] /\ at[m] # at[n] /\ Content(g[m]) = Content(f[m]),
         NEW t, IsTree(t, f, at), NEW u, IsTree(u, g, to)
  PROVE  u = Less(t, at[n])
<1>1. DOMAIN t = {at[m] : m \in DOMAIN f} /\ \A m \in DOMAIN f : t[at[m]] = Content(f[m])
  BY DEF IsTree
<1>2. /\ u = [p \in DOMAIN u |-> u[p]]
      /\ DOMAIN u = {to[m] : m \in DOMAIN g} /\ \A m \in DOMAIN g : u[to[m]] = Content(g[m])
  BY DEF IsTree
<1>3. DOMAIN u = DOMAIN t \ {at[n]}
  BY <1>1, <1>2
<1>4. \A p \in DOMAIN u : u[p] = t[p]
  BY <1>1, <1>2
<1> QED
  BY <1>2, <1>3, <1>4 DEF Less

(* ... and what a file holds is at its path. *)
LEMMA TreeChanges ==
  ASSUME NEW f, NEW g, NEW n \in DOMAIN f, DOMAIN g = DOMAIN f,
         NEW at, \A m \in DOMAIN f \ {n} : at[m] # at[n] /\ Content(g[m]) = Content(f[m]),
         NEW t, IsTree(t, f, at), NEW u, IsTree(u, g, at)
  PROVE  u = Plus(t, at[n], Content(g[n]))
<1>1. DOMAIN t = {at[m] : m \in DOMAIN f} /\ \A m \in DOMAIN f : t[at[m]] = Content(f[m])
  BY DEF IsTree
<1>2. /\ u = [p \in DOMAIN u |-> u[p]]
      /\ DOMAIN u = {at[m] : m \in DOMAIN g} /\ \A m \in DOMAIN g : u[at[m]] = Content(g[m])
  BY DEF IsTree
<1>3. DOMAIN u = DOMAIN t \cup {at[n]}
  BY <1>1, <1>2
<1>4. u[at[n]] = Content(g[n])
  BY <1>2
<1>5. \A p \in DOMAIN t : p # at[n] => u[p] = t[p]
  BY <1>1, <1>2
<1> QED
  BY <1>2, <1>3, <1>4, <1>5 DEF Plus

(* What a new file holds, and one that was written to. *)
LEMMA Contents ==
  /\ \A d : Content(NewDir(d)) = NULL
  /\ Content(NewFile) = <<>>
  /\ \A text \in Texts : Content(Written(NewFile, text)) = text
  /\ \A x \in FileNode, text \in Texts : Fit(x) =>
       Content(Written(x, text)) = Promised!Over(text, Content(x))
  /\ \A x \in FileNode : Content(x) # NULL
<1>1. \A d : Content(NewDir(d)) = NULL
  BY DEF Content, NewDir
<1>2. Content(NewFile) = <<>>
  BY DEF Content, NewFile
<1>3. ASSUME NEW x \in FileNode, NEW text \in Texts, Fit(x)
      PROVE  Content(Written(x, text)) = Overwrite(IF x.data = NULL THEN <<>> ELSE x.data, text)
  <2>1. PICK new : new = Overwrite(IF x.data = NULL THEN <<>> ELSE x.data, text)
    OBVIOUS
  <2>2. Written(x, text).kind = "file" /\ Written(x, text).data = new
    BY <2>1 DEF Written
  <2>3. new # NULL
    BY <1>3, <2>2, WrittenFits
  <2> QED
    BY <2>1, <2>2, <2>3 DEF Content
<1>4. ASSUME NEW x \in FileNode
      PROVE  Content(x) = IF x.data = NULL THEN <<>> ELSE x.data
  <2>1. x.kind = "file"
    BY DEF FileNode
  <2> QED
    BY <2>1 DEF Content
<1>5. ASSUME NEW x \in FileNode, NEW text \in Texts, Fit(x)
      PROVE  Content(Written(x, text)) = Promised!Over(text, Content(x))
  <2>1. Content(Written(x, text)) = Overwrite(Content(x), text)
    BY <1>3, <1>4, <1>5
  <2>2. Overwrite(Content(x), text) = Promised!Over(text, Content(x))
    BY DEF Overwrite, Promised!Over
  <2> QED
    BY <2>1, <2>2
<1>6. ASSUME NEW text \in Texts PROVE Content(Written(NewFile, text)) = text
  <2>1. text \in Seq(Nat)
    BY SkullFSAssumption
  <2>2. PICK n \in Nat : n = Len(text)
    BY <2>1, LenProperties
  <2>3. PICK none \in Seq(Nat) : none = <<>>
    BY EmptySeq
  <2>4. Len(none) = 0
    BY <2>3, EmptySeq
  <2>5. PICK l \in Nat : l = 0
    OBVIOUS
  <2>6. PICK rest \in Seq(Nat) : rest = SubSeq(none, n + 1, l) /\ Len(rest) = 0
    <3>1. \A i \in (n + 1) .. l : none[i] \in Nat
      BY <2>5
    <3>2. /\ SubSeq(none, n + 1, l) \in Seq(Nat)
          /\ Len(SubSeq(none, n + 1, l)) = IF n + 1 <= l THEN l - (n + 1) + 1 ELSE 0
      BY <2>2, <2>5, <3>1, SubSeqProperties
    <3>3. ~(n + 1 <= l)
      BY <2>5
    <3> QED
      BY <3>2, <3>3
  <2>7. rest = <<>>
    BY <2>6, EmptySeq
  <2>8. text \o <<>> = text
    BY <2>1, ConcatEmptySeq
  <2>9. Overwrite(none, text) = text \o rest
    BY <2>2, <2>4, <2>5, <2>6 DEF Overwrite
  <2>10. Overwrite(none, text) = text
    BY <2>7, <2>8, <2>9
  <2>11. NewFile \in FileNode /\ Fit(NewFile) /\ NewFile.data = NULL
    BY NewNodes
  <2> QED
    BY <1>3, <2>3, <2>10, <2>11
<1>7. ASSUME NEW x \in FileNode PROVE Content(x) # NULL
  <2>1. x.data # NULL => x.data \in Seq(Nat)
    BY DEF FileNode
  <2>2. PICK none \in Seq(Nat) : none = <<>>
    BY EmptySeq
  <2> QED
    BY <1>4, <2>1, <2>2, NullIsNoText
<1> QED
  BY <1>1, <1>2, <1>5, <1>6, <1>7
-----------------------------------------------------------------------------
(* The tree of SkullFS, under the invariant. *)
LEMMA TreeOf == FSInv => \A at : Placed(node, at) => IsTree(NamedTree, node, at)
  BY TreeIs DEF FSInv

(* The same after a command. *)
LEMMA NextTreeOf ==
  ASSUME FSInv', NEW to, Placed(node', to)
  PROVE  IsTree(NamedTree', node', to)
<1>1. (FSInv => \A at : Placed(node, at) => IsTree(NamedTree, node, at))'
  BY TreeOf, PTL
<1> QED
  BY <1>1

(* A create makes what it was asked for at a path where nothing was, below  *)
(* a directory. *)
LEMMA GrowPromised ==
  ASSUME FSInv, FSInv', NEW at, Placed(node, at), Grow
  PROVE  PlacedInv' /\ Promised!TreeNext
<1>1. PICK d \in DirsOf(node), n \in Addresses \ DOMAIN node, name \in Names : \E x :
        /\ Made(d, x)
        /\ \A i \in DOMAIN node[d].entries : node[d].entries[i].name # name
        /\ Grows(node, node', d, name, n, x)
  BY DEF Grow
<1>2. PICK x :
        /\ Made(d, x)
        /\ \A i \in DOMAIN node[d].entries : node[d].entries[i].name # name
        /\ Grows(node, node', d, name, n, x)
  BY <1>1
<1>3. Well(node) /\ (x \in FileNode \/ x = NewDir(d))
  BY <1>2, MadeFits DEF FSInv
<1>4. PICK to : to = [m \in DOMAIN node' |-> IF m = n THEN Put(at[d], name) ELSE at[m]]
  OBVIOUS
<1>5. Placed(node', to) /\ \A m \in DOMAIN node : at[m] # Put(at[d], name)
  BY <1>2, <1>3, <1>4, GrowsPlaced
<1>6. PICK t : t = NamedTree /\ IsTree(t, node, at)
  BY TreeOf
<1>7. PICK u : u = NamedTree' /\ IsTree(u, node', to)
  BY <1>5, NextTreeOf
<1>8. /\ DOMAIN node' = DOMAIN node \cup {n} /\ n \notin DOMAIN node /\ node'[n] = x
      /\ d \in DOMAIN node /\ node[d].kind = "dir" /\ node'[d].kind = "dir"
      /\ \A m \in DOMAIN node \ {d} : node'[m] = node[m]
  BY <1>2 DEF Grows, DirsOf, DirNode
<1>9. to[n] = Put(at[d], name) /\ \A m \in DOMAIN node : to[m] = at[m] /\ at[m] # to[n]
  BY <1>4, <1>5, <1>8
<1>10. \A m \in DOMAIN node : Content(node'[m]) = Content(node[m])
  BY <1>8 DEF Content
<1>11. PICK p : p = to[n]
  OBVIOUS
<1>12. /\ p \in DOMAIN u \ DOMAIN t
       /\ u = Plus(t, p, Content(x))
  <2>1. /\ to[n] \in DOMAIN u \ DOMAIN t
        /\ u = Plus(t, to[n], Content(node'[n]))
    BY <1>6, <1>7, <1>8, <1>9, <1>10, TreeGrows
  <2> QED
    BY <1>8, <1>11, <2>1
<1>13. p # <<>> /\ Front(p) = at[d]
  <2>1. at[d] \in Seq(Names)
    BY <1>8 DEF Placed
  <2> QED
    BY <1>9, <1>11, <2>1, PutIs, PutEnds
<1>14. at[d] \in DOMAIN t /\ t[at[d]] = NULL
  BY <1>6, <1>8 DEF IsTree, Content
<1>15. Promised!CanMake(p)
  BY <1>6, <1>12, <1>13, <1>14 DEF Promised!CanMake, Promised!IsDir, Promised!Front, Front
<1>16. NamedTree' = Promised!Holding(p, Content(x))
  BY <1>6, <1>7, <1>12 DEF Promised!Holding, Plus
<1>17. Promised!MakeDir(p) \/ Promised!MakeFile(p) \/ \E text \in Texts : Promised!MakeAndWrite(p, text)
  <2>1. CASE x = NewDir(d)
    <3>1. Content(x) = NULL
      BY <2>1, Contents
    <3> QED
      BY <1>15, <1>16, <3>1 DEF Promised!MakeDir
  <2>2. CASE x = NewFile
    <3>1. Content(x) = <<>>
      BY <2>2, Contents
    <3> QED
      BY <1>15, <1>16, <3>1 DEF Promised!MakeFile
  <2>3. CASE \E text \in Texts : x = Written(NewFile, text)
    <3>1. PICK text \in Texts : x = Written(NewFile, text)
      BY <2>3
    <3>2. Content(x) = text
      BY <3>1, Contents
    <3> QED
      BY <1>15, <1>16, <3>2 DEF Promised!MakeAndWrite
  <2> QED
    BY <1>2, <2>1, <2>2, <2>3 DEF Made
<1>18. p \in DOMAIN NamedTree' \ DOMAIN NamedTree
  BY <1>6, <1>7, <1>12
<1>19. Promised!TreeNext
  BY <1>17, <1>18 DEF Promised!TreeNext
<1> QED
  BY <1>5, <1>19 DEF PlacedInv

(* rm takes away a path, below which nothing is. *)
LEMMA ShrinkPromised ==
  ASSUME FSInv, FSInv', NEW at, Placed(node, at), Shrink
  PROVE  PlacedInv' /\ Promised!TreeNext
<1>1. PICK d \in DirsOf(node), n \in DOMAIN node : \E k \in DOMAIN node[d].entries :
        /\ n # d /\ node[d].entries[k].node = n
        /\ n \in DirsOf(node) => node[n].entries = <<>>
        /\ Shrinks(node, node', d, k, n)
  BY DEF Shrink
<1>2. PICK k \in DOMAIN node[d].entries :
        /\ n # d /\ node[d].entries[k].node = n
        /\ n \in DirsOf(node) => node[n].entries = <<>>
        /\ Shrinks(node, node', d, k, n)
  BY <1>1
<1>3. Well(node) /\ Well(node')
  BY DEF FSInv
<1>4. PICK to : to = [m \in DOMAIN node' |-> at[m]]
  OBVIOUS
<1>5. Placed(node', to)
  BY <1>2, <1>3, <1>4, ShrinksPlaced
<1>6. PICK t : t = NamedTree /\ IsTree(t, node, at)
  BY TreeOf
<1>7. PICK u : u = NamedTree' /\ IsTree(u, node', to)
  BY <1>5, NextTreeOf
<1>8. /\ DOMAIN node' = DOMAIN node \ {n}
      /\ node[d].kind = "dir" /\ node'[d].kind = "dir"
      /\ \A m \in DOMAIN node \ {d, n} : node'[m] = node[m]
  BY <1>2 DEF Shrinks, DirsOf, DirNode
<1>9. \A m \in DOMAIN node' : to[m] = at[m] /\ at[m] # at[n]
  BY <1>4, <1>8 DEF Placed
<1>10. \A m \in DOMAIN node' : Content(node'[m]) = Content(node[m])
  BY <1>8 DEF Content
<1>11. u = Less(t, at[n])
  BY <1>6, <1>7, <1>8, <1>9, <1>10, TreeShrinks
<1>12. PICK p : p = at[n]
  OBVIOUS
<1>13. p \in DOMAIN t
  BY <1>6, <1>12 DEF IsTree
<1>14. p # <<>>
  <2>1. n # Root /\ Root \in DOMAIN node
    BY <1>2, <1>3 DEF Well, Listed, Rooted, DirsOf
  <2> QED
    BY <1>12, <2>1 DEF Placed
<1>15. ASSUME NEW q \in DOMAIN t, q # <<>> PROVE Front(q) # p
  <2>1. PICK m \in DOMAIN node : q = at[m]
    BY <1>6 DEF IsTree
  <2>2. m # Root
    BY <1>15, <2>1 DEF Placed
  <2>3. PICK c \in DirsOf(node) : \E i \in DOMAIN node[c].entries : node[c].entries[i].node = m
    BY <1>3, <2>2, WellHolds
  <2>4. PICK i \in DOMAIN node[c].entries : node[c].entries[i].node = m
    BY <2>3
  <2>5. PICK v \in Names : v = node[c].entries[i].name
    BY <1>3, EntryNamed
  <2>6. c \in DOMAIN node /\ at[c] \in Seq(Names) /\ q = Put(at[c], v)
    BY <2>1, <2>4, <2>5 DEF Placed, DirsOf
  <2>7. Front(q) = at[c]
    BY <2>6, PutEnds
  <2>8. c # n
    BY <1>2, <2>4, EmptySeq
  <2> QED
    BY <1>12, <2>6, <2>7, <2>8 DEF Placed
<1>16. Promised!Unlink(p)
  <2>1. NamedTree' = Promised!Restrict(NamedTree, DOMAIN NamedTree \ {p})
    BY <1>6, <1>7, <1>11, <1>12 DEF Promised!Restrict, Less
  <2>2. \A q : Promised!Front(q) = Front(q)
    BY DEF Promised!Front, Front
  <2> QED
    BY <1>6, <1>13, <1>14, <1>15, <2>1, <2>2 DEF Promised!Unlink
<1>17. Promised!TreeNext
  BY <1>6, <1>13, <1>16 DEF Promised!TreeNext
<1> QED
  BY <1>5, <1>17 DEF PlacedInv

(* write changes what one file holds. *)
LEMMA ChangePromised ==
  ASSUME FSInv, FSInv', NEW at, Placed(node, at), Change
  PROVE  PlacedInv' /\ Promised!TreeNext
<1>1. PICK n \in DOMAIN node \ DirsOf(node), text \in Texts :
        node' = [node EXCEPT ![n] = Written(node[n], text)]
  BY DEF Change
<1>2. node[n] \in FileNode /\ Fit(node[n])
  BY DEF FSInv, Well, Typed, DirNode, DirsOf
<1>3. PICK x \in FileNode : x = Written(node[n], text) /\ node' = [node EXCEPT ![n] = x]
  BY <1>1, <1>2, WrittenFits
<1>4. Placed(node', at)
  BY <1>3, WritesPlaced
<1>5. PICK t : t = NamedTree /\ IsTree(t, node, at)
  BY TreeOf
<1>6. PICK u : u = NamedTree' /\ IsTree(u, node', at)
  BY <1>4, NextTreeOf
<1>7. DOMAIN node' = DOMAIN node /\ node'[n] = x /\ \A m \in DOMAIN node \ {n} : node'[m] = node[m]
  BY <1>3
<1>8. \A m \in DOMAIN node \ {n} : at[m] # at[n] /\ Content(node'[m]) = Content(node[m])
  BY <1>7 DEF Placed
<1>9. PICK p : p = at[n]
  OBVIOUS
<1>10. u = Plus(t, p, Content(x))
  <2>1. u = Plus(t, at[n], Content(node'[n]))
    BY <1>5, <1>6, <1>7, <1>8, TreeChanges
  <2> QED
    BY <1>7, <1>9, <2>1
<1>11. p \in DOMAIN t /\ t[p] = Content(node[n]) /\ t[p] # NULL
  BY <1>2, <1>5, <1>9, Contents DEF IsTree
<1>12. Content(x) = Promised!Over(text, t[p])
  BY <1>2, <1>3, <1>11, Contents
<1>13. NamedTree' = Promised!Holding(p, Promised!Over(text, NamedTree[p]))
  BY <1>5, <1>6, <1>10, <1>12 DEF Promised!Holding, Plus
<1>14. Promised!Write(p, text)
  BY <1>5, <1>11, <1>13 DEF Promised!Write, Promised!IsFile
<1>15. Promised!TreeNext
  BY <1>5, <1>11, <1>14 DEF Promised!TreeNext
<1> QED
  BY <1>4, <1>15 DEF PlacedInv

(* Whatever a command does is promised, and a command that was refused does *)
(* nothing. *)
LEMMA DoesPromised ==
  ASSUME FSInv, FSInv', PlacedInv, Does
  PROVE  PlacedInv' /\ (UNCHANGED node \/ Promised!TreeNext)
<1>1. PICK at : Placed(node, at)
  BY DEF PlacedInv
<1>2. CASE UNCHANGED node
  BY <1>1, <1>2 DEF PlacedInv
<1> QED
  BY <1>1, <1>2, GrowPromised, ShrinkPromised, ChangePromised DEF Does

(* skullfs_init starts with the default directories, in the root. *)
LEMMA InitPlaced == Init => PlacedInv /\ Promised!TreeInit
<1> SUFFICES ASSUME Init PROVE PlacedInv /\ Promised!TreeInit
  OBVIOUS
<1> DEFINE E == node[Root].entries
<1>1. Well(node) /\ AtFirst
  BY InitInv DEF FSInv
<1>2. DirsOf(node) = DOMAIN node /\ \A n \in DOMAIN node \ {Root} : DOMAIN node[n].entries = {}
  <2>1. \A n \in DOMAIN node \ {Root} : node[n].entries = <<>>
    BY <1>1 DEF AtFirst
  <2>2. \A n \in DOMAIN node \ {Root} : DOMAIN node[n].entries = {}
    BY <2>1
  <2> QED
    BY <1>1, <2>2 DEF AtFirst, DirsOf
<1>3. Root \in DOMAIN node /\ \A i \in DOMAIN E : E[i].name \in Names /\ E[i].node \in DOMAIN node \ {Root}
  BY <1>1, <1>2, EntryNamed DEF Well, Listed, Rooted
<1>4. \A i, j \in DOMAIN E : E[i].name = E[j].name \/ E[i].node = E[j].node => i = j
  BY <1>1, <1>2, <1>3 DEF Well, Listed, Once
<1>5. ASSUME NEW n \in DOMAIN node \ {Root} PROVE \E i \in DOMAIN E : E[i].node = n
  <2>1. PICK d \in DirsOf(node) : \E i \in DOMAIN node[d].entries : node[d].entries[i].node = n
    BY <1>1, WellHolds
  <2>2. d = Root
    BY <1>2, <2>1
  <2> QED
    BY <2>1, <2>2
<1> HIDE DEF E
<1>6. PICK none \in Seq(Names) : none = <<>>
  BY EmptySeq
<1> DEFINE Which(n) == CHOOSE i \in DOMAIN E : E[i].node = n
<1>7. \A i \in DOMAIN E : Which(E[i].node) = i
  BY <1>4
<1>8. \A n \in DOMAIN node \ {Root} : Which(n) \in DOMAIN E /\ E[Which(n)].node = n
  BY <1>5
<1> HIDE DEF Which
<1>9. PICK at : at = [n \in DOMAIN node |-> IF n = Root THEN none ELSE Put(none, E[Which(n)].name)]
  OBVIOUS
<1>10. at[Root] = none /\ \A n \in DOMAIN node \ {Root} : at[n] = Put(none, E[Which(n)].name)
  BY <1>3, <1>9
<1>11. \A i \in DOMAIN E : at[E[i].node] = Put(none, E[i].name)
  BY <1>3, <1>7, <1>10
<1>12. \A n \in DOMAIN node \ {Root} :
         /\ at[n] \in Seq(Names) /\ at[n] # none
         /\ Last(at[n]) = E[Which(n)].name
  <2> SUFFICES ASSUME NEW n \in DOMAIN node \ {Root}
               PROVE  /\ at[n] \in Seq(Names) /\ at[n] # none
                      /\ Last(at[n]) = E[Which(n)].name
    OBVIOUS
  <2>1. PICK v \in Names : v = E[Which(n)].name
    BY <1>3, <1>8
  <2>2. at[n] = Put(none, v)
    BY <1>10, <2>1
  <2>3. Put(none, v) \in Seq(Names) /\ Put(none, v) # <<>>
    BY PutIs
  <2>4. Last(Put(none, v)) = v
    BY PutEnds
  <2>5. at[n] # none
    BY <1>6, <2>2, <2>3
  <2> QED
    BY <2>1, <2>2, <2>3, <2>4, <2>5
<1>13. Placed(node, at)
  <2>1. \A n \in DOMAIN node : at[n] \in Seq(Names)
    BY <1>6, <1>10, <1>12
  <2>2. ASSUME NEW d \in DirsOf(node), NEW i \in DOMAIN node[d].entries
        PROVE  at[node[d].entries[i].node] = Put(at[d], node[d].entries[i].name)
    <3>1. d = Root
      BY <1>2
    <3> QED
      BY <1>10, <1>11, <3>1 DEF E
  <2>3. ASSUME NEW m \in DOMAIN node, NEW n \in DOMAIN node, at[m] = at[n] PROVE m = n
    <3>1. CASE m = Root \/ n = Root
      BY <1>10, <1>12, <2>3, <3>1
    <3>2. CASE m # Root /\ n # Root
      <4>1. E[Which(m)].name = E[Which(n)].name
        BY <1>12, <2>3, <3>2
      <4>2. Which(m) = Which(n)
        BY <1>4, <1>8, <3>2, <4>1
      <4> QED
        BY <1>8, <3>2, <4>2
    <3> QED
      BY <3>1, <3>2
  <2> QED
    BY <1>6, <1>9, <1>10, <2>1, <2>2, <2>3 DEF Placed
<1>14. PICK t : t = NamedTree /\ IsTree(t, node, at)
  BY <1>1, <1>13, TreeIs
<1>15. ASSUME NEW p \in DOMAIN t PROVE t[p] = NULL
  <2>1. PICK n \in DOMAIN node : p = at[n]
    BY <1>14 DEF IsTree
  <2>2. node[n].kind = "dir"
    BY <1>1 DEF AtFirst
  <2> QED
    BY <1>14, <2>1, <2>2 DEF IsTree, Content
<1>16. \A v, one : one = <<v>> => Put(none, v) = one
  BY <1>6, PutFirst
<1>17. DOMAIN t = {<<>>} \cup {<<c>> : c \in ToSet(DefaultDirs)}
  <2>1. ToSet(DefaultDirs) = {E[i].name : i \in DOMAIN E}
    BY <1>1 DEF AtFirst, E
  <2>2. ASSUME NEW p \in DOMAIN t PROVE p \in {<<>>} \cup {<<c>> : c \in ToSet(DefaultDirs)}
    <3>1. PICK n \in DOMAIN node : p = at[n]
      BY <1>14 DEF IsTree
    <3>2. CASE n = Root
      BY <1>6, <1>10, <3>1, <3>2
    <3>3. CASE n # Root
      <4>1. PICK c \in ToSet(DefaultDirs) : c = E[Which(n)].name
        BY <1>8, <2>1, <3>3
      <4>2. PICK one : one = <<c>>
        OBVIOUS
      <4>3. p = one
        BY <1>10, <1>16, <3>1, <3>3, <4>1, <4>2
      <4> QED
        BY <4>2, <4>3
    <3> QED
      BY <3>2, <3>3
  <2>3. \A n \in DOMAIN node : at[n] \in DOMAIN t
    BY <1>14 DEF IsTree
  <2>4. <<>> \in DOMAIN t
    BY <1>3, <1>6, <1>10, <2>3
  <2>5. ASSUME NEW c \in ToSet(DefaultDirs) PROVE <<c>> \in DOMAIN t
    <3>1. PICK i \in DOMAIN E : c = E[i].name
      BY <2>1
    <3>2. PICK one : one = <<c>>
      OBVIOUS
    <3>3. Put(none, c) = one
      BY <1>16, <3>2
    <3>4. Put(none, c) \in DOMAIN t
      BY <1>3, <1>11, <2>3, <3>1
    <3> QED
      BY <3>2, <3>3, <3>4
  <2> QED
    BY <2>2, <2>4, <2>5
<1>18. t = [p \in DOMAIN t |-> t[p]]
  BY <1>14 DEF IsTree
<1>19. t = [p \in {<<>>} \cup {<<c>> : c \in ToSet(DefaultDirs)} |-> NULL]
  BY <1>15, <1>17, <1>18
<1> QED
  BY <1>13, <1>14, <1>19 DEF PlacedInv, Promised!TreeInit

(* cd leaves the tree alone. *)
LEMMA ShellPromised ==
  ASSUME FSInv, PlacedInv, [ShellNext]_shellVars
  PROVE  PlacedInv' /\ (UNCHANGED node \/ Promised!TreeNext)
<1>1. CASE FileCommand
  BY <1>1, FileCommandKeepsInv, DoesPromised DEF Proceeds
<1>2. CASE UNCHANGED node
  BY <1>2 DEF PlacedInv
<1>3. UNCHANGED node \/ FileCommand
  BY DEF ShellNext, CdHome, Cd, vars, shellVars
<1> QED
  BY <1>1, <1>2, <1>3

(* SkullFS keeps the promise of FileTree: every command of the shell, with  *)
(* every allocation granted or refused, changes the tree of names at one    *)
(* path, to what it says, or not at all. *)
THEOREM SkullFSKeepsTree == ShellSpec => KeepsTree
<1>1. ShellInit => PlacedInv /\ Promised!TreeInit
  BY InitPlaced DEF ShellInit
<1>2. FSInv /\ PlacedInv /\ [ShellNext]_shellVars
        => PlacedInv' /\ [UNCHANGED node \/ Promised!TreeNext]_node
  BY ShellPromised
<1> QED
  BY <1>1, <1>2, SkullFSInvariant, PTL DEF ShellSpec, KeepsTree
=============================================================================
