----------------------------- MODULE FiniteSums -----------------------------
(***************************************************************************)
(* Induction over numbers and over the subsets of a finite set, in a form  *)
(* the provers can use (what is to be shown is given as the set of which   *)
(* it holds), and what follows from it for sums over finite sets: the sums *)
(* of block sizes that memory.c computes along its list do not depend on   *)
(* the order, and blocks that lie apart add up to no more than the heap.   *)
(***************************************************************************)
EXTENDS Integers, FiniteSets, Functions, FiniteSetTheorems,
        WellFoundedInduction, TLAPS

(* Induction over the numbers of a set. *)
LEMMA Inductive ==
  ASSUME NEW T, 0 \in T, \A n \in Nat : n \in T => n + 1 \in T
  PROVE  Nat \subseteq T
<1> DEFINE R == OpToRel(<, Nat)
<1> SUFFICES ASSUME Nat \ T # {} PROVE FALSE
  OBVIOUS
<1>1. IsWellFoundedOn(R, Nat)
  BY NatLessThanWellFounded
<1>2. \A a, b \in Nat : a < b => <<a, b>> \in R
  <2>1. \A ss \in Nat \X Nat : ss[1] < ss[2] => ss \in R
    BY Zenon DEF OpToRel
  <2> HIDE DEF R
  <2> QED
    BY <2>1
<1> HIDE DEF R
<1>3. PICK n \in Nat \ T : \A m \in Nat \ T : <<m, n>> \notin R
  <2> DEFINE U == Nat \ T
  <2>1. U \subseteq Nat /\ U # {}
    OBVIOUS
  <2> HIDE DEF U
  <2>2. \E n \in U : \A m \in U : ~ (<<m, n>> \in R)
    BY <1>1, <2>1, WFMin, Zenon
  <2> QED
    BY <2>2 DEF U
<1>4. n # 0 /\ n - 1 \in Nat /\ n - 1 < n /\ (n - 1) + 1 = n
  OBVIOUS
<1>5. n - 1 \in Nat \ T
  BY <1>4
<1>6. <<n - 1, n>> \in R
  BY <1>2, <1>4
<1> QED
  BY <1>3, <1>5, <1>6

(* Induction over the subsets of a finite set: a set of which one element  *)
(* can be taken away. *)
LEMMA FiniteInductive ==
  ASSUME NEW S, IsFiniteSet(S), NEW F,
         \A T \in SUBSET S : (\A x \in T : T \ {x} \in F) => T \in F
  PROVE  SUBSET S \subseteq F
<1> DEFINE Small(n) == {T \in SUBSET S : Cardinality(T) = n}
           N == {n \in Nat : Small(n) \subseteq F}
<1>1. \A T \in SUBSET S : IsFiniteSet(T) /\ Cardinality(T) \in Nat
  BY FS_Subset, FS_CardinalityType
<1>2. 0 \in N
  <2>1. \A T \in Small(0) : T = {}
    BY <1>1, FS_EmptySet
  <2> QED
    BY <2>1
<1>3. ASSUME NEW n \in Nat, n \in N PROVE n + 1 \in N
  <2>1. ASSUME NEW T \in Small(n + 1), NEW x \in T PROVE T \ {x} \in F
    <3>1. Cardinality(T \ {x}) = Cardinality(T) - 1
      BY <1>1, FS_RemoveElement
    <3>2. T \ {x} \in Small(n)
      BY <3>1
    <3> QED
      BY <3>2, <1>3
  <2> QED
    BY <2>1
<1>4. Nat \subseteq N
  <2> HIDE DEF N
  <2> QED
    BY <1>2, <1>3, Inductive
<1> QED
  BY <1>1, <1>4
-----------------------------------------------------------------------------
(* SumFunctionOnSet adds up one element after another, in the order in     *)
(* which Pick takes them.                                                  *)
Pick(s) == CHOOSE x \in s : TRUE

IsSum(g, f, S) ==
  g = [s \in SUBSET S |-> IF s = {} THEN 0 ELSE f[Pick(s)] + g[s \ {Pick(s)}]]

(* The recursion of the sum has a solution, as there is no infinite        *)
(* descent in a finite set.                                                *)
LEMMA SumExists ==
  ASSUME NEW S, IsFiniteSet(S), NEW f
  PROVE  \E g : IsSum(g, f, S)
<1> DEFINE Next(g, s) == IF s = {} THEN 0 ELSE f[Pick(s)] + g[s \ {Pick(s)}]
           Upto(g, n) == \A s \in SUBSET S : Cardinality(s) <= n => g[s] = Next(g, s)
           Solved(n) == \E g : g = [s \in SUBSET S |-> g[s]] /\ Upto(g, n)
           N == {n \in Nat : Solved(n)}
<1>1. \A s \in SUBSET S : IsFiniteSet(s) /\ Cardinality(s) \in Nat
  BY FS_Subset, FS_CardinalityType
<1>2. \A s \in SUBSET S : s # {} =>
        /\ s \ {Pick(s)} \in SUBSET S
        /\ Cardinality(s \ {Pick(s)}) = Cardinality(s) - 1
  <2> SUFFICES ASSUME NEW s \in SUBSET S, s # {}
               PROVE  Cardinality(s \ {Pick(s)}) = Cardinality(s) - 1
    OBVIOUS
  <2>1. Pick(s) \in s
    BY DEF Pick
  <2> QED
    BY <1>1, <2>1, FS_RemoveElement
<1>3. 0 \in N
  <2>1. \A s \in SUBSET S : Cardinality(s) <= 0 => s = {}
    BY <1>1, FS_EmptySet
  <2> DEFINE g == [s \in SUBSET S |-> 0]
  <2>2. Upto(g, 0)
    BY <2>1
  <2>3. g = [s \in SUBSET S |-> g[s]]
    OBVIOUS
  <2> QED
    BY <2>2, <2>3
<1>4. ASSUME NEW n \in Nat, n \in N PROVE n + 1 \in N
  <2>1. PICK g : Upto(g, n)
    BY <1>4
  <2> DEFINE h == [s \in SUBSET S |-> IF Cardinality(s) <= n THEN g[s] ELSE Next(g, s)]
  <2>2. ASSUME NEW s \in SUBSET S, Cardinality(s) <= n + 1 PROVE h[s] = Next(h, s)
    <3>1. CASE s = {}
      BY <3>1, <2>1
    <3>2. CASE s # {}
      <4>1. h[s] = f[Pick(s)] + g[s \ {Pick(s)}]
        BY <3>2, <2>1
      <4>2. Cardinality(s \ {Pick(s)}) <= n /\ s \ {Pick(s)} \in SUBSET S
        BY <1>1, <1>2, <2>2, <3>2
      <4> QED
        BY <4>1, <4>2, <3>2
    <3> QED
      BY <3>1, <3>2
  <2>3. h = [s \in SUBSET S |-> h[s]]
    OBVIOUS
  <2> HIDE DEF h
  <2>4. Solved(n + 1)
    BY <2>2, <2>3
  <2> HIDE DEF Solved
  <2> QED
    BY <2>4
<1>5. Nat \subseteq N
  <2> HIDE DEF N
  <2> QED
    BY <1>3, <1>4, Inductive
<1>6. PICK g : g = [s \in SUBSET S |-> g[s]] /\ Upto(g, Cardinality(S))
  BY <1>1, <1>5
<1>7. \A s \in SUBSET S : Cardinality(s) <= Cardinality(S)
  BY FS_Subset
<1>8. \A s \in SUBSET S : g[s] = Next(g, s)
  BY <1>6, <1>7
<1> QED
  BY <1>6, <1>8 DEF IsSum

(* What SumFunctionOnSet is. *)
LEMMA SumIs ==
  ASSUME NEW S, IsFiniteSet(S), NEW f
  PROVE  \E g : IsSum(g, f, S) /\ SumFunctionOnSet(f, S) = g[S]
<1>1. SumFunctionOnSet(f, S) = (CHOOSE g : IsSum(g, f, S))[S]
  BY DEF SumFunctionOnSet, FoldFunctionOnSet, MapThenFoldSet, IsSum, Pick
<1> QED
  BY <1>1, SumExists

(* One step of the recursion of the sum. *)
LEMMA SumStep ==
  ASSUME NEW S, IsFiniteSet(S), NEW f, NEW g, IsSum(g, f, S), NEW s \in SUBSET S
  PROVE  /\ g[{}] = 0
         /\ s # {} => /\ Pick(s) \in s
                      /\ s \ {Pick(s)} \in SUBSET S
                      /\ g[s] = f[Pick(s)] + g[s \ {Pick(s)}]
<1>1. \A t \in SUBSET S : g[t] = IF t = {} THEN 0 ELSE f[Pick(t)] + g[t \ {Pick(t)}]
  BY DEF IsSum
<1>2. s # {} => Pick(s) \in s
  BY DEF Pick
<1> QED
  BY <1>1, <1>2

(* The sum over a part is the same, whatever whole it is a part of. *)
LEMMA SumOfPart ==
  ASSUME NEW S, IsFiniteSet(S), NEW T \in SUBSET S, NEW f,
         NEW g, IsSum(g, f, S), NEW h, IsSum(h, f, T)
  PROVE  g[T] = h[T]
<1> DEFINE F == {s \in SUBSET T : g[s] = h[s]}
<1>0. IsFiniteSet(T)
  BY FS_Subset
<1>1. ASSUME NEW s \in SUBSET T, \A x \in s : s \ {x} \in F PROVE s \in F
  <2>1. CASE s = {}
    BY <2>1, <1>0, SumStep
  <2>2. CASE s # {}
    <3>1. Pick(s) \in s /\ g[s] = f[Pick(s)] + g[s \ {Pick(s)}]
      BY <2>2, SumStep
    <3>2. h[s] = f[Pick(s)] + h[s \ {Pick(s)}]
      BY <2>2, <1>0, SumStep
    <3>3. g[s \ {Pick(s)}] = h[s \ {Pick(s)}]
      BY <3>1, <1>1
    <3> QED
      BY <3>1, <3>2, <3>3
  <2> QED
    BY <2>1, <2>2
<1>2. SUBSET T \subseteq F
  <2> HIDE DEF F
  <2> QED
    BY <1>0, <1>1, FiniteInductive
<1> QED
  BY <1>2

(* The sum over nothing, and the sum over something, one element first. *)
LEMMA SumEmpty == ASSUME NEW f PROVE SumFunctionOnSet(f, {}) = 0
<1>1. IsFiniteSet({})
  BY FS_EmptySet
<1>2. PICK g : IsSum(g, f, {}) /\ SumFunctionOnSet(f, {}) = g[{}]
  BY <1>1, SumIs
<1> QED
  BY <1>1, <1>2, SumStep

(* The sum over something has the element picked first. *)
LEMMA SumPicked ==
  ASSUME NEW S, IsFiniteSet(S), S # {}, NEW f
  PROVE  /\ Pick(S) \in S
         /\ SumFunctionOnSet(f, S) = f[Pick(S)] + SumFunctionOnSet(f, S \ {Pick(S)})
<1>1. PICK g : IsSum(g, f, S) /\ SumFunctionOnSet(f, S) = g[S]
  BY SumIs
<1>2. IsFiniteSet(S \ {Pick(S)})
  BY FS_RemoveElement
<1>3. PICK h : IsSum(h, f, S \ {Pick(S)})
               /\ SumFunctionOnSet(f, S \ {Pick(S)}) = h[S \ {Pick(S)}]
  BY <1>2, SumIs
<1>4. g[S \ {Pick(S)}] = h[S \ {Pick(S)}]
  <2>1. S \ {Pick(S)} \in SUBSET S
    OBVIOUS
  <2> QED
    BY <1>1, <1>3, <2>1, SumOfPart
<1>5. Pick(S) \in S /\ g[S] = f[Pick(S)] + g[S \ {Pick(S)}]
  <2>1. \A s \in SUBSET S : s # {} => Pick(s) \in s /\ g[s] = f[Pick(s)] + g[s \ {Pick(s)}]
    BY <1>1, SumStep
  <2> QED
    BY <2>1
<1> QED
  BY <1>1, <1>3, <1>4, <1>5

(* Sums of numbers are numbers. *)
LEMMA SumNat ==
  ASSUME NEW S, IsFiniteSet(S), NEW f, \A x \in S : f[x] \in Nat
  PROVE  SumFunctionOnSet(f, S) \in Nat
<1> DEFINE F == {s \in SUBSET S : SumFunctionOnSet(f, s) \in Nat}
<1>1. ASSUME NEW s \in SUBSET S, \A x \in s : s \ {x} \in F PROVE s \in F
  <2>1. CASE s = {}
    BY <2>1, SumEmpty
  <2>2. CASE s # {}
    <3>1. IsFiniteSet(s)
      BY FS_Subset
    <3>2. /\ Pick(s) \in s
          /\ SumFunctionOnSet(f, s) = f[Pick(s)] + SumFunctionOnSet(f, s \ {Pick(s)})
      BY <3>1, <2>2, SumPicked
    <3>3. SumFunctionOnSet(f, s \ {Pick(s)}) \in Nat /\ f[Pick(s)] \in Nat
      BY <3>2, <1>1
    <3> QED
      BY <3>2, <3>3
  <2> QED
    BY <2>1, <2>2
<1>2. SUBSET S \subseteq F
  <2> HIDE DEF F
  <2> QED
    BY <1>1, FiniteInductive
<1> QED
  BY <1>2

(* Sums of the same numbers are the same. *)
LEMMA SumSame ==
  ASSUME NEW S, IsFiniteSet(S), NEW f, NEW g, \A x \in S : f[x] = g[x]
  PROVE  SumFunctionOnSet(f, S) = SumFunctionOnSet(g, S)
<1> DEFINE F == {s \in SUBSET S : SumFunctionOnSet(f, s) = SumFunctionOnSet(g, s)}
<1>1. ASSUME NEW s \in SUBSET S, \A x \in s : s \ {x} \in F PROVE s \in F
  <2>1. CASE s = {}
    BY <2>1, SumEmpty
  <2>2. CASE s # {}
    <3>1. IsFiniteSet(s)
      BY FS_Subset
    <3>2. /\ Pick(s) \in s
          /\ SumFunctionOnSet(f, s) = f[Pick(s)] + SumFunctionOnSet(f, s \ {Pick(s)})
          /\ SumFunctionOnSet(g, s) = g[Pick(s)] + SumFunctionOnSet(g, s \ {Pick(s)})
      BY <3>1, <2>2, SumPicked
    <3>3. /\ SumFunctionOnSet(f, s \ {Pick(s)}) = SumFunctionOnSet(g, s \ {Pick(s)})
          /\ f[Pick(s)] = g[Pick(s)]
      BY <3>2, <1>1
    <3> QED
      BY <3>2, <3>3
  <2> QED
    BY <2>1, <2>2
<1>2. SUBSET S \subseteq F
  <2> HIDE DEF F
  <2> QED
    BY <1>1, FiniteInductive
<1> QED
  BY <1>2

(* The sum of as many times the same number. *)
LEMMA SumOfEquals ==
  ASSUME NEW S, IsFiniteSet(S), NEW c \in Nat, NEW f, \A x \in S : f[x] = c
  PROVE  SumFunctionOnSet(f, S) = c * Cardinality(S)
<1> DEFINE F == {s \in SUBSET S : SumFunctionOnSet(f, s) = c * Cardinality(s)}
<1>1. ASSUME NEW s \in SUBSET S, \A x \in s : s \ {x} \in F PROVE s \in F
  <2>1. CASE s = {}
    <3>1. Cardinality(s) = 0
      BY <2>1, FS_EmptySet
    <3>2. SumFunctionOnSet(f, s) = 0
      BY <2>1, SumEmpty
    <3> QED
      BY <3>1, <3>2
  <2>2. CASE s # {}
    <3>1. IsFiniteSet(s)
      BY FS_Subset
    <3>2. /\ Pick(s) \in s
          /\ SumFunctionOnSet(f, s) = f[Pick(s)] + SumFunctionOnSet(f, s \ {Pick(s)})
      BY <3>1, <2>2, SumPicked
    <3>3. SumFunctionOnSet(f, s \ {Pick(s)}) = c * Cardinality(s \ {Pick(s)}) /\ f[Pick(s)] = c
      BY <3>2, <1>1
    <3>4. PICK k \in Nat : k = Cardinality(s \ {Pick(s)}) /\ Cardinality(s) = k + 1
      <4>1. Cardinality(s \ {Pick(s)}) = Cardinality(s) - 1 /\ Cardinality(s) \in Nat
            /\ Cardinality(s \ {Pick(s)}) \in Nat
        BY <3>1, <3>2, FS_RemoveElement, FS_CardinalityType
      <4> QED
        BY <4>1
    <3>5. c * (k + 1) = c + c * k
      OBVIOUS
    <3> QED
      BY <3>2, <3>3, <3>4, <3>5
  <2> QED
    BY <2>1, <2>2
<1>2. SUBSET S \subseteq F
  <2> HIDE DEF F
  <2> QED
    BY <1>1, FiniteInductive
<1> QED
  BY <1>2

(* Any element may be counted first. *)
LEMMA SumFirst ==
  ASSUME NEW S, IsFiniteSet(S), NEW f, \A x \in S : f[x] \in Nat, NEW m \in S
  PROVE  SumFunctionOnSet(f, S) = f[m] + SumFunctionOnSet(f, S \ {m})
<1> DEFINE Sum(s) == SumFunctionOnSet(f, s)
           F == {s \in SUBSET S : \A x \in s : Sum(s) = f[x] + Sum(s \ {x})}
<1>0. \A s \in SUBSET S : IsFiniteSet(s)
  BY FS_Subset
<1>1. \A s \in SUBSET S : Sum(s) \in Nat
  <2> TAKE s \in SUBSET S
  <2>1. \A x \in s : f[x] \in Nat
    OBVIOUS
  <2> QED
    BY <1>0, <2>1, SumNat
<1>2. \A s \in SUBSET S : s # {} => Pick(s) \in s /\ Sum(s) = f[Pick(s)] + Sum(s \ {Pick(s)})
  BY <1>0, SumPicked
<1> HIDE DEF Sum
<1>3. ASSUME NEW s \in SUBSET S, \A x \in s : s \ {x} \in F PROVE s \in F
  <2> SUFFICES ASSUME NEW x \in s PROVE Sum(s) = f[x] + Sum(s \ {x})
    OBVIOUS
  <2> DEFINE p == Pick(s)
             q == Pick(s \ {x})
  <2>1. p \in s /\ Sum(s) = f[p] + Sum(s \ {p})
    BY <1>2
  <2>2. CASE x = p
    BY <2>1, <2>2
  <2>3. CASE x # p
    <3>1. s \ {p} \in F /\ x \in s \ {p}
      BY <2>1, <2>3, <1>3
    <3>2. Sum(s \ {p}) = f[x] + Sum((s \ {p}) \ {x})
      BY <3>1
    <3>3. s \ {x} \in F /\ p \in s \ {x}
      BY <2>1, <2>3, <1>3
    <3>4. Sum(s \ {x}) = f[p] + Sum((s \ {x}) \ {p})
      BY <3>3
    <3>5. (s \ {p}) \ {x} = (s \ {x}) \ {p} /\ (s \ {x}) \ {p} \in SUBSET S
      OBVIOUS
    <3> DEFINE r == Sum((s \ {x}) \ {p})
    <3>6. r \in Nat /\ f[p] \in Nat /\ f[x] \in Nat
      BY <3>5, <2>1, <1>1
    <3>7. Sum(s) = f[p] + (f[x] + r) /\ Sum(s \ {x}) = f[p] + r
      BY <2>1, <3>2, <3>4, <3>5
    <3> HIDE DEF r
    <3> QED
      BY <3>6, <3>7
  <2> QED
    BY <2>2, <2>3
<1>4. SUBSET S \subseteq F
  <2> HIDE DEF F
  <2> QED
    BY <1>3, FiniteInductive
<1> QED
  BY <1>4 DEF Sum

(* The sum over two parts. *)
LEMMA SumParts ==
  ASSUME NEW S, IsFiniteSet(S), NEW f, \A x \in S : f[x] \in Nat,
         NEW A \in SUBSET S
  PROVE  SumFunctionOnSet(f, S) = SumFunctionOnSet(f, A) + SumFunctionOnSet(f, S \ A)
<1> DEFINE Sum(s) == SumFunctionOnSet(f, s)
           G == {s \in SUBSET S : Sum(s) = Sum(s \cap A) + Sum(s \ A)}
<1>0. \A s \in SUBSET S : IsFiniteSet(s)
  BY FS_Subset
<1>1. \A s \in SUBSET S : Sum(s) \in Nat
  <2> TAKE s \in SUBSET S
  <2>1. \A x \in s : f[x] \in Nat
    OBVIOUS
  <2> QED
    BY <1>0, <2>1, SumNat
<1>2. \A s \in SUBSET S : \A m \in s : Sum(s) = f[m] + Sum(s \ {m})
  <2> TAKE s \in SUBSET S
  <2>1. \A x \in s : f[x] \in Nat
    OBVIOUS
  <2> QED
    BY <1>0, <2>1, SumFirst
<1>3. Sum({}) = 0
  BY SumEmpty
<1> HIDE DEF Sum
<1>4. ASSUME NEW s \in SUBSET S, \A x \in s : s \ {x} \in G PROVE s \in G
  <2>1. CASE s = {}
    <3>1. s \cap A = {} /\ s \ A = {}
      BY <2>1
    <3> QED
      BY <3>1, <2>1, <1>3
  <2>2. ASSUME NEW m \in s PROVE s \in G
    <3>1. Sum(s) = f[m] + Sum(s \ {m}) /\ s \ {m} \in G
      BY <1>2, <1>4
    <3>2. Sum(s \ {m}) = Sum((s \ {m}) \cap A) + Sum((s \ {m}) \ A)
      BY <3>1
    <3>3. CASE m \in A
      <4>1. (s \ {m}) \cap A = (s \cap A) \ {m} /\ (s \ {m}) \ A = s \ A /\ m \in s \cap A
        BY <3>3
      <4>2. Sum(s \cap A) = f[m] + Sum((s \cap A) \ {m})
        BY <4>1, <1>2
      <4> DEFINE u == Sum((s \cap A) \ {m})
                 v == Sum(s \ A)
      <4>3. u \in Nat /\ v \in Nat /\ f[m] \in Nat
        BY <1>1
      <4>4. Sum(s) = f[m] + (u + v) /\ Sum(s \cap A) = f[m] + u
        BY <3>1, <3>2, <4>1, <4>2
      <4> HIDE DEF u
      <4>5. Sum(s) = Sum(s \cap A) + v
        BY <4>3, <4>4
      <4> QED
        BY <4>5
    <3>4. CASE m \notin A
      <4>1. (s \ {m}) \cap A = s \cap A /\ (s \ {m}) \ A = (s \ A) \ {m} /\ m \in s \ A
        BY <3>4
      <4>2. Sum(s \ A) = f[m] + Sum((s \ A) \ {m})
        BY <4>1, <1>2
      <4> DEFINE u == Sum(s \cap A)
                 v == Sum((s \ A) \ {m})
      <4>3. u \in Nat /\ v \in Nat /\ f[m] \in Nat
        BY <1>1
      <4>4. Sum(s) = f[m] + (u + v) /\ Sum(s \ A) = f[m] + v
        BY <3>1, <3>2, <4>1, <4>2
      <4> HIDE DEF v
      <4>5. Sum(s) = u + Sum(s \ A)
        BY <4>3, <4>4
      <4> QED
        BY <4>5
    <3> QED
      BY <3>3, <3>4
  <2> QED
    BY <2>1, <2>2
<1>5. SUBSET S \subseteq G
  <2> HIDE DEF G
  <2> QED
    BY <1>4, FiniteInductive
<1>6. S \cap A = A
  OBVIOUS
<1> QED
  BY <1>5, <1>6 DEF Sum
-----------------------------------------------------------------------------
(* A finite set of numbers that is not empty has a greatest one. *)
LEMMA Greatest ==
  ASSUME NEW S \in SUBSET Nat, IsFiniteSet(S), S # {}
  PROVE  \E m \in S : \A x \in S : x <= m
<1> DEFINE F == {s \in SUBSET S : s # {} => \E m \in s : \A x \in s : x <= m}
<1>1. ASSUME NEW s \in SUBSET S, \A x \in s : s \ {x} \in F PROVE s \in F
  <2> SUFFICES ASSUME s # {} PROVE \E m \in s : \A x \in s : x <= m
    OBVIOUS
  <2>1. PICK y \in s : TRUE
    OBVIOUS
  <2>2. CASE s \ {y} = {}
    BY <2>1, <2>2
  <2>3. CASE s \ {y} # {}
    <3>1. PICK m \in s \ {y} : \A x \in s \ {y} : x <= m
      BY <1>1, <2>1, <2>3
    <3>2. y <= m \/ m <= y
      OBVIOUS
    <3> QED
      BY <3>1, <3>2
  <2> QED
    BY <2>2, <2>3
<1>2. SUBSET S \subseteq F
  <2> HIDE DEF F
  <2> QED
    BY <1>1, FiniteInductive
<1> QED
  BY <1>2

(* Blocks below top that lie apart, each of h bytes and f[x] more, have    *)
(* together no more bytes than there are below top; *)
LEMMA Packed ==
  ASSUME NEW S \in SUBSET Nat, IsFiniteSet(S), NEW f, \A x \in S : f[x] \in Nat,
         NEW h \in Nat, NEW top \in Nat,
         \A x \in S : x + h + f[x] <= top,
         \A x, y \in S : x < y => x + h + f[x] <= y
  PROVE  SumFunctionOnSet(f, S) + h * Cardinality(S) <= top
<1> DEFINE Sum(s) == SumFunctionOnSet(f, s)
           Fit(s) == \A t \in Nat : (\A x \in s : x + h + f[x] <= t)
                                      => Sum(s) + h * Cardinality(s) <= t
           F == {s \in SUBSET S : Fit(s)}
<1>0. \A s \in SUBSET S : IsFiniteSet(s) /\ Cardinality(s) \in Nat
  BY FS_Subset, FS_CardinalityType
<1>1. \A s \in SUBSET S : Sum(s) \in Nat
  <2> TAKE s \in SUBSET S
  <2>1. \A x \in s : f[x] \in Nat
    OBVIOUS
  <2> QED
    BY <1>0, <2>1, SumNat
<1>2. \A s \in SUBSET S : \A m \in s : Sum(s) = f[m] + Sum(s \ {m})
  <2> TAKE s \in SUBSET S
  <2>1. \A x \in s : f[x] \in Nat
    OBVIOUS
  <2> QED
    BY <1>0, <2>1, SumFirst
<1>3. Sum({}) = 0 /\ Cardinality({}) = 0
  BY SumEmpty, FS_EmptySet
<1> HIDE DEF Sum
<1>4. ASSUME NEW s \in SUBSET S, \A x \in s : s \ {x} \in F PROVE s \in F
  <2> SUFFICES ASSUME NEW t \in Nat, \A x \in s : x + h + f[x] <= t
               PROVE  Sum(s) + h * Cardinality(s) <= t
    OBVIOUS
  <2>1. CASE s = {}
    BY <2>1, <1>3
  <2>2. CASE s # {}
    <3>1. PICK m \in s : \A x \in s : x <= m
      <4>1. s \in SUBSET Nat /\ IsFiniteSet(s)
        BY <1>0
      <4> QED
        BY <2>2, <4>1, Greatest
    <3>2. \A x \in s \ {m} : x + h + f[x] <= m
      BY <3>1
    <3>3. Sum(s \ {m}) + h * Cardinality(s \ {m}) <= m
      <4>1. Fit(s \ {m})
        BY <1>4
      <4> QED
        BY <3>1, <3>2, <4>1
    <3>4. Cardinality(s) = Cardinality(s \ {m}) + 1 /\ Cardinality(s \ {m}) \in Nat
      <4>1. Cardinality(s \ {m}) = Cardinality(s) - 1
        BY <1>0, FS_RemoveElement
      <4> QED
        BY <1>0, <4>1
    <3> DEFINE c == Cardinality(s \ {m})
               u == Sum(s \ {m})
               v == h * c
    <3>5. h * Cardinality(s) = v + h /\ v \in Nat
      <4>1. \A n \in Nat : h * (n + 1) = h * n + h /\ h * n \in Nat
        OBVIOUS
      <4> QED
        BY <3>4, <4>1
    <3>6. Sum(s) = f[m] + u /\ u \in Nat /\ f[m] \in Nat
      BY <1>1, <1>2
    <3>7. u + v <= m /\ m + h + f[m] <= t
      BY <3>3
    <3> HIDE DEF u, v, c
    <3> QED
      BY <3>5, <3>6, <3>7
  <2> QED
    BY <2>1, <2>2
<1>5. SUBSET S \subseteq F
  <2> HIDE DEF F
  <2> QED
    BY <1>4, FiniteInductive
<1>6. Fit(S)
  BY <1>5
<1> QED
  BY <1>6 DEF Sum

(* and all the bytes below top if they leave no gap. *)
LEMMA Tiled ==
  ASSUME NEW S \in SUBSET Nat, IsFiniteSet(S), NEW f, \A x \in S : f[x] \in Nat,
         NEW h \in Nat \ {0}, NEW top \in Nat, 0 \in S,
         \A x \in S : x + h + f[x] = top \/ x + h + f[x] \in S,
         \A x \in S : x < top,
         \A x, y \in S : x < y => x + h + f[x] <= y
  PROVE  SumFunctionOnSet(f, S) + h * Cardinality(S) = top
<1> DEFINE Sum(s) == SumFunctionOnSet(f, s)
           Tight(s, t) == \A x \in s : x < t /\ (x + h + f[x] = t \/ x + h + f[x] \in s)
           Fit(s) == \A t \in Nat : 0 \in s /\ Tight(s, t)
                                      => Sum(s) + h * Cardinality(s) = t
           F == {s \in SUBSET S : Fit(s)}
<1>0. \A s \in SUBSET S : IsFiniteSet(s) /\ Cardinality(s) \in Nat
  BY FS_Subset, FS_CardinalityType
<1>1. \A s \in SUBSET S : Sum(s) \in Nat
  <2> TAKE s \in SUBSET S
  <2>1. \A x \in s : f[x] \in Nat
    OBVIOUS
  <2> QED
    BY <1>0, <2>1, SumNat
<1>2. \A s \in SUBSET S : \A m \in s : Sum(s) = f[m] + Sum(s \ {m})
  <2> TAKE s \in SUBSET S
  <2>1. \A x \in s : f[x] \in Nat
    OBVIOUS
  <2> QED
    BY <1>0, <2>1, SumFirst
<1>3. Sum({}) = 0 /\ Cardinality({}) = 0
  BY SumEmpty, FS_EmptySet
<1> HIDE DEF Sum
<1>4. ASSUME NEW s \in SUBSET S, \A x \in s : s \ {x} \in F PROVE s \in F
  <2> SUFFICES ASSUME NEW t \in Nat, 0 \in s, Tight(s, t)
               PROVE  Sum(s) + h * Cardinality(s) = t
    OBVIOUS
  <2>1. PICK m \in s : \A x \in s : x <= m
    <3>1. s \in SUBSET Nat /\ IsFiniteSet(s) /\ s # {}
      BY <1>0
    <3> QED
      BY <3>1, Greatest
  <2>2. m + h + f[m] = t
    <3>1. m \in Nat /\ f[m] \in Nat
      OBVIOUS
    <3>2. m + h + f[m] \in s => m + h + f[m] <= m
      BY <2>1
    <3> QED
      BY <3>1, <3>2
  <2>3. Cardinality(s) = Cardinality(s \ {m}) + 1 /\ Cardinality(s \ {m}) \in Nat
    <3>1. Cardinality(s \ {m}) = Cardinality(s) - 1
      BY <1>0, FS_RemoveElement
    <3> QED
      BY <1>0, <3>1
  <2>4. Sum(s) = f[m] + Sum(s \ {m}) /\ Sum(s \ {m}) \in Nat
    BY <1>1, <1>2
  <2>5. Sum(s \ {m}) + h * Cardinality(s \ {m}) = m
    <3>1. CASE m = 0
      <4>1. s \ {m} = {}
        BY <2>1, <3>1
      <4>2. h * 0 = 0
        OBVIOUS
      <4>3. Sum(s \ {m}) = 0 /\ Cardinality(s \ {m}) = 0
        BY <4>1, <1>3, Zenon
      <4> HIDE DEF Tight
      <4> QED
        BY <4>2, <4>3, <3>1
    <3>2. CASE m # 0
      <4>1. ASSUME NEW x \in s \ {m}
            PROVE  x < m /\ (x + h + f[x] = m \/ x + h + f[x] \in s \ {m})
        <5>1. x \in Nat /\ f[x] \in Nat /\ x < m
          BY <2>1
        <5>2. x + h + f[x] <= m /\ m < t
          BY <5>1
        <5>3. x + h + f[x] = t \/ x + h + f[x] \in s
          OBVIOUS
        <5> QED
          BY <5>1, <5>2, <5>3
      <4>2. 0 \in s \ {m} /\ Tight(s \ {m}, m) /\ m \in Nat
        BY <3>2, <4>1
      <4>3. Fit(s \ {m})
        BY <1>4
      <4> HIDE DEF Tight
      <4> QED
        BY <4>2, <4>3
    <3> QED
      BY <3>1, <3>2
  <2> DEFINE c == Cardinality(s \ {m})
             u == Sum(s \ {m})
             v == h * c
  <2>6. h * Cardinality(s) = v + h /\ v \in Nat
    <3>1. \A n \in Nat : h * (n + 1) = h * n + h /\ h * n \in Nat
      OBVIOUS
    <3> QED
      BY <2>3, <3>1
  <2>7. /\ u + v = m /\ u \in Nat /\ Sum(s) = f[m] + u
        /\ f[m] \in Nat /\ m \in Nat
    BY <2>4, <2>5
  <2> HIDE DEF u, v, c
  <2> QED
    BY <2>2, <2>6, <2>7
<1>5. SUBSET S \subseteq F
  <2> HIDE DEF F
  <2> QED
    BY <1>4, FiniteInductive
<1>6. Fit(S)
  BY <1>5
<1> QED
  BY <1>6 DEF Sum
=============================================================================
