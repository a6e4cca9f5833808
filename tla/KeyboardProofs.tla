--------------------------- MODULE KeyboardProofs ---------------------------
(***************************************************************************)
(* Proofs about Keyboard for a ring of any size and any set of keys.  The  *)
(* inductive invariant is IInv: types, and FetchStable, which carries the  *)
(* taker's test over to its store while the handler runs in between.  The  *)
(* refinement of BoundedFifo rests on two lemmas about the ring alone: a   *)
(* key stored at end is appended to the contents, and moving start over    *)
(* the oldest key removes it from them.                                    *)
(*                                                                         *)
(* That the modifiers follow the keys needs an invariant of its own, ModInv: *)
(* the modifiers are those of the keys as they were before the codes that   *)
(* are still on the way.                                                    *)
(***************************************************************************)
EXTENDS Keyboard, SequenceTheorems, FiniteSetTheorems, TLAPS

IInv == TypeOK /\ FetchStable

N == KEYBOARD_BUFFER_SIZE

(* The indices of the ring, with the modulus worked out.                   *)
LEMMA Modulus ==
  ASSUME NEW n \in Nat, n > 0, NEW x \in Nat, x < n + n
  PROVE  x % n = IF x < n THEN x ELSE x - n
  OBVIOUS

(* The ring of keyboard_buffer has more than one slot, numbered from zero.  *)
LEMMA NPositive == N \in Nat /\ N > 1 /\ Slots = 0 .. (N - 1)
  BY KeyboardAssumption DEF N, Slots

(* The index after a slot (keyboard.c:118, :164) is a slot again.           *)
LEMMA AfterSlot ==
  ASSUME NEW i \in Slots
  PROVE  /\ After(i) \in Slots
         /\ After(i) = IF i + 1 = N THEN 0 ELSE i + 1
<1>1. After(i) = (i + 1) % N
  BY DEF After, N
<1> HIDE DEF N
<1>2. i + 1 \in Nat /\ i + 1 <= N /\ i + 1 < N + N
  BY NPositive
<1>3. (i + 1) % N = IF i + 1 < N THEN i + 1 ELSE i + 1 - N
  BY ONLY <1>2, NPositive, Modulus
<1> QED
  BY <1>1, <1>2, <1>3, NPositive

(* The slot some places past another, counted round the ring.               *)
LEMMA SlotOf ==
  ASSUME TypeOK, NEW i \in 1 .. N
  PROVE  /\ Slot(i) \in Slots
         /\ Slot(i) = IF keyboard_buffer_start + i - 1 < N
                      THEN keyboard_buffer_start + i - 1
                      ELSE keyboard_buffer_start + i - 1 - N
<1> DEFINE x == keyboard_buffer_start + i - 1
<1>1. Slot(i) = x % N
  BY DEF Slot, N
<1> HIDE DEF N
<1>2. x \in Nat /\ x < N + N /\ keyboard_buffer_start \in Nat
  BY NPositive DEF TypeOK
<1> HIDE DEF x
<1>3. x % N = IF x < N THEN x ELSE x - N
  BY ONLY <1>2, NPositive, Modulus
<1> QED
  BY <1>1, <1>2, <1>3, NPositive DEF x

(* Between the two indices there are fewer keys than slots: the ring is one *)
(* short of full at most, and holds none exactly when the indices meet.     *)
LEMMA CountRange ==
  ASSUME TypeOK
  PROVE  /\ Count \in 0 .. (N - 1)
         /\ Count = 0 <=> IsEmpty
         /\ Count < N - 1 <=> After(keyboard_buffer_end) # keyboard_buffer_start
         /\ Slot(Count + 1) = keyboard_buffer_end
         /\ \A i \in 1 .. Count : Slot(i) # keyboard_buffer_end
<1>1. /\ N \in Nat /\ N > 1
      /\ keyboard_buffer_start \in 0 .. (N - 1)
      /\ keyboard_buffer_end \in 0 .. (N - 1)
  BY KeyboardAssumption DEF TypeOK, Slots, N
<1>2. Count \in 0 .. (N - 1) /\ (Count = 0 <=> IsEmpty)
  BY <1>1 DEF Count, N, IsEmpty
<1>3. Count < N - 1 <=> After(keyboard_buffer_end) # keyboard_buffer_start
  BY <1>1, AfterSlot DEF Count, N, TypeOK
<1>4. Slot(Count + 1) = keyboard_buffer_end
  <2>1. Count + 1 \in 1 .. N
    BY <1>1, <1>2
  <2> QED
    BY <2>1, <1>1, SlotOf DEF Count, N
<1>5. \A i \in 1 .. Count : Slot(i) # keyboard_buffer_end
  <2> TAKE i \in 1 .. Count
  <2>1. i \in 1 .. N
    BY <1>1, <1>2
  <2> QED
    BY <2>1, <1>1, SlotOf DEF Count, N
<1> QED
  BY <1>2, <1>3, <1>4, <1>5

(* What lies between the indices is a sequence of keys of that length.      *)
LEMMA ContentsSeq ==
  ASSUME TypeOK
  PROVE  Contents \in Seq(CharKeys \cup {NoCode}) /\ Len(Contents) = Count
<1>1. Count \in Nat
  BY CountRange, KeyboardAssumption DEF N
<1>2. \A i \in 1 .. Count : keyboard_buffer[Slot(i)] \in CharKeys \cup {NoCode}
  <2> TAKE i \in 1 .. Count
  <2>1. i \in 1 .. N
    BY CountRange, KeyboardAssumption DEF N
  <2> QED
    BY <2>1, SlotOf DEF TypeOK
<1> QED
  BY <1>1, <1>2 DEF Contents
-----------------------------------------------------------------------------
(* The handler's two stores append to the contents.                        *)
LEMMA StoreAppends ==
  ASSUME TypeOK, NEW k \in CharKeys,
         After(keyboard_buffer_end) # keyboard_buffer_start,
         keyboard_buffer' = [keyboard_buffer EXCEPT ![keyboard_buffer_end] = k],
         keyboard_buffer_end' = After(keyboard_buffer_end),
         keyboard_buffer_start' = keyboard_buffer_start
  PROVE  /\ Len(Contents) < N - 1
         /\ Contents' = Append(Contents, k)
<1>1. /\ N \in Nat /\ N > 1
      /\ keyboard_buffer_start \in 0 .. (N - 1)
      /\ keyboard_buffer_end \in 0 .. (N - 1)
      /\ keyboard_buffer \in [0 .. (N - 1) -> CharKeys \cup {NoCode}]
  BY KeyboardAssumption DEF TypeOK, Slots, N
<1>2. Count' = Count + 1
  <2>1. /\ After(keyboard_buffer_end) = IF keyboard_buffer_end + 1 = N THEN 0
                                        ELSE keyboard_buffer_end + 1
    BY AfterSlot DEF TypeOK
  <2> QED
    BY <2>1, <1>1 DEF Count, N
<1>3. Count \in 0 .. (N - 2)
  BY <1>1, CountRange
<1>4. \A i \in 1 .. (Count + 1) :
        keyboard_buffer'[Slot(i)'] = IF i = Count + 1 THEN k
                                     ELSE keyboard_buffer[Slot(i)]
  <2> TAKE i \in 1 .. (Count + 1)
  <2>1. i \in 1 .. N
    BY <1>1, <1>3
  <2>2. Slot(i)' = Slot(i) /\ Slot(i) \in 0 .. (N - 1)
    BY <2>1, SlotOf DEF Slot, N, Slots
  <2>3. CASE i = Count + 1
    BY <2>2, <2>3, <1>1, CountRange
  <2>4. CASE i \in 1 .. Count
    BY <2>2, <2>4, <1>1, <1>3, CountRange
  <2> QED
    BY <2>3, <2>4, <1>3
<1>5. Contents' = [i \in 1 .. (Count + 1) |->
                     IF i = Count + 1 THEN k ELSE keyboard_buffer[Slot(i)]]
  BY <1>2, <1>4 DEF Contents
<1>6. Append(Contents, k) = [i \in 1 .. (Count + 1) |->
                     IF i = Count + 1 THEN k ELSE keyboard_buffer[Slot(i)]]
  BY <1>3, ContentsSeq DEF Contents
<1> QED
  BY <1>3, <1>5, <1>6, ContentsSeq, <1>1

(* The taker's store takes the oldest key out of them.                     *)
LEMMA AdvanceTakes ==
  ASSUME TypeOK, ~IsEmpty,
         keyboard_buffer_start' = After(keyboard_buffer_start),
         UNCHANGED <<keyboard_buffer, keyboard_buffer_end>>
  PROVE  /\ Contents # <<>>
         /\ Head(Contents) = keyboard_buffer[keyboard_buffer_start]
         /\ Contents' = Tail(Contents)
<1>1. /\ N \in Nat /\ N > 1
      /\ keyboard_buffer_start \in 0 .. (N - 1)
      /\ keyboard_buffer_end \in 0 .. (N - 1)
  BY KeyboardAssumption DEF TypeOK, Slots, N
<1>2. Count \in 1 .. (N - 1)
  BY <1>1, CountRange
<1>3. Count' = Count - 1
  BY <1>1, AfterSlot DEF Count, N, Slots, IsEmpty
<1>4. /\ After(keyboard_buffer_start) = IF keyboard_buffer_start + 1 = N THEN 0
                                        ELSE keyboard_buffer_start + 1
      /\ keyboard_buffer_start' \in 0 .. (N - 1)
  BY AfterSlot, NPositive DEF TypeOK
<1>5. \A i \in 1 .. (Count - 1) : Slot(i)' = Slot(i + 1)
  <2> TAKE i \in 1 .. (Count - 1)
  <2>1. i \in 1 .. N /\ i + 1 \in 1 .. N
    BY <1>1, <1>2
  <2>2. Slot(i + 1) = IF keyboard_buffer_start + i < N
                      THEN keyboard_buffer_start + i
                      ELSE keyboard_buffer_start + i - N
    BY <2>1, <1>1, SlotOf
  <2> DEFINE x == keyboard_buffer_start' + i - 1
  <2>3. x \in Nat /\ x < N + N
    BY <2>1, <1>1, <1>4
  <2>4. Slot(i)' = x % N
    BY DEF Slot, N
  <2> HIDE DEF x, N
  <2>5. x % N = IF x < N THEN x ELSE x - N
    BY ONLY <2>3, NPositive, Modulus
  <2> QED
    BY <2>1, <2>2, <2>4, <2>5, <1>1, <1>4 DEF x
<1>6. Contents' = [i \in 1 .. (Count - 1) |-> keyboard_buffer[Slot(i + 1)]]
  BY <1>3, <1>5 DEF Contents
<1>7. Contents # <<>> /\ Len(Contents) = Count
  BY <1>2, ContentsSeq
<1>8. Tail(Contents) = [i \in 1 .. (Count - 1) |-> keyboard_buffer[Slot(i + 1)]]
  BY <1>2, <1>7, ContentsSeq DEF Contents
<1>9. Slot(1) = keyboard_buffer_start
  BY <1>1, SlotOf
<1>10. Head(Contents) = keyboard_buffer[keyboard_buffer_start]
  BY <1>2, <1>7, <1>9, ContentsSeq DEF Contents
<1> QED
  BY <1>6, <1>7, <1>8, <1>10
-----------------------------------------------------------------------------
(* The empty ring of keyboard.c:11-15 satisfies the invariant.              *)
LEMMA InitIInv == Init => IInv
  BY NPositive DEF Init, IInv, TypeOK, FetchStable, Keys

(* The handler writes only the free slot at end, which is not the slot at  *)
(* start while the taker holds it: the ring is not empty then.             *)
LEMMA KeyInterruptStep == ASSUME IInv, KeyInterrupt PROVE IInv'
<1> DEFINE b == Head(wire)
<1> USE DEF IInv, TypeOK
<1>1. /\ wire # <<>> /\ wire \in Seq([key : Keys, up : BOOLEAN])
      /\ b.key \in Keys /\ b.up \in BOOLEAN
      /\ wire' \in Seq([key : Keys, up : BOOLEAN])
  <2>1. wire # <<>> /\ wire \in Seq([key : Keys, up : BOOLEAN]) /\ wire' = Tail(wire)
    BY DEF KeyInterrupt
  <2>2. Head(wire) \in [key : Keys, up : BOOLEAN]
          /\ Tail(wire) \in Seq([key : Keys, up : BOOLEAN])
    BY <2>1, HeadTailProperties
  <2> QED
    BY <2>1, <2>2
<1>2. keyboard_modifiers' \subseteq {"ctrl", "shift", "alt", "caps", "num", "scroll"}
  <2>1. \A k \in DOMAIN HoldMod : HoldMod[k] \in {"ctrl", "shift", "alt"}
    BY DEF HoldMod
  <2>2. \A k \in DOMAIN ToggleMod : ToggleMod[k] \in {"caps", "num", "scroll"}
    BY DEF ToggleMod
  <2>3. keyboard_modifiers' = NewModifiers(b)
    BY DEF KeyInterrupt
  <2> QED
    BY <2>1, <2>2, <2>3 DEF NewModifiers, Toggled
<1>3. /\ keyboard_buffer' \in [Slots -> CharKeys \cup {NoCode}]
      /\ keyboard_buffer_end' \in Slots
  <2>1. CASE Queued(b)
    BY <2>1, AfterSlot DEF KeyInterrupt, Queued
  <2>2. CASE ~Queued(b)
    BY <2>2 DEF KeyInterrupt
  <2> QED
    BY <2>1, <2>2
<1>4. pc' = pc \/ (pc = "halted" /\ pc' = "test")
  BY DEF KeyInterrupt, Wake
<1>5. TypeOK'
  BY <1>1, <1>2, <1>3, <1>4 DEF KeyInterrupt
<1>6. FetchStable'
  <2>1. CASE Queued(b)
    BY <2>1, <1>4 DEF KeyInterrupt, Queued, FetchStable, IsEmpty
  <2>2. CASE ~Queued(b)
    BY <2>2, <1>4 DEF KeyInterrupt, FetchStable, IsEmpty
  <2> QED
    BY <2>1, <2>2
<1> QED
  BY <1>5, <1>6

(* Every step of the handler, the timer and the taker keeps the invariant.  *)
LEMMA NextIInv == ASSUME IInv, [Next]_vars PROVE IInv'
<1> USE DEF IInv, TypeOK, FetchStable, IsEmpty, ring, taker
<1>1. ASSUME NEW k \in Keys, Press(k) PROVE IInv'
  BY <1>1 DEF Press, Make, Keys
<1>2. ASSUME NEW k \in Keys, Release(k) PROVE IInv'
  BY <1>2 DEF Release, Break, Keys
<1>3. CASE KeyInterrupt
  BY <1>3, KeyInterruptStep
<1>4. CASE TimerInterrupt
  BY <1>4 DEF TimerInterrupt, Wake
<1>5. ASSUME NEW c \in {"getchar", "get_scancode"}, Enter(c) PROVE IInv'
  BY <1>5 DEF Enter, Goto
<1>6. CASE Test
  BY <1>6 DEF Test, Goto
<1>7. CASE Halt
  BY <1>7 DEF Halt, Goto
<1>8. CASE Fetch
  BY <1>8 DEF Fetch, Goto
<1>9. CASE Advance
  BY <1>9, AfterSlot DEF Advance, Goto
<1>10. CASE UNCHANGED vars
  BY <1>10 DEF vars
<1> QED
  BY <1>1, <1>2, <1>3, <1>4, <1>5, <1>6, <1>7, <1>8, <1>9, <1>10 DEF Next, Take

(* The inductive invariant of the ring of keyboard.c holds at every step of *)
(* keyboard_handler and the takers, for a ring of any size.                 *)
THEOREM KeyboardInvariant == Spec => []IInv
  BY InitIInv, NextIInv, PTL DEF Spec

(* Types, for a ring of any size.                                          *)
THEOREM KeyboardTypeOK == Spec => []TypeOK
  BY KeyboardInvariant, PTL DEF IInv

(* The slot keyboard_getchar and keyboard_get_scancode are about to free   *)
(* is never touched by the handler that runs in between.                   *)
THEOREM KeyboardFetchStable == Spec => []FetchStable
  BY KeyboardInvariant, PTL DEF IInv
-----------------------------------------------------------------------------
(* A step of the handler that queues is a Put; one that does not leaves    *)
(* the contents alone.                                                     *)
LEMMA KeyInterruptMaps ==
  ASSUME IInv, KeyInterrupt
  PROVE  /\ Queued(Head(wire)) =>
              /\ Fifo!Put(Head(wire).key)
              /\ Contents' = Append(Contents, Head(wire).key)
         /\ ~Queued(Head(wire)) => UNCHANGED <<Contents, taken>>
<1>1. CASE Queued(Head(wire))
  <2>1. /\ Len(Contents) < KEYBOARD_BUFFER_SIZE - 1
        /\ Contents' = Append(Contents, Head(wire).key)
    BY <1>1, StoreAppends DEF IInv, KeyInterrupt, Queued, N
  <2> QED
    BY <1>1, <2>1 DEF KeyInterrupt, Fifo!Put
<1>2. CASE ~Queued(Head(wire))
  BY <1>2 DEF KeyInterrupt, Contents, Count, Slot
<1> QED
  BY <1>1, <1>2

(* The taker's store to keyboard_buffer_start is a Get of the abstract queue. *)
LEMMA AdvanceMaps == ASSUME IInv, Advance PROVE Fifo!Get
<1>1. /\ Contents # <<>>
      /\ Head(Contents) = keyboard_buffer[keyboard_buffer_start]
      /\ Contents' = Tail(Contents)
  BY AdvanceTakes DEF IInv, FetchStable, Advance, ring
<1> QED
  BY <1>1 DEF Fifo!Get, Advance, IInv, FetchStable

(* Every other step leaves the abstract queue alone.                       *)
LEMMA OthersStutter ==
  ASSUME [Next]_vars, ~KeyInterrupt, ~Advance
  PROVE  UNCHANGED <<Contents, taken>>
<1>1. UNCHANGED <<keyboard_buffer, keyboard_buffer_start, keyboard_buffer_end, taken>>
  BY DEF Next, Take, Press, Release, TimerInterrupt, Enter, Test, Halt, Fetch,
         ring, taker, vars
<1> QED
  BY <1>1 DEF Contents, Count, Slot

(* The ring, for any size, taken from and put into by interleaved code, is *)
(* a bounded first-in first-out queue.                                     *)
THEOREM KeyboardKeysInOrder == Spec => KeysInOrder
<1>1. Init => Fifo!FifoInit
  <2> SUFFICES ASSUME Init PROVE Contents = <<>> /\ taken \notin CharKeys
    BY DEF Fifo!FifoInit
  <2>1. TypeOK /\ Count = 0
    BY InitIInv, NPositive DEF Init, IInv, Count
  <2>2. Contents \in Seq(CharKeys \cup {NoCode}) /\ Len(Contents) = 0
    BY <2>1, ContentsSeq
  <2>3. Contents = <<>>
    BY <2>2, EmptySeq
  <2> QED
    BY <2>3, KeyboardAssumption DEF Init
<1>2. ASSUME IInv, [Next]_vars PROVE [Fifo!FifoNext]_<<Contents, taken>>
  <2>1. CASE KeyInterrupt
    BY <1>2, <2>1, KeyInterruptMaps DEF Fifo!FifoNext, Queued
  <2>2. CASE Advance
    BY <1>2, <2>2, AdvanceMaps DEF Fifo!FifoNext
  <2>3. CASE ~KeyInterrupt /\ ~Advance
    BY <1>2, <2>3, OthersStutter
  <2> QED
    BY <2>1, <2>2, <2>3
<1> QED
  BY <1>1, <1>2, KeyboardInvariant, PTL DEF Spec, KeysInOrder, Fifo!FifoSpec

(* A sequence and its tail differ: a Get is no Put.                          *)
LEMMA TailIsShorter ==
  ASSUME NEW S, NEW s \in Seq(S), s # <<>>
  PROVE  /\ Tail(s) # s
         /\ \A x \in S : Tail(s) # Append(s, x)
<1>1. Len(Tail(s)) = Len(s) - 1 /\ Len(s) \in Nat
  BY HeadTailProperties
<1>2. \A x \in S : Len(Append(s, x)) = Len(s) + 1
  OBVIOUS
<1>3. \A m, n \in Nat : m = n - 1 => m # n /\ m # n + 1
  OBVIOUS
<1>4. Len(Tail(s)) \in Nat
  BY HeadTailProperties
<1>5. Len(Tail(s)) # Len(s) /\ \A x \in S : Len(Tail(s)) # Len(Append(s, x))
  BY <1>1, <1>2, <1>3, <1>4
<1> QED
  BY <1>5

(* A key is dropped only while the ring holds all it can.                  *)
THEOREM KeyboardDropsOnlyWhenFull == Spec => DropsOnlyWhenFull
<1> DEFINE DropStep ==
      /\ wire # <<>> /\ wire' = Tail(wire)
      /\ Head(wire).key \in CharKeys /\ ~Head(wire).up
      /\ Count < KEYBOARD_BUFFER_SIZE - 1
      => Contents' = Append(Contents, Head(wire).key)
<1>1. ASSUME IInv, [Next]_vars PROVE DropStep
  <2> SUFFICES ASSUME wire # <<>>, wire' = Tail(wire),
                      Head(wire).key \in CharKeys, ~Head(wire).up,
                      Count < KEYBOARD_BUFFER_SIZE - 1
               PROVE  Contents' = Append(Contents, Head(wire).key)
    OBVIOUS
  <2>1. KeyInterrupt
    <3>1. wire' # wire /\ \A x \in [key : Keys, up : BOOLEAN] : wire' # Append(wire, x)
      BY <1>1, TailIsShorter DEF IInv, TypeOK
    <3>2. \A k \in Keys : wire' # Append(wire, Make(k)) /\ wire' # Append(wire, Break(k))
      BY <3>1 DEF Make, Break
    <3> QED
      BY <1>1, <3>1, <3>2 DEF Next, Take, Press, Release, TimerInterrupt, Enter, Test,
         Halt, Fetch, Advance, vars
  <2>2. Queued(Head(wire))
    BY <1>1, CountRange DEF Queued, IInv, N
  <2> QED
    BY <1>1, <2>1, <2>2, KeyInterruptMaps
<1> QED
  BY <1>1, KeyboardInvariant, PTL DEF Spec, DropsOnlyWhenFull
-----------------------------------------------------------------------------
(* The modifiers.  The invariant looks at the scancodes on their way from   *)
(* the keyboard to the handler: the last one of the keys of a modifier says *)
(* what the handler will leave of it, and is as old as the last change of   *)
(* those keys.                                                              *)
Held == {"ctrl", "shift", "alt"}
Bytes == [key : Keys, up : BOOLEAN]
Setters(m) == {k \in ModKeys \cap DOMAIN HoldMod : HoldMod[k] = m}

OnTheWay(S) == \E i \in 1 .. Len(wire) : wire[i].key \in S
IsLast(i, S) ==
  /\ i \in 1 .. Len(wire) /\ wire[i].key \in S
  /\ \A j \in (i + 1) .. Len(wire) : wire[j].key \notin S

(* A modifier that will be set has a key that is down ... *)
SetByKey(m) ==
  /\ \A i \in 1 .. Len(wire) :
       IsLast(i, Setters(m)) /\ ~wire[i].up => wire[i].key \in down
  /\ ~OnTheWay(Setters(m)) /\ m \in keyboard_modifiers => Setters(m) \cap down # {}

(* ... and one whose only key is down will be set. *)
KeySets(m) ==
  \A k \in down : Setters(m) = {k} =>
    /\ \A i \in 1 .. Len(wire) : IsLast(i, {k}) => ~wire[i].up
    /\ ~OnTheWay({k}) => m \in keyboard_modifiers

ModInv == \A m \in Held : SetByKey(m) /\ KeySets(m)

(* What keyboard_handler makes of the bit of a held modifier. *)
LEMMA HeldBit ==
  ASSUME NEW b \in Bytes, NEW m \in Held
  PROVE  m \in NewModifiers(b)
           <=> IF b.key \in Setters(m) THEN ~b.up ELSE m \in keyboard_modifiers
<1>1. \A k \in DOMAIN ToggleMod : ToggleMod[k] # m
  BY DEF ToggleMod, Held
<1>2. \A k \in DOMAIN HoldMod : k \notin DOMAIN ToggleMod
  BY DEF HoldMod, ToggleMod
<1>3. b.key \in DOMAIN HoldMod => b.key \in ModKeys
  BY KeyboardAssumption DEF Bytes, Keys
<1>4. b.up \in BOOLEAN
  BY DEF Bytes
<1>5. CASE b.key \in DOMAIN HoldMod
  BY <1>2, <1>3, <1>4, <1>5 DEF NewModifiers, Setters
<1>6. CASE b.key \notin DOMAIN HoldMod
  <2>1. b.key \notin Setters(m)
    BY <1>6 DEF Setters
  <2>2. m \in NewModifiers(b) <=> m \in keyboard_modifiers
    BY <1>1, <1>6 DEF NewModifiers, Toggled
  <2> QED
    BY <2>1, <2>2
<1> QED
  BY <1>5, <1>6

(* A key event at the end of the wire (Press, Release) ... *)
LEMMA WireAppend ==
  ASSUME wire \in Seq(Bytes), NEW b \in Bytes, wire' = Append(wire, b), NEW S
  PROVE  /\ wire' \in Seq(Bytes) /\ Len(wire') = Len(wire) + 1 /\ Len(wire) \in Nat
         /\ wire'[Len(wire) + 1] = b
         /\ \A i \in 1 .. Len(wire) : wire'[i] = wire[i]
         /\ b.key \in S => \A i : IsLast(i, S)' => i = Len(wire) + 1
         /\ b.key \notin S => \A i : IsLast(i, S)' => IsLast(i, S)
         /\ OnTheWay(S)' <=> OnTheWay(S) \/ b.key \in S
<1>1. /\ wire' \in Seq(Bytes) /\ Len(wire') = Len(wire) + 1 /\ Len(wire) \in Nat
      /\ wire'[Len(wire) + 1] = b
      /\ \A i \in 1 .. Len(wire) : wire'[i] = wire[i]
  BY AppendProperties, LenProperties
<1>2. ASSUME b.key \in S, NEW i, IsLast(i, S)' PROVE i = Len(wire) + 1
  <2>1. i \in 1 .. Len(wire) + 1 /\ \A j \in (i + 1) .. (Len(wire) + 1) : wire'[j].key \notin S
    BY <1>1, <1>2 DEF IsLast
  <2> QED
    BY <1>1, <1>2, <2>1
<1>3. ASSUME b.key \notin S, NEW i, IsLast(i, S)' PROVE IsLast(i, S)
  <2>1. i \in 1 .. Len(wire) + 1 /\ wire'[i].key \in S
        /\ \A j \in (i + 1) .. (Len(wire) + 1) : wire'[j].key \notin S
    BY <1>1, <1>3 DEF IsLast
  <2>2. i \in 1 .. Len(wire)
    BY <1>1, <1>3, <2>1
  <2>3. \A j \in (i + 1) .. Len(wire) : wire[j].key \notin S
    BY <1>1, <2>1, <2>2
  <2> QED
    BY <1>1, <2>1, <2>2, <2>3 DEF IsLast
<1>4. OnTheWay(S)' <=> OnTheWay(S) \/ b.key \in S
  <2>1. ASSUME OnTheWay(S)' PROVE OnTheWay(S) \/ b.key \in S
    <3> PICK i \in 1 .. Len(wire) + 1 : wire'[i].key \in S
      BY <1>1, <2>1 DEF OnTheWay
    <3> QED
      BY <1>1 DEF OnTheWay
  <2>2. ASSUME OnTheWay(S) PROVE OnTheWay(S)'
    <3> PICK i \in 1 .. Len(wire) : wire[i].key \in S
      BY <2>2 DEF OnTheWay
    <3>1. i \in 1 .. Len(wire') /\ wire'[i].key \in S
      BY <1>1
    <3> QED
      BY <3>1 DEF OnTheWay
  <2>3. ASSUME b.key \in S PROVE OnTheWay(S)'
    <3>1. Len(wire) + 1 \in 1 .. Len(wire') /\ wire'[Len(wire) + 1].key \in S
      BY <1>1, <2>3
    <3> QED
      BY <3>1 DEF OnTheWay
  <2> QED
    BY <2>1, <2>2, <2>3
<1> QED
  BY <1>1, <1>2, <1>3, <1>4

(* ... and one that the handler reads from its beginning. *)
LEMMA WireTail ==
  ASSUME wire \in Seq(Bytes), wire # <<>>, wire' = Tail(wire), NEW S
  PROVE  /\ Head(wire) \in Bytes /\ wire' \in Seq(Bytes)
         /\ Len(wire') = Len(wire) - 1 /\ Len(wire) \in Nat
         /\ \A i \in 1 .. Len(wire') : wire'[i] = wire[i + 1]
         /\ \A i \in Nat : IsLast(i, S)' => IsLast(i + 1, S)
         /\ ~OnTheWay(S)' /\ Head(wire).key \in S => IsLast(1, S)
         /\ ~OnTheWay(S)' /\ Head(wire).key \notin S => ~OnTheWay(S)
<1>1. /\ Head(wire) \in Bytes /\ wire' \in Seq(Bytes) /\ Head(wire) = wire[1]
      /\ Len(wire') = Len(wire) - 1 /\ Len(wire) \in Nat /\ Len(wire') \in Nat
      /\ \A i \in 1 .. Len(wire') : wire'[i] = wire[i + 1]
  BY HeadTailProperties, LenProperties
<1>2. ASSUME NEW j \in 2 .. Len(wire) PROVE wire[j] = wire'[j - 1] /\ j - 1 \in 1 .. Len(wire')
  BY <1>1
<1>3. ASSUME NEW i \in Nat, IsLast(i, S)' PROVE IsLast(i + 1, S)
  <2>1. i \in 1 .. Len(wire') /\ wire'[i].key \in S
        /\ \A j \in (i + 1) .. Len(wire') : wire'[j].key \notin S
    BY <1>3 DEF IsLast
  <2>2. i + 1 \in 1 .. Len(wire) /\ wire[i + 1].key \in S
    BY <1>1, <2>1
  <2>3. ASSUME NEW j \in (i + 1 + 1) .. Len(wire) PROVE wire[j].key \notin S
    <3>1. j \in 2 .. Len(wire) /\ j - 1 \in (i + 1) .. Len(wire')
      BY <1>1
    <3> QED
      BY <1>2, <2>1, <3>1
  <2> QED
    BY <2>2, <2>3 DEF IsLast
<1>4. ASSUME ~OnTheWay(S)', NEW j \in 2 .. Len(wire) PROVE wire[j].key \notin S
  BY <1>2, <1>4 DEF OnTheWay
<1>5. ASSUME ~OnTheWay(S)', Head(wire).key \in S PROVE IsLast(1, S)
  BY <1>1, <1>4, <1>5 DEF IsLast
<1>6. ASSUME ~OnTheWay(S)', Head(wire).key \notin S PROVE ~OnTheWay(S)
  <2>1. \A j \in 1 .. Len(wire) : j = 1 \/ j \in 2 .. Len(wire)
    BY <1>1
  <2> QED
    BY <1>1, <1>4, <1>6, <2>1 DEF OnTheWay
<1> QED
  BY <1>1, <1>3, <1>5, <1>6

(* A key that goes down, and one that comes up, has its code on the way. *)
LEMMA PressModInv ==
  ASSUME TypeOK, ModInv, NEW k \in Keys, Press(k) PROVE ModInv'
<1>1. /\ wire \in Seq(Bytes) /\ wire' = Append(wire, Make(k)) /\ Make(k) \in Bytes
      /\ Make(k).key = k /\ ~Make(k).up
      /\ down' = down \cup {k} /\ keyboard_modifiers' = keyboard_modifiers
  BY DEF TypeOK, Press, Make, Bytes, ring
<1>2. SUFFICES ASSUME NEW m \in Held PROVE SetByKey(m)' /\ KeySets(m)'
  BY DEF ModInv
<1>3. SetByKey(m) /\ KeySets(m)
  BY DEF ModInv
<1>4. ASSUME NEW i \in 1 .. Len(wire'), IsLast(i, Setters(m))', ~wire'[i].up
      PROVE  wire'[i].key \in down'
  <2>1. CASE k \in Setters(m)
    BY <1>1, <1>4, <2>1, WireAppend
  <2>2. CASE k \notin Setters(m)
    <3>1. IsLast(i, Setters(m))
      BY <1>1, <1>4, <2>2, WireAppend
    <3>2. i \in 1 .. Len(wire)
      BY <3>1 DEF IsLast
    <3>3. wire'[i] = wire[i]
      BY <1>1, <3>2, WireAppend
    <3> QED
      BY <1>1, <1>3, <1>4, <3>1, <3>2, <3>3 DEF SetByKey
  <2> QED
    BY <2>1, <2>2
<1>5. ASSUME ~OnTheWay(Setters(m))', m \in keyboard_modifiers'
      PROVE  Setters(m) \cap down' # {}
  <2>1. ~OnTheWay(Setters(m))
    BY <1>1, <1>5, WireAppend
  <2> QED
    BY <1>1, <1>3, <1>5, <2>1 DEF SetByKey
<1>6. ASSUME NEW h \in down', Setters(m) = {h}, NEW i \in 1 .. Len(wire'), IsLast(i, {h})'
      PROVE  ~wire'[i].up
  <2>1. CASE k = h
    BY <1>1, <1>6, <2>1, WireAppend
  <2>2. CASE k # h
    <3>1. IsLast(i, {h})
      BY <1>1, <1>6, <2>2, WireAppend
    <3>2. i \in 1 .. Len(wire) /\ h \in down
      BY <1>1, <2>2, <3>1 DEF IsLast
    <3>3. wire'[i] = wire[i]
      BY <1>1, <3>2, WireAppend
    <3> QED
      BY <1>3, <1>6, <3>1, <3>2, <3>3 DEF KeySets
  <2> QED
    BY <2>1, <2>2
<1>7. ASSUME NEW h \in down', Setters(m) = {h}, ~OnTheWay({h})'
      PROVE  m \in keyboard_modifiers'
  <2>1. ~OnTheWay({h}) /\ k # h
    BY <1>1, <1>7, WireAppend
  <2> QED
    BY <1>1, <1>3, <1>7, <2>1 DEF KeySets
<1>8. Setters(m)' = Setters(m)
  BY DEF Setters
<1> QED
  BY <1>4, <1>5, <1>6, <1>7, <1>8 DEF SetByKey, KeySets

(* A key let go of puts its code on the wire, and its modifiers are as      *)
(* before.                                                                  *)
LEMMA ReleaseModInv ==
  ASSUME TypeOK, ModInv, NEW k \in Keys, Release(k) PROVE ModInv'
<1>1. /\ wire \in Seq(Bytes) /\ wire' = Append(wire, Break(k)) /\ Break(k) \in Bytes
      /\ Break(k).key = k /\ Break(k).up
      /\ down' = down \ {k} /\ keyboard_modifiers' = keyboard_modifiers
  BY DEF TypeOK, Release, Break, Bytes, ring
<1>2. SUFFICES ASSUME NEW m \in Held PROVE SetByKey(m)' /\ KeySets(m)'
  BY DEF ModInv
<1>3. SetByKey(m) /\ KeySets(m)
  BY DEF ModInv
<1>4. ASSUME NEW i \in 1 .. Len(wire'), IsLast(i, Setters(m))', ~wire'[i].up
      PROVE  wire'[i].key \in down'
  <2>1. k \notin Setters(m)
    BY <1>1, <1>4, WireAppend
  <2>2. IsLast(i, Setters(m))
    BY <1>1, <1>4, <2>1, WireAppend
  <2>3. i \in 1 .. Len(wire) /\ wire[i].key \in Setters(m)
    BY <2>2 DEF IsLast
  <2>4. wire'[i] = wire[i]
    BY <1>1, <2>3, WireAppend
  <2> QED
    BY <1>1, <1>3, <1>4, <2>1, <2>2, <2>3, <2>4 DEF SetByKey
<1>5. ASSUME ~OnTheWay(Setters(m))', m \in keyboard_modifiers'
      PROVE  Setters(m) \cap down' # {}
  <2>1. ~OnTheWay(Setters(m)) /\ k \notin Setters(m)
    BY <1>1, <1>5, WireAppend
  <2> QED
    BY <1>1, <1>3, <1>5, <2>1 DEF SetByKey
<1>6. ASSUME NEW h \in down', Setters(m) = {h}, NEW i \in 1 .. Len(wire'), IsLast(i, {h})'
      PROVE  ~wire'[i].up
  <2>1. k # h /\ h \in down
    BY <1>1
  <2>2. IsLast(i, {h})
    BY <1>1, <1>6, <2>1, WireAppend
  <2>3. i \in 1 .. Len(wire)
    BY <2>2 DEF IsLast
  <2>4. wire'[i] = wire[i]
    BY <1>1, <2>3, WireAppend
  <2> QED
    BY <1>3, <1>6, <2>1, <2>2, <2>3, <2>4 DEF KeySets
<1>7. ASSUME NEW h \in down', Setters(m) = {h}, ~OnTheWay({h})'
      PROVE  m \in keyboard_modifiers'
  <2>1. ~OnTheWay({h}) /\ h \in down
    BY <1>1, <1>7, WireAppend
  <2> QED
    BY <1>1, <1>3, <1>7, <2>1 DEF KeySets
<1>8. Setters(m)' = Setters(m)
  BY DEF Setters
<1> QED
  BY <1>4, <1>5, <1>6, <1>7, <1>8 DEF SetByKey, KeySets

(* The handler acts on the oldest scancode: where it was the last of its    *)
(* modifier, the bit is now what the wire said it would be.                 *)
LEMMA KeyInterruptModInv == ASSUME TypeOK, ModInv, KeyInterrupt PROVE ModInv'
<1> DEFINE b == Head(wire)
<1>1. /\ wire \in Seq(Bytes) /\ wire # <<>> /\ wire' = Tail(wire)
      /\ down' = down /\ keyboard_modifiers' = NewModifiers(b)
  BY DEF TypeOK, KeyInterrupt, Bytes
<1>2. b \in Bytes /\ b = wire[1]
  BY <1>1, HeadTailProperties
<1> HIDE DEF b
<1>3. SUFFICES ASSUME NEW m \in Held PROVE SetByKey(m)' /\ KeySets(m)'
  BY DEF ModInv
<1>4. SetByKey(m) /\ KeySets(m)
  BY DEF ModInv
<1>5. m \in keyboard_modifiers'
        <=> IF b.key \in Setters(m) THEN ~b.up ELSE m \in keyboard_modifiers
  BY <1>1, <1>2, HeldBit
<1>6. ASSUME NEW i \in 1 .. Len(wire'), NEW S, IsLast(i, S)'
      PROVE  i + 1 \in 1 .. Len(wire) /\ IsLast(i + 1, S) /\ wire'[i] = wire[i + 1]
  <2>1. i \in Nat
    BY <1>6
  <2>2. wire'[i] = wire[i + 1]
    BY <1>1, <1>6, WireTail
  <2>3. IsLast(i + 1, S)
    BY <1>1, <1>6, <2>1, WireTail
  <2> QED
    BY <2>2, <2>3 DEF IsLast
<1>7. ASSUME NEW i \in 1 .. Len(wire'), IsLast(i, Setters(m))', ~wire'[i].up
      PROVE  wire'[i].key \in down'
  <2>1. i + 1 \in 1 .. Len(wire) /\ IsLast(i + 1, Setters(m)) /\ wire'[i] = wire[i + 1]
    BY <1>6, <1>7
  <2> QED
    BY <1>1, <1>4, <1>7, <2>1 DEF SetByKey
<1>8. ASSUME ~OnTheWay(Setters(m))', m \in keyboard_modifiers'
      PROVE  Setters(m) \cap down' # {}
  <2>1. CASE b.key \in Setters(m)
    <3>1. IsLast(1, Setters(m)) /\ ~b.up
      BY <1>1, <1>5, <1>8, <2>1, WireTail DEF b
    <3>2. 1 \in 1 .. Len(wire)
      BY <3>1 DEF IsLast
    <3>3. b.key \in down
      BY <1>2, <1>4, <3>1, <3>2 DEF SetByKey
    <3> QED
      BY <1>1, <2>1, <3>3
  <2>2. CASE b.key \notin Setters(m)
    <3>1. ~OnTheWay(Setters(m)) /\ m \in keyboard_modifiers
      BY <1>1, <1>5, <1>8, <2>2, WireTail DEF b
    <3> QED
      BY <1>1, <1>4, <3>1 DEF SetByKey
  <2> QED
    BY <2>1, <2>2
<1>9. ASSUME NEW h \in down', Setters(m) = {h}, NEW i \in 1 .. Len(wire'), IsLast(i, {h})'
      PROVE  ~wire'[i].up
  <2>1. i + 1 \in 1 .. Len(wire) /\ IsLast(i + 1, {h}) /\ wire'[i] = wire[i + 1]
    BY <1>6, <1>9
  <2> QED
    BY <1>1, <1>4, <1>9, <2>1 DEF KeySets
<1>10. ASSUME NEW h \in down', Setters(m) = {h}, ~OnTheWay({h})'
      PROVE  m \in keyboard_modifiers'
  <2>1. CASE b.key = h
    <3>1. IsLast(1, {h})
      BY <1>1, <1>10, <2>1, WireTail DEF b
    <3>2. 1 \in 1 .. Len(wire)
      BY <3>1 DEF IsLast
    <3>3. ~b.up
      BY <1>1, <1>2, <1>4, <1>10, <3>1, <3>2 DEF KeySets
    <3> QED
      BY <1>5, <1>10, <2>1, <3>3
  <2>2. CASE b.key # h
    <3>1. ~OnTheWay({h})
      BY <1>1, <1>10, <2>2, WireTail DEF b
    <3> QED
      BY <1>1, <1>4, <1>5, <1>10, <2>2, <3>1 DEF KeySets
  <2> QED
    BY <2>1, <2>2
<1>11. Setters(m)' = Setters(m)
  BY DEF Setters
<1> QED
  BY <1>7, <1>8, <1>9, <1>10, <1>11 DEF SetByKey, KeySets

(* The bits of Ctrl, Shift and Alt follow their keys once everything sent   *)
(* is read, for every set of keys and every delay between the keyboard and  *)
(* its handler.                                                             *)
THEOREM KeyboardModifiersFollowKeys == Spec => []ModifiersFollowKeys
<1>1. Init => ModInv
  BY DEF Init, ModInv, SetByKey, KeySets
<1>2. TypeOK /\ ModInv /\ [Next]_vars => ModInv'
  <2> SUFFICES ASSUME TypeOK, ModInv, [Next]_vars PROVE ModInv'
    OBVIOUS
  <2>1. ASSUME UNCHANGED <<wire, down, keyboard_modifiers>> PROVE ModInv'
    BY <2>1 DEF ModInv, SetByKey, KeySets, OnTheWay, IsLast, Setters
  <2>2. ASSUME NEW k \in Keys, Press(k) \/ Release(k) PROVE ModInv'
    BY <2>2, PressModInv, ReleaseModInv
  <2>3. CASE KeyInterrupt
    BY <2>3, KeyInterruptModInv
  <2>4. CASE TimerInterrupt \/ Take
    BY <2>1, <2>4 DEF TimerInterrupt, Take, Enter, Test, Halt, Fetch, Advance, ring
  <2>5. CASE UNCHANGED vars
    BY <2>1, <2>5 DEF vars, ring
  <2> QED
    BY <2>2, <2>3, <2>4, <2>5 DEF Next
<1>3. TypeOK /\ ModInv => ModifiersFollowKeys
  <2> SUFFICES ASSUME ModInv, wire = <<>>, NEW m \in Held
               PROVE  /\ m \in keyboard_modifiers => Setters(m) \cap down # {}
                      /\ Cardinality(Setters(m)) = 1 /\ Setters(m) \subseteq down
                           => m \in keyboard_modifiers
    BY DEF ModifiersFollowKeys, Setters, Held
  <2>1. SetByKey(m) /\ KeySets(m) /\ \A S : ~OnTheWay(S)
    BY DEF ModInv, OnTheWay
  <2>2. IsFiniteSet(Setters(m))
    <3>1. Setters(m) \subseteq DOMAIN HoldMod
      BY DEF Setters
    <3>2. IsFiniteSet(DOMAIN HoldMod)
      <4>1. DOMAIN HoldMod = {"lctrl", "rctrl", "lshift", "rshift", "lalt", "ralt"}
        BY DEF HoldMod
      <4>2. IsFiniteSet({"lctrl"}) /\ IsFiniteSet({"rctrl"}) /\ IsFiniteSet({"lshift"})
            /\ IsFiniteSet({"rshift"}) /\ IsFiniteSet({"lalt"}) /\ IsFiniteSet({"ralt"})
        BY FS_Singleton
      <4>3. IsFiniteSet({"lctrl"} \cup {"rctrl"}) /\ IsFiniteSet({"lshift"} \cup {"rshift"})
            /\ IsFiniteSet({"lalt"} \cup {"ralt"})
        BY <4>2, FS_Union
      <4>4. IsFiniteSet(({"lctrl"} \cup {"rctrl"}) \cup ({"lshift"} \cup {"rshift"}))
        BY <4>3, FS_Union
      <4>5. IsFiniteSet((({"lctrl"} \cup {"rctrl"}) \cup ({"lshift"} \cup {"rshift"}))
                        \cup ({"lalt"} \cup {"ralt"}))
        BY <4>3, <4>4, FS_Union
      <4>6. (({"lctrl"} \cup {"rctrl"}) \cup ({"lshift"} \cup {"rshift"}))
              \cup ({"lalt"} \cup {"ralt"}) = DOMAIN HoldMod
        BY <4>1
      <4> QED
        BY <4>5, <4>6
    <3> QED
      BY <3>1, <3>2, FS_Subset
  <2>3. ASSUME Cardinality(Setters(m)) = 1, Setters(m) \subseteq down
        PROVE  m \in keyboard_modifiers
    <3>1. PICK k : Setters(m) = {k}
      BY <2>2, <2>3, FS_Singleton
    <3> QED
      BY <2>1, <2>3, <3>1 DEF KeySets
  <2> QED
    BY <2>1, <2>3 DEF SetByKey
<1> QED
  BY <1>1, <1>2, <1>3, KeyboardTypeOK, PTL DEF Spec
=============================================================================
