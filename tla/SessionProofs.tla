--------------------------- MODULE SessionProofs ---------------------------
(***************************************************************************)
(* The menus obey a patient user, for every size of the ring, every pane    *)
(* and every pair of commands: no step of the shell or of a menu is         *)
(* expanded further than to the keys and menus it touches, and what the     *)
(* menus do with a key (Obeyed) not at all.                                 *)
(***************************************************************************)
EXTENDS Session, TLAPS

(* A key waits in the ring, or was found last, and there is no other. *)
Pending(k) == \/ keys = <<k>> /\ last_key = None
              \/ keys = <<>> /\ last_key = k

(* The user was patient so far: the menus are where the keys led, or one    *)
(* key short of it, the one on its way.                                     *)
OneKeyBehind ==
  \/ Settled /\ shows = ideal
  \/ \E k \in Keys : Pending(k) /\ ideal = Obeyed(shows, k)

(* The inductive invariant: it adds what is on its way, and that a menu     *)
(* leaves no key behind for the shell, or for the next menu.                *)
PatientInv ==
  /\ ~Running => Settled
  /\ ideal # NULL => OneKeyBehind

(* No command and no key leaves a menu anywhere else: PatientInv starts     *)
(* out true.                                                                *)
LEMMA PatientInit == Init => PatientInv
  BY DEF Init, MenusInit, PatientInv, OneKeyBehind, Settled, Running

(* Opening a menu (cmd_bios, cmd_games) starts with no key on its way. *)
LEMMA PatientOpen ==
  ASSUME NEW menu \in DOMAIN Command, PatientInv, OpenMenu(menu)
  PROVE  PatientInv'
<1>1. Settled'
  BY DEF OpenMenu, Open, PatientInv, Settled, Running
<1>2. shows' = ideal'
  BY DEF OpenMenu, Open
<1> QED
  BY <1>1, <1>2 DEF PatientInv, OneKeyBehind

(* A key typed into a menu at rest is the one on its way; any other makes   *)
(* the user a hasty one.                                                    *)
LEMMA PatientType == ASSUME PatientInv, Type PROVE PatientInv'
<1> PICK key \in Keys :
      /\ keys' = Append(keys, key)
      /\ ideal' = IF Settled /\ ideal # NULL THEN Obeyed(ideal, key) ELSE NULL
      /\ UNCHANGED <<last_key, shows>>
  BY DEF Type, TypeKey
<1>1. Running'
  BY DEF Type, Running
<1>2. ASSUME ideal' # NULL PROVE OneKeyBehind'
  <2>1. Settled /\ ideal # NULL /\ ideal' = Obeyed(ideal, key)
    BY <1>2
  <2>2. shows = ideal
    <3>1. ASSUME NEW k \in Keys, Pending(k) PROVE FALSE
      BY <2>1, <3>1 DEF Pending, Settled, Keys, None
    <3> QED
      BY <2>1, <3>1 DEF PatientInv, OneKeyBehind
  <2>3. ideal' = Obeyed(shows', key)
    BY <2>1, <2>2
  <2>4. keys' = <<key>> /\ last_key' = None
    BY <2>1 DEF Settled
  <2> QED
    BY <2>3, <2>4 DEF OneKeyBehind, Pending
<1> QED
  BY <1>1, <1>2 DEF PatientInv

(* A poll moves the key on its way, or obeys it. *)
LEMMA PatientPoll == ASSUME PatientInv, Poll PROVE PatientInv'
<1>1. CASE FindKey
  <2>1. Running'
    BY <1>1 DEF Poll, FindKey, Running
  <2>2. ASSUME ideal' # NULL PROVE OneKeyBehind'
    <3>1. OneKeyBehind /\ keys # <<>>
      BY <1>1, <2>2 DEF FindKey, PatientInv
    <3>2. PICK k \in Keys : keys = <<k>> /\ ideal = Obeyed(shows, k)
      BY <3>1 DEF OneKeyBehind, Settled, Pending
    <3>3. keys' = <<>> /\ last_key' = k
      BY <1>1, <3>2 DEF FindKey
    <3>4. ideal' = Obeyed(shows', k)
      BY <1>1, <3>2 DEF FindKey
    <3> QED
      BY <3>3, <3>4 DEF OneKeyBehind, Pending
  <2> QED
    BY <2>1, <2>2 DEF PatientInv
<1>2. CASE ObeyKey
  <2>1. Settled'
    BY <1>2 DEF ObeyKey, Settled
  <2>2. ASSUME ideal' # NULL PROVE shows' = ideal'
    <3>1. CASE ideal = NULL
      BY <1>2, <2>2, <3>1 DEF ObeyKey
    <3>2. CASE ideal # NULL
      <4>1. OneKeyBehind /\ keys = <<>> /\ last_key # None
        BY <1>2, <3>2 DEF ObeyKey, PatientInv
      <4>2. ideal = Obeyed(shows, last_key)
        BY <4>1 DEF OneKeyBehind, Settled, Pending
      <4> QED
        BY <1>2, <3>2, <4>2 DEF ObeyKey
    <3> QED
      BY <3>1, <3>2
  <2> QED
    BY <2>1, <2>2 DEF PatientInv, OneKeyBehind
<1> QED
  BY <1>1, <1>2 DEF Poll

(* The inductive invariant of the menus holds in every session.  A key in   *)
(* the line editor (shell_run) touches none of what it speaks of.           *)
THEOREM PatientInvariant == Spec => []PatientInv
<1>1. Init => PatientInv
  BY PatientInit
<1>2. PatientInv /\ [Next]_sessionVars => PatientInv'
  <2> SUFFICES ASSUME PatientInv, [Next]_sessionVars PROVE PatientInv'
    OBVIOUS
  <2>1. ASSUME UNCHANGED menuVars PROVE PatientInv'
    BY <2>1 DEF menuVars, PatientInv, OneKeyBehind, Pending, Settled, Running
  <2>2. CASE Edit
    BY <2>1, <2>2 DEF Edit
  <2>3. CASE \E menu \in DOMAIN Command : OpenMenu(menu)
    BY <2>3, PatientOpen
  <2>4. CASE Type
    BY <2>4, PatientType
  <2>5. CASE Poll
    BY <2>5, PatientPoll
  <2>6. CASE UNCHANGED sessionVars
    BY <2>1, <2>6 DEF sessionVars
  <2> QED
    BY <2>2, <2>3, <2>4, <2>5, <2>6 DEF Next
<1> QED
  BY <1>1, <1>2, PTL DEF Spec

(* Who waits for a menu to come to rest before the next key gets what the   *)
(* keys ask for, whatever the menus do with a key and however long the ring *)
(* is.                                                                      *)
THEOREM SessionPatientUserObeyed == Spec => []PatientUserObeyed
<1>1. PatientInv => PatientUserObeyed
  <2> SUFFICES ASSUME PatientInv, Settled, ideal # NULL PROVE shows = ideal
    BY DEF PatientUserObeyed
  <2>1. ASSUME NEW k \in Keys, Pending(k) PROVE FALSE
    BY <2>1 DEF Pending, Settled, Keys, None
  <2> QED
    BY <2>1 DEF PatientInv, OneKeyBehind
<1> QED
  BY <1>1, PatientInvariant, PTL
=============================================================================
