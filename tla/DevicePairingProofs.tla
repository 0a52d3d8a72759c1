------------------------- MODULE DevicePairingProofs -------------------------
(***************************************************************************)
(* Proofs about DevicePairing, for any number of keys, requests, restarts, *)
(* storage faults and lost lines.                                          *)
(***************************************************************************)
EXTENDS DevicePairing, TLAPS

Refusals == [kind : {"KeyCleared", "Result"}, key : Nat]
Answers == Refusals \cup [kind : {"Key"}, key : Keys]

PairingTypes ==
  /\ stored \in 0..Garbled /\ drawn \in Nat
  /\ replies \in Seq(Answers)

\* What the device found unreadable at its first boot stays until it is overwritten; up
\* to then it has handed out nothing.
NothingHandedOut ==
  stored = Garbled =>
    /\ console = "Idle" /\ known = NoKey /\ file = NoKey
    /\ replies \in Seq(Refusals)

\* The key in use is there when something is stored, but for the moment between the
\* change of NVS and that of `current`.
KeyInUse == console = "Idle" => ((stored = NoKey) <=> (current = NoKey))

PairingInv == PairingTypes /\ NothingHandedOut /\ KeyInUse /\ PairedIsDurable

-----------------------------------------------------------------------------
LEMMA KeyKinds ==
  /\ MaxKeys \in Nat /\ Garbled \in Nat /\ Garbled \notin Keys /\ Garbled # NoKey /\ NoKey \notin Keys
  /\ NoKey = 0 /\ Keys \subseteq 0..Garbled
  /\ Cleared \in Refusals /\ Failure \in Refusals
  /\ \A k \in Keys : KeyReply(k) \in Answers
BY PairingAssumption DEF Garbled, Keys, NoKey, Cleared, Failure, KeyReply, Refusals, Answers

LEMMA DrawnIsKey == ASSUME drawn \in Nat, Draw PROVE drawn + 1 \in Keys /\ drawn' \in Nat
BY PairingAssumption DEF Draw, Keys

LEMMA PairingInitial == Init => PairingInv
<1> SUFFICES ASSUME Init PROVE PairingInv
  OBVIOUS
<1>1. stored \in {NoKey, Garbled} /\ drawn \in Nat /\ replies = <<>>
  BY DEF Init
<1>2. replies \in Seq(Answers) /\ replies \in Seq(Refusals)
  BY <1>1
<1>3. PairingTypes /\ NothingHandedOut
  BY <1>1, <1>2, KeyKinds DEF PairingTypes, NothingHandedOut, Init
<1>4. KeyInUse /\ PairedIsDurable
  BY KeyKinds DEF KeyInUse, PairedIsDurable, Init
<1> QED
  BY <1>3, <1>4 DEF PairingInv

-----------------------------------------------------------------------------
(* The device's steps. *)

LEMMA DeviceKept ==
  ASSUME PairingInv, Device
  PROVE  PairingInv'
<1> USE KeyKinds DEF deviceVars, desktopVars, faultVars
<1>0. stored \in 0..Garbled /\ drawn \in Nat /\ replies \in Seq(Answers)
  BY DEF PairingInv, PairingTypes
<1>1. CASE BootDevice
  <2>1. <<>> \in Seq(Answers) /\ <<>> \in Seq(Refusals)
    OBVIOUS
  <2>2. drawn' \in Nat /\ ((stored = NoKey) <=> (current' = NoKey))
    BY <1>0, <1>1, DrawnIsKey DEF BootDevice, Open, ReadsKey, ReadFails
  <2> QED
    BY <1>0, <1>1, <2>1, <2>2
    DEF BootDevice, PairingInv, PairingTypes, NothingHandedOut, KeyInUse, PairedIsDurable
<1>2. CASE ProvisionStored
  <2>1. stored \in Keys /\ console = "Idle" /\ UNCHANGED <<stored, current, console, known, file, report, drawn>>
        /\ replies' = Append(replies, KeyReply(stored))
    BY <1>2 DEF ProvisionStored, Asked, ReadsKey
  <2>2. replies' \in Seq(Answers)
    BY <1>0, <2>1
  <2> QED
    BY <1>0, <2>1, <2>2
    DEF PairingInv, PairingTypes, NothingHandedOut, KeyInUse, PairedIsDurable
<1>3. CASE ProvisionNew
  <2>1. console = "Idle" /\ drawn + 1 \in Keys /\ drawn' \in Nat
        /\ UNCHANGED <<current, known, file, report>>
    BY <1>0, <1>3, DrawnIsKey DEF ProvisionNew, Asked
  <2>2. CASE stored' = drawn + 1 /\ console' = "Publish" /\ replies' = replies
    BY <1>0, <2>1, <2>2
    DEF PairingInv, PairingTypes, NothingHandedOut, KeyInUse, PairedIsDurable
  <2>3. CASE UNCHANGED <<stored, console>> /\ replies' = Append(replies, Failure)
    <3>1. replies' \in Seq(Answers) /\ (replies \in Seq(Refusals) => replies' \in Seq(Refusals))
      BY <1>0, <2>3 DEF Answers
    <3> QED
      BY <1>0, <2>1, <2>3, <3>1
      DEF PairingInv, PairingTypes, NothingHandedOut, KeyInUse, PairedIsDurable
  <2> QED
    BY <1>3, <2>2, <2>3 DEF ProvisionNew, WriteReply
<1>4. CASE ClearKey
  <2>1. console = "Idle" /\ UNCHANGED <<current, known, file, report, drawn>>
    BY <1>4 DEF ClearKey, Asked
  <2>2. CASE stored' = NoKey /\ console' = "Publish" /\ replies' = replies
    BY <1>0, <2>1, <2>2
    DEF PairingInv, PairingTypes, NothingHandedOut, KeyInUse, PairedIsDurable
  <2>3. CASE UNCHANGED <<stored, console>> /\ replies' = Append(replies, Failure)
    <3>1. replies' \in Seq(Answers) /\ (replies \in Seq(Refusals) => replies' \in Seq(Refusals))
      BY <1>0, <2>3 DEF Answers
    <3> QED
      BY <1>0, <2>1, <2>3, <3>1
      DEF PairingInv, PairingTypes, NothingHandedOut, KeyInUse, PairedIsDurable
  <2> QED
    BY <1>4, <2>2, <2>3 DEF ClearKey
<1>5. CASE Publish
  <2>1. stored # Garbled /\ (stored # NoKey => stored \in Keys)
    BY <1>0, <1>5 DEF Publish, PairingInv, NothingHandedOut, Keys, Garbled
  <2>2. replies' \in Seq(Answers)
    BY <1>0, <1>5, <2>1 DEF Publish, Answers
  <2> QED
    BY <1>0, <1>5, <2>1, <2>2
    DEF Publish, PairingInv, PairingTypes, NothingHandedOut, KeyInUse, PairedIsDurable
<1> QED
  BY <1>1, <1>2, <1>3, <1>4, <1>5 DEF Device

-----------------------------------------------------------------------------
(* The desktop's steps and lost lines. *)

LEMMA OneAnswerLess ==
  ASSUME PairingTypes, replies # <<>>
  PROVE  /\ Head(replies) \in Answers /\ Tail(replies) \in Seq(Answers)
         /\ replies \in Seq(Refusals) => Head(replies) \in Refusals /\ Tail(replies) \in Seq(Refusals)
BY DEF PairingTypes

LEMMA DesktopKept ==
  ASSUME PairingInv, Desktop \/ LoseLine
  PROVE  PairingInv'
<1> USE KeyKinds DEF deviceVars, desktopVars, faultVars
<1>0. stored \in 0..Garbled /\ drawn \in Nat /\ replies \in Seq(Answers)
  BY DEF PairingInv, PairingTypes
<1>1. ASSUME NEW kind \in {"ProvisionKey", "ClearKey"}, Ask(kind)
      PROVE  PairingInv'
  BY <1>1 DEF Ask, PairingInv, PairingTypes, NothingHandedOut, KeyInUse, PairedIsDurable
<1>2. CASE OnReply
  <2> DEFINE m == Head(replies)
  <2>1. replies # <<>> /\ replies' = Tail(replies) /\ UNCHANGED <<stored, current, console, drawn>>
    BY <1>2 DEF OnReply
  <2>2. /\ m \in Answers /\ replies' \in Seq(Answers)
        /\ replies \in Seq(Refusals) => m \in Refusals /\ replies' \in Seq(Refusals)
    BY <2>1, OneAnswerLess DEF PairingInv
  <2>3. PairingTypes' /\ KeyInUse'
    BY <2>1, <2>2 DEF PairingInv, PairingTypes, KeyInUse
  <2>4. CASE m.kind = "Key" /\ known' = m.key /\ Save(m.key, "Paired")
    <3>1. m.key \in Keys /\ m \notin Refusals
      BY <2>2, <2>4 DEF Answers, Refusals
    <3>2. stored # Garbled
      BY <2>2, <3>1 DEF PairingInv, NothingHandedOut
    <3> QED
      BY <2>1, <2>3, <2>4, <3>1, <3>2 DEF PairingInv, NothingHandedOut, PairedIsDurable, Save
  <2>5. CASE Remove("KeyCleared")
    BY <2>1, <2>2, <2>3, <2>5 DEF PairingInv, NothingHandedOut, PairedIsDurable, Remove, Save
  <2>6. CASE report' = "PairingFailed" /\ UNCHANGED <<known, file>>
    BY <2>1, <2>2, <2>3, <2>6 DEF PairingInv, NothingHandedOut, PairedIsDurable
  <2> QED
    BY <1>2, <2>4, <2>5, <2>6 DEF OnReply
<1>3. CASE Forget
  BY <1>0, <1>3
  DEF Forget, Remove, Save, PairingInv, PairingTypes, NothingHandedOut, KeyInUse, PairedIsDurable
<1>4. CASE RestartDesktop
  <2>1. <<>> \in Seq(Answers) /\ <<>> \in Seq(Refusals)
    OBVIOUS
  <2> QED
    BY <1>0, <1>4, <2>1
    DEF RestartDesktop, PairingInv, PairingTypes, NothingHandedOut, KeyInUse, PairedIsDurable
<1>5. CASE LoseLine
  <2>1. \/ replies' = replies
        \/ replies # <<>> /\ replies' = Tail(replies)
    BY <1>5 DEF LoseLine
  <2>2. replies' \in Seq(Answers) /\ (replies \in Seq(Refusals) => replies' \in Seq(Refusals))
    BY <1>0, <2>1, OneAnswerLess DEF PairingInv
  <2> QED
    BY <1>5, <2>2
    DEF LoseLine, PairingInv, PairingTypes, NothingHandedOut, KeyInUse, PairedIsDurable
<1> QED
  BY <1>1, <1>2, <1>3, <1>4, <1>5 DEF Desktop

LEMMA PairingKept == PairingInv /\ [Next]_vars => PairingInv'
<1> SUFFICES ASSUME PairingInv, [Next]_vars PROVE PairingInv'
  OBVIOUS
<1>1. CASE UNCHANGED vars
  BY <1>1
  DEF vars, deviceVars, desktopVars, PairingInv, PairingTypes, NothingHandedOut, KeyInUse, PairedIsDurable
<1> QED
  BY <1>1, DeviceKept, DesktopKept DEF Next

LEMMA PairingInvariant == Spec => []PairingInv
  BY PairingInitial, PairingKept, PTL DEF Spec

-----------------------------------------------------------------------------
\* A device whose NVS holds anything, readable or not, never takes plain radio commands,
\* and the key it makes up for an unreadable one is known to no desktop
\* (device_key.rs:6-8).
THEOREM PairingFailsClosed == Spec => []FailsClosed
<1>1. PairingInv => FailsClosed
  <2> SUFFICES ASSUME PairingInv, console = "Idle" PROVE FailsClosed
    BY DEF FailsClosed
  <2>1. (stored = NoKey) <=> (current = NoKey)
    BY DEF PairingInv, KeyInUse
  <2>2. (stored = NoKey) = (current = NoKey)
    BY <2>1, Zenon
  <2>3. stored = Garbled => current \notin {known, file}
    BY <2>1, KeyKinds DEF PairingInv, NothingHandedOut
  <2> QED
    BY <2>2, <2>3 DEF FailsClosed
<1> QED
  BY <1>1, PairingInvariant, PTL

\* A pairing that was reported survives a restart of the desktop (device_keys.rs:63-71,
\* 82-94).
THEOREM PairingIsDurable == Spec => []PairedIsDurable
<1>1. PairingInv => PairedIsDurable
  BY DEF PairingInv
<1> QED
  BY <1>1, PairingInvariant, PTL

\* A key that the device hands out is the one it has stored, whatever failed or was
\* restarted before (device_key.rs:126-131).
THEOREM PairingHandsOutStored == Spec => HandedOutKeyIsStored
<1> DEFINE Given == (Len(replies') > Len(replies) /\ replies'[Len(replies')].kind = "Key")
                      => replies'[Len(replies')].key = stored'
<1>1. PairingInv /\ [Next]_vars => [Given]_vars
  <2> SUFFICES ASSUME PairingInv, Next PROVE Given
    OBVIOUS
  <2> USE DEF deviceVars, desktopVars
  <2>0. replies \in Seq(Answers)
    BY DEF PairingInv, PairingTypes
  <2>1. ASSUME NEW m, replies' = Append(replies, m), m.kind = "Key" => m.key = stored'
        PROVE  Given
    BY <2>0, <2>1
  <2>2. ASSUME replies' = replies \/ replies' = <<>> \/ (replies # <<>> /\ replies' = Tail(replies))
        PROVE  Given
    BY <2>0, <2>2
  <2>3. Failure.kind # "Key" /\ Cleared.kind # "Key" /\ KeyReply(stored).key = stored
    BY DEF Failure, Cleared, KeyReply
  <2> HIDE DEF Given
  <2>4. CASE Device
    BY <2>1, <2>2, <2>3, <2>4
    DEF Device, BootDevice, ProvisionStored, ProvisionNew, ClearKey, Publish, WriteReply
  <2>5. CASE Desktop \/ LoseLine
    BY <2>2, <2>5 DEF Desktop, Ask, OnReply, Forget, RestartDesktop, LoseLine
  <2> QED
    BY <2>4, <2>5 DEF Next
<1> QED
  BY <1>1, PairingInvariant, PTL DEF Spec, HandedOutKeyIsStored
=============================================================================
