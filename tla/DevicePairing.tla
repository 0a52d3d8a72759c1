--------------------------- MODULE DevicePairing ----------------------------
(***************************************************************************)
(* Provisioning a device key over USB: the firmware's KeyStore             *)
(* (device_key.rs) behind the console reader (console.rs), and the         *)
(* desktop's DeviceKeys (device_keys.rs) behind AuthLink.  Both sides keep *)
(* a copy in memory and one in storage, storage may fail, and either side  *)
(* may restart at any moment.                                              *)
(*                                                                         *)
(* Keys are numbers: every random key is a new one.                        *)
(***************************************************************************)
EXTENDS Naturals, Sequences

CONSTANTS
  MaxKeys,       \* bound: random keys the device draws
  MaxRequests,   \* bound: pairing requests of the desktop
  MaxRestarts,   \* bound: restarts of either side
  MaxReadFaults, \* bound: NVS reads that fail although the key is stored
  MaxWriteFaults,\* bound: NVS or file writes that fail
  MaxLost        \* bound: lines lost on the console

ASSUME PairingAssumption ==
  {MaxKeys, MaxRequests, MaxRestarts, MaxReadFaults, MaxWriteFaults, MaxLost} \subseteq Nat

VARIABLES
  stored,      \* the NVS blob "device_key"
  current,     \* KeyStore.current
  console,     \* "Idle", or "Publish" between the NVS change and `current`
  requests,    \* console lines for the device
  replies,     \* Auth messages for the desktop
  known,       \* DeviceKeys.file, the desktop's memory, for this device
  file,        \* device-keys.json, for this device
  report,      \* the latest pairing result the WebView got
  drawn, asked, restarts, readFaults, writeFaults, lost \* what the bounds count

deviceVars == <<stored, current, console>>
desktopVars == <<known, file, report>>
faultVars == <<readFaults, writeFaults>>
vars == <<deviceVars, requests, replies, desktopVars, drawn, asked, restarts, faultVars, lost>>

Keys == 1..MaxKeys
NoKey == 0
Garbled == MaxKeys + 1   \* a blob of the wrong length

KeyReply(k) == [kind |-> "Key", key |-> k]
Cleared == [kind |-> "KeyCleared", key |-> NoKey]
Failure == [kind |-> "Result", key |-> NoKey]

Init ==
  /\ stored \in {NoKey, Garbled}
  /\ IF stored = Garbled THEN current = 1 /\ drawn = 1 ELSE current = NoKey /\ drawn = 0
  /\ console = "Idle" /\ requests = <<>> /\ replies = <<>>
  /\ known = NoKey /\ file = NoKey /\ report = "None"
  /\ asked = 0 /\ restarts = 0 /\ readFaults = 0 /\ writeFaults = 0 /\ lost = 0

-----------------------------------------------------------------------------
(* The device. *)

\* get_blob yields the key, or it does not although something may be stored.
ReadsKey == stored \in Keys /\ UNCHANGED readFaults
ReadFails ==
  \/ stored = Garbled /\ UNCHANGED readFaults
  \/ stored # NoKey /\ readFaults < MaxReadFaults /\ readFaults' = readFaults + 1

Draw == drawn < MaxKeys /\ drawn' = drawn + 1

\* Mutant: a key that cannot be read counts as no key.
OpenLenient ==
  \/ stored = NoKey /\ current' = NoKey /\ UNCHANGED <<drawn, readFaults>>
  \/ ReadsKey /\ current' = stored /\ UNCHANGED drawn
  \/ ReadFails /\ current' = NoKey /\ UNCHANGED drawn

\* KeyStore::open fails closed: a random key when the stored one is unreadable.
Open ==
  \/ stored = NoKey /\ current' = NoKey /\ UNCHANGED <<drawn, readFaults>>
  \/ ReadsKey /\ current' = stored /\ UNCHANGED drawn
  \/ ReadFails /\ Draw /\ current' = drawn + 1

\* A restart in the middle of provision or clear included; the console lines in
\* flight are gone.
BootDevice ==
  /\ restarts < MaxRestarts /\ restarts' = restarts + 1
  /\ Open
  /\ console' = "Idle" /\ requests' = <<>> /\ replies' = <<>>
  /\ UNCHANGED <<stored, desktopVars, asked, writeFaults, lost>>

Asked(kind) ==
  /\ console = "Idle" /\ requests # <<>> /\ Head(requests) = kind
  /\ requests' = Tail(requests)

\* provision: a readable key is returned as it is.
ProvisionStored ==
  /\ Asked("ProvisionKey")
  /\ ReadsKey
  /\ replies' = Append(replies, KeyReply(stored))
  /\ UNCHANGED <<deviceVars, desktopVars, drawn, asked, restarts, writeFaults, lost>>

\* Mutant: a failed write to NVS goes unnoticed.
FailedWriteReply == KeyReply(drawn + 1)

\* The answer when NVS cannot be written.
WriteReply == Failure

\* provision without a readable key: a new key goes to NVS first.
ProvisionNew ==
  /\ Asked("ProvisionKey")
  /\ \/ stored = NoKey /\ UNCHANGED readFaults
     \/ ReadFails
  /\ Draw
  /\ \/ /\ stored' = drawn + 1 /\ console' = "Publish"
        /\ UNCHANGED <<replies, writeFaults>>
     \/ /\ writeFaults < MaxWriteFaults /\ writeFaults' = writeFaults + 1
        /\ replies' = Append(replies, WriteReply)
        /\ UNCHANGED <<stored, console>>
  /\ UNCHANGED <<current, desktopVars, asked, restarts, lost>>

ClearKey ==
  /\ Asked("ClearKey")
  /\ \/ /\ stored' = NoKey /\ console' = "Publish"
        /\ UNCHANGED <<replies, writeFaults>>
     \/ /\ writeFaults < MaxWriteFaults /\ writeFaults' = writeFaults + 1
        /\ replies' = Append(replies, Failure)
        /\ UNCHANGED <<stored, console>>
  /\ UNCHANGED <<current, desktopVars, drawn, asked, restarts, readFaults, lost>>

\* The second half of provision and clear: `current` follows NVS, then the answer.
Publish ==
  /\ console = "Publish"
  /\ current' = stored
  /\ console' = "Idle"
  /\ replies' = Append(replies, IF stored = NoKey THEN Cleared ELSE KeyReply(stored))
  /\ UNCHANGED <<stored, requests, desktopVars, drawn, asked, restarts, faultVars, lost>>

-----------------------------------------------------------------------------
(* The desktop. *)

\* provision_device_key and clear_device_key write one line to the USB console.
Ask(kind) ==
  /\ asked < MaxRequests /\ asked' = asked + 1
  /\ requests' = Append(requests, kind)
  /\ UNCHANGED <<deviceVars, replies, desktopVars, drawn, restarts, faultVars, lost>>

\* Mutant: the result is reported whether or not the file was written.
SaveUnchecked(key, ok) ==
  \/ file' = key /\ report' = ok /\ UNCHANGED writeFaults
  \/ /\ writeFaults < MaxWriteFaults /\ writeFaults' = writeFaults + 1
     /\ report' = ok /\ UNCHANGED file

\* DeviceKeys::save and what is reported: the file is replaced whole or not at all.
Save(key, ok) ==
  \/ file' = key /\ report' = ok /\ UNCHANGED writeFaults
  \/ /\ writeFaults < MaxWriteFaults /\ writeFaults' = writeFaults + 1
     /\ report' = "PairingFailed" /\ UNCHANGED file

\* DeviceKeys::remove saves only what it knew.
Remove(ok) ==
  /\ known' = NoKey
  /\ IF known # NoKey THEN Save(NoKey, ok) ELSE report' = ok /\ UNCHANGED <<file, writeFaults>>

OnReply ==
  /\ replies # <<>>
  /\ replies' = Tail(replies)
  /\ LET m == Head(replies)
     IN \/ m.kind = "Key" /\ known' = m.key /\ Save(m.key, "Paired")
        \/ m.kind = "KeyCleared" /\ Remove("KeyCleared")
        \/ /\ m.kind = "Result" /\ report' = "PairingFailed"
           /\ UNCHANGED <<known, file, writeFaults>>
  /\ UNCHANGED <<deviceVars, requests, drawn, asked, restarts, readFaults, lost>>

\* forget_device_key, which the WebView calls.
Forget ==
  /\ asked < MaxRequests /\ asked' = asked + 1
  /\ Remove("Forgotten")
  /\ UNCHANGED <<deviceVars, requests, replies, drawn, restarts, readFaults, lost>>

\* A desktop restart loads the file; an unreadable file counts as empty.
RestartDesktop ==
  /\ restarts < MaxRestarts /\ restarts' = restarts + 1
  /\ \/ known' = file /\ UNCHANGED readFaults
     \/ known' = NoKey /\ readFaults < MaxReadFaults /\ readFaults' = readFaults + 1
  /\ report' = "None" /\ replies' = <<>>
  /\ UNCHANGED <<deviceVars, requests, file, drawn, asked, writeFaults, lost>>

\* A console line is garbled or discarded on its way.
LoseLine ==
  /\ lost < MaxLost /\ lost' = lost + 1
  /\ \/ requests # <<>> /\ requests' = Tail(requests) /\ UNCHANGED replies
     \/ replies # <<>> /\ replies' = Tail(replies) /\ UNCHANGED requests
  /\ UNCHANGED <<deviceVars, desktopVars, drawn, asked, restarts, faultVars>>

Device == BootDevice \/ ProvisionStored \/ ProvisionNew \/ ClearKey \/ Publish
Desktop == (\E kind \in {"ProvisionKey", "ClearKey"} : Ask(kind)) \/ OnReply \/ Forget \/ RestartDesktop
Next == Device \/ Desktop \/ LoseLine

Spec == Init /\ [][Next]_vars

-----------------------------------------------------------------------------
(* Properties. *)

\* Every variable holds a key, a message or a counter where its type wants one.
TypeOK ==
  /\ stored \in 0..Garbled /\ current \in 0..MaxKeys /\ console \in {"Idle", "Publish"}
  /\ requests \in Seq({"ProvisionKey", "ClearKey"})
  /\ replies \in Seq([kind : {"Key", "KeyCleared", "Result"}, key : 0..MaxKeys])
  /\ known \in 0..MaxKeys /\ file \in 0..MaxKeys
  /\ report \in {"None", "Paired", "KeyCleared", "Forgotten", "PairingFailed"}
  /\ drawn \in 0..MaxKeys
  /\ {asked, restarts, readFaults, writeFaults, lost} \subseteq Nat

\* A device whose NVS holds anything never takes plain radio commands, readable or
\* not, and the key it makes up for an unreadable one is known to no desktop
\* (device_key.rs:6-8).
FailsClosed ==
  console = "Idle" =>
    /\ (stored = NoKey) = (current = NoKey)
    /\ stored = Garbled => current \notin {known, file}

\* A key that the device hands out is the one it has stored: a restart right after
\* the answer cannot leave the desktop with a key nobody has (device_key.rs:126-131).
HandedOutKeyIsStored ==
  [][(Len(replies') > Len(replies) /\ replies'[Len(replies')].kind = "Key")
       => replies'[Len(replies')].key = stored']_vars

\* A pairing that was reported survives a restart of the desktop
\* (device_keys.rs:63-71, 82-94).
PairedIsDurable == report = "Paired" => known # NoKey /\ file = known
=============================================================================
