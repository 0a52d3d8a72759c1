---------------------------- MODULE PairingWindow ---------------------------
(***************************************************************************)
(* The time in which new Bluetooth devices may pair (pairing_window.rs) as *)
(* the worker keeps it (bluetooth.rs).  The window itself is the worker's; *)
(* the GAP callback, which answers pairing requests on a thread of the     *)
(* stack, sees only the flag `pairingOpen`.  One unit of time is the       *)
(* worker's recv_timeout.                                                  *)
(***************************************************************************)
EXTENDS Integers

CONSTANTS
  WindowLength, \* PAIRING_WINDOW, in units
  MaxTime       \* bound: time

ASSUME WindowAssumption == WindowLength \in Nat \ {0} /\ MaxTime \in Nat

VARIABLES
  clock,
  window, openedAt, \* WindowState
  pairingOpen,      \* the flag the callback reads
  discoverable,     \* the scan mode
  spp,              \* "Off", "Reported" (Work::Started is queued), "Started"
  place,            \* the worker: at the "Head" of its loop, in "Recv", "Blocked" at the main loop's queue
  iterated,         \* when it was at the head last
  stalled,          \* history: it has been blocked since
  accepted          \* history: pairings accepted, [at, stalled]

windowVars == <<clock, window, openedAt, pairingOpen, discoverable, spp, place, iterated,
                stalled, accepted>>

WindowInit ==
  /\ clock = 0 /\ window = "NotStarted" /\ openedAt = 0 /\ pairingOpen = FALSE
  /\ discoverable = FALSE /\ spp = "Off" /\ place = "Head" /\ iterated = 0
  /\ stalled = FALSE /\ accepted = {}

\* A worker in recv_timeout is back within a unit; one that is blocked need not be.
TimePasses ==
  /\ clock < MaxTime
  /\ place = "Blocked" \/ (place = "Recv" /\ clock = iterated)
  /\ clock' = clock + 1
  /\ UNCHANGED <<window, openedAt, pairingOpen, discoverable, spp, place, iterated, stalled, accepted>>

\* The SPP callback reports the start of the service; it may meet a full queue.
ServiceStarts ==
  /\ spp = "Off" /\ spp' \in {"Reported", "Started"}
  /\ UNCHANGED <<clock, window, openedAt, pairingOpen, discoverable, place, iterated, stalled, accepted>>

\* Mutant: the flag of the callback is left alone.
LeaveOpen == window' = "Closed" /\ UNCHANGED pairingOpen

CloseWindow == window' = "Closed" /\ pairingOpen' = FALSE

Expired == window = "Open" /\ clock - openedAt >= WindowLength

\* The head of the loop: poll_expired.  set_scan_mode may fail.
LoopHead ==
  /\ place = "Head" /\ place' = "Recv" /\ iterated' = clock /\ stalled' = FALSE
  /\ IF Expired
       THEN CloseWindow /\ discoverable' \in {FALSE, discoverable}
       ELSE UNCHANGED <<window, pairingOpen, discoverable>>
  /\ UNCHANGED <<clock, openedAt, spp, accepted>>

\* Work::Started.  Where advertising fails the window stays shut until the next boot.
OnStarted ==
  /\ place = "Recv" /\ spp = "Reported"
  /\ spp' = "Started" /\ place' = "Head"
  /\ \/ UNCHANGED <<window, openedAt, pairingOpen, discoverable>>
     \/ /\ window = "NotStarted" /\ window' = "Open" /\ openedAt' = clock
        /\ pairingOpen' = TRUE /\ discoverable' = TRUE
  /\ UNCHANGED <<clock, iterated, stalled, accepted>>

\* Other work or a timeout, or a command that meets a full incoming queue.
OtherWork ==
  /\ \/ place = "Recv" /\ place' = "Head" /\ UNCHANGED stalled
     \/ place = "Recv" /\ place' = "Blocked" /\ stalled' = TRUE
     \/ place = "Blocked" /\ place' = "Head" /\ UNCHANGED stalled
  /\ UNCHANGED <<clock, window, openedAt, pairingOpen, discoverable, spp, iterated, accepted>>

\* PairingUserConfirmationRequest, at any moment; it answers what the flag says.
PairingRequest ==
  /\ pairingOpen /\ accepted' = accepted \cup {[at |-> clock, stalled |-> stalled]}
  /\ UNCHANGED <<clock, window, openedAt, pairingOpen, discoverable, spp, place, iterated, stalled>>

WindowNext ==
  \/ TimePasses \/ ServiceStarts \/ LoopHead \/ OnStarted \/ OtherWork \/ PairingRequest

WindowSpec == WindowInit /\ [][WindowNext]_windowVars

-----------------------------------------------------------------------------
(* Properties. *)

\* Every variable holds a value of its type.
WindowTypeOK ==
  /\ clock \in 0..MaxTime /\ openedAt \in 0..MaxTime /\ iterated \in 0..MaxTime
  /\ window \in {"NotStarted", "Open", "Closed"} /\ spp \in {"Off", "Reported", "Started"}
  /\ place \in {"Head", "Recv", "Blocked"} /\ pairingOpen \in BOOLEAN
  /\ discoverable \in BOOLEAN /\ stalled \in BOOLEAN
  /\ accepted \subseteq [at : 0..MaxTime, stalled : BOOLEAN]

\* New devices pair only from the start of the window to its end, late by less than one
\* round of the worker, unless the worker was blocked at the main loop's queue when the
\* window ended (pairing_window.rs:3-6, bluetooth.rs:277-287).
PairingKeepsToWindow ==
  \A a \in accepted :
    /\ openedAt <= a.at
    /\ a.stalled \/ a.at < openedAt + WindowLength + 1
=============================================================================
