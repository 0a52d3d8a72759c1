----------------------------- MODULE LidarView ------------------------------
(***************************************************************************)
(* What the desktop shows of a scan: the LiDAR module's reports            *)
(* (lidar.rs), the lossy way to the WebView, the module registry           *)
(* (registry.ts) and the store that puts the chunks together               *)
(* (Modules/lidar/store.ts) until it is thrown away with the registry.     *)
(* Events carry no scan number in the code; the one they have here is      *)
(* history and no action of the store reads it.                            *)
(***************************************************************************)
EXTENDS Integers, Sequences, SequencesExt

CONSTANTS
  MaxScans,     \* bound: scans
  MaxChunks,    \* bound: chunks of a scan
  MaxReports,   \* bound: rediscoveries, stops of a module at rest
  WireCapacity  \* bound: messages under way

ASSUME ViewAssumption == {MaxScans, MaxChunks, MaxReports, WireCapacity} \subseteq Nat

VARIABLES
  scanState, scanNo, flushed,  \* the module: ScanState, scans so far, chunks of this one
  online, wire,                \* the way to the WebView and what is under way
  known,                       \* the registry has a store for the module
  shownState, shownChunks,     \* the store: ScanState, and chunk -> the scan it is from
  missed,                      \* history: what never reached a store
  heard, forgotten,            \* history: the last scan a store has heard of, and the last it
                               \* had heard of when it was thrown away
  replacing,                   \* history: scans started while another ran
  reports                      \* rediscoveries and idle stops so far

viewVars == <<scanState, scanNo, flushed, online, wire, known, shownState, shownChunks,
              missed, heard, forgotten, replacing, reports>>

StateEvent(v, scan) == [kind |-> "ScanState", is |-> v, scan |-> scan]
ChunkEvent(n, scan) == [kind |-> "PointMap", is |-> n, scan |-> scan]
Registered == [kind |-> "Registration"]
Events(ms) == {m \in ToSet(ms) : m # Registered}

ViewInit ==
  /\ scanState = "Idol" /\ scanNo = 0 /\ flushed = 0
  /\ online = TRUE /\ wire = <<Registered>>
  /\ known = FALSE /\ shownState = "Idol" /\ shownChunks = <<>>
  /\ missed = {} /\ heard = 0 /\ forgotten = 0 /\ replacing = {} /\ reports = 0

-----------------------------------------------------------------------------
(* The module's reports.  Events are telemetry: any of them may meet a full  *)
(* queue, and without a link all of them are dropped.                        *)

\* What comes through of one or two messages.
Passed(ms) == {<<>>, ms} \cup {<<ms[i]>> : i \in DOMAIN ms}

Report(ms) ==
  \E on \in Passed(ms) :
    /\ ~online => on = <<>>
    /\ wire' = wire \o on /\ Len(wire') <= WireCapacity
    /\ missed' = missed \cup (ToSet(ms) \ ToSet(on))

ViewStart ==
  /\ scanNo < MaxScans
  /\ scanState' = "Scanning" /\ scanNo' = scanNo + 1 /\ flushed' = 0
  /\ Report(<<StateEvent("Scanning", scanNo + 1)>>)
  /\ replacing' = IF scanState = "Scanning" THEN replacing \cup {scanNo + 1} ELSE replacing
  /\ UNCHANGED <<online, known, shownState, shownChunks, heard, forgotten, reports>>

ViewFlush ==
  /\ scanState = "Scanning" /\ flushed < MaxChunks
  /\ flushed' = flushed + 1 /\ Report(<<ChunkEvent(flushed + 1, scanNo)>>)
  /\ UNCHANGED <<scanState, scanNo, online, known, shownState, shownChunks, heard, forgotten, replacing, reports>>

\* end_scan: the points still buffered, then the state.
ViewEnd ==
  /\ scanState = "Scanning"
  /\ \E v \in {"Idol", "StopScan"}, last \in BOOLEAN :
       /\ last => flushed < MaxChunks
       /\ scanState' = v /\ flushed' = IF last THEN flushed + 1 ELSE flushed
       /\ Report(IF last THEN <<ChunkEvent(flushed', scanNo), StateEvent(v, scanNo)>>
                 ELSE <<StateEvent(v, scanNo)>>)
  /\ UNCHANGED <<scanNo, online, known, shownState, shownChunks, heard, forgotten, replacing, reports>>

Again == reports < MaxReports /\ reports' = reports + 1

\* StopScan without a scan.
ViewStopIdle ==
  /\ Again /\ scanState # "Scanning"
  /\ scanState' = "StopScan" /\ Report(<<StateEvent("StopScan", scanNo)>>)
  /\ UNCHANGED <<scanNo, flushed, online, known, shownState, shownChunks, heard, forgotten, replacing>>

\* Rediscovery: registration, which is never dropped, and first_emit.
ViewRediscover ==
  /\ Again /\ online /\ Len(wire) + 2 <= WireCapacity
  /\ \E lost \in BOOLEAN :
       wire' = wire \o (IF lost THEN <<Registered>> ELSE <<Registered, StateEvent(scanState, scanNo)>>)
  /\ UNCHANGED <<scanState, scanNo, flushed, online, known, shownState, shownChunks, missed, heard, forgotten, replacing>>

\* The link breaks, and is made again: the cache replays the registration.
LinkBreaks ==
  /\ online /\ online' = FALSE /\ wire' = <<>> /\ missed' = missed \cup Events(wire)
  /\ UNCHANGED <<scanState, scanNo, flushed, known, shownState, shownChunks, heard, forgotten, replacing, reports>>

LinkReturns ==
  /\ ~online /\ online' = TRUE /\ wire' = <<Registered>>
  /\ UNCHANGED <<scanState, scanNo, flushed, known, shownState, shownChunks, missed, heard, forgotten, replacing, reports>>

-----------------------------------------------------------------------------
(* The WebView. *)

RegistrationEvent ==
  /\ Head(wire) = Registered
  /\ known' = TRUE /\ UNCHANGED <<shownState, shownChunks, missed, heard>>

UnknownModule ==
  /\ Head(wire) # Registered /\ ~known
  /\ missed' = missed \cup {Head(wire)} /\ UNCHANGED <<known, shownState, shownChunks, heard>>

\* Mutant: a replayed "Scanning" is taken for a new scan.
AlwaysStarting(v) == v = "Scanning"

Starting(v) == v = "Scanning" /\ shownState # "Scanning"

ScanStateEvent ==
  /\ known /\ Head(wire).kind = "ScanState"
  /\ shownState' = Head(wire).is
  /\ shownChunks' = IF Starting(Head(wire).is) THEN <<>> ELSE shownChunks
  /\ heard' = Head(wire).scan
  /\ UNCHANGED <<known, missed>>

\* Chunk 1 begins the map anew.
Kept(n) == IF n = 1 THEN <<>> ELSE shownChunks

PointMapEvent ==
  /\ known /\ Head(wire).kind = "PointMap"
  /\ LET n == Head(wire).is
         old == Kept(n)
     IN shownChunks' = [k \in DOMAIN old \cup {n} |-> IF k = n THEN Head(wire).scan ELSE old[k]]
  /\ heard' = Head(wire).scan
  /\ UNCHANGED <<known, shownState, missed>>

HandleEvent ==
  /\ wire # <<>> /\ wire' = Tail(wire)
  /\ RegistrationEvent \/ UnknownModule \/ ScanStateEvent \/ PointMapEvent
  /\ UNCHANGED <<scanState, scanNo, flushed, online, forgotten, replacing, reports>>

\* emptyDeviceState(): the registry is emptied, and the next registration makes a store
\* anew.  It comes with the event of a lost connection, which a Wi-Fi session that was
\* replaced may send late or never, and with every use of the button.
EmptyDeviceState ==
  /\ known' = FALSE /\ shownState' = "Idol" /\ shownChunks' = <<>>
  /\ forgotten' = heard
  /\ UNCHANGED <<scanState, scanNo, flushed, online, wire, missed, heard, replacing, reports>>

ViewNext ==
  \/ ViewStart \/ ViewFlush \/ ViewEnd \/ ViewStopIdle \/ ViewRediscover
  \/ LinkBreaks \/ LinkReturns \/ HandleEvent \/ EmptyDeviceState

ViewSpec == ViewInit /\ [][ViewNext]_viewVars

-----------------------------------------------------------------------------
(* Properties. *)

\* Every variable holds a value of its type.
ViewTypeOK ==
  /\ {scanState, shownState} \subseteq {"Idol", "Scanning", "StopScan"}
  /\ scanNo \in 0..MaxScans /\ flushed \in 0..MaxChunks /\ reports \in 0..MaxReports
  /\ {online, known} \subseteq BOOLEAN /\ {heard, forgotten} \subseteq 0..scanNo
  /\ DOMAIN shownChunks \subseteq 1..MaxChunks
  /\ \A k \in DOMAIN shownChunks : shownChunks[k] \in 1..scanNo

\* The beginning of scan t went unnoticed: its first chunk was missed, and so was its
\* start or the end of the scan before it, if that one ended at all.
Unnoticed(t) ==
  /\ ChunkEvent(1, t) \in missed
  /\ \/ StateEvent("Scanning", t) \in missed \/ t \in replacing
     \/ \E v \in {"Idol", "StopScan"} : StateEvent(v, t - 1) \in missed

\* Nothing of scan t was missed, or forgotten with a store that was thrown away.
AllHeard(t) == forgotten # t /\ \A m \in missed : m.scan # t

\* The map never shows points of two scans together, unless the beginning of the later
\* one went unnoticed; and once a scan has ended of which nothing was missed or forgotten,
\* however often its state was replayed and whenever the registry was emptied before it
\* was heard of, the map shows all its chunks and no others (Modules/lidar/store.ts:44-45,
\* 88-97, 107-112, transport.ts:157-184).
ViewFollowsScan ==
  /\ \A j, k \in DOMAIN shownChunks :
       shownChunks[j] < shownChunks[k] => Unnoticed(shownChunks[k])
  /\ scanState # "Scanning" /\ flushed > 0 /\ Events(wire) = {} /\ AllHeard(scanNo) =>
       shownChunks = [k \in 1..flushed |-> scanNo]
=============================================================================
