---------------------------- MODULE DesktopLink -----------------------------
(***************************************************************************)
(* The desktop's connection as its user sees it: the store's asynchronous  *)
(* actions (store/transport.ts), the Tauri commands they invoke            *)
(* (commands.rs), the COM port with its reader thread                      *)
(* (serial_transport.rs), the sessions of the Wi-Fi listener               *)
(* (wifi_transport.rs) and the events that come back.  The handshake is    *)
(* AuthSession's, what precedes and follows a session WifiListener's.      *)
(*                                                                         *)
(* Uses of the form's button and refreshes by a mounted form are           *)
(* processes: JavaScript gives way at every `await`, and a form that is    *)
(* mounted anew knows nothing of a use that still runs.  `at` and          *)
(* `refresh` say which await a process is in.  COM links, listeners and    *)
(* Wi-Fi sessions are numbered in the order they come.                     *)
(***************************************************************************)
EXTENDS Naturals, Sequences

CONSTANTS
  MaxLinks,   \* bound: COM links
  MaxClicks,  \* bound: uses of the button
  MaxMounts,  \* bound: times the form is mounted
  MaxSessions \* bound: Wi-Fi sessions

ASSUME DesktopAssumption == {MaxLinks, MaxClicks, MaxMounts, MaxSessions} \subseteq Nat

VARIABLES
  act, at, clicks,     \* what each use does, and where it is; the uses so far
  form,                \* the use the mounted form waits for (`busy`; 0: none)
  refresh, answer, mounts, \* RefreshWifiStatus of each mount: where it is, its answer
  portStat, mode,      \* store: PortStat, TransportMode
  heard, listening,    \* event listeners: registered; in UnlistenFnArr as well
  link, kind,          \* AppState.link (0: None), and the transport of each link
  reader,              \* the reader thread of each link: "None", "Reading", "Handling", "Ended"
  running,             \* AppState.reader_running
  appLock,             \* who holds the AppState mutex: "Free", "Action", "Send"
  linkLock,            \* who holds the ComLink mutex: "Free", "Reader"
  wifi, listeners,     \* the Wi-Fi listener that runs (0: none), and those so far
  session, host,       \* the thread of each Wi-Fi session: where it is, its listener
  slots,               \* sessions in their listener's `current`
  flag,                \* `connected` of the listener that runs
  events,              \* events on their way to the listeners registered when they were emitted
  races                \* history: what was overtaken and not yet put right

useVars == <<act, at, clicks, form>>
refreshVars == <<refresh, answer, mounts>>
storeVars == <<portStat, mode, heard, listening>>
linkVars == <<link, kind, reader, running>>
wifiVars == <<wifi, listeners, session, host, slots, flag>>
vars == <<useVars, refreshVars, storeVars, linkVars, appLock, linkLock, wifiVars, events, races>>

Uses == 0..MaxClicks \* use 0 stands for none
Mounts == 1..MaxMounts
Links == 1..MaxLinks
Sessions == 1..MaxSessions
ComPorts == {"Serial", "Bluetooth"}
Acts == ComPorts \cup {"Wi-Fi", "Stop"}

\* The listeners of a use and of a refresh, which add theirs at most once.
ByUse(u) == u
ByRefresh(r) == MaxClicks + r

NoStatus == [listening |-> FALSE, connected |-> FALSE]
CurrentStatus == [listening |-> wifi # 0, connected |-> flag]
Alive(r) == r # 0 /\ reader[r] \in {"Reading", "Handling"}

\* A device is connected: the listener that runs has a session.
Peer == \E s \in slots : host[s] = wifi

\* A fresh WebView.  After a reload the backend may still have a listener, with a
\* session or not, or an open COM port.
Init ==
  /\ act = [u \in Uses |-> "Stop"] /\ at = [u \in Uses |-> "Idle"] /\ clicks = 0 /\ form = 0
  /\ refresh = [r \in Mounts |-> "Idle"] /\ answer = [r \in Mounts |-> NoStatus] /\ mounts = 0
  /\ portStat = "Disconnected" /\ mode = "None" /\ heard = {} /\ listening = {}
  /\ appLock = "Free" /\ linkLock = "Free"
  /\ link \in 0..1 /\ link <= MaxLinks /\ running = (link # 0) /\ kind \in [Links -> ComPorts]
  /\ reader = [r \in Links |-> IF r = link THEN "Reading" ELSE "None"]
  /\ wifi \in 0..1 /\ (link # 0 => wifi = 0) /\ listeners = wifi
  /\ slots \in SUBSET (Sessions \cap {wifi}) /\ flag = (slots # {})
  /\ session = [s \in Sessions |-> IF s \in slots THEN "Read" ELSE "None"]
  /\ host = [s \in Sessions |-> IF s \in slots THEN 1 ELSE 0]
  /\ events = <<>> /\ races = {}

Emit(e) == events' = Append(events, [what |-> e, to |-> heard])
Goto(u, p) == at' = [at EXCEPT ![u] = p]

-----------------------------------------------------------------------------
(* The button: Connect, ConnectWifi, ConnectBluetooth, Disconnect.  All begin *)
(* with Disconnect; one form allows one at a time.                            *)

Overlapping == \E u \in Uses : at[u] # "Idle"

Click(a) ==
  /\ mounts # 0 /\ at[form] = "Idle" /\ clicks < MaxClicks
  /\ (a = "Stop") = (portStat \in {"Connected", "Listening"})
  /\ clicks' = clicks + 1 /\ form' = clicks + 1
  /\ act' = [act EXCEPT ![clicks + 1] = a] /\ Goto(clicks + 1, "StopPort")
  /\ races' = (races \ {"Overlap"}) \cup (IF Overlapping THEN {"Overlap"} ELSE {})
  /\ UNCHANGED <<refreshVars, storeVars, linkVars, appLock, linkLock, wifiVars, events>>

\* Mutant: the reader is left to find out by itself.
NoJoin == TRUE

\* The reader thread has ended.
Joined == \A r \in Links : ~Alive(r)

\* stop_port, and connect() before anything else: shutdown() under the AppState mutex.
Shutdown(u, from, to) ==
  /\ at[u] = from /\ appLock = "Free"
  /\ appLock' = "Action" /\ running' = FALSE /\ link' = 0
  /\ Goto(u, to)
  /\ UNCHANGED <<act, clicks, form, refreshVars, storeVars, kind, reader, linkLock, wifiVars, events, races>>

JoinReader(u) ==
  /\ at[u] = "JoinStop" /\ Joined
  /\ appLock' = "Free" /\ Goto(u, "StopWifi")
  /\ UNCHANGED <<act, clicks, form, refreshVars, storeVars, linkVars, linkLock, wifiVars, events, races>>

StopWifi(u) ==
  /\ at[u] = "StopWifi" /\ Goto(u, "Stopped")
  /\ wifi' = 0 /\ flag' = FALSE /\ slots' = {s \in slots : host[s] # wifi}
  /\ UNCHANGED <<act, clicks, form, refreshVars, storeVars, linkVars, appLock, linkLock,
                 listeners, session, host, events, races>>

\* Listeners that are registered but not yet in UnlistenFnArr stay: they may get
\* what the others would have been spared.
RemoveListeners == heard' = heard \ listening /\ listening' = {}
Outlived == IF heard \subseteq listening THEN {} ELSE {"News"}

\* The end of Disconnect, and what the connecting actions do up to their next await.
Stopped(u) ==
  /\ at[u] = "Stopped"
  /\ RemoveListeners /\ races' = (races \cap {"Overlap"}) \cup Outlived
  /\ \/ act[u] = "Stop" /\ Goto(u, "Idle") /\ mode' = "None" /\ portStat' = "Disconnected"
     \/ /\ act[u] # "Stop" /\ Goto(u, "Listen") /\ mode' = act[u]
        /\ portStat' = IF act[u] = "Wi-Fi" THEN "Listening" ELSE "Disconnected"
  /\ UNCHANGED <<act, clicks, form, refreshVars, linkVars, appLock, linkLock, wifiVars, events>>

\* InitializeListeners: the listeners of the connection events are registered, and
\* the last of all awaited.
Listen(u) ==
  /\ at[u] = "Listen" /\ heard' = heard \cup {ByUse(u)} /\ Goto(u, "Listed")
  /\ UNCHANGED <<act, clicks, form, refreshVars, portStat, mode, listening, linkVars, appLock, linkLock,
                 wifiVars, events, races>>

Listed(u) ==
  /\ at[u] = "Listed" /\ listening' = listening \cup {ByUse(u)}
  /\ Goto(u, IF act[u] = "Wi-Fi" THEN "StartWifi" ELSE "StartPort")
  /\ UNCHANGED <<act, clicks, form, refreshVars, portStat, mode, heard, linkVars, appLock, linkLock,
                 wifiVars, events, races>>

\* Only a paired Bluetooth port is opened.
NotFound(u) ==
  /\ at[u] = "StartPort" /\ act[u] = "Bluetooth" /\ Goto(u, "Failed")
  /\ UNCHANGED <<act, clicks, form, refreshVars, storeVars, linkVars, appLock, linkLock, wifiVars, events, races>>

\* connect(): the port opens and its reader starts, or an error is returned.
Open(u) ==
  /\ at[u] = "JoinStart" /\ Joined
  /\ \/ \E l \in Links :
          /\ reader[l] = "None" /\ \A k \in 1..(l - 1) : reader[k] # "None"
          /\ link' = l /\ kind' = [kind EXCEPT ![l] = act[u]]
          /\ reader' = [reader EXCEPT ![l] = "Reading"] /\ running' = TRUE
          /\ Goto(u, "Begin") /\ UNCHANGED appLock
     \/ Goto(u, "Failed") /\ appLock' = "Free" /\ UNCHANGED linkVars
  /\ UNCHANGED <<act, clicks, form, refreshVars, storeVars, linkLock, wifiVars, events, races>>

\* The rest of connect(): the handshake is begun on a radio link.  When that fails,
\* the link and its reader stay.
BeginAuth(u) ==
  /\ at[u] = "Begin" /\ linkLock = "Free"
  /\ appLock' = "Free"
  /\ Goto(u, "Started") \/ Goto(u, "Failed")
  /\ UNCHANGED <<act, clicks, form, refreshVars, storeVars, linkVars, linkLock, wifiVars, events, races>>

StartWifi(u) ==
  /\ at[u] = "StartWifi"
  /\ \/ /\ wifi = 0 /\ wifi' = listeners + 1 /\ listeners' = listeners + 1 /\ flag' = FALSE
        /\ Goto(u, "Started")
     \/ Goto(u, "Failed") /\ UNCHANGED <<wifi, listeners, flag>>
  /\ UNCHANGED <<act, clicks, form, refreshVars, storeVars, linkVars, appLock, linkLock,
                 session, host, slots, events, races>>

\* The command's answer reaches the store.
Started(u) ==
  /\ at[u] = "Started" /\ Goto(u, "Idle")
  /\ IF act[u] \in ComPorts
       THEN /\ portStat' = "Connected"
            /\ races' = races \cup (IF Alive(link) THEN {} ELSE {"Reader"})
       ELSE UNCHANGED <<portStat, races>>
  /\ UNCHANGED <<act, clicks, form, refreshVars, mode, heard, listening, linkVars, appLock, linkLock,
                 wifiVars, events>>

Failed(u) ==
  /\ at[u] = "Failed" /\ Goto(u, "Idle") /\ portStat' = "Error"
  /\ IF act[u] = "Serial"
       THEN UNCHANGED <<mode, heard, listening, races>>
       ELSE mode' = "None" /\ RemoveListeners /\ races' = races \cup Outlived
  /\ UNCHANGED <<act, clicks, form, refreshVars, linkVars, appLock, linkLock, wifiVars, events>>

-----------------------------------------------------------------------------
(* RefreshWifiStatus, when the form is mounted. *)

Mount ==
  /\ mounts < MaxMounts /\ mounts' = mounts + 1 /\ form' = 0
  /\ refresh' = [refresh EXCEPT ![mounts + 1] = "Ask"]
  /\ UNCHANGED <<act, at, clicks, answer, storeVars, linkVars, appLock, linkLock, wifiVars, events, races>>

Ask(r, from, to) ==
  /\ refresh[r] = from /\ refresh' = [refresh EXCEPT ![r] = to]
  /\ answer' = [answer EXCEPT ![r] = CurrentStatus]
  /\ UNCHANGED <<useVars, mounts, storeVars, linkVars, appLock, linkLock, wifiVars, events, races>>

\* A listener nobody listens to (after a reload): listen, and ask again.
Relisten(r) ==
  /\ refresh[r] = "Asked" /\ answer[r].listening /\ listening = {}
  /\ refresh' = [refresh EXCEPT ![r] = "Listen"]
  /\ UNCHANGED <<useVars, answer, mounts, storeVars, linkVars, appLock, linkLock, wifiVars, events, races>>

ListenAgain(r) ==
  /\ refresh[r] = "Listen" /\ heard' = heard \cup {ByRefresh(r)}
  /\ refresh' = [refresh EXCEPT ![r] = "Listed"]
  /\ UNCHANGED <<useVars, answer, mounts, portStat, mode, listening, linkVars, appLock, linkLock,
                 wifiVars, events, races>>

ListedAgain(r) ==
  /\ refresh[r] = "Listed" /\ listening' = listening \cup {ByRefresh(r)}
  /\ refresh' = [refresh EXCEPT ![r] = "AskAgain"]
  /\ UNCHANGED <<useVars, answer, mounts, portStat, mode, heard, linkVars, appLock, linkLock,
                 wifiVars, events, races>>

\* An answer about a listener goes to the store, be it still true or not.
Refreshed(r) ==
  /\ \/ refresh[r] = "Asked" /\ ~(answer[r].listening /\ listening = {})
     \/ refresh[r] = "Again"
  /\ refresh' = [refresh EXCEPT ![r] = "Idle"] /\ answer' = [answer EXCEPT ![r] = NoStatus]
  /\ IF answer[r].listening
       THEN /\ mode' = "Wi-Fi" /\ portStat' = IF answer[r].connected THEN "Connected" ELSE "Listening"
            /\ races' = races \cup (IF wifi # 0 /\ answer[r].connected = Peer THEN {} ELSE {"Answer"})
       ELSE UNCHANGED <<mode, portStat, races>>
  /\ UNCHANGED <<useVars, mounts, heard, listening, linkVars, appLock, linkLock, wifiVars, events>>

-----------------------------------------------------------------------------
(* The COM reader and send_data. *)

\* Mutant: a handled line is noted in the application's state.
NeedsState == appLock = "Free"

\* What the reader needs besides the link's mutex: the keys, which nobody holds for long.
NeedsNothing == TRUE

\* An Auth line is handled under the link's mutex; other lines are only forwarded.
HandleLine(r) ==
  /\ reader[r] = "Reading" /\ linkLock = "Free"
  /\ reader' = [reader EXCEPT ![r] = "Handling"] /\ linkLock' = "Reader"
  /\ UNCHANGED <<useVars, refreshVars, storeVars, link, kind, running, appLock, wifiVars, events, races>>

LineHandled(r) ==
  /\ reader[r] = "Handling" /\ NeedsNothing
  /\ reader' = [reader EXCEPT ![r] = "Reading"] /\ linkLock' = "Free"
  /\ UNCHANGED <<useVars, refreshVars, storeVars, link, kind, running, appLock, wifiVars, events, races>>

ReaderStops(r) ==
  /\ reader[r] = "Reading" /\ ~running
  /\ reader' = [reader EXCEPT ![r] = "Ended"]
  /\ UNCHANGED <<useVars, refreshVars, storeVars, link, kind, running, appLock, linkLock, wifiVars, events, races>>

\* Mutant: a port that fails is left without a word.
Silent(r) == UNCHANGED events

\* A loss is reported unless the link is being shut down.
Report(r) == IF running THEN Emit(kind[r]) ELSE UNCHANGED events

PortFails(r) ==
  /\ reader[r] = "Reading"
  /\ reader' = [reader EXCEPT ![r] = "Ended"]
  /\ Report(r)
  /\ UNCHANGED <<useVars, refreshVars, storeVars, link, kind, running, appLock, linkLock, wifiVars, races>>

\* send_data holds the AppState mutex while it waits for the link's.
SendData ==
  /\ appLock = "Free" /\ link # 0 /\ appLock' = "Send"
  /\ UNCHANGED <<useVars, refreshVars, storeVars, linkVars, linkLock, wifiVars, events, races>>

DataSent ==
  /\ appLock = "Send" /\ linkLock = "Free" /\ appLock' = "Free"
  /\ UNCHANGED <<useVars, refreshVars, storeVars, linkVars, linkLock, wifiVars, events, races>>

-----------------------------------------------------------------------------
(* The Wi-Fi sessions.  Slot, flag and event change one after the other, and *)
(* the flag and the event without the lock of the slot.                      *)

SessionStep(s, from, to) ==
  /\ session[s] = from /\ session' = [session EXCEPT ![s] = to]
  /\ UNCHANGED <<useVars, refreshVars, storeVars, linkVars, appLock, linkLock, wifi, listeners>>

\* A peer has authenticated, and its listener was still running when it looked.
PeerChecked(s) ==
  /\ wifi # 0 /\ \A t \in 1..(s - 1) : session[t] # "None"
  /\ SessionStep(s, "None", "Checked")
  /\ host' = [host EXCEPT ![s] = wifi]
  /\ UNCHANGED <<slots, flag, events, races>>

\* What the slot keeps when s takes it, of the listeners that were.
Others(s) == {t \in slots : host[t] # host[s]}

Install(s) ==
  /\ SessionStep(s, "Checked", "SetFlag")
  /\ slots' = Others(s) \cup {s}
  /\ UNCHANGED <<host, flag, events, races>>

\* The handshake cannot be begun: the slot stays empty, and nobody is told that the
\* session before has gone.
InstallFails(s) ==
  /\ SessionStep(s, "Checked", "Over")
  /\ slots' = Others(s)
  /\ races' = races \cup (IF host[s] = wifi /\ Peer THEN {"News"} ELSE {})
  /\ UNCHANGED <<host, flag, events>>

\* Only the flag of the listener that runs is ever read.
SetFlag(s, from, to, value) ==
  /\ SessionStep(s, from, to)
  /\ flag' = IF host[s] = wifi THEN value ELSE flag
  /\ UNCHANGED <<host, slots, events, races>>

\* Whoever hears an event is wrong about the peer until the next, unless it is so.
NewsOf(e) ==
  IF heard = {} THEN races
  ELSE (races \ {"News"}) \cup (IF (e = "WifiUp") = Peer THEN {} ELSE {"News"})

Say(s, from, to, e) ==
  /\ SessionStep(s, from, to)
  /\ Emit(e) /\ races' = NewsOf(e)
  /\ UNCHANGED <<host, slots, flag>>

\* The peer closes, breaks or is replaced, or the listener stops: only a session that
\* is still in its slot is reported.
PeerEnds(s) ==
  /\ SessionStep(s, "Read", IF s \in slots THEN "ClearFlag" ELSE "Over")
  /\ slots' = slots \ {s}
  /\ UNCHANGED <<host, flag, events, races>>

\* send_data to a session that is broken empties the slot without an event.
SendFails ==
  /\ appLock = "Free" /\ link = 0 /\ Peer
  /\ slots' = {s \in slots : host[s] # wifi} /\ flag' = FALSE
  /\ races' = races \cup {"News"}
  /\ UNCHANGED <<useVars, refreshVars, storeVars, linkVars, appLock, linkLock, wifi, listeners,
                 session, host, events>>

ServePeer(s) ==
  \/ PeerChecked(s) \/ Install(s) \/ InstallFails(s)
  \/ SetFlag(s, "SetFlag", "SayUp", TRUE) \/ Say(s, "SayUp", "Read", "WifiUp")
  \/ PeerEnds(s)
  \/ SetFlag(s, "ClearFlag", "SayDown", FALSE) \/ Say(s, "SayDown", "Over", "WifiDown")

-----------------------------------------------------------------------------

\* An event reaches those of its listeners that are still registered.
OnEvent ==
  /\ events # <<>> /\ events' = Tail(events)
  /\ LET e == Head(events)
     IN portStat' =
          IF e.to \cap heard = {} THEN portStat
          ELSE CASE e.what = mode -> "Error"
            [] e.what = "WifiUp" /\ mode = "Wi-Fi" -> "Connected"
            [] e.what = "WifiDown" /\ mode = "Wi-Fi" -> "Listening"
            [] OTHER -> portStat
  /\ UNCHANGED <<useVars, refreshVars, mode, heard, listening, linkVars, appLock, linkLock, wifiVars, races>>

Action(u) ==
  \/ Shutdown(u, "StopPort", "JoinStop") \/ JoinReader(u) \/ StopWifi(u) \/ Stopped(u)
  \/ Listen(u) \/ Listed(u) \/ NotFound(u) \/ Shutdown(u, "StartPort", "JoinStart")
  \/ Open(u) \/ BeginAuth(u) \/ StartWifi(u) \/ Started(u) \/ Failed(u)
Refresh(r) ==
  \/ Ask(r, "Ask", "Asked") \/ Relisten(r) \/ ListenAgain(r) \/ ListedAgain(r)
  \/ Ask(r, "AskAgain", "Again") \/ Refreshed(r)
Reader(r) == LineHandled(r) \/ ReaderStops(r)

Next ==
  \/ \E u \in Uses : Action(u)
  \/ \E r \in Mounts : Refresh(r)
  \/ \E a \in Acts : Click(a)
  \/ \E r \in Links : HandleLine(r) \/ Reader(r) \/ PortFails(r)
  \/ \E s \in Sessions : ServePeer(s)
  \/ Mount \/ SendData \/ DataSent \/ SendFails \/ OnEvent

Spec == Init /\ [][Next]_vars

\* Commands and threads of the desktop run; a mutex is handed out fairly, so a command
\* that waits for it gets it although send_data takes it again and again.  Which use
\* goes on first is nobody's business: each has but a few steps.
Fairness ==
  /\ SF_vars(\E u \in Uses : Action(u)) /\ SF_vars(DataSent)
  /\ WF_vars(\E r \in Links : LineHandled(r)) /\ SF_vars(\E r \in Links : ReaderStops(r))

FairSpec == Spec /\ Fairness

-----------------------------------------------------------------------------
(* Properties. *)

Phases == {"Idle", "StopPort", "JoinStop", "StopWifi", "Stopped", "Listen", "Listed", "StartPort",
           "JoinStart", "Begin", "StartWifi", "Started", "Failed"}
EventKinds == ComPorts \cup {"WifiUp", "WifiDown"}

\* Every variable holds a value of its type.
TypeOK ==
  /\ act \in [Uses -> Acts] /\ at \in [Uses -> Phases] /\ {clicks, form} \subseteq Uses
  /\ refresh \in [Mounts -> {"Idle", "Ask", "Asked", "Listen", "Listed", "AskAgain", "Again"}]
  /\ answer \in [Mounts -> [listening : BOOLEAN, connected : BOOLEAN]] /\ mounts \in 0..MaxMounts
  /\ portStat \in {"Disconnected", "Connected", "Listening", "Error"}
  /\ mode \in ComPorts \cup {"Wi-Fi", "None"}
  /\ heard \subseteq 1..(MaxClicks + MaxMounts) /\ listening \subseteq heard
  /\ link \in 0..MaxLinks /\ kind \in [Links -> ComPorts] /\ {running, flag} \subseteq BOOLEAN
  /\ reader \in [Links -> {"None", "Reading", "Handling", "Ended"}]
  /\ appLock \in {"Free", "Action", "Send"} /\ linkLock \in {"Free", "Reader"}
  /\ listeners \in Nat /\ wifi \in 0..listeners /\ host \in [Sessions -> 0..listeners]
  /\ session \in [Sessions -> {"None", "Checked", "SetFlag", "SayUp", "Read", "ClearFlag", "SayDown", "Over"}]
  /\ slots \in SUBSET Sessions
  /\ events \in Seq([what : EventKinds, to : SUBSET (1..(MaxClicks + MaxMounts))])
  /\ races \subseteq {"Overlap", "Reader", "Answer", "News"}

\* One port is open at a time: a reader that still runs is the open link's, or is
\* being waited for; the shared flag `running` never revives an old one, although
\* uses of the button may overlap (serial_transport.rs:3, 110-126).
OneReader ==
  \A r \in Links :
    Alive(r) => r = link \/ (~running /\ \E u \in Uses : at[u] \in {"JoinStop", "JoinStart"})

\* When nothing is under way the store shows what is (transport.ts:53-60, 94-108,
\* 157-184, commands.rs:120-130, wifi_transport.rs:254-305).
\* A port that is shown as connected is open and read, unless its reader had died
\* before the command's answer came ("Reader").  A listener that is shown runs, has a
\* session exactly when the store says so, and has no COM port beside it, to which
\* send_data would send instead; unless a refresh was given an answer that was not so
\* when it came to the store ("Answer"), or what changed last was not, or not as it is,
\* the last that was heard ("News").  Disconnect makes up for all three, but for a
\* listener that outlives it.  "Overlap" excuses both halves from a click on which
\* another use was running to one on which none was.
Calm == \A s \in Sessions : session[s] \notin {"SetFlag", "SayUp", "ClearFlag", "SayDown"}
AtRest ==
  /\ \A u \in Uses : at[u] = "Idle"
  /\ \A r \in Mounts : refresh[r] = "Idle"
  /\ events = <<>> /\ Calm
StoreShowsWhatIs ==
  AtRest =>
    /\ races \cap {"Overlap", "Reader"} = {} /\ portStat = "Connected" /\ mode \in ComPorts
         => link # 0 /\ Alive(link) /\ kind[link] = mode
    /\ races \cap {"Overlap", "Answer"} = {} /\ mode = "Wi-Fi"
         => /\ wifi # 0 /\ link = 0 /\ portStat \in {"Connected", "Listening"}
            /\ "News" \notin races => (portStat = "Connected") = Peer

\* Every use of the button ends, whatever the reader, send_data and other uses are
\* doing (commands.rs:278-287, serial_transport.rs:262-293): again and again none is
\* running, and a use runs but once.
ActionsEnd == []<>(\A u \in Uses : at[u] = "Idle")
=============================================================================
