----------------------------- MODULE WifiClient -----------------------------
(***************************************************************************)
(* The firmware's Wi-Fi transport (core/transport/wifi.rs): the link       *)
(* thread that keeps the station associated, the client thread that        *)
(* connects, replays and writes, one reader thread per connection, and the *)
(* main loop at the other end of the two bounded queues.                   *)
(*                                                                         *)
(* Outgoing messages are [of |-> module, v |-> version]; what matters of a *)
(* line from the desktop is what the session makes of it (AuthSession).    *)
(***************************************************************************)
EXTENDS Naturals, Sequences

CONSTANTS
  Announced,  \* what is announced, in order: the System snapshot, the modules
  MaxConns,   \* bound: connections that reach the replay
  MaxLines,   \* bound: lines from the desktop
  MaxRounds,  \* bound: rediscoveries
  MaxDrops,   \* bound: associations that break
  OutCap,     \* outbound, sync_channel(128)
  InCap       \* incoming, sync_channel(128)

ASSUME ClientAssumption ==
  /\ Announced \in Seq(STRING) /\ \A i \in 1..Len(Announced) : Announced[i] # "Event"
  /\ {MaxConns, MaxLines, MaxRounds, MaxDrops} \subseteq Nat
  /\ {OutCap, InCap} \subseteq Nat \ {0}

VARIABLES
  assoc,     \* the driver's is_connected
  linkUp,    \* the flag the client thread reads
  link,      \* the link thread: "Poll", "Connecting", "Report"
  client,    \* the client thread: "Drain", "Replay", "Serve", "Join"
  conn,      \* number of the latest connection
  cache,     \* discovery_cache: the latest version of each source
  heard,     \* the latest version of each source written on this connection
  replies,   \* session replies for the client thread, by their connection
  reader,    \* per connection: "None", "Reading", "Sending", "Ended"
  closed,    \* connections whose flag `closed` is set
  wire,      \* per connection: lines of the desktop not yet read
  gone,      \* connections the desktop has closed
  sent,      \* lines sent by the desktop
  outbound, incoming, \* the two queues
  emitted,   \* the latest version of each source the main loop has emitted
  todo,      \* announcements the main loop still has to emit
  taken,     \* the last command the main loop took
  drops      \* associations that broke

linkVars == <<assoc, linkUp, link, drops>>
readerVars == <<reader, wire, gone, sent>>
clientVars == <<client, conn, heard, replies>>
mainVars == <<emitted, todo, taken>>
vars == <<linkVars, clientVars, cache, readerVars, closed, outbound, incoming, mainVars>>

Conns == 1..MaxConns
Sources == {Announced[i] : i \in 1..Len(Announced)}
NoCommand == <<0, 0>>
Lines == {"Command", "Handshake", "TooLong"}
Telemetry == "Event"
Versions == 0..(MaxRounds + 1)

Init ==
  /\ assoc = FALSE /\ linkUp = FALSE /\ link = "Poll" /\ drops = 0
  /\ client = "Drain" /\ conn = 0 /\ replies = <<>>
  /\ cache = [s \in Sources |-> 0] /\ heard = cache /\ emitted = cache
  /\ reader = [c \in Conns |-> "None"] /\ wire = [c \in Conns |-> <<>>]
  /\ closed = {} /\ gone = {} /\ sent = 0
  /\ outbound = <<>> /\ incoming = <<>>
  /\ todo = Announced
  /\ taken = NoCommand

-----------------------------------------------------------------------------
(* The link thread. *)

\* An association that is lost is found at the next poll; then connect() starts.
LinkPoll ==
  /\ link = "Poll" /\ ~assoc
  /\ linkUp' = FALSE /\ link' = "Connecting"
  /\ UNCHANGED <<assoc, drops, clientVars, cache, readerVars, closed, outbound, incoming, mainVars>>

LinkConnected ==
  /\ link = "Connecting"
  /\ assoc' = TRUE /\ link' = "Report"
  /\ UNCHANGED <<linkUp, drops, clientVars, cache, readerVars, closed, outbound, incoming, mainVars>>

LinkReport ==
  /\ link = "Report"
  /\ linkUp' = TRUE /\ link' = "Poll"
  /\ UNCHANGED <<assoc, drops, clientVars, cache, readerVars, closed, outbound, incoming, mainVars>>

\* Mutant: an association without an address is kept after the failure.
KeepsAssociation == assoc' \in BOOLEAN

\* connect() or wait_netif_up() failed: disconnect() ends what there is of it; how long
\* the thread then sleeps (2 to 30 s) is not modelled.
GivesUp == assoc' = FALSE

LinkFailed ==
  /\ link = "Connecting"
  /\ GivesUp
  /\ link' = "Poll"
  /\ UNCHANGED <<linkUp, drops, clientVars, cache, readerVars, closed, outbound, incoming, mainVars>>

AccessPointLost ==
  /\ assoc /\ drops < MaxDrops
  /\ assoc' = FALSE /\ drops' = drops + 1
  /\ UNCHANGED <<linkUp, link, clientVars, cache, readerVars, closed, outbound, incoming, mainVars>>

-----------------------------------------------------------------------------
(* The client thread. *)

\* Mutant: a message goes to the desktop only, and is gone when the write fails.
Forget(m) == UNCHANGED cache

Remember(m) == cache' = IF m.of = Telemetry THEN cache ELSE [cache EXCEPT ![m.of] = m.v]

\* Between connections: discovery is saved, everything else dropped.
Drain ==
  /\ client = "Drain" /\ outbound # <<>>
  /\ Remember(Head(outbound)) /\ outbound' = Tail(outbound)
  /\ UNCHANGED <<linkVars, clientVars, readerVars, closed, incoming, mainVars>>

\* run_client with the first half of serve_connection; an attempt that fails before
\* the reader runs changes nothing.
Connect ==
  /\ client = "Drain" /\ linkUp /\ conn < MaxConns
  /\ conn' = conn + 1 /\ client' = "Replay"
  /\ reader' = [reader EXCEPT ![conn + 1] = "Reading"]
  /\ UNCHANGED <<linkVars, cache, heard, replies, wire, gone, sent, closed, outbound, incoming, mainVars>>

\* Every way out of serve_connection: the flag, the shutdown, then the join.
Close ==
  /\ client' = "Join" /\ closed' = closed \cup {conn}
  /\ UNCHANGED heard

Replay ==
  /\ client = "Replay"
  /\ \/ heard' = cache /\ client' = "Serve" /\ UNCHANGED closed
     \/ Close
  /\ UNCHANGED <<linkVars, conn, cache, replies, readerVars, outbound, incoming, mainVars>>

Answer ==
  /\ client = "Serve" /\ replies # <<>>
  /\ \/ replies' = Tail(replies) /\ UNCHANGED <<client, closed, heard>>
     \/ replies' = Tail(replies) /\ Close
  /\ UNCHANGED <<linkVars, conn, cache, readerVars, outbound, incoming, mainVars>>

\* A message is remembered before it is written.
Forward ==
  /\ client = "Serve" /\ outbound # <<>>
  /\ outbound' = Tail(outbound)
  /\ LET m == Head(outbound)
     IN /\ Remember(m)
        /\ \/ /\ heard' = IF m.of = Telemetry THEN heard ELSE [heard EXCEPT ![m.of] = m.v]
              /\ UNCHANGED <<client, closed>>
           \/ Close
  /\ UNCHANGED <<linkVars, conn, replies, readerVars, incoming, mainVars>>

\* The loop looks at the flag once per round.
SeeClosed ==
  /\ client = "Serve" /\ conn \in closed
  /\ Close
  /\ UNCHANGED <<linkVars, conn, cache, replies, readerVars, outbound, incoming, mainVars>>

\* Mutant: the client does not wait for the reader.
Detached == TRUE

ReaderDone == reader[conn] = "Ended"

\* What the connection had of its own goes with it.
Join ==
  /\ client = "Join" /\ ReaderDone
  /\ client' = "Drain"
  /\ heard' = [s \in Sources |-> 0] /\ replies' = <<>>
  /\ UNCHANGED <<linkVars, conn, cache, readerVars, closed, outbound, incoming, mainVars>>

-----------------------------------------------------------------------------
(* The reader thread of connection c. *)

\* Mutant: the reader ends without a word.
EndSilently(c) ==
  /\ reader' = [reader EXCEPT ![c] = "Ended"] /\ UNCHANGED closed
  /\ wire' = [wire EXCEPT ![c] = <<>>]

\* Whatever ends the reader, the flag tells the client; unread lines are gone.
End(c) ==
  /\ reader' = [reader EXCEPT ![c] = "Ended"] /\ closed' = closed \cup {c}
  /\ wire' = [wire EXCEPT ![c] = <<>>]

Room == Len(incoming) < InCap

\* A command is kept in hand until the queue has room; a reply goes to the client
\* thread of this connection; an overlong line ends the connection.
ReadLine(c) ==
  /\ reader[c] = "Reading" /\ wire[c] # <<>>
  /\ \/ /\ Head(wire[c])[1] = "Command"
        /\ reader' = [reader EXCEPT ![c] = "Sending"] /\ UNCHANGED <<wire, replies, closed>>
     \/ /\ Head(wire[c])[1] = "Handshake"
        /\ wire' = [wire EXCEPT ![c] = Tail(@)]
        /\ replies' = IF c = conn THEN Append(replies, c) ELSE replies
        /\ UNCHANGED <<reader, closed>>
     \/ Head(wire[c])[1] = "TooLong" /\ End(c) /\ UNCHANGED replies
  /\ UNCHANGED <<linkVars, client, conn, heard, cache, gone, sent, outbound, incoming, mainVars>>

\* incoming.send blocks while the queue is full.
Deliver(c) ==
  /\ reader[c] = "Sending" /\ Room
  /\ incoming' = Append(incoming, <<c, Head(wire[c])[2]>>)
  /\ wire' = [wire EXCEPT ![c] = Tail(@)]
  /\ reader' = [reader EXCEPT ![c] = "Reading"]
  /\ UNCHANGED <<linkVars, clientVars, cache, closed, gone, sent, outbound, mainVars>>

\* The flag is set, the desktop is gone, or a read fails.
ReaderEnds(c) ==
  /\ reader[c] = "Reading"
  /\ c \in closed \/ (c \in gone /\ wire[c] = <<>>)
  /\ End(c)
  /\ UNCHANGED <<linkVars, clientVars, cache, gone, sent, outbound, incoming, mainVars>>

ReadFails(c) ==
  /\ reader[c] = "Reading"
  /\ End(c)
  /\ UNCHANGED <<linkVars, clientVars, cache, gone, sent, outbound, incoming, mainVars>>

PeerSends(c) ==
  /\ reader[c] # "None" /\ c \notin gone \cup closed /\ sent < MaxLines
  /\ sent' = sent + 1
  /\ \E kind \in Lines : wire' = [wire EXCEPT ![c] = Append(@, <<kind, sent + 1>>)]
  /\ UNCHANGED <<linkVars, clientVars, cache, reader, closed, gone, outbound, incoming, mainVars>>

PeerCloses(c) ==
  /\ reader[c] # "None" /\ c \notin gone \cup closed
  /\ gone' = gone \cup {c}
  /\ UNCHANGED <<linkVars, clientVars, cache, reader, wire, sent, closed, outbound, incoming, mainVars>>

-----------------------------------------------------------------------------
(* The main loop, as the two queues see it. *)

\* event() blocks for a registration or the snapshot ...
Emit ==
  /\ todo # <<>> /\ Len(outbound) < OutCap
  /\ LET s == Head(todo)
     IN /\ emitted' = [emitted EXCEPT ![s] = @ + 1]
        /\ outbound' = Append(outbound, [of |-> s, v |-> emitted[s] + 1])
  /\ todo' = Tail(todo)
  /\ UNCHANGED <<linkVars, clientVars, cache, readerVars, closed, incoming, taken>>

\* ... and drops a module event when the queue is full.
EmitTelemetry ==
  /\ todo = <<>> /\ Len(outbound) < OutCap
  /\ outbound' = Append(outbound, [of |-> Telemetry, v |-> 0])
  /\ UNCHANGED <<linkVars, clientVars, cache, readerVars, closed, incoming, mainVars>>

\* A command; Rediscover announces everything again.
TakeCommand ==
  /\ todo = <<>> /\ incoming # <<>>
  /\ taken' = Head(incoming) /\ incoming' = Tail(incoming)
  /\ \/ UNCHANGED todo
     \/ /\ \A s \in Sources : emitted[s] <= MaxRounds
        /\ todo' = Announced
  /\ UNCHANGED <<linkVars, clientVars, cache, readerVars, closed, outbound, emitted>>

LinkThread == LinkPoll \/ LinkConnected \/ LinkReport \/ LinkFailed
ClientThread == Drain \/ Connect \/ Replay \/ Answer \/ Forward \/ SeeClosed \/ Join
ReaderThread(c) == ReadLine(c) \/ Deliver(c) \/ ReaderEnds(c)
MainLoop == Emit \/ TakeCommand

Next ==
  \/ LinkThread \/ AccessPointLost \/ ClientThread \/ MainLoop \/ EmitTelemetry
  \/ \E c \in Conns : ReaderThread(c) \/ ReadFails(c) \/ PeerSends(c) \/ PeerCloses(c)

Spec == Init /\ [][Next]_vars

\* Each thread runs when it is not blocked; the two loops that look at a flag look at
\* it again and again, whatever else they find to do.
Fairness ==
  /\ WF_vars(LinkThread) /\ WF_vars(ClientThread) /\ WF_vars(SeeClosed) /\ WF_vars(MainLoop)
  /\ \A c \in Conns : WF_vars(ReaderThread(c))

FairSpec == Spec /\ Fairness

-----------------------------------------------------------------------------
(* Properties. *)

\* Every variable holds a value of its type, and the queues keep to their limits.
TypeOK ==
  /\ {assoc, linkUp} \subseteq BOOLEAN /\ link \in {"Poll", "Connecting", "Report"}
  /\ drops \in 0..MaxDrops
  /\ client \in {"Drain", "Replay", "Serve", "Join"} /\ conn \in 0..MaxConns
  /\ {cache, heard, emitted} \subseteq [Sources -> Versions]
  /\ replies \in Seq(Conns) /\ todo \in Seq(Sources)
  /\ reader \in [Conns -> {"None", "Reading", "Sending", "Ended"}]
  /\ wire \in [Conns -> Seq(Lines \X (1..MaxLines))]
  /\ closed \subseteq Conns /\ gone \subseteq Conns /\ sent \in 0..MaxLines
  /\ Len(outbound) <= OutCap /\ Len(incoming) <= InCap

\* A station that stays associated is also used: the link thread never rests with an
\* association that the client thread does not know of (wifi.rs:145-167).
AssociatedIsUp == link = "Poll" /\ assoc => linkUp

\* Commands reach the main loop in the order they were sent, and none of an old
\* connection after one of a newer connection (wifi.rs:318-320).
Before(a, b) == a[1] < b[1] \/ (a[1] = b[1] /\ a[2] < b[2])
CommandsByConnection ==
  /\ \A i, j \in 1..Len(incoming) : i < j => Before(incoming[i], incoming[j])
  /\ incoming # <<>> => Before(taken, Head(incoming))

\* Once the queue is empty, a desktop that is being served has the latest version of
\* everything, whatever failed before (wifi.rs:288-292, 305).
DesktopIsUpToDate == client = "Serve" /\ outbound = <<>> => heard = emitted

\* The client, its reader and the main loop wait for each other in a circle.
CircularWait ==
  /\ client = "Join" /\ reader[conn] = "Sending"
  /\ Len(incoming) = InCap /\ todo # <<>> /\ Len(outbound) = OutCap

\* A connection that has ended is cleaned up and the next one may follow; only the
\* circle of full queues can prevent it (wifi.rs:318-320).
Reconnects == (client # "Drain" /\ (conn \in closed \/ reader[conn] = "Ended")) ~> (client = "Drain" \/ CircularWait)
=============================================================================
