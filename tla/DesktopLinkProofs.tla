-------------------------- MODULE DesktopLinkProofs --------------------------
(***************************************************************************)
(* Proofs about DesktopLink, for any number of links, of uses of the       *)
(* button, of mounts and of Wi-Fi sessions.                                *)
(***************************************************************************)
EXTENDS DesktopLink, TLAPS

\* The latest use, the only one that runs unless uses overlap.
Now == at[clicks]
Doing == act[clicks]
Lone == "Overlap" \notin races

\* Uses and refreshes are numbered as they come; an act that is not Disconnect alone
\* has got past it.
ProcessInv ==
  /\ at[0] = "Idle" /\ \A u \in Uses : u > clicks => at[u] = "Idle"
  /\ Lone => \A u \in Uses : u # clicks => at[u] = "Idle"
  /\ \A r \in Mounts : r > mounts => refresh[r] = "Idle"
  /\ \A u \in Uses :
       /\ at[u] \in {"StartPort", "JoinStart", "Begin"} => act[u] \in ComPorts
       /\ at[u] = "StartWifi" => act[u] = "Wi-Fi"
       /\ at[u] \in {"Listen", "Listed", "Started", "Failed"} => act[u] # "Stop"

\* Who has not registered a listener yet gets no event.
FreshPhases == {"StopPort", "JoinStop", "StopWifi", "Stopped", "Listen"}
FreshUse(u) == u > clicks \/ at[u] \in FreshPhases
FreshRefresh(r) == r > mounts \/ refresh[r] \in {"Ask", "Asked", "Listen"}
Unheard(l) == l \notin heard /\ \A i \in 1..Len(events) : l \notin events[i].to
FreshInv ==
  /\ \A u \in Uses \ {0} : FreshUse(u) => Unheard(ByUse(u))
  /\ \A r \in Mounts : FreshRefresh(r) => Unheard(ByRefresh(r))

\* What is registered is not removed before its registration is noted.
ListedInv ==
  /\ \A u \in Uses : at[u] = "Listed" => ByUse(u) \in heard \ listening
  /\ \A r \in Mounts : refresh[r] = "Listed" => ByRefresh(r) \in heard \ listening

\* A session has a listener once its peer is checked, before it is in the slot.
SessionInv ==
  /\ \A s \in Sessions : session[s] # "None" => host[s] # 0
  /\ \A s \in slots : session[s] # "None"

\* What is open while an action is where it is.
PhaseInv ==
  Lone =>
    /\ Now \in {"JoinStop", "StopWifi", "Stopped", "Listen", "Listed", "StartPort", "JoinStart", "StartWifi"} => link = 0
    /\ Now \in {"Stopped", "Listen", "Listed", "StartPort", "JoinStart", "Begin", "StartWifi", "Failed"} => wifi = 0
    /\ Now = "Started" => (wifi # 0) = (Doing = "Wi-Fi")
    /\ Now \in {"StartPort", "JoinStart", "Begin", "StartWifi", "Started"} => listening # {}

\* What is open and listened to, but for what the running action finds and ends.
OpenInv ==
  Lone /\ Now \notin {"StopPort", "JoinStop", "StopWifi"} =>
    /\ link # 0 => running /\ wifi = 0
    /\ wifi # 0 /\ listening = {} =>
         mode # "Wi-Fi" /\ \A r \in Mounts : refresh[r] \notin {"AskAgain", "Again"}

\* An event of the Wi-Fi listener that one of the listeners in l will get.
WifiNews(e, l) == e.what \in {"WifiUp", "WifiDown"} /\ e.to \cap l # {}
Quiet(es, l) == \A i \in 1..Len(es) : ~WifiNews(es[i], l)

\* The last such event says whether there is a session.
LastWord(es, l, p) ==
  \A i \in 1..Len(es) :
    WifiNews(es[i], l) /\ (\A j \in (i + 1)..Len(es) : ~WifiNews(es[j], l))
      => (es[i].what = "WifiUp" <=> p)

\* No session has still to say what has become of it.
Settled == wifi = 0 \/ Calm
NewsInv ==
  Lone /\ "News" \notin races /\ Settled /\ Now \notin {"StopPort", "JoinStop", "StopWifi", "Stopped"}
    => LastWord(events, heard, Peer)

\* A listener that is shown runs or is about to; what the store says of its session is
\* true, or an event that says so is under way.
WifiShown ==
  Lone /\ "Answer" \notin races /\ mode = "Wi-Fi" /\ Now \in {"Idle", "Listen", "Listed", "StartWifi", "Started"} =>
    /\ Now \in {"Idle", "Started"} => wifi # 0
    /\ portStat \in {"Connected", "Listening"}
    /\ "News" \notin races /\ Settled /\ Quiet(events, heard) => (portStat = "Connected" <=> Peer)

\* The store has the mode of the action until that ends, or an old answer's.
ModeKept ==
  Lone /\ Now \in {"Listen", "Listed", "StartPort", "JoinStart", "Begin", "StartWifi", "Started", "Failed"} =>
    mode = Doing \/ (mode = "Wi-Fi" /\ "Answer" \in races)
KindKept ==
  Lone /\ (Now = "Begin" \/ (Now = "Started" /\ Doing \in ComPorts)) => link # 0 /\ kind[link] = Doing

\* A loss of the link that is shown and still to be reported.
LossPending(es, l, m) == \E i \in 1..Len(es) : es[i].what = m /\ es[i].to \cap l # {}

\* A port that is shown as connected is open and read, or its loss is under way.
PortShown ==
  Lone /\ "Reader" \notin races /\ mode \in ComPorts /\ Now = "Idle" /\ portStat = "Connected" =>
    /\ link # 0 /\ kind[link] = mode /\ heard # {}
    /\ Alive(link) \/ LossPending(events, heard, mode)

\* What is so unless uses overlap.
LoneInv == PhaseInv /\ OpenInv /\ NewsInv /\ WifiShown /\ ModeKept /\ KindKept /\ PortShown
LinkInv == TypeOK /\ ProcessInv /\ FreshInv /\ ListedInv /\ SessionInv /\ OneReader /\ LoneInv

-----------------------------------------------------------------------------
(* Events. *)

AnEvent == [what : EventKinds, to : SUBSET (1..(MaxClicks + MaxMounts))]

\* A new event is the last word if it says what is so.
LEMMA AppendedWord ==
  ASSUME NEW es \in Seq(AnEvent), NEW e \in AnEvent, NEW l, NEW p,
         WifiNews(e, l) => (e.what = "WifiUp" <=> p),
         ~WifiNews(e, l) => LastWord(es, l, p)
  PROVE  LastWord(Append(es, e), l, p)
<1>1. Len(Append(es, e)) = Len(es) + 1 /\ Len(es) \in Nat
  OBVIOUS
<1>2. Append(es, e)[Len(es) + 1] = e /\ \A i \in 1..Len(es) : Append(es, e)[i] = es[i]
  OBVIOUS
<1>3. SUFFICES ASSUME NEW i \in 1..(Len(es) + 1), WifiNews(Append(es, e)[i], l),
                      \A j \in (i + 1)..(Len(es) + 1) : ~WifiNews(Append(es, e)[j], l)
               PROVE  Append(es, e)[i].what = "WifiUp" <=> p
  BY <1>1 DEF LastWord
<1>4. CASE i = Len(es) + 1
  BY <1>2, <1>3, <1>4
<1>5. CASE i \in 1..Len(es)
  <2>1. ~WifiNews(e, l)
    BY <1>1, <1>2, <1>3, <1>5
  <2>2. WifiNews(es[i], l)
    BY <1>2, <1>3, <1>5
  <2>3. \A j \in (i + 1)..Len(es) : ~WifiNews(es[j], l)
    BY <1>1, <1>2, <1>3
  <2>4. es[i].what = "WifiUp" <=> p
    BY <1>5, <2>1, <2>2, <2>3 DEF LastWord
  <2> QED  BY <1>2, <1>5, <2>4
<1> QED  BY <1>1, <1>4, <1>5

\* What is said about the first events does not matter to the last word.
LEMMA TailWord ==
  ASSUME NEW es \in Seq(AnEvent), es # <<>>, NEW l, NEW p
  PROVE  /\ LastWord(es, l, p) => LastWord(Tail(es), l, p)
         /\ WifiNews(Head(es), l) /\ Quiet(Tail(es), l) /\ LastWord(es, l, p)
              => (Head(es).what = "WifiUp" <=> p)
         /\ ~WifiNews(Head(es), l) /\ Quiet(Tail(es), l) => Quiet(es, l)
         /\ \A m : LossPending(es, l, m) =>
              LossPending(Tail(es), l, m) \/ (Head(es).what = m /\ Head(es).to \cap l # {})
<1>1. Len(Tail(es)) = Len(es) - 1 /\ Len(es) \in Nat \ {0} /\ Head(es) = es[1]
  OBVIOUS
<1>2. \A i \in 1..(Len(es) - 1) : Tail(es)[i] = es[i + 1]
  OBVIOUS
<1>3. \A j \in 2..Len(es) : j - 1 \in 1..(Len(es) - 1) /\ es[j] = Tail(es)[j - 1]
  BY <1>1, <1>2
<1>4. ASSUME LastWord(es, l, p) PROVE LastWord(Tail(es), l, p)
  <2>1. SUFFICES ASSUME NEW i \in 1..(Len(es) - 1), WifiNews(Tail(es)[i], l),
                        \A j \in (i + 1)..(Len(es) - 1) : ~WifiNews(Tail(es)[j], l)
                 PROVE  Tail(es)[i].what = "WifiUp" <=> p
    BY <1>1 DEF LastWord
  <2>2. i + 1 \in 1..Len(es) /\ Tail(es)[i] = es[i + 1]
    BY <1>1, <1>2
  <2>3. ASSUME NEW j \in (i + 2)..Len(es) PROVE ~WifiNews(es[j], l)
    <3>1. j - 1 \in (i + 1)..(Len(es) - 1) /\ es[j] = Tail(es)[j - 1]
      BY <1>1, <1>3
    <3> QED  BY <2>1, <3>1
  <2>4. WifiNews(es[i + 1], l)
    BY <2>1, <2>2
  <2>5. es[i + 1].what = "WifiUp" <=> p
    BY <1>4, <2>2, <2>3, <2>4 DEF LastWord
  <2> QED  BY <2>2, <2>5
<1>5. ASSUME WifiNews(Head(es), l), Quiet(Tail(es), l), LastWord(es, l, p)
      PROVE  Head(es).what = "WifiUp" <=> p
  <2>1. \A j \in 2..Len(es) : ~WifiNews(es[j], l)
    BY <1>1, <1>3, <1>5 DEF Quiet
  <2> QED  BY <1>1, <1>5, <2>1 DEF LastWord
<1>6. ASSUME ~WifiNews(Head(es), l), Quiet(Tail(es), l) PROVE Quiet(es, l)
  <2>1. ASSUME NEW i \in 1..Len(es) PROVE ~WifiNews(es[i], l)
    <3>1. CASE i = 1  BY <1>1, <1>6, <3>1
    <3>2. CASE i \in 2..Len(es)  BY <1>1, <1>3, <1>6, <3>2 DEF Quiet
    <3> QED  BY <1>1, <3>1, <3>2
  <2> QED  BY <2>1 DEF Quiet
<1>7. ASSUME NEW m, LossPending(es, l, m), ~LossPending(Tail(es), l, m)
      PROVE  Head(es).what = m /\ Head(es).to \cap l # {}
  <2>1. PICK i \in 1..Len(es) : es[i].what = m /\ es[i].to \cap l # {}
    BY <1>7 DEF LossPending
  <2>2. i \notin 2..Len(es)
    BY <1>1, <1>3, <1>7, <2>1 DEF LossPending
  <2> QED  BY <1>1, <2>1, <2>2
<1> QED  BY <1>4, <1>5, <1>6, <1>7

\* A new listener does not get what was emitted before.
LEMMA ListenersOfOld ==
  ASSUME NEW es \in Seq(AnEvent), NEW g, \A i \in 1..Len(es) : g \notin es[i].to, NEW l, NEW p
  PROVE  /\ LastWord(es, l, p) => LastWord(es, l \cup {g}, p)
         /\ Quiet(es, l \cup {g}) => Quiet(es, l)
         /\ \A m : LossPending(es, l, m) => LossPending(es, l \cup {g}, m)
<1>1. \A i \in 1..Len(es) : es[i].to \cap (l \cup {g}) = es[i].to \cap l
  OBVIOUS
<1>2. \A i \in 1..Len(es) : WifiNews(es[i], l \cup {g}) <=> WifiNews(es[i], l)
  BY <1>1 DEF WifiNews
<1>3. LastWord(es, l, p) => LastWord(es, l \cup {g}, p)
  <2> SUFFICES ASSUME LastWord(es, l, p), NEW i \in 1..Len(es), WifiNews(es[i], l \cup {g}),
                      \A j \in (i + 1)..Len(es) : ~WifiNews(es[j], l \cup {g})
               PROVE  es[i].what = "WifiUp" <=> p
    BY DEF LastWord
  <2>1. WifiNews(es[i], l)
    BY <1>2
  <2>2. \A j \in (i + 1)..Len(es) : j \in 1..Len(es)
    BY Len(es) \in Nat
  <2>3. \A j \in (i + 1)..Len(es) : ~WifiNews(es[j], l)
    BY <1>2, <2>2
  <2> QED  BY <2>1, <2>3 DEF LastWord
<1>4. Quiet(es, l \cup {g}) => Quiet(es, l)
  BY <1>2 DEF Quiet
<1> QED  BY <1>1, <1>3, <1>4 DEF LossPending

\* Without listeners nothing is heard.
LEMMA NobodyHears ==
  ASSUME NEW es, NEW p
  PROVE  LastWord(es, {}, p) /\ Quiet(es, {})
BY DEF LastWord, WifiNews, Quiet

\* A new event does not silence the others.
LEMMA AppendedLoss ==
  ASSUME NEW es \in Seq(AnEvent), NEW e \in AnEvent, NEW l
  PROVE  /\ Quiet(Append(es, e), l) => Quiet(es, l) /\ ~WifiNews(e, l)
         /\ \A m : LossPending(es, l, m) \/ (e.what = m /\ e.to \cap l # {})
                     => LossPending(Append(es, e), l, m)
<1>1. Len(Append(es, e)) = Len(es) + 1 /\ Len(es) \in Nat
  OBVIOUS
<1>2. Append(es, e)[Len(es) + 1] = e /\ \A i \in 1..Len(es) : Append(es, e)[i] = es[i]
  OBVIOUS
<1>3. Len(es) + 1 \in 1..Len(Append(es, e)) /\ \A i \in 1..Len(es) : i \in 1..Len(Append(es, e))
  BY <1>1
<1>4. Quiet(Append(es, e), l) => Quiet(es, l) /\ ~WifiNews(e, l)
  BY <1>2, <1>3 DEF Quiet
<1> QED  BY <1>2, <1>3, <1>4 DEF LossPending

-----------------------------------------------------------------------------
(* What every step has in common. *)

\* Steps of a use: it is at an await and goes to another; listeners that are added
\* are its own.
LEMMA UseStep ==
  ASSUME TypeOK, ProcessInv, NEW u \in Uses, Action(u)
  PROVE  /\ at[u] # "Idle" /\ u \in 1..clicks
         /\ UNCHANGED <<act, clicks, form, refresh, answer, mounts, linkLock, session, host, events>>
         /\ Lone' <=> Lone
         /\ \E q \in Phases :
              /\ at' = [at EXCEPT ![u] = q]
              /\ q \in FreshPhases => at[u] \in FreshPhases
              /\ heard' \subseteq heard \/ (heard' = heard \cup {u} /\ q = "Listed")
              /\ q \in {"StartPort", "JoinStart", "Begin"} =>
                   act[u] \in ComPorts
              /\ q = "StartWifi" => act[u] = "Wi-Fi"
              /\ q \in {"Listen", "Listed", "Started", "Failed"} => act[u] # "Stop"
<1> USE DEF useVars, refreshVars, storeVars, linkVars, wifiVars, Goto, Lone, Phases, FreshPhases
<1>1. at[u] # "Idle" => u \in 1..clicks
  BY DesktopAssumption DEF ProcessInv, TypeOK, Uses
<1>2. act[u] \in Acts
  BY DEF TypeOK
<1>3. CASE Shutdown(u, "StopPort", "JoinStop")
  BY <1>1, <1>3 DEF Shutdown
<1>4. CASE JoinReader(u)
  BY <1>1, <1>4 DEF JoinReader
<1>5. CASE StopWifi(u)
  BY <1>1, <1>5 DEF StopWifi
<1>6. CASE Stopped(u)
  <2>1. heard' \subseteq heard /\ (Lone' <=> Lone)
    BY <1>6 DEF Stopped, RemoveListeners, Outlived
  <2> QED  BY <1>1, <1>6, <2>1 DEF Stopped
<1>7. CASE Listen(u)
  BY <1>1, <1>7 DEF Listen, ByUse, ProcessInv
<1>8. CASE Listed(u)
  BY <1>1, <1>2, <1>8 DEF Listed, ProcessInv, Acts
<1>9. CASE NotFound(u)
  BY <1>1, <1>9 DEF NotFound, ComPorts
<1>10. CASE Shutdown(u, "StartPort", "JoinStart")
  BY <1>1, <1>10 DEF Shutdown, ProcessInv
<1>11. CASE Open(u)
  BY <1>1, <1>11 DEF Open, ProcessInv, ComPorts
<1>12. CASE BeginAuth(u)
  BY <1>1, <1>12 DEF BeginAuth, ProcessInv, ComPorts
<1>13. CASE StartWifi(u)
  BY <1>1, <1>13 DEF StartWifi, ProcessInv
<1>14. CASE Started(u)
  <2>1. Lone' <=> Lone
    BY <1>14 DEF Started
  <2> QED  BY <1>1, <1>14, <2>1 DEF Started
<1>15. CASE Failed(u)
  <2>1. heard' \subseteq heard /\ (Lone' <=> Lone)
    BY <1>15 DEF Failed, RemoveListeners, Outlived
  <2> QED  BY <1>1, <1>15, <2>1 DEF Failed
<1> QED
  BY <1>3, <1>4, <1>5, <1>6, <1>7, <1>8, <1>9, <1>10, <1>11, <1>12, <1>13, <1>14, <1>15 DEF Action

\* Uses and refreshes go on one by one.
LEMMA ProcessKept == TypeOK /\ ProcessInv /\ [Next]_vars => ProcessInv'
<1> SUFFICES ASSUME TypeOK, ProcessInv, [Next]_vars PROVE ProcessInv'
  OBVIOUS
<1> USE DEF useVars, refreshVars, storeVars, linkVars, wifiVars
<1>1. ASSUME NEW u \in Uses, Action(u) PROVE ProcessInv'
  <2>1. /\ at[u] # "Idle" /\ u \in 1..clicks /\ UNCHANGED <<act, clicks, refresh, mounts>>
        /\ Lone' <=> Lone
    BY <1>1, UseStep
  <2>2. PICK q \in Phases :
          /\ at' = [at EXCEPT ![u] = q]
          /\ q \in {"StartPort", "JoinStart", "Begin"} => act[u] \in ComPorts
          /\ q = "StartWifi" => act[u] = "Wi-Fi"
          /\ q \in {"Listen", "Listed", "Started", "Failed"} => act[u] # "Stop"
    BY <1>1, UseStep
  <2>3. clicks \in Nat /\ u \in Nat /\ u <= clicks /\ u # 0
    BY <2>1, DesktopAssumption DEF TypeOK, Uses
  <2>4. \A v \in Uses : v # u => at'[v] = at[v]
    BY <2>2 DEF TypeOK
  <2>5. at'[u] = q
    BY <2>2 DEF TypeOK
  <2>6. Lone => u = clicks
    BY <2>1 DEF ProcessInv
  <2>7. (\A v \in Uses : v > clicks => at[v] = "Idle")'
    BY <2>1, <2>3, <2>4 DEF ProcessInv
  <2>8. (Lone => \A v \in Uses : v # clicks => at[v] = "Idle")'
    BY <2>1, <2>4, <2>6 DEF ProcessInv
  <2>9. (\A v \in Uses :
       /\ at[v] \in {"StartPort", "JoinStart", "Begin"} => act[v] \in ComPorts
       /\ at[v] = "StartWifi" => act[v] = "Wi-Fi"
       /\ at[v] \in {"Listen", "Listed", "Started", "Failed"} => act[v] # "Stop")'
    BY <2>1, <2>2, <2>4, <2>5 DEF ProcessInv
  <2>10. at'[0] = "Idle"
    BY <2>3, <2>4, DesktopAssumption DEF ProcessInv, Uses
  <2> QED  BY <2>1, <2>7, <2>8, <2>9, <2>10 DEF ProcessInv
<1>2. ASSUME NEW r \in Mounts, Refresh(r) PROVE ProcessInv'
  <2>1. UNCHANGED <<at, act, clicks, mounts>> /\ (Lone' <=> Lone) /\ \A v \in Mounts : refresh[v] = "Idle" => refresh'[v] = "Idle"
    <3>1. CASE Ask(r, "Ask", "Asked") \/ Ask(r, "AskAgain", "Again") \/ Relisten(r) \/ ListenAgain(r) \/ ListedAgain(r)
      BY <3>1 DEF Ask, Relisten, ListenAgain, ListedAgain, TypeOK, Lone
    <3>2. CASE Refreshed(r)
      <4>1. Lone' <=> Lone
        BY <3>2 DEF Refreshed, Lone
      <4> QED  BY <3>2, <4>1 DEF Refreshed, TypeOK
    <3> QED  BY <1>2, <3>1, <3>2 DEF Refresh
  <2> QED  BY <2>1 DEF ProcessInv
<1>3. ASSUME NEW a \in Acts, Click(a) PROVE ProcessInv'
  <2>1. clicks + 1 \in Uses /\ clicks \in Nat /\ clicks' = clicks + 1 /\ MaxClicks \in Nat
    BY <1>3, DesktopAssumption DEF Click, TypeOK, Uses
  <2>2. /\ at' = [at EXCEPT ![clicks + 1] = "StopPort"]
        /\ act' = [act EXCEPT ![clicks + 1] = a] /\ UNCHANGED <<refresh, mounts>>
        /\ Overlapping => ~Lone'
    BY <1>3 DEF Click, Goto, Lone
  <2>3. \A v \in Uses : v # clicks + 1 => at'[v] = at[v] /\ act'[v] = act[v]
    BY <2>2 DEF TypeOK
  <2>4. at'[clicks + 1] = "StopPort"
    BY <2>1, <2>2 DEF TypeOK
  <2>5. Lone' => \A v \in Uses : v # clicks' => at'[v] = "Idle"
    BY <2>1, <2>2, <2>3 DEF Overlapping
  <2>6. at'[0] = "Idle" /\ \A v \in Uses : v > clicks' => at'[v] = "Idle"
    BY <2>1, <2>3, 0 \in Uses DEF ProcessInv, Uses
  <2> QED  BY <2>2, <2>3, <2>4, <2>5, <2>6 DEF ProcessInv
<1>4. CASE Mount
  <2>1. \A r \in Mounts : r > mounts' => refresh'[r] = refresh[r] /\ r > mounts
    BY <1>4, DesktopAssumption DEF Mount, TypeOK, Mounts
  <2> QED  BY <1>4, <2>1 DEF Mount, ProcessInv, Lone
<1>5. CASE SendData \/ DataSent \/ SendFails \/ OnEvent \/ UNCHANGED vars
  BY <1>5 DEF SendData, DataSent, SendFails, OnEvent, vars, ProcessInv, Lone
<1>6. ASSUME NEW r \in Links, HandleLine(r) \/ Reader(r) \/ PortFails(r) PROVE ProcessInv'
  BY <1>6 DEF HandleLine, Reader, LineHandled, ReaderStops, PortFails, ProcessInv, Lone
<1>7. ASSUME NEW s \in Sessions, ServePeer(s) PROVE ProcessInv'
  <2>1. UNCHANGED <<at, act, clicks, refresh, mounts>>
    BY <1>7 DEF ServePeer, PeerChecked, Install, InstallFails, SetFlag, Say, PeerEnds, SessionStep
  <2>2. Lone' <=> Lone
    BY <1>7 DEF ServePeer, PeerChecked, Install, InstallFails, SetFlag, Say, NewsOf, PeerEnds, Lone
  <2> QED  BY <2>1, <2>2 DEF ProcessInv
<1> QED
  BY <1>1, <1>2, <1>3, <1>4, <1>5, <1>6, <1>7 DEF Next

\* At most one reader outlives its link, and only while it is waited for.
LEMMA ReaderKept == TypeOK /\ ProcessInv /\ OneReader /\ [Next]_vars => OneReader'
<1> SUFFICES ASSUME TypeOK, ProcessInv, OneReader, [Next]_vars PROVE OneReader'
  OBVIOUS
<1> USE DEF useVars, refreshVars, storeVars, linkVars, wifiVars
<1>1. \A l \in Links : l # 0
  BY DEF Links
<1>2. (\A l \in Links : ~Alive(l)) => \A l \in Links : reader[l] \notin {"Reading", "Handling"}
  BY <1>1 DEF Alive
<1>3. ASSUME NEW u \in Uses, Action(u) PROVE OneReader'
  <2>1. CASE Shutdown(u, "StopPort", "JoinStop") \/ Shutdown(u, "StartPort", "JoinStart")
    BY <2>1 DEF Shutdown, Goto, TypeOK, OneReader, Alive
  <2>2. CASE JoinReader(u)
    BY <1>2, <2>2 DEF JoinReader, Joined, OneReader, Alive
  <2>3. CASE Open(u)
    <3>1. \A l \in Links : reader[l] \notin {"Reading", "Handling"}
      BY <1>2, <2>3 DEF Open, Joined
    <3> QED  BY <2>3, <3>1 DEF Open, TypeOK, OneReader, Alive
  <2>4. ASSUME UNCHANGED linkVars, NEW q, at' = [at EXCEPT ![u] = q], at[u] \notin {"JoinStop", "JoinStart"}
        PROVE  OneReader'
    BY <2>4 DEF TypeOK, OneReader, Alive
  <2>5. CASE StopWifi(u) \/ Stopped(u) \/ Listen(u) \/ Listed(u) \/ NotFound(u) \/ BeginAuth(u) \/ StartWifi(u)
             \/ Started(u) \/ Failed(u)
    <3> HIDE DEF linkVars
    <3>1. UNCHANGED linkVars /\ at[u] \notin {"JoinStop", "JoinStart"} /\ \E q : at' = [at EXCEPT ![u] = q]
      BY <2>5 DEF StopWifi, Stopped, Listen, Listed, NotFound, BeginAuth, StartWifi, Started, Failed, Goto
    <3> QED  BY <2>4, <3>1
  <2> QED  BY <1>3, <2>1, <2>2, <2>3, <2>5 DEF Action
<1>4. ASSUME NEW r \in Links, HandleLine(r) \/ Reader(r) \/ PortFails(r) PROVE OneReader'
  BY <1>4 DEF HandleLine, Reader, LineHandled, ReaderStops, PortFails, TypeOK, OneReader, Alive
<1>5. ASSUME UNCHANGED <<at, linkVars>> PROVE OneReader'
  BY <1>5 DEF OneReader, Alive
<1>6. CASE \E r \in Mounts : Refresh(r)
  BY <1>5, <1>6 DEF Refresh, Ask, Relisten, ListenAgain, ListedAgain, Refreshed
<1>7. ASSUME NEW a \in Acts, Click(a) PROVE OneReader'
  <2>1. clicks + 1 \in Uses /\ at[clicks + 1] = "Idle"
    BY <1>7, DesktopAssumption DEF Click, TypeOK, Uses, ProcessInv
  <2>2. at' = [at EXCEPT ![clicks + 1] = "StopPort"] /\ UNCHANGED linkVars
    BY <1>7 DEF Click, Goto
  <2> QED  BY <2>1, <2>2 DEF TypeOK, OneReader, Alive
<1>8. CASE \E s \in Sessions : ServePeer(s)
  BY <1>5, <1>8 DEF ServePeer, PeerChecked, Install, InstallFails, SetFlag, Say, PeerEnds, SessionStep
<1>9. CASE Mount \/ SendData \/ DataSent \/ SendFails \/ OnEvent \/ UNCHANGED vars
  BY <1>5, <1>9 DEF Mount, SendData, DataSent, SendFails, OnEvent, vars
<1> QED
  BY <1>3, <1>4, <1>6, <1>7, <1>8, <1>9 DEF Next

\* Sessions get their listener before anything else.
LEMMA SessionKept == TypeOK /\ SessionInv /\ [Next]_vars => SessionInv'
<1> SUFFICES ASSUME TypeOK, SessionInv, [Next]_vars PROVE SessionInv'
  OBVIOUS
<1> USE DEF useVars, refreshVars, storeVars, linkVars, wifiVars
<1>1. ASSUME UNCHANGED <<session, host>>, slots' \subseteq slots PROVE SessionInv'
  BY <1>1 DEF SessionInv
<1>2. CASE \E u \in Uses : Action(u)
  BY <1>1, <1>2 DEF Action, Shutdown, JoinReader, StopWifi, Stopped, Listen, Listed, NotFound, Open, BeginAuth,
                    StartWifi, Started, Failed
<1>3. CASE \E r \in Mounts : Refresh(r)
  BY <1>1, <1>3 DEF Refresh, Ask, Relisten, ListenAgain, ListedAgain, Refreshed
<1>4. CASE \E r \in Links : HandleLine(r) \/ Reader(r) \/ PortFails(r)
  BY <1>1, <1>4 DEF HandleLine, Reader, LineHandled, ReaderStops, PortFails
<1>5. CASE Mount \/ SendData \/ DataSent \/ SendFails \/ OnEvent \/ (\E a \in Acts : Click(a)) \/ UNCHANGED vars
  BY <1>1, <1>5 DEF Mount, SendData, DataSent, SendFails, OnEvent, Click, vars
<1>6. ASSUME NEW s \in Sessions, ServePeer(s) PROVE SessionInv'
  <2>1. CASE PeerChecked(s)
    BY <2>1 DEF PeerChecked, SessionStep, SessionInv, TypeOK
  <2>2. ASSUME NEW from, NEW to, SessionStep(s, from, to), from # "None", to # "None", UNCHANGED host, slots' \subseteq slots \cup {s}
        PROVE  SessionInv'
    BY <2>2 DEF SessionStep, SessionInv, TypeOK
  <2>3. CASE Install(s) \/ InstallFails(s)
    BY <2>2, <2>3 DEF Install, InstallFails, Others
  <2>4. CASE SetFlag(s, "SetFlag", "SayUp", TRUE) \/ SetFlag(s, "ClearFlag", "SayDown", FALSE)
    BY <2>2, <2>4 DEF SetFlag
  <2>5. CASE Say(s, "SayUp", "Read", "WifiUp") \/ Say(s, "SayDown", "Over", "WifiDown")
    BY <2>2, <2>5 DEF Say
  <2>6. CASE PeerEnds(s)
    BY <2>2, <2>6 DEF PeerEnds
  <2> QED  BY <1>6, <2>1, <2>3, <2>4, <2>5, <2>6 DEF ServePeer
<1> QED
  BY <1>2, <1>3, <1>4, <1>5, <1>6 DEF Next

\* Who gets an event was registered before.
LEMMA FreshKept == TypeOK /\ ProcessInv /\ FreshInv /\ [Next]_vars => FreshInv'
<1> SUFFICES ASSUME TypeOK, ProcessInv, FreshInv, [Next]_vars PROVE FreshInv'
  OBVIOUS
<1> USE DEF useVars, refreshVars, storeVars, linkVars, wifiVars
<1>1. ASSUME NEW l, Unheard(l), l \notin heard',
             \/ UNCHANGED events
             \/ events # <<>> /\ events' = Tail(events)
             \/ \E w : events' = Append(events, [what |-> w, to |-> heard])
      PROVE  Unheard(l)'
  <2>1. events \in Seq(AnEvent) /\ Len(events) \in Nat
    BY DEF TypeOK, AnEvent
  <2>2. CASE UNCHANGED events
    BY <1>1, <2>2 DEF Unheard
  <2>3. CASE events # <<>> /\ events' = Tail(events)
    <3>1. Len(events') = Len(events) - 1 /\ \A i \in 1..Len(events') : events'[i] = events[i + 1] /\ i + 1 \in 1..Len(events)
      BY <2>1, <2>3
    <3> QED  BY <1>1, <3>1 DEF Unheard
  <2>4. ASSUME NEW w, events' = Append(events, [what |-> w, to |-> heard]) PROVE Unheard(l)'
    <3>1. Len(events') = Len(events) + 1 /\ events'[Len(events) + 1].to = heard /\ \A i \in 1..Len(events) : events'[i] = events[i]
      BY <2>1, <2>4
    <3>2. \A i \in 1..Len(events') : i \in 1..Len(events) \/ i = Len(events) + 1
      BY <2>1, <3>1
    <3> QED  BY <1>1, <3>1, <3>2 DEF Unheard
  <2> QED  BY <1>1, <2>2, <2>3, <2>4
<1>2. /\ {MaxClicks, MaxMounts, clicks, mounts} \subseteq Nat
      /\ \A u \in Uses \ {0} : ByUse(u) = u /\ u \in 1..MaxClicks
      /\ \A r \in Mounts : ByRefresh(r) = MaxClicks + r /\ r \in Nat \ {0}
  BY DesktopAssumption DEF TypeOK, Uses, Mounts, ByUse, ByRefresh
<1>3. \A r \in Mounts, u \in Uses : ByRefresh(r) # ByUse(u)
  BY DesktopAssumption DEF Uses, Mounts, ByUse, ByRefresh
<1>4. ASSUME NEW u \in Uses, Action(u) PROVE FreshInv'
  <2>1. u \in 1..clicks /\ UNCHANGED <<clicks, refresh, mounts, events>>
    BY <1>4, UseStep
  <2>2. PICK q \in Phases :
          /\ at' = [at EXCEPT ![u] = q]
          /\ q \in FreshPhases => at[u] \in FreshPhases
          /\ heard' \subseteq heard \/ (heard' = heard \cup {u} /\ q = "Listed")
    BY <1>4, UseStep
  <2>3. ASSUME NEW v \in Uses \ {0}, FreshUse(v)' PROVE FreshUse(v) /\ ByUse(v) \notin heard'
    <3>1. FreshUse(v)
      BY <2>1, <2>2, <2>3 DEF FreshUse, TypeOK
    <3>2. CASE v # u
      BY <1>2, <2>2, <3>1, <3>2 DEF FreshInv, Unheard
    <3>3. CASE v = u
      <4>1. q # "Listed"
        BY <1>2, <2>1, <2>2, <2>3, <3>3 DEF FreshUse, FreshPhases, TypeOK
      <4> QED  BY <2>2, <3>1, <4>1 DEF FreshInv, Unheard
    <3> QED  BY <3>1, <3>2, <3>3
  <2>4. ASSUME NEW r \in Mounts, FreshRefresh(r)' PROVE FreshRefresh(r) /\ ByRefresh(r) \notin heard'
    <3>1. FreshRefresh(r)
      BY <2>1, <2>4 DEF FreshRefresh
    <3>2. ByRefresh(r) # u
      BY <1>3 DEF ByUse
    <3> QED  BY <2>2, <3>1, <3>2 DEF FreshInv, Unheard
  <2> QED  BY <1>1, <2>1, <2>3, <2>4 DEF FreshInv
<1>5. ASSUME NEW r \in Mounts, Refresh(r) PROVE FreshInv'
  <2>1. /\ UNCHANGED <<at, clicks, mounts, events>>
        /\ \A v \in Mounts : FreshRefresh(v)' => FreshRefresh(v)
        /\ heard' = heard \/ (heard' = heard \cup {ByRefresh(r)} /\ refresh' = [refresh EXCEPT ![r] = "Listed"])
    BY <1>5 DEF Refresh, Ask, Relisten, ListenAgain, ListedAgain, Refreshed, FreshRefresh, TypeOK
  <2>2. \A u \in Uses \ {0} : (FreshUse(u)' <=> FreshUse(u)) /\ (FreshUse(u) => ByUse(u) \notin heard')
    BY <1>3, <2>1 DEF FreshInv, FreshUse, Unheard
  <2>3. ASSUME NEW v \in Mounts, FreshRefresh(v)' PROVE ByRefresh(v) \notin heard'
    <3>1. CASE heard' = heard \/ v # r
      BY <1>2, <2>1, <2>3, <3>1 DEF FreshInv, Unheard
    <3>2. CASE v = r /\ refresh' = [refresh EXCEPT ![r] = "Listed"]
      <4>1. v > mounts
        BY <2>1, <2>3, <3>2 DEF FreshRefresh, TypeOK
      <4>2. refresh[r] = "Idle"
        BY <3>2, <4>1 DEF ProcessInv
      <4> QED  BY <1>5, <4>2 DEF Refresh, Ask, Relisten, ListenAgain, ListedAgain, Refreshed
    <3> QED  BY <2>1, <3>1, <3>2
  <2> QED  BY <1>1, <2>1, <2>2, <2>3 DEF FreshInv
<1>6. ASSUME NEW a \in Acts, Click(a) PROVE FreshInv'
  <2>1. clicks' = clicks + 1 /\ at' = [at EXCEPT ![clicks + 1] = "StopPort"] /\ UNCHANGED <<refresh, mounts, heard, events>>
    BY <1>6 DEF Click, Goto
  <2>2. \A v \in Uses \ {0} : FreshUse(v)' => FreshUse(v)
    BY <1>2, <2>1 DEF FreshUse, TypeOK
  <2> QED  BY <1>1, <2>1, <2>2 DEF FreshInv, FreshRefresh, Unheard
<1>7. CASE Mount
  <2>1. mounts' = mounts + 1 /\ refresh' = [refresh EXCEPT ![mounts + 1] = "Ask"] /\ UNCHANGED <<at, clicks, heard, events>>
    BY <1>7 DEF Mount
  <2>2. \A r \in Mounts : FreshRefresh(r)' => FreshRefresh(r)
    BY <1>2, <2>1 DEF FreshRefresh, TypeOK
  <2> QED  BY <1>1, <2>1, <2>2 DEF FreshInv, FreshUse, Unheard
<1>8. ASSUME UNCHANGED <<at, clicks, refresh, mounts, heard>>,
             \/ UNCHANGED events
             \/ events # <<>> /\ events' = Tail(events)
             \/ \E w : events' = Append(events, [what |-> w, to |-> heard])
      PROVE  FreshInv'
  BY <1>1, <1>8 DEF FreshInv, FreshUse, FreshRefresh, Unheard
<1>9. CASE \E r \in Links : HandleLine(r) \/ Reader(r) \/ PortFails(r)
  BY <1>8, <1>9 DEF HandleLine, Reader, LineHandled, ReaderStops, PortFails, Report, Emit
<1>10. CASE \E s \in Sessions : ServePeer(s)
  BY <1>8, <1>10 DEF ServePeer, PeerChecked, Install, InstallFails, SetFlag, Say, Emit, PeerEnds, SessionStep
<1>11. CASE SendData \/ DataSent \/ SendFails \/ OnEvent \/ UNCHANGED vars
  BY <1>8, <1>11 DEF SendData, DataSent, SendFails, OnEvent, vars
<1> QED
  BY <1>4, <1>5, <1>6, <1>7, <1>9, <1>10, <1>11 DEF Next

\* A listener whose registration is still to be noted stays.
LEMMA ListedKept == TypeOK /\ ProcessInv /\ FreshInv /\ ListedInv /\ [Next]_vars => ListedInv'
<1> SUFFICES ASSUME TypeOK, ProcessInv, FreshInv, ListedInv, [Next]_vars PROVE ListedInv'
  OBVIOUS
<1> USE DEF useVars, refreshVars, storeVars, linkVars, wifiVars
<1>1. \A r \in Mounts, u \in Uses : ByRefresh(r) # ByUse(u)
  BY DesktopAssumption DEF Uses, Mounts, ByUse, ByRefresh
<1>2. \A r, v \in Mounts : ByRefresh(r) = ByRefresh(v) => r = v
  BY DesktopAssumption DEF Mounts, ByRefresh
<1>3. \A g : g \notin heard => g \notin listening
  BY DEF TypeOK
<1>4. ASSUME UNCHANGED <<at, refresh, heard, listening>> PROVE ListedInv'
  BY <1>4 DEF ListedInv
<1>5. ASSUME NEW u \in Uses, Action(u) PROVE ListedInv'
  <2>1. UNCHANGED refresh /\ u # 0 /\ u <= clicks /\ clicks \in Nat
    <3>1. UNCHANGED refresh /\ u \in 1..clicks
      BY <1>5, UseStep
    <3>2. clicks \in Nat
      BY DesktopAssumption DEF TypeOK, Uses
    <3> QED  BY <3>1, <3>2
  <2>2. ASSUME heard \ listening \subseteq heard' \ listening', NEW q, q # "Listed", at' = [at EXCEPT ![u] = q]
        PROVE  ListedInv'
    BY <2>1, <2>2 DEF ListedInv, TypeOK
  <2>3. CASE Listen(u)
    <3>1. ByUse(u) \notin heard /\ ByUse(u) \notin listening
      BY <1>3, <2>1, <2>3 DEF Listen, FreshInv, FreshUse, FreshPhases, Unheard
    <3> QED  BY <2>1, <2>3, <3>1 DEF Listen, Goto, ListedInv, TypeOK
  <2>4. CASE Listed(u)
    <3>1. /\ at' = [at EXCEPT ![u] = IF act[u] = "Wi-Fi" THEN "StartWifi" ELSE "StartPort"]
          /\ heard' = heard /\ listening' = listening \cup {ByUse(u)}
      BY <2>4 DEF Listed, Goto
    <3>2. ASSUME NEW v \in Uses, at'[v] = "Listed" PROVE ByUse(v) \in heard' \ listening'
      BY <3>1, <3>2 DEF ListedInv, TypeOK, ByUse
    <3>3. ASSUME NEW r \in Mounts, refresh[r] = "Listed" PROVE ByRefresh(r) \in heard' \ listening'
      BY <1>1, <3>1, <3>3 DEF ListedInv
    <3> QED  BY <2>1, <3>2, <3>3 DEF ListedInv
  <2>5. CASE Stopped(u)
    <3>1. heard \ listening \subseteq heard' \ listening'
      BY <2>5 DEF Stopped, RemoveListeners
    <3>2. \E q : q # "Listed" /\ at' = [at EXCEPT ![u] = q]
      BY <2>5 DEF Stopped, Goto
    <3> QED  BY <2>2, <3>1, <3>2
  <2>6. CASE Failed(u)
    <3>1. heard \ listening \subseteq heard' \ listening'
      BY <2>6 DEF Failed, RemoveListeners
    <3>2. \E q : q # "Listed" /\ at' = [at EXCEPT ![u] = q]
      BY <2>6 DEF Failed, Goto
    <3> QED  BY <2>2, <3>1, <3>2
  <2>7. CASE Shutdown(u, "StopPort", "JoinStop") \/ JoinReader(u) \/ StopWifi(u) \/ NotFound(u)
             \/ Shutdown(u, "StartPort", "JoinStart") \/ Open(u) \/ BeginAuth(u) \/ StartWifi(u) \/ Started(u)
    <3>1. UNCHANGED <<heard, listening>>
      BY <2>7 DEF Shutdown, JoinReader, StopWifi, NotFound, Open, BeginAuth, StartWifi, Started
    <3>2. \E q : q # "Listed" /\ at' = [at EXCEPT ![u] = q]
      BY <2>7 DEF Shutdown, JoinReader, StopWifi, NotFound, Open, BeginAuth, StartWifi, Started, Goto
    <3> QED  BY <2>2, <3>1, <3>2
  <2> QED  BY <1>5, <2>3, <2>4, <2>5, <2>6, <2>7 DEF Action
<1>6. ASSUME NEW r \in Mounts, Refresh(r) PROVE ListedInv'
  <2>1. UNCHANGED at
    BY <1>6 DEF Refresh, Ask, Relisten, ListenAgain, ListedAgain, Refreshed
  <2>2. ASSUME UNCHANGED <<heard, listening>>, NEW q, q # "Listed", refresh' = [refresh EXCEPT ![r] = q]
        PROVE  ListedInv'
    BY <2>1, <2>2 DEF ListedInv, TypeOK
  <2>3. CASE ListenAgain(r)
    <3>1. ByRefresh(r) \notin heard /\ ByRefresh(r) \notin listening
      BY <1>3, <2>3 DEF ListenAgain, FreshInv, FreshRefresh, Unheard
    <3> QED  BY <2>1, <2>3, <3>1 DEF ListenAgain, ListedInv, TypeOK
  <2>4. CASE ListedAgain(r)
    <3>1. ASSUME NEW v \in Mounts, refresh'[v] = "Listed" PROVE ByRefresh(v) \in heard' \ listening'
      BY <1>2, <2>4, <3>1 DEF ListedAgain, ListedInv, TypeOK
    <3>2. ASSUME NEW u \in Uses, at[u] = "Listed" PROVE ByUse(u) \in heard' \ listening'
      BY <1>1, <2>4, <3>2 DEF ListedAgain, ListedInv
    <3> QED  BY <2>1, <3>1, <3>2 DEF ListedInv
  <2>5. CASE Ask(r, "Ask", "Asked") \/ Ask(r, "AskAgain", "Again") \/ Relisten(r) \/ Refreshed(r)
    BY <2>2, <2>5 DEF Ask, Relisten, Refreshed
  <2> QED  BY <1>6, <2>3, <2>4, <2>5 DEF Refresh
<1>7. ASSUME NEW a \in Acts, Click(a) PROVE ListedInv'
  BY <1>7 DEF Click, Goto, ListedInv, TypeOK
<1>8. CASE Mount
  BY <1>8 DEF Mount, ListedInv, TypeOK
<1>9. CASE \E r \in Links : HandleLine(r) \/ Reader(r) \/ PortFails(r)
  BY <1>4, <1>9 DEF HandleLine, Reader, LineHandled, ReaderStops, PortFails
<1>10. CASE \E s \in Sessions : ServePeer(s)
  BY <1>4, <1>10 DEF ServePeer, PeerChecked, Install, InstallFails, SetFlag, Say, PeerEnds, SessionStep
<1>11. CASE SendData \/ DataSent \/ SendFails \/ OnEvent \/ UNCHANGED vars
  BY <1>4, <1>11 DEF SendData, DataSent, SendFails, OnEvent, vars
<1> QED
  BY <1>5, <1>6, <1>7, <1>8, <1>9, <1>10, <1>11 DEF Next

-----------------------------------------------------------------------------
(* Types. *)

UseTypes ==
  /\ act \in [Uses -> Acts] /\ at \in [Uses -> Phases] /\ clicks \in Uses /\ form \in Uses
RefreshTypes ==
  /\ refresh \in [Mounts -> {"Idle", "Ask", "Asked", "Listen", "Listed", "AskAgain", "Again"}]
  /\ answer \in [Mounts -> [listening : BOOLEAN, connected : BOOLEAN]] /\ mounts \in 0..MaxMounts
StoreTypes ==
  /\ portStat \in {"Disconnected", "Connected", "Listening", "Error"}
  /\ mode \in ComPorts \cup {"Wi-Fi", "None"}
  /\ heard \subseteq 1..(MaxClicks + MaxMounts) /\ listening \subseteq heard
LinkTypes ==
  /\ link \in 0..MaxLinks /\ kind \in [Links -> ComPorts] /\ running \in BOOLEAN
  /\ reader \in [Links -> {"None", "Reading", "Handling", "Ended"}]
  /\ appLock \in {"Free", "Action", "Send"} /\ linkLock \in {"Free", "Reader"}
WifiTypes ==
  /\ listeners \in Nat /\ wifi \in 0..listeners /\ host \in [Sessions -> 0..listeners]
  /\ session \in [Sessions -> {"None", "Checked", "SetFlag", "SayUp", "Read", "ClearFlag", "SayDown", "Over"}]
  /\ slots \in SUBSET Sessions
EventTypes ==
  /\ events \in Seq(AnEvent)
  /\ races \subseteq {"Overlap", "Reader", "Answer", "News"}
FlagType == flag \in BOOLEAN

LEMMA TypeParts ==
  TypeOK <=> UseTypes /\ RefreshTypes /\ StoreTypes /\ LinkTypes /\ WifiTypes /\ FlagType /\ EventTypes
<1>1. {clicks, form} \subseteq Uses <=> clicks \in Uses /\ form \in Uses
  OBVIOUS
<1>2. {running, flag} \subseteq BOOLEAN <=> running \in BOOLEAN /\ flag \in BOOLEAN
  OBVIOUS
<1> QED
  BY <1>1, <1>2, Zenon DEF TypeOK, UseTypes, RefreshTypes, StoreTypes, LinkTypes, WifiTypes, FlagType, EventTypes, AnEvent

LEMMA TypesKept == TypeOK /\ ProcessInv /\ ListedInv /\ [Next]_vars => TypeOK'
<1> SUFFICES ASSUME TypeOK, ProcessInv, ListedInv, [Next]_vars PROVE TypeOK'
  OBVIOUS
<1>0. UseTypes /\ RefreshTypes /\ StoreTypes /\ LinkTypes /\ WifiTypes /\ FlagType /\ EventTypes
  BY TypeParts
<1> USE DEF useVars, refreshVars, storeVars, linkVars, wifiVars
<1>1. UseTypes'
  <2> USE DEF UseTypes
  <2>1. ASSUME NEW u \in Uses, Action(u) PROVE UseTypes'
    <3>1. UNCHANGED <<act, clicks, form>> /\ \E q \in Phases : at' = [at EXCEPT ![u] = q]
      BY <2>1, UseStep
    <3> QED  BY <1>0, <3>1
  <2>2. ASSUME NEW a \in Acts, Click(a) PROVE UseTypes'
    <3>1. clicks + 1 \in Uses
      BY <1>0, <2>2, DesktopAssumption DEF Click, Uses
    <3> QED  BY <1>0, <2>2, <3>1 DEF Click, Goto, Phases
  <2>3. CASE Mount
    BY <1>0, <2>3, DesktopAssumption DEF Mount, Uses
  <2>4. CASE (\E r \in Mounts : Refresh(r)) \/ SendData \/ DataSent \/ SendFails \/ OnEvent \/ UNCHANGED vars
    BY <1>0, <2>4 DEF Refresh, Ask, Relisten, ListenAgain, ListedAgain, Refreshed, SendData, DataSent, SendFails, OnEvent, vars
  <2>5. CASE \E r \in Links : HandleLine(r) \/ Reader(r) \/ PortFails(r)
    BY <1>0, <2>5 DEF HandleLine, Reader, LineHandled, ReaderStops, PortFails
  <2>6. CASE \E s \in Sessions : ServePeer(s)
    BY <1>0, <2>6 DEF ServePeer, PeerChecked, Install, InstallFails, SetFlag, Say, PeerEnds, SessionStep
  <2> QED  BY <2>1, <2>2, <2>3, <2>4, <2>5, <2>6 DEF Next
<1>2. RefreshTypes'
  <2> USE DEF RefreshTypes
  <2>1. CASE \E u \in Uses : Action(u)
    BY <1>0, <2>1, UseStep
  <2>2. ASSUME NEW r \in Mounts, Refresh(r) PROVE RefreshTypes'
    <3>1. CurrentStatus \in [listening : BOOLEAN, connected : BOOLEAN]
      BY <1>0 DEF CurrentStatus, FlagType
    <3>2. NoStatus \in [listening : BOOLEAN, connected : BOOLEAN]
      BY DEF NoStatus
    <3> QED  BY <1>0, <2>2, <3>1, <3>2 DEF Refresh, Ask, Relisten, ListenAgain, ListedAgain, Refreshed
  <2>3. CASE Mount
    <3>1. mounts + 1 \in 0..MaxMounts /\ mounts' = mounts + 1
      <4>1. MaxMounts \in Nat
        BY DesktopAssumption
      <4> QED  BY <1>0, <2>3, <4>1 DEF Mount
    <3> QED  BY <1>0, <2>3, <3>1 DEF Mount
  <2>4. CASE (\E a \in Acts : Click(a)) \/ SendData \/ DataSent \/ SendFails \/ OnEvent \/ UNCHANGED vars
    BY <1>0, <2>4 DEF Click, SendData, DataSent, SendFails, OnEvent, vars
  <2>5. CASE \E r \in Links : HandleLine(r) \/ Reader(r) \/ PortFails(r)
    BY <1>0, <2>5 DEF HandleLine, Reader, LineHandled, ReaderStops, PortFails
  <2>6. CASE \E s \in Sessions : ServePeer(s)
    BY <1>0, <2>6 DEF ServePeer, PeerChecked, Install, InstallFails, SetFlag, Say, PeerEnds, SessionStep
  <2> QED  BY <2>1, <2>2, <2>3, <2>4, <2>5, <2>6 DEF Next
<1>3. StoreTypes'
  <2> USE DEF StoreTypes
  <2>1. ASSUME NEW u \in Uses, Action(u) PROVE StoreTypes'
    <3>1. CASE Stopped(u)
      BY <1>0, <3>1 DEF Stopped, RemoveListeners, UseTypes, Acts
    <3>2. CASE Listen(u) \/ Listed(u)
      <4>1. ByUse(u) \in 1..(MaxClicks + MaxMounts)
        BY <1>0, <2>1, UseStep, DesktopAssumption DEF ByUse, UseTypes, Uses
      <4>2. CASE Listen(u)
        BY <1>0, <4>1, <4>2 DEF Listen
      <4>3. CASE Listed(u)
        <5>1. ByUse(u) \in heard
          BY <4>3 DEF Listed, ListedInv
        <5> QED  BY <1>0, <4>3, <5>1 DEF Listed
      <4> QED  BY <3>2, <4>2, <4>3
    <3>3. CASE Started(u) \/ Failed(u)
      BY <1>0, <3>3 DEF Started, Failed, RemoveListeners
    <3>4. CASE Shutdown(u, "StopPort", "JoinStop") \/ JoinReader(u) \/ StopWifi(u) \/ NotFound(u)
               \/ Shutdown(u, "StartPort", "JoinStart") \/ Open(u) \/ BeginAuth(u) \/ StartWifi(u)
      BY <1>0, <3>4 DEF Shutdown, JoinReader, StopWifi, NotFound, Open, BeginAuth, StartWifi
    <3> QED  BY <2>1, <3>1, <3>2, <3>3, <3>4 DEF Action
  <2>2. ASSUME NEW r \in Mounts, Refresh(r) PROVE StoreTypes'
    <3>1. ByRefresh(r) \in 1..(MaxClicks + MaxMounts)
      BY DesktopAssumption DEF ByRefresh, Mounts
    <3>2. CASE Ask(r, "Ask", "Asked") \/ Ask(r, "AskAgain", "Again") \/ Relisten(r)
      BY <1>0, <3>2 DEF Ask, Relisten
    <3>3. CASE ListenAgain(r)
      BY <1>0, <3>1, <3>3 DEF ListenAgain
    <3>4. CASE ListedAgain(r)
      <4>1. ByRefresh(r) \in heard
        BY <3>4 DEF ListedAgain, ListedInv
      <4> QED  BY <1>0, <3>4, <4>1 DEF ListedAgain
    <3>5. CASE Refreshed(r)
      BY <1>0, <3>5 DEF Refreshed
    <3> QED  BY <2>2, <3>2, <3>3, <3>4, <3>5 DEF Refresh
  <2>3. CASE (\E a \in Acts : Click(a)) \/ Mount \/ SendData \/ DataSent \/ SendFails \/ UNCHANGED vars
    BY <1>0, <2>3 DEF Click, Mount, SendData, DataSent, SendFails, vars
  <2>4. CASE OnEvent
    BY <1>0, <2>4 DEF OnEvent
  <2>5. CASE \E r \in Links : HandleLine(r) \/ Reader(r) \/ PortFails(r)
    BY <1>0, <2>5 DEF HandleLine, Reader, LineHandled, ReaderStops, PortFails
  <2>6. CASE \E s \in Sessions : ServePeer(s)
    BY <1>0, <2>6 DEF ServePeer, PeerChecked, Install, InstallFails, SetFlag, Say, PeerEnds, SessionStep
  <2> QED  BY <2>1, <2>2, <2>3, <2>4, <2>5, <2>6 DEF Next
<1>4. LinkTypes'
  <2> USE DEF LinkTypes
  <2>1. ASSUME NEW u \in Uses, Action(u) PROVE LinkTypes'
    <3>1. CASE Shutdown(u, "StopPort", "JoinStop") \/ Shutdown(u, "StartPort", "JoinStart") \/ JoinReader(u) \/ BeginAuth(u)
      <4>1. 0 \in 0..MaxLinks
        BY DesktopAssumption
      <4> QED  BY <1>0, <3>1, <4>1 DEF Shutdown, JoinReader, BeginAuth
    <3>2. CASE Open(u)
      <4>1. act[u] \in ComPorts
        BY <3>2 DEF Open, ProcessInv
      <4>2. CASE \E l \in Links :
                  /\ link' = l /\ kind' = [kind EXCEPT ![l] = act[u]]
                  /\ reader' = [reader EXCEPT ![l] = "Reading"] /\ running' = TRUE
                  /\ UNCHANGED appLock
        <5>1. \A l \in Links : l \in 0..MaxLinks
          BY DEF Links
        <5> QED  BY <1>0, <3>2, <4>1, <4>2, <5>1 DEF Open
      <4>3. CASE appLock' = "Free" /\ UNCHANGED linkVars
        BY <1>0, <3>2, <4>3 DEF Open
      <4> QED  BY <3>2, <4>2, <4>3 DEF Open
    <3>3. CASE StopWifi(u) \/ Stopped(u) \/ Listen(u) \/ Listed(u) \/ NotFound(u) \/ StartWifi(u) \/ Started(u) \/ Failed(u)
      BY <1>0, <3>3 DEF StopWifi, Stopped, Listen, Listed, NotFound, StartWifi, Started, Failed
    <3> QED  BY <2>1, <3>1, <3>2, <3>3 DEF Action
  <2>2. CASE \E r \in Mounts : Refresh(r)
    BY <1>0, <2>2 DEF Refresh, Ask, Relisten, ListenAgain, ListedAgain, Refreshed
  <2>3. CASE (\E a \in Acts : Click(a)) \/ Mount \/ SendData \/ DataSent \/ SendFails \/ OnEvent \/ UNCHANGED vars
    BY <1>0, <2>3 DEF Click, Mount, SendData, DataSent, SendFails, OnEvent, vars
  <2>4. CASE \E r \in Links : HandleLine(r) \/ Reader(r) \/ PortFails(r)
    BY <1>0, <2>4 DEF HandleLine, Reader, LineHandled, ReaderStops, PortFails
  <2>5. CASE \E s \in Sessions : ServePeer(s)
    BY <1>0, <2>5 DEF ServePeer, PeerChecked, Install, InstallFails, SetFlag, Say, PeerEnds, SessionStep
  <2> QED  BY <2>1, <2>2, <2>3, <2>4, <2>5 DEF Next
<1>5. WifiTypes' /\ FlagType'
  <2> USE DEF WifiTypes, FlagType
  <2>1. ASSUME NEW u \in Uses, Action(u) PROVE WifiTypes' /\ FlagType'
    <3>1. CASE StopWifi(u)
      <4>1. 0 \in 0..listeners
        BY <1>0
      <4> QED  BY <1>0, <3>1, <4>1 DEF StopWifi
    <3>2. CASE StartWifi(u)
      <4>1. CASE wifi' = listeners + 1 /\ listeners' = listeners + 1 /\ flag' = FALSE
        <5>1. listeners + 1 \in Nat /\ listeners + 1 \in 0..(listeners + 1) /\ 0..listeners \subseteq 0..(listeners + 1)
          BY <1>0
        <5>2. host \in [Sessions -> 0..(listeners + 1)]
          BY <1>0, <5>1
        <5> QED  BY <1>0, <3>2, <4>1, <5>1, <5>2 DEF StartWifi
      <4>2. CASE UNCHANGED <<wifi, listeners, flag>>
        BY <1>0, <3>2, <4>2 DEF StartWifi
      <4> QED  BY <3>2, <4>1, <4>2 DEF StartWifi
    <3>3. CASE Shutdown(u, "StopPort", "JoinStop") \/ JoinReader(u) \/ Stopped(u) \/ Listen(u) \/ Listed(u) \/ NotFound(u)
               \/ Shutdown(u, "StartPort", "JoinStart") \/ Open(u) \/ BeginAuth(u) \/ Started(u) \/ Failed(u)
      BY <1>0, <3>3 DEF Shutdown, JoinReader, Stopped, Listen, Listed, NotFound, Open, BeginAuth, Started, Failed
    <3> QED  BY <2>1, <3>1, <3>2, <3>3 DEF Action
  <2>2. CASE \E r \in Mounts : Refresh(r)
    BY <1>0, <2>2 DEF Refresh, Ask, Relisten, ListenAgain, ListedAgain, Refreshed
  <2>3. CASE (\E a \in Acts : Click(a)) \/ Mount \/ SendData \/ DataSent \/ SendFails \/ OnEvent \/ UNCHANGED vars
    BY <1>0, <2>3 DEF Click, Mount, SendData, DataSent, SendFails, OnEvent, vars
  <2>4. CASE \E r \in Links : HandleLine(r) \/ Reader(r) \/ PortFails(r)
    BY <1>0, <2>4 DEF HandleLine, Reader, LineHandled, ReaderStops, PortFails
  <2>5. ASSUME NEW s \in Sessions, ServePeer(s) PROVE WifiTypes' /\ FlagType'
    <3>1. CASE PeerChecked(s)
      BY <1>0, <3>1 DEF PeerChecked, SessionStep
    <3>2. CASE Install(s) \/ InstallFails(s) \/ PeerEnds(s)
      BY <1>0, <3>2 DEF Install, InstallFails, PeerEnds, SessionStep, Others
    <3>3. CASE SetFlag(s, "SetFlag", "SayUp", TRUE) \/ SetFlag(s, "ClearFlag", "SayDown", FALSE)
               \/ Say(s, "SayUp", "Read", "WifiUp") \/ Say(s, "SayDown", "Over", "WifiDown")
      BY <1>0, <3>3 DEF SetFlag, Say, SessionStep
    <3> QED  BY <2>5, <3>1, <3>2, <3>3 DEF ServePeer
  <2> QED  BY <2>1, <2>2, <2>3, <2>4, <2>5 DEF Next
<1>6. EventTypes'
  <2> USE DEF EventTypes
  <2>1. ASSUME NEW w \in EventKinds, Emit(w) PROVE events' \in Seq(AnEvent)
    <3>1. [what |-> w, to |-> heard] \in AnEvent
      BY <1>0 DEF AnEvent, StoreTypes
    <3> QED  BY <1>0, <2>1, <3>1 DEF Emit
  <2>2. ASSUME UNCHANGED <<events, races>> PROVE EventTypes'
    BY <1>0, <2>2
  <2>3. ASSUME NEW u \in Uses, Action(u) PROVE EventTypes'
    <3>1. UNCHANGED events
      BY <2>3, UseStep
    <3>2. races' \subseteq {"Overlap", "Reader", "Answer", "News"}
      <4>1. CASE Stopped(u) \/ Started(u) \/ Failed(u)
        BY <1>0, <4>1 DEF Stopped, Started, Failed, Outlived
      <4>2. CASE UNCHANGED races
        BY <1>0, <4>2
      <4> QED
        BY <2>3, <4>1, <4>2 DEF Action, Shutdown, JoinReader, StopWifi, Listen, Listed, NotFound, Open, BeginAuth, StartWifi
    <3> QED  BY <1>0, <3>1, <3>2
  <2>4. CASE \E r \in Mounts : Refresh(r)
    BY <1>0, <2>4 DEF Refresh, Ask, Relisten, ListenAgain, ListedAgain, Refreshed
  <2>5. CASE (\E a \in Acts : Click(a)) \/ Mount \/ SendData \/ DataSent \/ SendFails \/ UNCHANGED vars
    BY <1>0, <2>5 DEF Click, Mount, SendData, DataSent, SendFails, vars
  <2>6. CASE OnEvent
    BY <1>0, <2>6 DEF OnEvent
  <2>7. ASSUME NEW r \in Links, HandleLine(r) \/ Reader(r) \/ PortFails(r) PROVE EventTypes'
    <3>1. CASE PortFails(r)
      <4>1. kind[r] \in EventKinds
        BY <1>0 DEF LinkTypes, EventKinds
      <4>2. events' \in Seq(AnEvent)
        BY <1>0, <2>1, <3>1, <4>1 DEF PortFails, Report
      <4> QED  BY <1>0, <3>1, <4>2 DEF PortFails
    <3>2. CASE HandleLine(r) \/ Reader(r)
      BY <2>2, <3>2 DEF HandleLine, Reader, LineHandled, ReaderStops
    <3> QED  BY <2>7, <3>1, <3>2
  <2>8. ASSUME NEW s \in Sessions, ServePeer(s) PROVE EventTypes'
    <3>1. CASE PeerChecked(s) \/ Install(s) \/ PeerEnds(s) \/ SetFlag(s, "SetFlag", "SayUp", TRUE)
               \/ SetFlag(s, "ClearFlag", "SayDown", FALSE)
      BY <2>2, <3>1 DEF PeerChecked, Install, PeerEnds, SetFlag
    <3>2. CASE InstallFails(s)
      BY <1>0, <3>2 DEF InstallFails
    <3>3. CASE Say(s, "SayUp", "Read", "WifiUp") \/ Say(s, "SayDown", "Over", "WifiDown")
      <4>1. events' \in Seq(AnEvent)
        BY <2>1, <3>3 DEF Say, EventKinds
      <4> QED  BY <1>0, <3>3, <4>1 DEF Say, NewsOf
    <3> QED  BY <2>8, <3>1, <3>2, <3>3 DEF ServePeer
  <2> QED  BY <2>3, <2>4, <2>5, <2>6, <2>7, <2>8 DEF Next
<1> QED
  <2>1. TypeOK' <=> (UseTypes /\ RefreshTypes /\ StoreTypes /\ LinkTypes /\ WifiTypes /\ FlagType /\ EventTypes)'
    BY TypeParts, PTL
  <2> QED  BY <1>1, <1>2, <1>3, <1>4, <1>5, <1>6, <2>1

-----------------------------------------------------------------------------
(* What holds unless uses overlap. *)

\* Without a listener there is no session to speak of.
LEMMA NoPeer == TypeOK /\ SessionInv /\ wifi = 0 => ~Peer
BY DEF SessionInv, Peer, TypeOK

\* The only use that runs is the latest.
LEMMA LoneUse ==
  ASSUME TypeOK, ProcessInv, Lone, NEW u \in Uses, at[u] # "Idle", NEW q, at' = [at EXCEPT ![u] = q],
         UNCHANGED <<act, clicks>>
  PROVE  /\ u = clicks /\ Now = at[u] /\ Now' = q /\ Doing = act[u] /\ Doing' = Doing
         /\ Now \in Phases /\ Doing \in Acts
BY DEF ProcessInv, Now, Doing, TypeOK

\* Steps that change nothing of what is open, shown or heard, and say so of the peer
\* when they have changed that.
LEMMA SilentKeeps ==
  ASSUME LoneInv,
         UNCHANGED <<act, at, clicks, portStat, mode, heard, listening, link, kind, running, wifi, events>>,
         Lone' => Lone,
         "Answer" \in races' <=> "Answer" \in races, "Reader" \in races' <=> "Reader" \in races,
         link # 0 /\ Alive(link) => Alive(link)',
         \A r \in Mounts : refresh'[r] \in {"AskAgain", "Again"} => refresh[r] \in {"AskAgain", "Again"},
         "News" \notin races' /\ Settled' => "News" \notin races /\ Settled /\ (Peer' <=> Peer)
  PROVE  LoneInv'
<1>1. Now' = Now /\ Doing' = Doing
  BY DEF Now, Doing
<1>2. PhaseInv' /\ KindKept' /\ ModeKept'
  BY <1>1 DEF LoneInv, PhaseInv, KindKept, ModeKept
<1>3. OpenInv'
  BY <1>1 DEF LoneInv, OpenInv
<1>4. NewsInv'
  <2> SUFFICES ASSUME Lone', "News" \notin races', Settled', Now' \notin {"StopPort", "JoinStop", "StopWifi", "Stopped"}
               PROVE  LastWord(events, heard, Peer)'
    BY DEF NewsInv
  <2>1. LastWord(events, heard, Peer) /\ (Peer' <=> Peer)
    BY <1>1 DEF LoneInv, NewsInv
  <2> QED  BY <2>1 DEF LastWord
<1>5. WifiShown'
  <2> SUFFICES ASSUME (Lone /\ "Answer" \notin races /\ mode = "Wi-Fi"
                       /\ Now \in {"Idle", "Listen", "Listed", "StartWifi", "Started"})'
               PROVE  (/\ Now \in {"Idle", "Started"} => wifi # 0
                       /\ portStat \in {"Connected", "Listening"}
                       /\ "News" \notin races /\ Settled /\ Quiet(events, heard) => (portStat = "Connected" <=> Peer))'
    BY DEF WifiShown
  <2>1. /\ Now \in {"Idle", "Started"} => wifi # 0
        /\ portStat \in {"Connected", "Listening"}
        /\ "News" \notin races /\ Settled /\ Quiet(events, heard) => (portStat = "Connected" <=> Peer)
    BY <1>1 DEF LoneInv, WifiShown
  <2>2. Quiet(events, heard)' <=> Quiet(events, heard)
    BY DEF Quiet
  <2> QED  BY <1>1, <2>1, <2>2
<1>6. PortShown'
  <2>1. LossPending(events, heard, mode)' <=> LossPending(events, heard, mode)
    BY DEF LossPending
  <2> QED  BY <1>1, <2>1 DEF LoneInv, PortShown
<1> QED  BY <1>2, <1>3, <1>4, <1>5, <1>6 DEF LoneInv

\* Steps of the only use.
LEMMA UseKeeps ==
  ASSUME TypeOK, TypeOK', ProcessInv, FreshInv, SessionInv, LoneInv, NEW u \in Uses, Action(u)
  PROVE  LoneInv'
<1> USE DEF useVars, refreshVars, storeVars, linkVars, wifiVars
<1>1. SUFFICES ASSUME Lone' PROVE LoneInv'
  BY DEF LoneInv, PhaseInv, OpenInv, NewsInv, WifiShown, ModeKept, KindKept, PortShown
<1>2. /\ Lone /\ at[u] # "Idle" /\ u \in 1..clicks
      /\ UNCHANGED <<act, clicks, refresh, session, host, events>>
  BY <1>1, UseStep
<1>3. /\ PhaseInv /\ OpenInv /\ NewsInv /\ WifiShown /\ ModeKept /\ KindKept /\ PortShown
  BY DEF LoneInv
<1>4. /\ Doing \in Acts /\ ByUse(u) = u /\ u = clicks /\ Now = at[u] /\ Doing = act[u] /\ Doing' = Doing
      /\ \A q : Goto(u, q) => Now' = q
  <2>1. PICK q : at' = [at EXCEPT ![u] = q]
    BY UseStep
  <2>2. u = clicks /\ Now = at[u] /\ Doing = act[u] /\ Doing' = Doing /\ Doing \in Acts
    BY <1>2, <2>1, LoneUse
  <2>3. \A p : Goto(u, p) => Now' = p
    BY <1>2, <2>2 DEF Goto, Now, TypeOK
  <2> QED  BY <2>2, <2>3 DEF ByUse
<1>5. ASSUME Now' \in {"JoinStop", "StopWifi"}, link' = 0 PROVE LoneInv'
  BY <1>5 DEF LoneInv, PhaseInv, OpenInv, NewsInv, WifiShown, ModeKept, KindKept, PortShown
<1>6. CASE Shutdown(u, "StopPort", "JoinStop")
  BY <1>4, <1>5, <1>6 DEF Shutdown
<1>7. CASE JoinReader(u)
  BY <1>2, <1>3, <1>4, <1>5, <1>7 DEF JoinReader, PhaseInv
<1>8. CASE StopWifi(u)
  <2>1. Now' = "Stopped" /\ wifi' = 0 /\ link' = 0
    BY <1>2, <1>3, <1>4, <1>8 DEF StopWifi, PhaseInv
  <2> QED  BY <2>1 DEF LoneInv, PhaseInv, OpenInv, NewsInv, WifiShown, ModeKept, KindKept, PortShown
\* Nobody hears what was emitted before the listeners were removed.
<1>9. ASSUME RemoveListeners, Outlived \subseteq races', UNCHANGED events PROVE NewsInv'
  <2>1. CASE heard' = {}
    BY <2>1, NobodyHears DEF NewsInv
  <2>2. CASE heard' # {}
    BY <1>9, <2>2 DEF NewsInv, RemoveListeners, Outlived
  <2> QED  BY <2>1, <2>2
<1>10. CASE Stopped(u)
  <2>1. /\ link' = 0 /\ wifi' = 0 /\ Now' \in {"Idle", "Listen"} /\ UNCHANGED <<link, wifi, host, slots>>
        /\ mode' # "None" => Now' = "Listen" /\ mode' = Doing /\ (mode' = "Wi-Fi" => portStat' = "Listening")
        /\ Now' = "Listen" => mode' = Doing
        /\ mode' \in ComPorts => Now' # "Idle"
    BY <1>2, <1>3, <1>4, <1>10 DEF Stopped, PhaseInv, Acts, ComPorts
  <2>2. NewsInv'
    BY <1>2, <1>9, <1>10 DEF Stopped
  <2>3. ~Peer'
    BY <2>1, NoPeer DEF Peer
  <2>4. WifiShown'
    BY <2>1, <2>3 DEF WifiShown
  <2>5. PhaseInv' /\ OpenInv'
    BY <2>1 DEF PhaseInv, OpenInv
  <2>6. ModeKept' /\ KindKept' /\ PortShown'
    BY <1>4, <2>1 DEF ModeKept, KindKept, PortShown
  <2> QED  BY <2>2, <2>4, <2>5, <2>6 DEF LoneInv
\* What the next steps leave alone.
<1>11. ASSUME UNCHANGED <<mode, portStat, heard, wifi, slots, flag, races>>,
              Now \in {"Listen", "Listed", "StartPort", "JoinStart", "Begin", "StartWifi"},
              Now' \in {"Listed", "StartPort", "JoinStart", "Begin", "StartWifi", "Failed"},
              Now' \in {"Listed", "StartWifi"} => Now \in {"Listen", "Listed", "StartWifi"},
              Now' \in {"Listed", "StartPort", "JoinStart", "StartWifi"} => link' = 0,
              Now' \in {"StartPort", "JoinStart", "Begin", "StartWifi"} => listening' # {},
              link' # 0 => running',
              Now' = "Begin" => link' # 0 /\ kind'[link'] = Doing
       PROVE  LoneInv'
  <2>1. wifi' = 0 /\ wifi = 0
    BY <1>2, <1>3, <1>11 DEF PhaseInv
  <2>2. PhaseInv' /\ OpenInv' /\ ModeKept' /\ KindKept' /\ PortShown'
    <3>1. PhaseInv'
      BY <1>11, <2>1 DEF PhaseInv
    <3>2. OpenInv'
      BY <1>11, <2>1 DEF OpenInv
    <3>3. ModeKept'
      BY <1>2, <1>3, <1>4, <1>11 DEF ModeKept
    <3>4. KindKept'
      BY <1>4, <1>11 DEF KindKept
    <3>5. PortShown'
      BY <1>11 DEF PortShown
    <3> QED  BY <3>1, <3>2, <3>3, <3>4, <3>5
  <2>3. Peer' <=> Peer
    BY <1>2, <1>11 DEF Peer
  <2>4. Settled /\ Settled'
    BY <2>1 DEF Settled
  <2>5. NewsInv'
    <3>1. "News" \notin races' => LastWord(events, heard, Peer)
      BY <1>2, <1>3, <1>11, <2>4 DEF NewsInv
    <3> QED  BY <1>2, <1>11, <2>3, <3>1 DEF NewsInv, LastWord
  <2>6. WifiShown'
    <3>1. Quiet(events, heard)' <=> Quiet(events, heard)
      BY <1>2, <1>11 DEF Quiet
    <3> QED  BY <1>2, <1>3, <1>11, <2>3, <2>4, <3>1 DEF WifiShown
  <2> QED  BY <2>2, <2>5, <2>6 DEF LoneInv
\* Nothing that was emitted is for a new listener.
<1>12. CASE Listen(u)
  <2>1. /\ link' = 0 /\ wifi' = 0 /\ wifi = 0 /\ Now = "Listen" /\ Now' = "Listed" /\ heard' = heard \cup {u}
        /\ UNCHANGED <<portStat, mode, races, host, slots>>
    BY <1>2, <1>3, <1>4, <1>12 DEF Listen, PhaseInv
  <2>2. events \in Seq(AnEvent) /\ \A i \in 1..Len(events) : u \notin events[i].to
    <3>1. u \in Uses \ {0} /\ FreshUse(u)
      BY <1>2, <1>4, <2>1 DEF FreshUse, FreshPhases
    <3>2. Unheard(ByUse(u))
      BY <3>1 DEF FreshInv
    <3> QED  BY <1>4, <3>2 DEF TypeOK, AnEvent, Unheard
  <2>3. ~Peer /\ ~Peer' /\ Settled /\ Settled'
    BY <2>1, NoPeer DEF Peer, Settled
  <2>4. PhaseInv' /\ OpenInv' /\ ModeKept' /\ KindKept' /\ PortShown'
    BY <1>2, <1>3, <1>4, <2>1 DEF PhaseInv, OpenInv, ModeKept, KindKept, PortShown
  <2>5. NewsInv'
    <3>1. "News" \notin races' => LastWord(events, heard, FALSE)
      BY <1>2, <1>3, <2>1, <2>3 DEF NewsInv, LastWord
    <3>2. "News" \notin races' => LastWord(events, heard', FALSE)
      BY <2>1, <2>2, <3>1, ListenersOfOld
    <3> QED  BY <1>2, <2>3, <3>2 DEF NewsInv, LastWord
  <2>6. WifiShown'
    <3>1. Quiet(events, heard)' => Quiet(events, heard)
      BY <1>2, <2>1, <2>2, ListenersOfOld DEF Quiet
    <3> QED  BY <1>2, <1>3, <2>1, <2>3, <3>1 DEF WifiShown
  <2> QED  BY <2>4, <2>5, <2>6 DEF LoneInv
<1>13. CASE Listed(u)
  <2>1. link = 0 /\ Now = "Listed"
    BY <1>2, <1>3, <1>4, <1>13 DEF Listed, PhaseInv
  <2> QED  BY <1>4, <1>11, <1>13, <2>1 DEF Listed
<1>14. CASE NotFound(u)
  <2>1. link = 0 /\ Now = "StartPort"
    BY <1>2, <1>3, <1>4, <1>14 DEF NotFound, PhaseInv
  <2> QED  BY <1>4, <1>11, <1>14, <2>1 DEF NotFound
<1>15. CASE Shutdown(u, "StartPort", "JoinStart")
  <2>1. listening # {} /\ Now = "StartPort"
    BY <1>2, <1>3, <1>4, <1>15 DEF Shutdown, PhaseInv
  <2> QED  BY <1>4, <1>11, <1>15, <2>1 DEF Shutdown
<1>16. CASE Open(u)
  <2>1. link = 0 /\ listening # {} /\ Now = "JoinStart" /\ \A l \in Links : l # 0
    BY <1>2, <1>3, <1>4, <1>16 DEF Open, PhaseInv, Links
  <2>2. CASE Goto(u, "Failed") /\ UNCHANGED linkVars
    BY <1>4, <1>11, <1>16, <2>1, <2>2 DEF Open
  <2>3. ASSUME NEW l \in Links, link' = l, kind' = [kind EXCEPT ![l] = act[u]], running' = TRUE, Goto(u, "Begin")
        PROVE  LoneInv'
    <3>1. kind'[link'] = Doing
      BY <1>4, <2>3 DEF TypeOK
    <3> QED  BY <1>4, <1>11, <1>16, <2>1, <2>3, <3>1 DEF Open
  <2> QED  BY <1>16, <2>2, <2>3 DEF Open
<1>17. CASE BeginAuth(u)
  <2>1. /\ Now = "Begin" /\ wifi = 0 /\ listening # {} /\ link # 0 /\ kind[link] = Doing
        /\ Doing \in ComPorts /\ running /\ (mode = Doing \/ "Answer" \in races)
    BY <1>2, <1>3, <1>4, <1>17 DEF BeginAuth, PhaseInv, KindKept, ProcessInv, OpenInv, ModeKept
  <2>2. CASE Goto(u, "Failed")
    BY <1>4, <1>11, <1>17, <2>1, <2>2 DEF BeginAuth
  <2>3. CASE Goto(u, "Started")
    <3>1. /\ Now' = "Started"
          /\ UNCHANGED <<portStat, mode, heard, listening, link, kind, running, wifi, races, host, slots>>
      BY <1>2, <1>4, <1>17, <2>3 DEF BeginAuth
    <3>2. PhaseInv' /\ OpenInv' /\ ModeKept' /\ KindKept' /\ PortShown' /\ WifiShown'
      <4>1. PhaseInv' /\ OpenInv'
        BY <1>4, <2>1, <3>1 DEF PhaseInv, OpenInv, ComPorts
      <4>2. ModeKept' /\ KindKept' /\ PortShown'
        BY <1>2, <1>3, <1>4, <2>1, <3>1 DEF ModeKept, KindKept, PortShown
      <4>3. WifiShown'
        BY <2>1, <3>1 DEF WifiShown, ComPorts
      <4> QED  BY <4>1, <4>2, <4>3
    <3>3. (Peer' <=> Peer) /\ Settled /\ Settled'
      BY <2>1, <3>1 DEF Peer, Settled
    <3>4. "News" \notin races' => LastWord(events, heard, Peer)
      BY <1>2, <1>3, <2>1, <3>1, <3>3 DEF NewsInv
    <3>5. NewsInv'
      BY <1>2, <3>1, <3>3, <3>4 DEF NewsInv, LastWord
    <3> QED  BY <3>2, <3>5 DEF LoneInv
  <2> QED  BY <1>17, <2>2, <2>3 DEF BeginAuth
\* A listener that starts has no session yet.
<1>18. CASE StartWifi(u)
  <2>1. /\ Now = "StartWifi" /\ wifi = 0 /\ link = 0 /\ listening # {} /\ Doing = "Wi-Fi"
    BY <1>2, <1>3, <1>4, <1>18 DEF StartWifi, PhaseInv, ProcessInv
  <2>2. CASE Goto(u, "Failed") /\ UNCHANGED <<wifi, flag>>
    BY <1>4, <1>11, <1>18, <2>1, <2>2 DEF StartWifi
  <2>3. CASE wifi' = listeners + 1 /\ Goto(u, "Started")
    <3>1. /\ Now' = "Started" /\ wifi' # 0
          /\ UNCHANGED <<portStat, mode, heard, listening, link, running, races, host, slots>>
      BY <1>2, <1>4, <1>18, <2>3 DEF StartWifi, TypeOK
    <3>2. ~Peer'
      <4>1. \A s \in slots : host[s] \in 0..listeners
        BY DEF TypeOK
      <4> QED  BY <2>3, <3>1, <4>1 DEF Peer, TypeOK
    <3>3. ~Peer /\ Settled
      BY <2>1, NoPeer DEF Settled
    <3>4. PhaseInv' /\ OpenInv' /\ ModeKept' /\ KindKept' /\ PortShown'
      <4>1. PhaseInv' /\ OpenInv'
        BY <1>4, <2>1, <3>1 DEF PhaseInv, OpenInv
      <4>2. ModeKept' /\ KindKept' /\ PortShown'
        BY <1>2, <1>3, <1>4, <2>1, <3>1 DEF ModeKept, KindKept, PortShown, ComPorts
      <4> QED  BY <4>1, <4>2
    <3>5. "News" \notin races' => LastWord(events, heard, FALSE)
      BY <1>2, <1>3, <2>1, <3>1, <3>3 DEF NewsInv, LastWord
    <3>6. NewsInv'
      BY <1>2, <3>1, <3>2, <3>5 DEF NewsInv, LastWord
    <3>7. Quiet(events, heard)' <=> Quiet(events, heard)
      BY <1>2, <3>1 DEF Quiet
    <3>8. WifiShown'
      BY <1>2, <1>3, <2>1, <3>1, <3>2, <3>3, <3>7 DEF WifiShown
    <3> QED  BY <3>4, <3>6, <3>8 DEF LoneInv
  <2> QED  BY <1>18, <2>2, <2>3 DEF StartWifi
<1>19. CASE Started(u)
  <2>1. /\ Now = "Started" /\ Now' = "Idle" /\ Doing # "Stop" /\ listening # {} /\ (wifi # 0) = (Doing = "Wi-Fi")
        /\ mode = Doing \/ (mode = "Wi-Fi" /\ "Answer" \in races)
        /\ Doing \in ComPorts => link # 0 /\ kind[link] = Doing
    BY <1>2, <1>3, <1>4, <1>19 DEF Started, ProcessInv, PhaseInv, ModeKept, KindKept
  <2>2. /\ UNCHANGED <<mode, heard, listening, link, kind, running, reader, wifi, host, slots>>
        /\ "Answer" \in races' <=> "Answer" \in races
        /\ "News" \in races' <=> "News" \in races
        /\ Doing \notin ComPorts => UNCHANGED portStat
        /\ Doing \in ComPorts /\ "Reader" \notin races' => Alive(link)
    BY <1>4, <1>19 DEF Started
  <2>3. PhaseInv' /\ OpenInv' /\ ModeKept' /\ KindKept'
    <3>1. OpenInv'
      BY <1>2, <1>3, <2>1, <2>2 DEF OpenInv
    <3> QED  BY <2>1, <3>1 DEF PhaseInv, ModeKept, KindKept
  <2>4. (Peer' <=> Peer) /\ (Settled' <=> Settled)
    BY <1>2, <2>2 DEF Peer, Settled, Calm
  <2>5. NewsInv'
    <3>1. "News" \notin races' /\ Settled' => LastWord(events, heard, Peer)
      BY <1>2, <1>3, <2>1, <2>2, <2>4 DEF NewsInv
    <3> QED  BY <1>2, <2>2, <2>4, <3>1 DEF NewsInv, LastWord
  <2>6. WifiShown'
    <3>1. Quiet(events, heard)' <=> Quiet(events, heard)
      BY <1>2, <2>2 DEF Quiet
    <3> QED  BY <1>2, <1>3, <2>1, <2>2, <2>4, <3>1 DEF WifiShown, ComPorts
  <2>7. PortShown'
    <3> SUFFICES ASSUME "Reader" \notin races', mode' \in ComPorts
                 PROVE  link' # 0 /\ kind'[link'] = mode' /\ heard' # {} /\ Alive(link)'
      BY DEF PortShown
    <3>1. Doing \in ComPorts /\ mode = Doing
      BY <2>1, <2>2 DEF ComPorts
    <3>2. Alive(link)'
      BY <2>2, <3>1 DEF Alive
    <3>3. heard # {}
      BY <2>1 DEF TypeOK
    <3> QED  BY <2>1, <2>2, <3>1, <3>2, <3>3
  <2> QED  BY <2>3, <2>5, <2>6, <2>7 DEF LoneInv
<1>20. CASE Failed(u)
  <2>1. /\ Now = "Failed" /\ Now' = "Idle" /\ wifi = 0 /\ portStat' = "Error"
        /\ mode = Doing \/ (mode = "Wi-Fi" /\ "Answer" \in races)
        /\ UNCHANGED <<link, running, wifi, host, slots>>
    BY <1>2, <1>3, <1>4, <1>20 DEF Failed, PhaseInv, ModeKept
  <2>2. mode' = "Wi-Fi" => "Answer" \in races'
    BY <1>4, <1>20, <2>1 DEF Failed
  <2>3. PhaseInv' /\ OpenInv' /\ ModeKept' /\ KindKept' /\ PortShown' /\ WifiShown'
    <3>1. OpenInv'
      BY <1>2, <1>3, <2>1 DEF OpenInv
    <3> QED  BY <2>1, <2>2, <3>1 DEF PhaseInv, ModeKept, KindKept, PortShown, WifiShown
  <2>4. NewsInv'
    <3>1. CASE RemoveListeners /\ races' = races \cup Outlived
      BY <1>2, <1>9, <3>1
    <3>2. CASE UNCHANGED <<heard, races>>
      <4>1. (Peer' <=> Peer) /\ Settled
        BY <2>1 DEF Peer, Settled
      <4>2. "News" \notin races => LastWord(events, heard, Peer)
        BY <1>2, <1>3, <2>1, <4>1 DEF NewsInv
      <4> QED  BY <1>2, <3>2, <4>1, <4>2 DEF NewsInv, LastWord
    <3> QED  BY <1>20, <3>1, <3>2 DEF Failed
  <2> QED  BY <2>3, <2>4 DEF LoneInv
<1> QED
  BY <1>6, <1>7, <1>8, <1>10, <1>12, <1>13, <1>14, <1>15, <1>16, <1>17, <1>18, <1>19, <1>20 DEF Action

\* Steps of a refresh.
LEMMA RefreshKeeps ==
  ASSUME TypeOK, TypeOK', ProcessInv, FreshInv, SessionInv, LoneInv, NEW r \in Mounts, Refresh(r)
  PROVE  LoneInv'
<1> USE DEF useVars, refreshVars, storeVars, linkVars, wifiVars
<1>1. /\ UNCHANGED <<act, at, clicks, link, kind, reader, running, wifi, session, host, slots, events>>
      /\ Lone' <=> Lone
  <2>1. CASE Refreshed(r)
    BY <2>1 DEF Refreshed, Lone
  <2>2. CASE Ask(r, "Ask", "Asked") \/ Ask(r, "AskAgain", "Again") \/ Relisten(r) \/ ListenAgain(r) \/ ListedAgain(r)
    BY <2>2 DEF Ask, Relisten, ListenAgain, ListedAgain, Lone
  <2> QED  BY <2>1, <2>2 DEF Refresh
<1>2. /\ PhaseInv /\ OpenInv /\ NewsInv /\ WifiShown /\ ModeKept /\ KindKept /\ PortShown
  BY DEF LoneInv
<1>3. Now' = Now /\ Doing' = Doing /\ (Peer' <=> Peer) /\ (Settled' <=> Settled) /\ (Alive(link)' <=> Alive(link))
  BY <1>1 DEF Now, Doing, Peer, Settled, Calm, Alive
<1>4. ASSUME NEW q, refresh' = [refresh EXCEPT ![r] = q],
             q \in {"AskAgain", "Again"} => refresh[r] \in {"AskAgain", "Again"}
      PROVE  \A v \in Mounts : refresh'[v] \in {"AskAgain", "Again"} => refresh[v] \in {"AskAgain", "Again"}
  BY <1>4 DEF TypeOK
<1>5. CASE Ask(r, "Ask", "Asked") \/ Ask(r, "AskAgain", "Again") \/ Relisten(r)
  <2>1. \A v \in Mounts : refresh'[v] \in {"AskAgain", "Again"} => refresh[v] \in {"AskAgain", "Again"}
    BY <1>4, <1>5 DEF Ask, Relisten
  <2>2. UNCHANGED <<portStat, mode, heard, listening, races>>
    BY <1>5 DEF Ask, Relisten
  <2> QED  BY <1>1, <1>3, <2>1, <2>2, SilentKeeps
\* Nothing that was emitted is for a new listener.
<1>6. CASE ListenAgain(r)
  <2>1. \A v \in Mounts : refresh'[v] \in {"AskAgain", "Again"} => refresh[v] \in {"AskAgain", "Again"}
    BY <1>4, <1>6 DEF ListenAgain
  <2>2. heard' = heard \cup {ByRefresh(r)} /\ UNCHANGED <<portStat, mode, listening, races>>
    BY <1>6 DEF ListenAgain
  <2>3. events \in Seq(AnEvent) /\ \A i \in 1..Len(events) : ByRefresh(r) \notin events[i].to
    <3>1. FreshRefresh(r)
      BY <1>6 DEF ListenAgain, FreshRefresh
    <3>2. Unheard(ByRefresh(r))
      BY <3>1 DEF FreshInv
    <3> QED  BY <3>2 DEF TypeOK, AnEvent, Unheard
  <2>4. PhaseInv' /\ KindKept' /\ ModeKept'
    BY <1>1, <1>2, <1>3, <2>2 DEF PhaseInv, KindKept, ModeKept
  <2>5. OpenInv'
    BY <1>1, <1>2, <1>3, <2>1, <2>2 DEF OpenInv
  <2>6. NewsInv'
    <3> SUFFICES ASSUME Lone, "News" \notin races, Settled, Now \notin {"StopPort", "JoinStop", "StopWifi", "Stopped"}
                 PROVE  LastWord(events, heard, Peer)'
      BY <1>1, <1>3, <2>2 DEF NewsInv
    <3>1. LastWord(events, heard, Peer)
      BY <1>2 DEF NewsInv
    <3>2. LastWord(events, heard', Peer)
      BY <2>2, <2>3, <3>1, ListenersOfOld
    <3> QED  BY <1>1, <1>3, <3>2 DEF LastWord
  <2>7. Quiet(events, heard)' => Quiet(events, heard)
    BY <1>1, <2>2, <2>3, ListenersOfOld DEF Quiet
  <2>8. WifiShown'
    BY <1>1, <1>2, <1>3, <2>2, <2>7 DEF WifiShown
  <2>9. LossPending(events, heard, mode) => LossPending(events, heard, mode)'
    <3>1. LossPending(events, heard, mode) => LossPending(events, heard', mode)
      BY <2>2, <2>3, ListenersOfOld
    <3> QED  BY <1>1, <2>2, <3>1 DEF LossPending
  <2>10. PortShown'
    BY <1>1, <1>2, <1>3, <2>2, <2>9 DEF PortShown
  <2> QED  BY <2>4, <2>5, <2>6, <2>8, <2>10 DEF LoneInv
<1>7. CASE ListedAgain(r)
  <2>1. listening' # {} /\ UNCHANGED <<portStat, mode, heard, races>>
    BY <1>7 DEF ListedAgain
  <2>2. PhaseInv' /\ KindKept' /\ ModeKept' /\ OpenInv'
    <3>1. PhaseInv'
      BY <1>1, <1>2, <1>3, <2>1 DEF PhaseInv
    <3>2. OpenInv'
      BY <1>1, <1>2, <1>3, <2>1 DEF OpenInv
    <3> QED  BY <1>1, <1>2, <1>3, <2>1, <3>1, <3>2 DEF KindKept, ModeKept
  <2>3. NewsInv'
    <3>1. LastWord(events, heard, Peer)' <=> LastWord(events, heard, Peer)
      BY <1>1, <1>3, <2>1 DEF LastWord
    <3> QED  BY <1>1, <1>2, <1>3, <2>1, <3>1 DEF NewsInv
  <2>4. WifiShown'
    <3>1. Quiet(events, heard)' <=> Quiet(events, heard)
      BY <1>1, <2>1 DEF Quiet
    <3> QED  BY <1>1, <1>2, <1>3, <2>1, <3>1 DEF WifiShown
  <2>5. PortShown'
    <3>1. LossPending(events, heard, mode)' <=> LossPending(events, heard, mode)
      BY <1>1, <2>1 DEF LossPending
    <3> QED  BY <1>1, <1>2, <1>3, <2>1, <3>1 DEF PortShown
  <2> QED  BY <2>2, <2>3, <2>4, <2>5 DEF LoneInv
\* An answer about a listener: only when somebody listens to that, as far as it runs.
<1>8. CASE Refreshed(r)
  <2>1. refresh' = [refresh EXCEPT ![r] = "Idle"] /\ UNCHANGED <<heard, listening>>
    BY <1>8 DEF Refreshed
  <2>2. \A v \in Mounts : refresh'[v] \in {"AskAgain", "Again"} => refresh[v] \in {"AskAgain", "Again"}
    BY <1>4, <2>1
  <2>3. CASE ~answer[r].listening
    BY <1>1, <1>3, <1>8, <2>1, <2>2, <2>3, SilentKeeps DEF Refreshed
  <2>4. CASE answer[r].listening
    <3>1. /\ mode' = "Wi-Fi" /\ portStat' = (IF answer[r].connected THEN "Connected" ELSE "Listening")
          /\ "News" \in races' <=> "News" \in races
          /\ "Answer" \notin races' => "Answer" \notin races /\ wifi # 0 /\ (answer[r].connected = Peer)
      BY <1>8, <2>4 DEF Refreshed
    <3>2. PhaseInv' /\ KindKept'
      BY <1>1, <1>2, <1>3, <2>1 DEF PhaseInv, KindKept
    <3>3. ASSUME Lone, Now \notin {"StopPort", "JoinStop", "StopWifi"}, wifi # 0
          PROVE  listening # {}
      BY <1>2, <1>8, <2>4, <3>3 DEF Refreshed, OpenInv
    <3>4. OpenInv'
      BY <1>1, <1>2, <1>3, <2>1, <3>3 DEF OpenInv
    <3>5. NewsInv'
      <4>1. LastWord(events, heard, Peer)' <=> LastWord(events, heard, Peer)
        BY <1>1, <1>3, <2>1 DEF LastWord
      <4> QED  BY <1>1, <1>2, <1>3, <3>1, <4>1 DEF NewsInv
    <3>6. WifiShown'
      BY <1>1, <1>3, <3>1 DEF WifiShown
    <3>7. ModeKept'
      <4> SUFFICES ASSUME Lone, "Answer" \notin races',
                          Now \in {"Listen", "Listed", "StartPort", "JoinStart", "Begin", "StartWifi", "Started", "Failed"}
                   PROVE  Doing = "Wi-Fi"
        BY <1>1, <1>3, <3>1 DEF ModeKept
      <4>1. wifi # 0 /\ Now = "Started"
        BY <1>2, <3>1 DEF PhaseInv
      <4> QED  BY <1>2, <4>1 DEF PhaseInv
    <3>8. PortShown'
      BY <3>1 DEF PortShown, ComPorts
    <3> QED  BY <3>2, <3>4, <3>5, <3>6, <3>7, <3>8 DEF LoneInv
  <2> QED  BY <2>3, <2>4
<1> QED  BY <1>5, <1>6, <1>7, <1>8 DEF Refresh

\* Steps of a Wi-Fi session.
LEMMA ServeKeeps ==
  ASSUME TypeOK, TypeOK', ProcessInv, SessionInv, SessionInv', LoneInv, NEW s \in Sessions, ServePeer(s)
  PROVE  LoneInv'
<1> USE DEF useVars, refreshVars, storeVars, linkVars, wifiVars
<1>1. /\ UNCHANGED <<act, at, clicks, refresh, portStat, mode, heard, listening, link, kind, reader, running, wifi>>
      /\ (Lone' <=> Lone) /\ ("Answer" \in races' <=> "Answer" \in races) /\ ("Reader" \in races' <=> "Reader" \in races)
  <2>1. CASE PeerChecked(s) \/ Install(s) \/ PeerEnds(s) \/ SetFlag(s, "SetFlag", "SayUp", TRUE)
             \/ SetFlag(s, "ClearFlag", "SayDown", FALSE)
    BY <2>1 DEF PeerChecked, Install, PeerEnds, SetFlag, SessionStep, Lone
  <2>2. CASE InstallFails(s)
    BY <2>2 DEF InstallFails, SessionStep, Lone
  <2>3. CASE Say(s, "SayUp", "Read", "WifiUp") \/ Say(s, "SayDown", "Over", "WifiDown")
    BY <2>3 DEF Say, NewsOf, SessionStep, Lone
  <2> QED  BY <2>1, <2>2, <2>3 DEF ServePeer
<1>2. Alive(link)' <=> Alive(link)
  BY <1>1 DEF Alive
<1>3. ASSUME UNCHANGED events, "News" \notin races' /\ Settled' => "News" \notin races /\ Settled /\ (Peer' <=> Peer)
      PROVE  LoneInv'
  <2>1. \A r \in Mounts : refresh'[r] \in {"AskAgain", "Again"} => refresh[r] \in {"AskAgain", "Again"}
    BY <1>1
  <2>2. UNCHANGED <<act, at, clicks, portStat, mode, heard, listening, link, kind, running, wifi, events>>
    BY <1>1, <1>3
  <2> QED  BY <1>1, <1>2, <1>3, <2>1, <2>2, SilentKeeps
\* While a session has still to say what has become of it nothing is claimed.
<1>4. ASSUME UNCHANGED <<events, races>>, ~Calm' PROVE LoneInv'
  <2>1. Settled' => wifi = 0 /\ wifi' = 0
    BY <1>1, <1>4 DEF Settled
  <2>2. wifi = 0 => ~Peer /\ Settled
    BY NoPeer DEF Settled
  <2>3. wifi' = 0 => ~Peer'
    <3>1. (TypeOK /\ SessionInv /\ wifi = 0 => ~Peer)'
      BY NoPeer, PTL
    <3> QED  BY <3>1
  <2> QED  BY <1>3, <1>4, <2>1, <2>2, <2>3
<1>5. ASSUME NEW p, NEW q, session' = [session EXCEPT ![s] = q], session[s] = p,
             {p, q} \subseteq {"None", "Checked", "Read", "Over"}
      PROVE  Settled' <=> Settled
  <2>1. \A t \in Sessions : t # s => session'[t] = session[t]
    BY <1>5 DEF TypeOK
  <2>2. session'[s] = q
    BY <1>5 DEF TypeOK
  <2>3. Calm' <=> Calm
    BY <1>5, <2>1, <2>2 DEF Calm
  <2> QED  BY <1>1, <2>3 DEF Settled
<1>6. CASE PeerChecked(s)
  <2>1. Settled' <=> Settled
    BY <1>5, <1>6 DEF PeerChecked, SessionStep
  <2>2. Peer' <=> Peer
    <3>1. s \notin slots /\ UNCHANGED slots /\ host' = [host EXCEPT ![s] = wifi]
      BY <1>6 DEF PeerChecked, SessionStep, SessionInv
    <3>2. \A t \in slots : host'[t] = host[t]
      BY <3>1 DEF TypeOK
    <3>3. wifi' = wifi /\ slots' = slots
      BY <1>1, <3>1
    <3> QED  BY <3>2, <3>3, Zenon DEF Peer
  <2>3. UNCHANGED <<events, races>>
    BY <1>6 DEF PeerChecked
  <2> QED  BY <1>3, <2>1, <2>2, <2>3, Zenon
<1>7. CASE Install(s) \/ SetFlag(s, "SetFlag", "SayUp", TRUE) \/ SetFlag(s, "ClearFlag", "SayDown", FALSE)
  <2>1. session'[s] \in {"SetFlag", "SayUp", "SayDown"}
    <3>1. \E q \in {"SetFlag", "SayUp", "SayDown"} : session' = [session EXCEPT ![s] = q]
      BY <1>7 DEF Install, SetFlag, SessionStep
    <3> QED  BY <3>1 DEF TypeOK
  <2>2. ~Calm'
    BY <2>1 DEF Calm
  <2> QED  BY <1>4, <1>7, <2>2 DEF Install, SetFlag
<1>8. CASE InstallFails(s)
  <2>1. Settled' <=> Settled
    BY <1>5, <1>8 DEF InstallFails, SessionStep
  <2>2. "News" \notin races' => "News" \notin races /\ (Peer' <=> Peer)
    BY <1>1, <1>8 DEF InstallFails, Others, Peer
  <2> QED  BY <1>3, <1>8, <2>1, <2>2 DEF InstallFails
<1>9. CASE PeerEnds(s)
  <2>1. CASE s \in slots
    <3>1. session'[s] = "ClearFlag"
      <4>1. session' = [session EXCEPT ![s] = "ClearFlag"]
        BY <1>9, <2>1 DEF PeerEnds, SessionStep
      <4> QED  BY <4>1 DEF TypeOK
    <3>2. ~Calm'
      BY <3>1 DEF Calm
    <3> QED  BY <1>4, <1>9, <3>2 DEF PeerEnds
  <2>2. CASE s \notin slots
    <3>1. Settled' <=> Settled
      BY <1>5, <1>9, <2>2 DEF PeerEnds, SessionStep
    <3>2. slots' = slots
      BY <1>9, <2>2 DEF PeerEnds
    <3>3. (Peer' <=> Peer) /\ UNCHANGED <<events, races>>
      BY <1>1, <1>9, <3>2 DEF PeerEnds, Peer
    <3> QED  BY <1>3, <3>1, <3>3
  <2> QED  BY <2>1, <2>2
\* What is said is the last word, and true, or counted.
<1>10. ASSUME NEW from, NEW to, NEW e \in {"WifiUp", "WifiDown"}, Say(s, from, to, e),
              from \in {"SayUp", "SayDown"}
       PROVE  LoneInv'
  <2> DEFINE w == [what |-> e, to |-> heard]
  <2>1. /\ events' = Append(events, w) /\ UNCHANGED <<host, slots>> /\ (Peer' <=> Peer)
        /\ heard # {} /\ "News" \notin races' => ((e = "WifiUp") <=> Peer)
        /\ heard = {} => UNCHANGED races
    BY <1>1, <1>10 DEF Say, Emit, NewsOf, Peer
  <2>2. events \in Seq(AnEvent) /\ w \in AnEvent
    BY DEF TypeOK, AnEvent, EventKinds
  <2>3. Now' = Now /\ Doing' = Doing
    BY <1>1 DEF Now, Doing
  <2>4. WifiNews(w, heard) <=> heard # {}
    BY DEF WifiNews
  <2> HIDE DEF w
  <2>5. PhaseInv' /\ OpenInv' /\ ModeKept' /\ KindKept'
    <3>1. PhaseInv /\ OpenInv /\ ModeKept /\ KindKept
      BY DEF LoneInv
    <3>2. PhaseInv'
      BY <1>1, <2>3, <3>1 DEF PhaseInv
    <3>3. OpenInv'
      BY <1>1, <2>3, <3>1 DEF OpenInv
    <3>4. ModeKept' /\ KindKept'
      BY <1>1, <2>3, <3>1 DEF ModeKept, KindKept
    <3> QED  BY <3>2, <3>3, <3>4
  <2>6. NewsInv'
    <3> SUFFICES ASSUME "News" \notin races' PROVE LastWord(events', heard, Peer)
      BY <1>1, <2>1 DEF NewsInv, LastWord
    <3>1. CASE heard = {}
      BY <3>1, NobodyHears
    <3>2. CASE heard # {}
      <4>1. w.what = "WifiUp" <=> Peer
        BY <2>1, <3>2 DEF w
      <4> QED  BY <2>1, <2>2, <2>4, <3>2, <4>1, AppendedWord
    <3> QED  BY <3>1, <3>2
  <2>7. WifiShown'
    <3> SUFFICES ASSUME Lone, "Answer" \notin races, mode = "Wi-Fi", Now \in {"Idle", "Listen", "Listed", "StartWifi", "Started"}
                 PROVE  /\ Now \in {"Idle", "Started"} => wifi # 0
                        /\ portStat \in {"Connected", "Listening"}
                        /\ "News" \notin races' /\ Quiet(events', heard) => (portStat = "Connected" <=> Peer)
      BY <1>1, <2>1, <2>3 DEF WifiShown, Quiet
    <3>1. WifiShown /\ OpenInv
      BY DEF LoneInv
    <3>2. Quiet(events', heard) => heard = {}
      BY <2>1, <2>2, <2>4, AppendedLoss
    <3>3. heard = {} => wifi = 0 /\ Quiet(events, heard)
      <4>1. heard = {} => listening = {}
        BY DEF TypeOK
      <4>2. listening = {} => wifi = 0
        BY <3>1 DEF OpenInv
      <4> QED  BY <4>1, <4>2, NobodyHears
    <3>4. wifi = 0 => Settled
      BY DEF Settled
    <3> QED  BY <2>1, <3>1, <3>2, <3>3, <3>4 DEF WifiShown
  <2>8. PortShown'
    <3>1. LossPending(events, heard, mode) => LossPending(events', heard, mode)
      BY <2>1, <2>2, AppendedLoss
    <3>2. LossPending(events', heard, mode) => LossPending(events, heard, mode)'
      BY <1>1 DEF LossPending
    <3> QED  BY <1>1, <1>2, <2>3, <3>1, <3>2 DEF LoneInv, PortShown
  <2> QED  BY <2>5, <2>6, <2>7, <2>8 DEF LoneInv
<1> QED  BY <1>6, <1>7, <1>8, <1>9, <1>10 DEF ServePeer

\* What is so unless uses overlap stays so.
LEMMA LoneKept ==
  TypeOK /\ TypeOK' /\ ProcessInv /\ FreshInv /\ SessionInv /\ SessionInv' /\ LoneInv /\ [Next]_vars => LoneInv'
<1> SUFFICES ASSUME TypeOK, TypeOK', ProcessInv, FreshInv, SessionInv, SessionInv', LoneInv, [Next]_vars PROVE LoneInv'
  OBVIOUS
<1> USE DEF useVars, refreshVars, storeVars, linkVars, wifiVars
<1>1. CASE \E u \in Uses : Action(u)
  BY <1>1, UseKeeps
<1>2. CASE \E r \in Mounts : Refresh(r)
  BY <1>2, RefreshKeeps
<1>3. CASE \E s \in Sessions : ServePeer(s)
  BY <1>3, ServeKeeps
\* A click that no other use runs beside begins anew.
<1>4. ASSUME NEW a \in Acts, Click(a) PROVE LoneInv'
  <2>1. clicks' \in Uses /\ clicks' = clicks + 1 /\ at' = [at EXCEPT ![clicks + 1] = "StopPort"]
    BY <1>4, DesktopAssumption DEF Click, Goto, TypeOK, Uses
  <2>2. Now' = "StopPort"
    BY <2>1 DEF Now, TypeOK
  <2> QED  BY <2>2 DEF LoneInv, PhaseInv, OpenInv, NewsInv, WifiShown, ModeKept, KindKept, PortShown
\* Steps that nobody sees.
<1>5. ASSUME UNCHANGED <<act, at, clicks, portStat, mode, heard, listening, link, kind, running, wifi, events>>,
             UNCHANGED <<session, host, slots, races>>, link # 0 /\ Alive(link) => Alive(link)',
             \A r \in Mounts : refresh'[r] \in {"AskAgain", "Again"} => refresh[r] \in {"AskAgain", "Again"}
      PROVE  LoneInv'
  <2>1. (Lone' <=> Lone) /\ (Peer' <=> Peer) /\ (Settled' <=> Settled)
    BY <1>5 DEF Lone, Peer, Settled, Calm
  <2> QED  BY <1>5, <2>1, SilentKeeps
<1>6. CASE Mount
  <2>1. \A r \in Mounts : refresh'[r] \in {"AskAgain", "Again"} => refresh[r] \in {"AskAgain", "Again"}
    BY <1>6 DEF Mount, TypeOK
  <2> QED  BY <1>5, <1>6, <2>1 DEF Mount, Alive
<1>7. CASE SendData \/ DataSent \/ UNCHANGED vars
  BY <1>5, <1>7 DEF SendData, DataSent, vars, Alive
<1>8. CASE SendFails
  <2>1. /\ UNCHANGED <<act, at, clicks, refresh, portStat, mode, heard, listening, link, kind, reader, running, wifi, events>>
        /\ races' = races \cup {"News"}
    BY <1>8 DEF SendFails
  <2>2. Lone' <=> Lone
    BY <2>1 DEF Lone
  <2>3. Alive(link)' <=> Alive(link)
    BY <2>1 DEF Alive
  <2> QED  BY <2>1, <2>2, <2>3, SilentKeeps
<1>9. ASSUME NEW r \in Links, HandleLine(r) \/ LineHandled(r) PROVE LoneInv'
  <2>1. Alive(link) => Alive(link)'
    BY <1>9 DEF HandleLine, LineHandled, Alive, TypeOK, Links
  <2> QED  BY <1>5, <1>9, <2>1 DEF HandleLine, LineHandled
\* Only the reader of a link that is shut down stops by itself.
<1>10. ASSUME UNCHANGED <<act, at, clicks, refresh, portStat, mode, heard, listening, link, kind, running, wifi,
                          session, host, slots, races>>
       PROVE  /\ (Lone' <=> Lone) /\ (Peer' <=> Peer) /\ (Settled' <=> Settled) /\ Now' = Now /\ Doing' = Doing
              /\ PhaseInv' /\ OpenInv' /\ ModeKept' /\ KindKept'
  <2>1. (Lone' <=> Lone) /\ (Peer' <=> Peer) /\ (Settled' <=> Settled) /\ Now' = Now /\ Doing' = Doing
    BY <1>10 DEF Lone, Peer, Settled, Calm, Now, Doing
  <2>2. PhaseInv' /\ ModeKept' /\ KindKept'
    BY <1>10, <2>1 DEF LoneInv, PhaseInv, ModeKept, KindKept
  <2>3. OpenInv'
    BY <1>10, <2>1 DEF LoneInv, OpenInv
  <2> QED  BY <2>1, <2>2, <2>3
<1>11. ASSUME NEW r \in Links, reader' = [reader EXCEPT ![r] = "Ended"], r # link \/ ~(Lone /\ Now = "Idle"),
              UNCHANGED <<act, at, clicks, refresh, portStat, mode, heard, listening, link, kind, running, wifi,
                          session, host, slots, races, events>>
       PROVE  LoneInv'
  <2>1. /\ (Lone' <=> Lone) /\ (Peer' <=> Peer) /\ (Settled' <=> Settled) /\ Now' = Now /\ Doing' = Doing
        /\ PhaseInv' /\ OpenInv' /\ ModeKept' /\ KindKept'
    BY <1>10, <1>11
  <2>2. NewsInv'
    BY <1>11, <2>1 DEF LoneInv, NewsInv, LastWord
  <2>3. Quiet(events, heard)' <=> Quiet(events, heard)
    BY <1>11 DEF Quiet
  <2>4. WifiShown'
    BY <1>11, <2>1, <2>3 DEF LoneInv, WifiShown
  <2>5. LossPending(events, heard, mode)' <=> LossPending(events, heard, mode)
    BY <1>11 DEF LossPending
  <2>6. r # link /\ Alive(link) => Alive(link)'
    BY <1>11 DEF Alive, TypeOK
  <2>7. PortShown'
    BY <1>11, <2>1, <2>5, <2>6 DEF LoneInv, PortShown
  <2> QED  BY <2>1, <2>2, <2>4, <2>7 DEF LoneInv
<1>12. ASSUME NEW r \in Links, ReaderStops(r) PROVE LoneInv'
  <2>1. r # 0 /\ ~running
    BY <1>12 DEF ReaderStops, Links
  <2>2. r # link \/ ~(Lone /\ Now = "Idle")
    BY <2>1 DEF LoneInv, OpenInv
  <2> QED  BY <1>11, <1>12, <2>2 DEF ReaderStops
\* A loss that matters is reported.
<1>13. ASSUME NEW r \in Links, PortFails(r) PROVE LoneInv'
  <2>1. /\ reader' = [reader EXCEPT ![r] = "Ended"] /\ r # 0
        /\ UNCHANGED <<act, at, clicks, refresh, portStat, mode, heard, listening, link, kind, running, wifi,
                       session, host, slots, races>>
    BY <1>13 DEF PortFails, Links
  <2>2. CASE ~running
    <3>1. r # link \/ ~(Lone /\ Now = "Idle")
      BY <2>1, <2>2 DEF LoneInv, OpenInv
    <3>2. UNCHANGED events
      BY <1>13, <2>2 DEF PortFails, Report
    <3> QED  BY <1>11, <2>1, <3>1, <3>2
  <2>3. CASE running
    <3> DEFINE w == [what |-> kind[r], to |-> heard]
    <3>1. events' = Append(events, w)
      BY <1>13, <2>3 DEF PortFails, Report, Emit
    <3>2. events \in Seq(AnEvent) /\ w \in AnEvent /\ ~WifiNews(w, heard)
      BY DEF TypeOK, AnEvent, EventKinds, WifiNews, ComPorts
    <3>3. w.what = kind[r] /\ w.to = heard
      OBVIOUS
    <3> HIDE DEF w
    <3>4. /\ (Lone' <=> Lone) /\ (Peer' <=> Peer) /\ (Settled' <=> Settled) /\ Now' = Now /\ Doing' = Doing
          /\ PhaseInv' /\ OpenInv' /\ ModeKept' /\ KindKept'
      BY <1>10, <2>1
    <3>5. NewsInv'
      <4> SUFFICES ASSUME LastWord(events, heard, Peer) PROVE LastWord(events, heard, Peer)'
        BY <2>1, <3>4 DEF LoneInv, NewsInv
      <4>1. LastWord(events', heard, Peer)
        BY <3>1, <3>2, AppendedWord
      <4> QED  BY <2>1, <3>4, <4>1 DEF LastWord
    <3>6. Quiet(events, heard)' => Quiet(events, heard)
      <4>1. Quiet(events', heard) => Quiet(events, heard)
        BY <3>1, <3>2, AppendedLoss
      <4> QED  BY <2>1, <4>1 DEF Quiet
    <3>7. WifiShown'
      BY <2>1, <3>4, <3>6 DEF LoneInv, WifiShown
    <3>8. /\ LossPending(events, heard, mode) => LossPending(events, heard, mode)'
          /\ kind[r] = mode /\ heard # {} => LossPending(events, heard, mode)'
      <4>1. /\ LossPending(events, heard, mode) => LossPending(events', heard, mode)
            /\ kind[r] = mode /\ heard # {} => LossPending(events', heard, mode)
        BY <3>1, <3>2, <3>3, AppendedLoss
      <4>2. LossPending(events', heard, mode) => LossPending(events, heard, mode)'
        BY <2>1 DEF LossPending
      <4> QED  BY <4>1, <4>2
    <3>9. r # link /\ Alive(link) => Alive(link)'
      BY <2>1 DEF Alive, TypeOK
    <3>10. PortShown'
      BY <2>1, <3>4, <3>8, <3>9 DEF LoneInv, PortShown
    <3> QED  BY <3>4, <3>5, <3>7, <3>10 DEF LoneInv
  <2> QED  BY <2>2, <2>3
\* An event is heard, and does what it says.
<1>14. CASE OnEvent
  <2> DEFINE e == Head(events)
  <2>1. /\ events # <<>> /\ events' = Tail(events)
        /\ UNCHANGED <<act, at, clicks, refresh, mode, heard, listening, link, kind, reader, running, wifi,
                       session, host, slots, races>>
    BY <1>14 DEF OnEvent
  <2>2. events \in Seq(AnEvent)
    BY DEF TypeOK, AnEvent
  <2>3. e \in AnEvent
    BY <2>1, <2>2
  <2>4. portStat' = IF e.to \cap heard = {} THEN portStat
          ELSE CASE e.what = mode -> "Error"
            [] e.what = "WifiUp" /\ mode = "Wi-Fi" -> "Connected"
            [] e.what = "WifiDown" /\ mode = "Wi-Fi" -> "Listening"
            [] OTHER -> portStat
    BY <1>14 DEF OnEvent
  <2>5. /\ LastWord(events, heard, Peer) => LastWord(Tail(events), heard, Peer)
        /\ WifiNews(e, heard) /\ Quiet(Tail(events), heard) /\ LastWord(events, heard, Peer)
              => (e.what = "WifiUp" <=> Peer)
        /\ ~WifiNews(e, heard) /\ Quiet(Tail(events), heard) => Quiet(events, heard)
        /\ LossPending(events, heard, mode) =>
              LossPending(Tail(events), heard, mode) \/ (e.what = mode /\ e.to \cap heard # {})
    BY <2>1, <2>2, TailWord
  <2> HIDE DEF e
  <2>6. (Lone' <=> Lone) /\ (Peer' <=> Peer) /\ (Settled' <=> Settled) /\ Now' = Now /\ Doing' = Doing
    BY <2>1 DEF Lone, Peer, Settled, Calm, Now, Doing
  <2>7. PhaseInv' /\ OpenInv' /\ ModeKept' /\ KindKept'
    <3>1. PhaseInv' /\ ModeKept' /\ KindKept'
      BY <2>1, <2>6 DEF LoneInv, PhaseInv, ModeKept, KindKept
    <3>2. OpenInv'
      BY <2>1, <2>6 DEF LoneInv, OpenInv
    <3> QED  BY <3>1, <3>2
  <2>8. NewsInv'
    <3> SUFFICES ASSUME LastWord(events, heard, Peer) PROVE LastWord(events, heard, Peer)'
      BY <2>1, <2>6 DEF LoneInv, NewsInv
    <3> QED  BY <2>1, <2>5, <2>6 DEF LastWord
  <2>9. WifiShown'
    <3> SUFFICES ASSUME Lone, "Answer" \notin races, mode = "Wi-Fi", Now \in {"Idle", "Listen", "Listed", "StartWifi", "Started"}
                 PROVE  /\ Now \in {"Idle", "Started"} => wifi # 0
                        /\ portStat' \in {"Connected", "Listening"}
                        /\ "News" \notin races /\ Settled /\ Quiet(Tail(events), heard) => (portStat' = "Connected" <=> Peer)
      BY <2>1, <2>6 DEF WifiShown, Quiet
    <3>1. /\ Now \in {"Idle", "Started"} => wifi # 0
          /\ portStat \in {"Connected", "Listening"}
          /\ "News" \notin races /\ Settled /\ Quiet(events, heard) => (portStat = "Connected" <=> Peer)
      BY DEF LoneInv, WifiShown
    <3>2. "News" \notin races /\ Settled => LastWord(events, heard, Peer)
      BY DEF LoneInv, NewsInv
    <3>3. e.what # mode /\ e.what \in ComPorts \cup {"WifiUp", "WifiDown"}
      BY <2>3 DEF AnEvent, EventKinds, ComPorts
    <3>4. CASE WifiNews(e, heard)
      <4>1. portStat' = IF e.what = "WifiUp" THEN "Connected" ELSE "Listening"
        BY <2>4, <3>3, <3>4 DEF WifiNews
      <4> QED  BY <2>5, <3>1, <3>2, <3>4, <4>1
    <3>5. CASE ~WifiNews(e, heard)
      <4>1. portStat' = portStat
        BY <2>4, <3>3, <3>5 DEF WifiNews
      <4> QED  BY <2>5, <3>1, <3>5, <4>1
    <3> QED  BY <3>4, <3>5
  <2>10. PortShown'
    <3> SUFFICES ASSUME Lone, "Reader" \notin races, mode \in ComPorts, Now = "Idle", portStat' = "Connected"
                 PROVE  /\ link # 0 /\ kind[link] = mode /\ heard # {}
                        /\ Alive(link) \/ LossPending(Tail(events), heard, mode)
      BY <2>1, <2>6 DEF PortShown, Alive, LossPending
    <3>1. mode # "Wi-Fi"
      BY DEF ComPorts
    <3>2. portStat = "Connected" /\ ~(e.what = mode /\ e.to \cap heard # {})
      BY <2>4, <3>1
    <3> QED  BY <2>5, <3>2 DEF LoneInv, PortShown
  <2> QED  BY <2>7, <2>8, <2>9, <2>10 DEF LoneInv
<1> QED
  BY <1>1, <1>2, <1>3, <1>4, <1>6, <1>7, <1>8, <1>9, <1>12, <1>13, <1>14 DEF Next, Reader

-----------------------------------------------------------------------------
(* The theorems. *)

\* All that is claimed holds in a fresh WebView, whatever a reload has left open.
LEMMA LinkInitial == Init => LinkInv
<1> SUFFICES ASSUME Init PROVE LinkInv
  OBVIOUS
<1>1. /\ {MaxLinks, MaxClicks, MaxMounts, MaxSessions} \subseteq Nat /\ 0 \in Uses /\ wifi \in 0..1 /\ link \in 0..1
      /\ slots \subseteq Sessions /\ (wifi = 0 => slots = {})
  BY DesktopAssumption DEF Init, Uses, Sessions
<1>2. TypeOK
  <2>1. UseTypes /\ RefreshTypes /\ StoreTypes
    BY <1>1, DesktopAssumption DEF Init, UseTypes, RefreshTypes, StoreTypes, Acts, Phases, NoStatus
  <2>2. LinkTypes /\ FlagType
    BY <1>1, DesktopAssumption DEF Init, LinkTypes, FlagType
  <2>3. WifiTypes /\ EventTypes
    <3>1. slots # {} => wifi = 1
      BY <1>1
    <3>2. WifiTypes
      BY <1>1, <3>1 DEF Init, WifiTypes
    <3> QED  BY <3>2 DEF Init, EventTypes
  <2> QED  BY <2>1, <2>2, <2>3, TypeParts
<1>3. ProcessInv
  BY <1>1 DEF Init, ProcessInv
<1>4. FreshInv /\ ListedInv
  BY DEF Init, FreshInv, ListedInv, Unheard
<1>5. SessionInv
  BY <1>1 DEF Init, SessionInv
<1>6. OneReader
  BY DEF Init, OneReader, Alive
<1>7. LoneInv
  <2>1. Now = "Idle"
    BY <1>1 DEF Init, Now
  <2>2. PhaseInv /\ ModeKept /\ KindKept
    BY <2>1 DEF PhaseInv, ModeKept, KindKept
  <2>3. OpenInv
    BY DEF Init, OpenInv
  <2>4. NewsInv
    BY NobodyHears DEF Init, NewsInv
  <2>5. WifiShown /\ PortShown
    BY DEF Init, WifiShown, PortShown, ComPorts
  <2> QED  BY <2>2, <2>3, <2>4, <2>5 DEF LoneInv
<1> QED  BY <1>2, <1>3, <1>4, <1>5, <1>6, <1>7 DEF LinkInv

\* Every step keeps it.
LEMMA LinkStep == LinkInv /\ [Next]_vars => LinkInv'
<1> SUFFICES ASSUME LinkInv, [Next]_vars PROVE LinkInv'
  OBVIOUS
<1>1. TypeOK'
  BY TypesKept DEF LinkInv
<1>2. ProcessInv' /\ FreshInv' /\ ListedInv' /\ SessionInv' /\ OneReader'
  BY ProcessKept, FreshKept, ListedKept, SessionKept, ReaderKept DEF LinkInv
<1>3. LoneInv'
  BY <1>1, <1>2, LoneKept DEF LinkInv
<1> QED  BY <1>1, <1>2, <1>3 DEF LinkInv

\* The inductive invariant: what each await of a use, each refresh and each session
\* may find open, registered and said, for any number of uses, mounts, links and
\* sessions.  From a click beside a running use ("Overlap") to one without, only what
\* concerns types, processes, listeners and readers is claimed (LinkInv, not LoneInv).
THEOREM LinkInvariant == Spec => []LinkInv
<1>1. Init => LinkInv
  BY LinkInitial
<1>2. LinkInv /\ [Next]_vars => LinkInv'
  BY LinkStep
<1> QED  BY <1>1, <1>2, PTL DEF Spec

\* One port is open and read at a time, overlapping uses or not
\* (serial_transport.rs:110-126): a reader whose link is gone is being joined.
THEOREM LinkOneReader == Spec => []OneReader
<1>1. LinkInv => OneReader
  BY DEF LinkInv
<1> QED  BY <1>1, LinkInvariant, PTL

\* At rest the store shows what is (transport.ts:157-184, wifi_transport.rs:254-305),
\* but for what the four races excuse: uses that overlapped ("Overlap"), a reader that
\* died before its command's answer ("Reader"), an answer that was no longer so
\* ("Answer"), and a session that ended, was replaced or reported out of order, so that
\* no event, or a wrong one, was the last ("News").
THEOREM LinkStoreShowsWhatIs == Spec => []StoreShowsWhatIs
<1>1. LinkInv => StoreShowsWhatIs
  <2> SUFFICES ASSUME LinkInv, AtRest PROVE
        /\ races \cap {"Overlap", "Reader"} = {} /\ portStat = "Connected" /\ mode \in ComPorts
             => link # 0 /\ Alive(link) /\ kind[link] = mode
        /\ races \cap {"Overlap", "Answer"} = {} /\ mode = "Wi-Fi"
             => /\ wifi # 0 /\ link = 0 /\ portStat \in {"Connected", "Listening"}
                /\ "News" \notin races => (portStat = "Connected") = Peer
    BY DEF StoreShowsWhatIs
  <2>1. Now = "Idle" /\ events = <<>> /\ Settled
    BY DEF LinkInv, TypeOK, AtRest, Now, Settled
  <2>2. Quiet(events, heard) /\ \A m : ~LossPending(events, heard, m)
    BY <2>1 DEF Quiet, LossPending
  <2>3. OpenInv /\ WifiShown /\ PortShown
    BY DEF LinkInv, LoneInv
  <2>4. ASSUME races \cap {"Overlap", "Reader"} = {}, portStat = "Connected", mode \in ComPorts
        PROVE  link # 0 /\ Alive(link) /\ kind[link] = mode
    BY <2>1, <2>2, <2>3, <2>4 DEF PortShown, Lone
  <2>5. ASSUME races \cap {"Overlap", "Answer"} = {}, mode = "Wi-Fi"
        PROVE  /\ wifi # 0 /\ link = 0 /\ portStat \in {"Connected", "Listening"}
               /\ "News" \notin races => (portStat = "Connected") = Peer
    <3>1. Lone /\ "Answer" \notin races
      BY <2>5 DEF Lone
    <3>2. /\ wifi # 0 /\ portStat \in {"Connected", "Listening"}
          /\ "News" \notin races => (portStat = "Connected" <=> Peer)
      BY <2>1, <2>2, <2>3, <2>5, <3>1 DEF WifiShown
    <3>3. link = 0
      BY <2>1, <2>3, <3>1, <3>2 DEF OpenInv
    <3>4. (portStat = "Connected" <=> Peer) => (portStat = "Connected") = Peer
      BY DEF Peer
    <3> QED  BY <3>2, <3>3, <3>4
  <2> QED  BY <2>4, <2>5
<1> QED  BY <1>1, LinkInvariant, PTL
=============================================================================
