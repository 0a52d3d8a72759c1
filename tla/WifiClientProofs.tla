--------------------------- MODULE WifiClientProofs ---------------------------
(***************************************************************************)
(* Proofs about WifiClient, for any announcements, queues of any length    *)
(* and any number of connections, lines and rediscoveries.                 *)
(***************************************************************************)
EXTENDS WifiClient, TLAPS

-----------------------------------------------------------------------------
(* The link thread. *)

LinkInv == assoc \in BOOLEAN /\ AssociatedIsUp

\* Only LinkConnected brings an association about, and its report follows before the
\* next poll.
THEOREM ClientAssociatedIsUp == Spec => []AssociatedIsUp
<1>1. Init => LinkInv
  BY DEF Init, LinkInv, AssociatedIsUp
<1>2. LinkInv /\ [Next]_vars => LinkInv'
  <2> SUFFICES ASSUME LinkInv, [Next]_vars
               PROVE  LinkInv'
    OBVIOUS
  <2> USE DEF LinkInv, AssociatedIsUp, linkVars
  <2>1. CASE LinkThread
    BY <2>1 DEF LinkThread, LinkPoll, LinkConnected, LinkReport, LinkFailed, GivesUp
  <2>2. CASE AccessPointLost
    BY <2>2 DEF AccessPointLost
  <2>3. CASE ClientThread
    BY <2>3 DEF ClientThread, Drain, Connect, Replay, Answer, Forward, SeeClosed, Join
  <2>4. CASE MainLoop \/ EmitTelemetry
    BY <2>4 DEF MainLoop, Emit, TakeCommand, EmitTelemetry
  <2>5. ASSUME NEW c \in Conns, ReaderThread(c) \/ ReadFails(c) \/ PeerSends(c) \/ PeerCloses(c)
        PROVE  LinkInv'
    BY <2>5 DEF ReaderThread, ReadLine, Deliver, ReaderEnds, ReadFails, PeerSends, PeerCloses
  <2>6. CASE UNCHANGED vars
    BY <2>6 DEF vars
  <2> QED
    BY <2>1, <2>2, <2>3, <2>4, <2>5, <2>6 DEF Next
<1>3. LinkInv => AssociatedIsUp
  BY DEF LinkInv
<1> QED
  BY <1>1, <1>2, <1>3, PTL DEF Spec

-----------------------------------------------------------------------------
(* The cache, the queue and the desktop. *)

Messages == [of : Sources \cup {Telemetry}, v : Nat]

\* The last message of s in the queue is its latest version; when none is there, the
\* cache has it.
LatestIsAhead(s) ==
  /\ \A i \in 1..Len(outbound) :
       outbound[i].of = s /\ (\A j \in (i + 1)..Len(outbound) : outbound[j].of # s)
         => outbound[i].v = emitted[s]
  /\ (\A i \in 1..Len(outbound) : outbound[i].of # s) => cache[s] = emitted[s]

CacheInv ==
  /\ cache \in [Sources -> Nat] /\ emitted \in [Sources -> Nat]
  /\ outbound \in Seq(Messages) /\ todo \in Seq(Sources)
  /\ client = "Serve" => heard = cache
  /\ \A s \in Sources : LatestIsAhead(s)

LEMMA TelemetryIsNoSource == Telemetry \notin Sources
  BY ClientAssumption DEF Telemetry, Sources

LEMMA AnnouncedAreSources == Announced \in Seq(Sources)
  BY ClientAssumption DEF Sources

\* Whoever takes a message from the queue remembers it.
LEMMA RememberedFirst ==
  ASSUME CacheInv, outbound # <<>>, Remember(Head(outbound)), outbound' = Tail(outbound),
         emitted' = emitted
  PROVE  cache' \in [Sources -> Nat] /\ outbound' \in Seq(Messages)
         /\ \A s \in Sources : LatestIsAhead(s)'
<1> DEFINE m == Head(outbound)
           n == Len(outbound)
<1>1. n \in Nat \ {0} /\ m = outbound[1] /\ m \in Messages /\ \A i \in 1..n : outbound[i] \in Messages
  BY DEF CacheInv
<1>2. outbound' \in Seq(Messages) /\ Len(outbound') = n - 1
      /\ \A i \in 1..(n - 1) : outbound'[i] = outbound[i + 1]
  BY <1>1 DEF CacheInv
<1>3. cache' \in [Sources -> Nat]
      /\ \A s \in Sources : cache'[s] = IF m.of = s THEN m.v ELSE cache[s]
  BY <1>1, TelemetryIsNoSource DEF CacheInv, Remember, Messages
<1>4. ASSUME NEW s \in Sources
      PROVE  LatestIsAhead(s)'
  <2>1. ASSUME NEW i \in 1..(n - 1), outbound'[i].of = s,
               \A j \in (i + 1)..(n - 1) : outbound'[j].of # s
        PROVE  outbound'[i].v = emitted[s]
    <3>1. i + 1 \in 1..n /\ outbound[i + 1].of = s
      BY <1>1, <1>2, <2>1
    <3>2. \A j \in (i + 2)..n : outbound[j].of # s
      <4> TAKE j \in (i + 2)..n
      <4>1. j - 1 \in (i + 1)..(n - 1) /\ j - 1 \in 1..(n - 1) /\ (j - 1) + 1 = j
        BY <1>1
      <4> QED
        BY <1>2, <2>1, <4>1
    <3>3. (i + 1) + 1 = i + 2
      BY <1>1
    <3> QED
      BY <1>2, <3>1, <3>2, <3>3 DEF CacheInv, LatestIsAhead
  <2>2. ASSUME \A i \in 1..(n - 1) : outbound'[i].of # s
        PROVE  cache'[s] = emitted[s]
    <3>1. \A j \in 2..n : outbound[j].of # s
      <4> TAKE j \in 2..n
      <4>1. j - 1 \in 1..(n - 1) /\ (j - 1) + 1 = j
        BY <1>1
      <4> QED
        BY <1>2, <2>2, <4>1
    <3>2. CASE m.of = s
      BY <1>1, <1>3, <3>1, <3>2 DEF CacheInv, LatestIsAhead
    <3>3. CASE m.of # s
      <4>1. \A j \in 1..n : outbound[j].of # s
        BY <1>1, <3>1, <3>3
      <4> QED
        BY <1>3, <3>3, <4>1 DEF CacheInv, LatestIsAhead
    <3> QED
      BY <3>2, <3>3
  <2> QED
    BY <1>2, <2>1, <2>2 DEF LatestIsAhead
<1> QED
  BY <1>2, <1>3, <1>4

\* A message put into the queue is the latest of its source.
LEMMA EmittedLast ==
  ASSUME CacheInv, NEW m \in Messages, outbound' = Append(outbound, m), cache' = cache,
         emitted' \in [Sources -> Nat], m.of \in Sources => emitted'[m.of] = m.v,
         \A s \in Sources \ {m.of} : emitted'[s] = emitted[s]
  PROVE  outbound' \in Seq(Messages) /\ \A s \in Sources : LatestIsAhead(s)'
<1> DEFINE n == Len(outbound)
<1>1. n \in Nat /\ outbound' \in Seq(Messages) /\ Len(outbound') = n + 1
      /\ outbound'[n + 1] = m /\ \A i \in 1..n : outbound'[i] = outbound[i]
  BY DEF CacheInv
<1>2. ASSUME NEW s \in Sources
      PROVE  LatestIsAhead(s)'
  <2>1. CASE m.of = s
    <3>1. n + 1 \in 1..(n + 1)
      BY <1>1
    <3>2. ASSUME NEW i \in 1..(n + 1), \A j \in (i + 1)..(n + 1) : outbound'[j].of # s
          PROVE  i = n + 1
      BY <1>1, <2>1, <3>2
    <3> QED
      BY <1>1, <2>1, <3>1, <3>2 DEF LatestIsAhead
  <2>2. CASE m.of # s
    <3>1. ASSUME NEW i \in 1..(n + 1), outbound'[i].of = s,
                 \A j \in (i + 1)..(n + 1) : outbound'[j].of # s
          PROVE  outbound'[i].v = emitted'[s]
      <4>1. i \in 1..n /\ \A j \in (i + 1)..n : outbound[j].of # s
        BY <1>1, <2>2, <3>1
      <4> QED
        BY <1>1, <2>2, <3>1, <4>1 DEF CacheInv, LatestIsAhead
    <3>2. ASSUME \A i \in 1..(n + 1) : outbound'[i].of # s
          PROVE  cache'[s] = emitted'[s]
      BY <1>1, <2>2, <3>2 DEF CacheInv, LatestIsAhead
    <3> QED
      BY <1>1, <3>1, <3>2 DEF LatestIsAhead
  <2> QED
    BY <2>1, <2>2
<1> QED
  BY <1>1, <1>2

LEMMA CacheInitial == Init => CacheInv
<1> SUFFICES ASSUME Init
             PROVE  CacheInv
  OBVIOUS
<1>1. todo \in Seq(Sources) /\ outbound = <<>> /\ Len(outbound) = 0 /\ outbound \in Seq(Messages)
  BY AnnouncedAreSources DEF Init
<1>2. cache = [s \in Sources |-> 0] /\ emitted = cache
  BY DEF Init
<1> QED
  BY <1>1, <1>2 DEF Init, CacheInv, LatestIsAhead

LEMMA CacheKept == CacheInv /\ [Next]_vars => CacheInv'
<1> SUFFICES ASSUME CacheInv, [Next]_vars
             PROVE  CacheInv'
  OBVIOUS
<1>a. ASSUME UNCHANGED <<cache, emitted, outbound, todo>>,
             client' = "Serve" => heard' = cache
      PROVE  CacheInv'
  BY <1>a DEF CacheInv, LatestIsAhead
<1> USE DEF clientVars, mainVars, readerVars
<1>1. CASE LinkThread \/ AccessPointLost
  BY <1>1, <1>a
  DEF CacheInv, LinkThread, LinkPoll, LinkConnected, LinkReport, LinkFailed, AccessPointLost
<1>2. CASE Drain
  BY <1>2, RememberedFirst DEF Drain, CacheInv
<1>3. CASE Forward
  <2>1. /\ outbound # <<>> /\ Remember(Head(outbound)) /\ outbound' = Tail(outbound)
        /\ UNCHANGED <<emitted, todo>> /\ client = "Serve"
    BY <1>3 DEF Forward
  <2>2. client' = "Serve" => heard' = cache'
    BY <1>3, <2>1 DEF Forward, CacheInv, Remember, Close
  <2> QED
    BY <2>1, <2>2, RememberedFirst DEF CacheInv
<1>4. CASE Connect \/ Replay \/ Answer \/ SeeClosed \/ Join
  BY <1>4, <1>a DEF CacheInv, Connect, Replay, Answer, SeeClosed, Join, Close
<1>5. CASE Emit
  <2> DEFINE s == Head(todo)
             m == [of |-> s, v |-> emitted[s] + 1]
  <2>1. todo # <<>> /\ todo \in Seq(Sources)
    BY <1>5 DEF Emit, CacheInv
  <2>2. s \in Sources /\ todo' \in Seq(Sources)
    BY <1>5, <2>1 DEF Emit
  <2>3. emitted' = [emitted EXCEPT ![s] = @ + 1] /\ outbound' = Append(outbound, m)
        /\ UNCHANGED <<cache, client, heard>>
    BY <1>5 DEF Emit
  <2>4. emitted[s] \in Nat /\ m \in Messages /\ m.of = s /\ m.v = emitted[s] + 1
    BY <2>2 DEF CacheInv, Messages
  <2>5. emitted' \in [Sources -> Nat] /\ emitted'[s] = m.v
        /\ \A t \in Sources \ {s} : emitted'[t] = emitted[t]
    <3>1. emitted' = [emitted EXCEPT ![s] = emitted[s] + 1] /\ emitted[s] + 1 \in Nat
      BY <2>3, <2>4
    <3>2. m.v = emitted[s] + 1
      OBVIOUS
    <3> HIDE DEF m, s
    <3> QED
      BY <2>2, <3>1, <3>2 DEF CacheInv
  <2>6. outbound' \in Seq(Messages) /\ \A t \in Sources : LatestIsAhead(t)'
    <3> HIDE DEF m, s
    <3> QED
      BY <2>3, <2>4, <2>5, EmittedLast
  <2> QED
    BY <2>2, <2>3, <2>5, <2>6 DEF CacheInv
<1>6. CASE EmitTelemetry
  <2> DEFINE m == [of |-> Telemetry, v |-> 0]
  <2>1. m \in Messages /\ m.of \notin Sources
    BY TelemetryIsNoSource DEF Messages
  <2>2. outbound' = Append(outbound, m) /\ UNCHANGED <<cache, client, heard, emitted, todo>>
    BY <1>6 DEF EmitTelemetry
  <2>3. outbound' \in Seq(Messages) /\ \A t \in Sources : LatestIsAhead(t)'
    <3> HIDE DEF m
    <3> QED
      BY <2>1, <2>2, EmittedLast DEF CacheInv
  <2> QED
    BY <2>2, <2>3 DEF CacheInv
<1>7. CASE TakeCommand
  <2>1. todo' \in Seq(Sources) /\ UNCHANGED <<cache, client, heard, emitted, outbound>>
    BY <1>7, AnnouncedAreSources DEF TakeCommand, CacheInv
  <2> QED
    BY <2>1 DEF CacheInv, LatestIsAhead
<1>8. ASSUME NEW c \in Conns, ReaderThread(c) \/ ReadFails(c) \/ PeerSends(c) \/ PeerCloses(c)
      PROVE  CacheInv'
  BY <1>8, <1>a
  DEF CacheInv, ReaderThread, ReadLine, Deliver, ReaderEnds, ReadFails, PeerSends, PeerCloses
<1>9. CASE UNCHANGED vars
  BY <1>9, <1>a DEF CacheInv, vars
<1> QED
  BY <1>1, <1>2, <1>3, <1>4, <1>5, <1>6, <1>7, <1>8, <1>9 DEF Next, ClientThread, MainLoop

\* A desktop that is served and has nothing more to come has the latest of everything
\* that was ever emitted, over any number of connections (wifi.rs:288-313).
THEOREM ClientDesktopIsUpToDate == Spec => []DesktopIsUpToDate
<1>1. CacheInv => DesktopIsUpToDate
  <2> SUFFICES ASSUME CacheInv, client = "Serve", outbound = <<>>
               PROVE  heard = emitted
    BY DEF DesktopIsUpToDate
  <2>1. \A s \in Sources : cache[s] = emitted[s]
    BY DEF CacheInv, LatestIsAhead
  <2> QED
    BY <2>1 DEF CacheInv
<1> QED
  BY <1>1, CacheInitial, CacheKept, PTL DEF Spec

-----------------------------------------------------------------------------
(* The commands. *)

Numbered == Lines \X Nat
Marks == Nat \X Nat

\* The lines s of a wire are all numbered above k.
Above(s, k) == \A i \in 1..Len(s) : k < s[i][2]

\* They are on the wire in the order they were sent, the last one at most number top.
Ordered(s, top) ==
  /\ \A i \in 1..Len(s) : s[i][2] <= top
  /\ \A i, j \in 1..Len(s) : i < j => s[i][2] < s[j][2]

\* A command that has left its wire is older than every line still on it.
Passed(m, cn, top, wr) ==
  m[1] <= cn /\ m[2] <= top /\ (m[1] \in Conns => Above(wr[m[1]], m[2]))

QueueInOrder(q, t) ==
  /\ \A i, j \in 1..Len(q) : i < j => Before(q[i], q[j])
  /\ q # <<>> => Before(t, Head(q))

ReaderTypes ==
  /\ conn \in 0..MaxConns /\ sent \in Nat
  /\ reader \in [Conns -> {"None", "Reading", "Sending", "Ended"}]
  /\ wire \in [Conns -> Seq(Numbered)]
  /\ incoming \in Seq(Marks) /\ taken \in Marks

\* Only the reader of the latest connection runs, and none while the client looks for
\* the next connection: that is what Join waits for.
OneReader ==
  \A c \in Conns : reader[c] \in {"Reading", "Sending"} => c = conn /\ client # "Drain"

WiresInOrder ==
  \A c \in Conns : Ordered(wire[c], sent) /\ (reader[c] = "Sending" => wire[c] # <<>>)

AllPassed ==
  /\ Passed(taken, conn, sent, wire)
  /\ \A i \in 1..Len(incoming) : Passed(incoming[i], conn, sent, wire)

CommandInv ==
  /\ ReaderTypes /\ OneReader /\ WiresInOrder /\ AllPassed
  /\ QueueInOrder(incoming, taken)

LEMMA EmptyWire == \A k : Above(<<>>, k) /\ Ordered(<<>>, k)
BY DEF Above, Ordered

LEMMA HeadLeaves ==
  ASSUME NEW s \in Seq(Numbered), NEW top \in Nat, s # <<>>, Ordered(s, top)
  PROVE  /\ Head(s) \in Numbered /\ Tail(s) \in Seq(Numbered)
         /\ Head(s)[2] \in Nat /\ Head(s)[2] <= top
         /\ Ordered(Tail(s), top) /\ Above(Tail(s), Head(s)[2])
         /\ \A k : Above(s, k) => Above(Tail(s), k) /\ k < Head(s)[2]
<1>1. Len(s) \in Nat \ {0} /\ Head(s) = s[1] /\ s[1] \in Numbered
  OBVIOUS
<1>2. /\ Tail(s) \in Seq(Numbered) /\ Len(Tail(s)) = Len(s) - 1
      /\ \A i \in 1..Len(Tail(s)) : Tail(s)[i] = s[i + 1] /\ i + 1 \in 1..Len(s)
  BY <1>1
<1>3. Head(s)[2] \in Nat /\ Head(s)[2] <= top
  BY <1>1 DEF Ordered, Numbered
<1>4. Above(Tail(s), Head(s)[2])
  BY <1>1, <1>2 DEF Ordered, Above
<1>5. ASSUME NEW i \in 1..Len(Tail(s)), NEW j \in 1..Len(Tail(s)), i < j
      PROVE  Tail(s)[i][2] < Tail(s)[j][2]
  BY <1>2, <1>5 DEF Ordered
<1>6. Ordered(Tail(s), top)
  BY <1>2, <1>5 DEF Ordered
<1>7. \A k : Above(s, k) => Above(Tail(s), k) /\ k < Head(s)[2]
  BY <1>1, <1>2 DEF Above
<1>q. QED  BY <1>1, <1>2, <1>3, <1>4, <1>6, <1>7

LEMMA LineIsAdded ==
  ASSUME NEW s \in Seq(Numbered), NEW top \in Nat, NEW kind \in Lines, Ordered(s, top)
  PROVE  /\ Append(s, <<kind, top + 1>>) \in Seq(Numbered)
         /\ Ordered(Append(s, <<kind, top + 1>>), top + 1) /\ Ordered(s, top + 1)
         /\ \A k \in 0..top : Above(s, k) => Above(Append(s, <<kind, top + 1>>), k)
<1> DEFINE new == <<kind, top + 1>>
<1>1. new \in Numbered /\ new[2] = top + 1
  BY DEF Numbered
<1> HIDE DEF new
<1>2. /\ Append(s, new) \in Seq(Numbered) /\ Len(Append(s, new)) = Len(s) + 1 /\ Len(s) \in Nat
      /\ Append(s, new)[Len(s) + 1] = new /\ \A i \in 1..Len(s) : Append(s, new)[i] = s[i]
  BY <1>1
<1>3. \A i \in 1..Len(s) : s[i][2] \in Nat /\ s[i][2] <= top
  BY DEF Ordered, Numbered
<1>4. Ordered(s, top + 1)
  BY <1>3 DEF Ordered
<1>5. \A i \in 1..(Len(s) + 1) : Append(s, new)[i][2] <= top + 1
  BY <1>1, <1>2, <1>3
<1>6. ASSUME NEW i \in 1..(Len(s) + 1), NEW j \in 1..(Len(s) + 1), i < j
      PROVE  Append(s, new)[i][2] < Append(s, new)[j][2]
  <2>1. i \in 1..Len(s)
    BY <1>2, <1>6
  <2>2. CASE j = Len(s) + 1
    BY <1>1, <1>2, <1>3, <2>1, <2>2
  <2>3. CASE j \in 1..Len(s)
    BY <1>2, <1>6, <2>1, <2>3 DEF Ordered
  <2>q. QED  BY <1>2, <2>2, <2>3
<1>7. Ordered(Append(s, new), top + 1)
  BY <1>2, <1>5, <1>6 DEF Ordered
<1>8. \A k \in 0..top : Above(s, k) => Above(Append(s, new), k)
  BY <1>1, <1>2 DEF Above
<1>q. QED  BY <1>2, <1>4, <1>7, <1>8 DEF new

\* What has passed stays so while wires lose lines or get newer ones.
LEMMA PassedStays ==
  ASSUME NEW cn \in Nat, NEW cm \in Nat, cn <= cm, NEW top \in Nat, NEW tap \in Nat, top <= tap,
         NEW wr, NEW ws,
         \A d \in Conns : \A k \in 0..top : Above(wr[d], k) => Above(ws[d], k),
         NEW m \in Marks, Passed(m, cn, top, wr)
  PROVE  Passed(m, cm, tap, ws)
<1>1. m[1] \in Nat /\ m[2] \in 0..top
  BY DEF Marks, Passed
<1>q. QED  BY <1>1 DEF Passed

LEMMA QueueTakes ==
  ASSUME NEW q \in Seq(Marks), NEW t \in Marks, NEW m \in Marks, QueueInOrder(q, t),
         Before(t, m), \A i \in 1..Len(q) : Before(q[i], m)
  PROVE  QueueInOrder(Append(q, m), t)
<1>1. /\ Len(q) \in Nat /\ Len(Append(q, m)) = Len(q) + 1 /\ Append(q, m)[Len(q) + 1] = m
      /\ \A i \in 1..Len(q) : Append(q, m)[i] = q[i]
  OBVIOUS
<1>2. ASSUME NEW i \in 1..(Len(q) + 1), NEW j \in 1..(Len(q) + 1), i < j
      PROVE  Before(Append(q, m)[i], Append(q, m)[j])
  <2>1. i \in 1..Len(q)
    BY <1>1, <1>2
  <2>2. CASE j = Len(q) + 1
    BY <1>1, <2>1, <2>2
  <2>3. CASE j \in 1..Len(q)
    BY <1>1, <1>2, <2>1, <2>3 DEF QueueInOrder
  <2>q. QED  BY <1>1, <2>2, <2>3
<1>3. Before(t, Head(Append(q, m)))
  <2>1. CASE q = <<>>
    <3>1. Head(Append(q, m)) = m
      BY <2>1
    <3>q. QED  BY <3>1
  <2>2. CASE q # <<>>
    <3>1. Head(Append(q, m)) = Head(q)
      BY <2>2
    <3>q. QED  BY <2>2, <3>1 DEF QueueInOrder
  <2>q. QED  BY <2>1, <2>2
<1>q. QED  BY <1>1, <1>2, <1>3 DEF QueueInOrder

LEMMA QueueGives ==
  ASSUME NEW q \in Seq(Marks), NEW t, QueueInOrder(q, t), q # <<>>
  PROVE  /\ QueueInOrder(Tail(q), Head(q)) /\ Head(q) = q[1] /\ Head(q) \in Marks
         /\ Tail(q) \in Seq(Marks) /\ Len(Tail(q)) = Len(q) - 1 /\ Len(q) \in Nat \ {0}
         /\ \A i \in 1..Len(Tail(q)) : Tail(q)[i] = q[i + 1] /\ i + 1 \in 1..Len(q)
<1>1. Len(q) \in Nat \ {0} /\ Head(q) = q[1] /\ Head(q) \in Marks
  OBVIOUS
<1>2. /\ Tail(q) \in Seq(Marks) /\ Len(Tail(q)) = Len(q) - 1
      /\ \A i \in 1..Len(Tail(q)) : Tail(q)[i] = q[i + 1] /\ i + 1 \in 1..Len(q)
  BY <1>1
<1>3. ASSUME NEW i \in 1..Len(Tail(q)), NEW j \in 1..Len(Tail(q)), i < j
      PROVE  Before(Tail(q)[i], Tail(q)[j])
  BY <1>2, <1>3 DEF QueueInOrder
<1>4. Tail(q) # <<>> => Before(Head(q), Head(Tail(q)))
  <2>1. ASSUME Tail(q) # <<>> PROVE 1 \in 1..Len(Tail(q)) /\ Head(Tail(q)) = Tail(q)[1]
    BY <1>2, <2>1
  <2>2. ASSUME Tail(q) # <<>> PROVE Head(Tail(q)) = q[2] /\ 2 \in 1..Len(q) /\ 1 \in 1..Len(q)
    BY <1>1, <1>2, <2>1, <2>2
  <2>q. QED  BY <1>1, <2>2 DEF QueueInOrder
<1>q. QED  BY <1>1, <1>2, <1>3, <1>4 DEF QueueInOrder

\* A step that neither delivers nor takes a command keeps what has passed.
LEMMA NothingDelivered ==
  ASSUME CommandInv, UNCHANGED <<incoming, taken>>, conn' \in conn..MaxConns, sent' \in Nat, sent <= sent',
         reader' \in [Conns -> {"None", "Reading", "Sending", "Ended"}],
         wire' \in [Conns -> Seq(Numbered)], OneReader', WiresInOrder',
         \A d \in Conns : \A k \in 0..sent : Above(wire[d], k) => Above(wire'[d], k)
  PROVE  CommandInv'
<1>1. conn \in Nat /\ conn' \in Nat /\ conn <= conn' /\ conn' \in 0..MaxConns /\ sent \in Nat
  BY ClientAssumption DEF CommandInv, ReaderTypes
<1>2. ReaderTypes'
  BY <1>1 DEF CommandInv, ReaderTypes
<1>3. ASSUME NEW m \in Marks, Passed(m, conn, sent, wire)
      PROVE  Passed(m, conn', sent', wire')
  BY <1>1, <1>3, PassedStays
<1>4. taken \in Marks /\ \A i \in 1..Len(incoming) : incoming[i] \in Marks
  BY DEF CommandInv, ReaderTypes
<1>5. Passed(taken', conn', sent', wire')
  BY <1>3, <1>4 DEF CommandInv, AllPassed
<1>6. \A i \in 1..Len(incoming') : Passed(incoming'[i], conn', sent', wire')
  BY <1>3, <1>4 DEF CommandInv, AllPassed
<1>7. QueueInOrder(incoming', taken')
  BY DEF CommandInv
<1> QED
  BY <1>2, <1>5, <1>6, <1>7 DEF CommandInv, AllPassed

\* The reader of c goes on to what, with the lines s left.
LEMMA ReaderGoesOn ==
  ASSUME CommandInv, NEW c \in Conns, NEW s \in Seq(Numbered), NEW what \in {"Reading", "Sending", "Ended"},
         reader[c] = "Reading", UNCHANGED <<conn, sent, client, incoming, taken>>,
         reader' = [reader EXCEPT ![c] = what], wire' = [wire EXCEPT ![c] = s],
         Ordered(s, sent), what = "Sending" => s # <<>>,
         \A k : Above(wire[c], k) => Above(s, k)
  PROVE  CommandInv'
<1>1. /\ conn \in 0..MaxConns /\ sent \in Nat /\ wire \in [Conns -> Seq(Numbered)]
      /\ reader \in [Conns -> {"None", "Reading", "Sending", "Ended"}]
  BY DEF CommandInv, ReaderTypes
<1>2. /\ wire' \in [Conns -> Seq(Numbered)] /\ wire'[c] = s /\ \A d \in Conns \ {c} : wire'[d] = wire[d]
      /\ reader' \in [Conns -> {"None", "Reading", "Sending", "Ended"}]
      /\ reader'[c] = what /\ \A d \in Conns \ {c} : reader'[d] = reader[d]
  BY <1>1
<1>3. c = conn /\ client # "Drain"
  BY DEF CommandInv, OneReader
<1>4. OneReader'
  BY <1>2, <1>3 DEF CommandInv, OneReader
<1>5. WiresInOrder'
  BY <1>2 DEF CommandInv, WiresInOrder
<1>6. \A d \in Conns : \A k \in 0..sent : Above(wire[d], k) => Above(wire'[d], k)
  BY <1>2
<1>7. conn' \in conn..MaxConns /\ sent' \in Nat /\ sent <= sent'
  BY <1>1, ClientAssumption
<1> QED
  BY <1>2, <1>4, <1>5, <1>6, <1>7, NothingDelivered

LEMMA ReaderStops ==
  ASSUME CommandInv, NEW c \in Conns, reader[c] = "Reading", End(c),
         UNCHANGED <<conn, sent, client, incoming, taken>>
  PROVE  CommandInv'
<1>1. <<>> \in Seq(Numbered)
  OBVIOUS
<1> QED
  BY <1>1, EmptyWire, ReaderGoesOn DEF End

\* A line that is read leaves the wire, but for a command the queue has to take first.
LEMMA LineIsRead ==
  ASSUME CommandInv, NEW c \in Conns, ReadLine(c)
  PROVE  CommandInv'
<1>1. /\ reader[c] = "Reading" /\ wire[c] # <<>>
      /\ UNCHANGED <<conn, sent, client, incoming, taken>>
  BY DEF ReadLine, mainVars
<1>2. wire[c] \in Seq(Numbered) /\ sent \in Nat /\ Ordered(wire[c], sent)
      /\ wire = [wire EXCEPT ![c] = wire[c]] /\ reader = [reader EXCEPT ![c] = "Reading"]
  BY <1>1 DEF CommandInv, ReaderTypes, WiresInOrder
<1>3. CASE reader' = [reader EXCEPT ![c] = "Sending"] /\ wire' = wire
  BY <1>1, <1>2, <1>3, ReaderGoesOn
<1>4. CASE reader' = reader /\ wire' = [wire EXCEPT ![c] = Tail(@)]
  <2>1. Tail(wire[c]) \in Seq(Numbered) /\ Ordered(Tail(wire[c]), sent)
        /\ \A k : Above(wire[c], k) => Above(Tail(wire[c]), k)
    BY <1>1, <1>2, HeadLeaves
  <2> QED
    BY <1>1, <1>2, <1>4, <2>1, ReaderGoesOn
<1>5. CASE End(c)
  BY <1>1, <1>5, ReaderStops
<1> QED
  BY <1>3, <1>4, <1>5 DEF ReadLine

LEMMA LineIsSent ==
  ASSUME CommandInv, NEW c \in Conns, PeerSends(c)
  PROVE  CommandInv'
<1>1. PICK kind \in Lines : wire' = [wire EXCEPT ![c] = Append(@, <<kind, sent + 1>>)]
  BY DEF PeerSends
<1>2. sent' = sent + 1 /\ UNCHANGED <<conn, client, reader, incoming, taken>>
  BY DEF PeerSends, clientVars, mainVars
<1>3. /\ conn \in 0..MaxConns /\ sent \in Nat /\ wire \in [Conns -> Seq(Numbered)]
      /\ reader \in [Conns -> {"None", "Reading", "Sending", "Ended"}]
      /\ \A d \in Conns : wire[d] \in Seq(Numbered) /\ Ordered(wire[d], sent)
  BY DEF CommandInv, ReaderTypes, WiresInOrder
<1> DEFINE s == Append(wire[c], <<kind, sent + 1>>)
<1>4. /\ s \in Seq(Numbered) /\ Ordered(s, sent + 1) /\ s # <<>>
      /\ \A k \in 0..sent : Above(wire[c], k) => Above(s, k)
  <2>1. s # <<>>
    BY <1>3
  <2> QED
    BY <1>3, <2>1, LineIsAdded
<1>5. \A d \in Conns : Ordered(wire[d], sent + 1)
  BY <1>1, <1>3, LineIsAdded
<1>6. /\ wire' \in [Conns -> Seq(Numbered)] /\ wire'[c] = s /\ \A d \in Conns \ {c} : wire'[d] = wire[d]
  BY <1>1, <1>3, <1>4
<1> HIDE DEF s
<1>7. WiresInOrder'
  BY <1>2, <1>4, <1>5, <1>6 DEF CommandInv, WiresInOrder
<1>8. OneReader'
  BY <1>2 DEF CommandInv, OneReader
<1>9. \A d \in Conns : \A k \in 0..sent : Above(wire[d], k) => Above(wire'[d], k)
  BY <1>4, <1>6
<1>10. conn' \in conn..MaxConns /\ sent' \in Nat /\ sent <= sent'
  BY <1>2, <1>3, ClientAssumption
<1> QED
  BY <1>2, <1>3, <1>6, <1>7, <1>8, <1>9, <1>10, NothingDelivered

\* The next connection follows only when no reader runs, so no command is behind it.
LEMMA NextConnection ==
  ASSUME CommandInv, Connect
  PROVE  CommandInv'
<1>1. /\ client = "Drain" /\ client' = "Replay" /\ conn < MaxConns /\ conn' = conn + 1
      /\ reader' = [reader EXCEPT ![conn + 1] = "Reading"] /\ UNCHANGED <<sent, wire, incoming, taken>>
  BY DEF Connect, mainVars
<1>2. /\ conn \in 0..MaxConns /\ sent \in Nat /\ wire \in [Conns -> Seq(Numbered)]
      /\ reader \in [Conns -> {"None", "Reading", "Sending", "Ended"}]
  BY DEF CommandInv, ReaderTypes
<1>3. conn' \in Conns /\ conn' \in conn..MaxConns /\ sent' \in Nat /\ sent <= sent'
  BY <1>1, <1>2, ClientAssumption DEF Conns
<1>4. /\ reader' \in [Conns -> {"None", "Reading", "Sending", "Ended"}]
      /\ reader'[conn'] = "Reading" /\ \A d \in Conns \ {conn'} : reader'[d] = reader[d]
  BY <1>1, <1>2, <1>3
<1>5. OneReader'
  BY <1>1, <1>4 DEF CommandInv, OneReader
<1>6. WiresInOrder'
  BY <1>1, <1>3, <1>4 DEF CommandInv, WiresInOrder
<1> QED
  BY <1>1, <1>2, <1>3, <1>4, <1>5, <1>6, NothingDelivered

\* A command that is delivered is newer than everything that was taken or is queued.
LEMMA CommandIsQueued ==
  ASSUME CommandInv, NEW c \in Conns, Deliver(c)
  PROVE  CommandInv'
<1> DEFINE m == <<c, Head(wire[c])[2]>>
           s == Tail(wire[c])
<1>1. /\ reader[c] = "Sending" /\ incoming' = Append(incoming, m) /\ wire' = [wire EXCEPT ![c] = s]
      /\ reader' = [reader EXCEPT ![c] = "Reading"] /\ UNCHANGED <<conn, client, sent, taken>>
  BY DEF Deliver, clientVars, mainVars
<1>2. /\ conn \in 0..MaxConns /\ sent \in Nat /\ wire \in [Conns -> Seq(Numbered)]
      /\ reader \in [Conns -> {"None", "Reading", "Sending", "Ended"}]
      /\ incoming \in Seq(Marks) /\ taken \in Marks /\ \A i \in 1..Len(incoming) : incoming[i] \in Marks
  BY DEF CommandInv, ReaderTypes
<1>3. c = conn /\ client # "Drain" /\ wire[c] # <<>> /\ Ordered(wire[c], sent) /\ wire[c] \in Seq(Numbered)
  BY <1>1, <1>2 DEF CommandInv, OneReader, WiresInOrder
<1>4. /\ s \in Seq(Numbered) /\ m[2] \in Nat /\ m[2] <= sent
      /\ Ordered(s, sent) /\ Above(s, m[2])
      /\ \A k : Above(wire[c], k) => Above(s, k) /\ k < m[2]
  BY <1>2, <1>3, HeadLeaves
<1>5. m[1] = c /\ m \in Marks
  BY <1>4 DEF Marks, Conns
<1> HIDE DEF m, s
<1>6. /\ wire' \in [Conns -> Seq(Numbered)] /\ wire'[c] = s /\ \A d \in Conns \ {c} : wire'[d] = wire[d]
      /\ reader' \in [Conns -> {"None", "Reading", "Sending", "Ended"}]
      /\ reader'[c] = "Reading" /\ \A d \in Conns \ {c} : reader'[d] = reader[d]
  BY <1>1, <1>2, <1>4
<1>7. OneReader'
  BY <1>1, <1>3, <1>6 DEF CommandInv, OneReader
<1>8. WiresInOrder'
  BY <1>1, <1>4, <1>6 DEF CommandInv, WiresInOrder
<1>9. ASSUME NEW t \in Marks, Passed(t, conn, sent, wire)
      PROVE  Passed(t, conn', sent', wire') /\ Before(t, m)
  <2>1. \A d \in Conns : \A k \in 0..sent : Above(wire[d], k) => Above(wire'[d], k)
    BY <1>4, <1>6
  <2>2. conn \in Nat /\ conn <= conn /\ sent <= sent
    BY <1>2
  <2>3. Passed(t, conn', sent', wire')
    BY <1>1, <1>2, <1>9, <2>1, <2>2, PassedStays
  <2>4. Before(t, m)
    BY <1>2, <1>3, <1>4, <1>5, <1>9 DEF Passed, Before, Marks
  <2> QED
    BY <2>3, <2>4
<1>10. Passed(taken, conn', sent', wire') /\ Before(taken, m)
  BY <1>2, <1>9 DEF CommandInv, AllPassed
<1>11. \A i \in 1..Len(incoming) : Passed(incoming[i], conn', sent', wire') /\ Before(incoming[i], m)
  BY <1>2, <1>9 DEF CommandInv, AllPassed
<1>12. Passed(m, conn', sent', wire')
  BY <1>1, <1>2, <1>3, <1>4, <1>5, <1>6 DEF Passed
<1>13. QueueInOrder(incoming', taken')
  BY <1>1, <1>2, <1>5, <1>10, <1>11, QueueTakes DEF CommandInv
<1>14. /\ incoming' \in Seq(Marks) /\ Len(incoming') = Len(incoming) + 1 /\ Len(incoming) \in Nat
       /\ incoming'[Len(incoming) + 1] = m /\ \A i \in 1..Len(incoming) : incoming'[i] = incoming[i]
  BY <1>1, <1>2, <1>5
<1>15. AllPassed'
  <2>1. ASSUME NEW i \in 1..(Len(incoming) + 1)
        PROVE  Passed(incoming'[i], conn', sent', wire')
    <3>1. CASE i = Len(incoming) + 1
      BY <1>12, <1>14, <3>1
    <3>2. CASE i \in 1..Len(incoming)
      BY <1>11, <1>14, <3>2
    <3> QED
      BY <1>14, <3>1, <3>2
  <2> QED
    BY <1>1, <1>10, <1>14, <2>1 DEF AllPassed
<1>16. ReaderTypes'
  BY <1>1, <1>2, <1>6, <1>14 DEF ReaderTypes
<1> QED
  BY <1>7, <1>8, <1>13, <1>15, <1>16 DEF CommandInv

LEMMA CommandIsTaken ==
  ASSUME CommandInv, TakeCommand
  PROVE  CommandInv'
<1>1. /\ incoming # <<>> /\ taken' = Head(incoming) /\ incoming' = Tail(incoming)
      /\ UNCHANGED <<conn, client, sent, reader, wire>>
  BY DEF TakeCommand, clientVars, readerVars
<1>2. incoming \in Seq(Marks) /\ QueueInOrder(incoming, taken)
  BY DEF CommandInv, ReaderTypes
<1>3. /\ QueueInOrder(incoming', taken') /\ taken' = incoming[1] /\ taken' \in Marks
      /\ incoming' \in Seq(Marks) /\ Len(incoming) \in Nat \ {0}
      /\ \A i \in 1..Len(incoming') : incoming'[i] = incoming[i + 1] /\ i + 1 \in 1..Len(incoming)
  BY <1>1, <1>2, QueueGives
<1>4. ReaderTypes' /\ OneReader' /\ WiresInOrder'
  BY <1>1, <1>3 DEF CommandInv, ReaderTypes, OneReader, WiresInOrder
<1>5. 1 \in 1..Len(incoming)
  BY <1>3
<1>6. AllPassed'
  BY <1>1, <1>3, <1>5 DEF CommandInv, AllPassed
<1> QED
  BY <1>3, <1>4, <1>6 DEF CommandInv

\* Every other step leaves readers, wires and commands alone; Join waits for the reader.
LEMMA CommandsUntouched ==
  ASSUME CommandInv, UNCHANGED <<conn, sent, reader, wire, incoming, taken>>,
         client' = "Drain" => client = "Drain" \/ reader[conn] = "Ended"
  PROVE  CommandInv'
<1>1. OneReader'
  BY DEF CommandInv, OneReader
<1>2. ReaderTypes' /\ WiresInOrder' /\ AllPassed'
  BY DEF CommandInv, ReaderTypes, WiresInOrder, AllPassed
<1> QED
  BY <1>1, <1>2 DEF CommandInv

LEMMA CommandInitial == Init => CommandInv
<1> SUFFICES ASSUME Init
             PROVE  CommandInv
  OBVIOUS
<1>1. /\ conn = 0 /\ sent = 0 /\ incoming = <<>> /\ taken = <<0, 0>> /\ MaxConns \in Nat
      /\ reader = [c \in Conns |-> "None"] /\ wire = [c \in Conns |-> <<>>]
  BY ClientAssumption DEF Init, NoCommand
<1>2. /\ incoming \in Seq(Marks) /\ Len(incoming) = 0 /\ taken \in Marks
      /\ wire \in [Conns -> Seq(Numbered)] /\ taken[1] \notin Conns /\ taken[1] = 0 /\ taken[2] = 0
  BY <1>1 DEF Marks, Conns
<1>3. ReaderTypes /\ OneReader
  BY <1>1, <1>2 DEF ReaderTypes, OneReader
<1>4. WiresInOrder
  BY <1>1, EmptyWire DEF WiresInOrder
<1>5. AllPassed
  BY <1>1, <1>2 DEF AllPassed, Passed
<1>6. QueueInOrder(incoming, taken)
  BY <1>1, <1>2 DEF QueueInOrder
<1> QED
  BY <1>3, <1>4, <1>5, <1>6 DEF CommandInv

LEMMA CommandKept == CommandInv /\ [Next]_vars => CommandInv'
<1> SUFFICES ASSUME CommandInv, [Next]_vars
             PROVE  CommandInv'
  OBVIOUS
<1> USE DEF clientVars, mainVars, readerVars
<1>1. CASE LinkThread \/ AccessPointLost
  BY <1>1, CommandsUntouched
  DEF LinkThread, LinkPoll, LinkConnected, LinkReport, LinkFailed, AccessPointLost
<1>2. CASE Drain \/ Replay \/ Answer \/ Forward \/ SeeClosed
  BY <1>2, CommandsUntouched DEF Drain, Replay, Answer, Forward, SeeClosed, Close
<1>3. CASE Join
  BY <1>3, CommandsUntouched DEF Join, ReaderDone
<1>4. CASE Connect
  BY <1>4, NextConnection
<1>5. CASE Emit \/ EmitTelemetry
  BY <1>5, CommandsUntouched DEF Emit, EmitTelemetry
<1>6. CASE TakeCommand
  BY <1>6, CommandIsTaken
<1>7. ASSUME NEW c \in Conns, ReaderThread(c) \/ ReadFails(c) \/ PeerSends(c) \/ PeerCloses(c)
      PROVE  CommandInv'
  <2>1. CASE ReadLine(c)
    BY <2>1, LineIsRead
  <2>2. CASE Deliver(c)
    BY <2>2, CommandIsQueued
  <2>3. CASE ReaderEnds(c) \/ ReadFails(c)
    BY <2>3, ReaderStops DEF ReaderEnds, ReadFails
  <2>4. CASE PeerSends(c)
    BY <2>4, LineIsSent
  <2>5. CASE PeerCloses(c)
    BY <2>5, CommandsUntouched DEF PeerCloses
  <2> QED
    BY <1>7, <2>1, <2>2, <2>3, <2>4, <2>5 DEF ReaderThread
<1>8. CASE UNCHANGED vars
  BY <1>8, CommandsUntouched DEF vars
<1> QED
  BY <1>1, <1>2, <1>3, <1>4, <1>5, <1>6, <1>7, <1>8 DEF Next, ClientThread, MainLoop

\* Commands reach the main loop in the order they were sent, and none of an old
\* connection after one of a newer one, with queues, connections and lines of any
\* number (wifi.rs:318-320).
THEOREM ClientCommandsByConnection == Spec => []CommandsByConnection
<1>1. CommandInv => CommandsByConnection
  BY DEF CommandInv, QueueInOrder, CommandsByConnection
<1> QED
  BY <1>1, CommandInitial, CommandKept, PTL DEF Spec
=============================================================================
