------------------------- MODULE AuthSessionProofs -------------------------
(***************************************************************************)
(* Proofs about AuthSession, for every set of keys and every bound.        *)
(***************************************************************************)
EXTENDS AuthSession, SequenceTheorems, TLAPS

\* What a queue holds, in whatever order.
Items(q) == {q[i] : i \in 1..Len(q)}

\* What Append does to the set of elements.
LEMMA ItemsAppend ==
  ASSUME NEW S, NEW q \in Seq(S), NEW x \in S
  PROVE  /\ Append(q, x) \in Seq(S)
         /\ Items(Append(q, x)) = Items(q) \cup {x}
BY DEF Items

\* The elements of a sequence, one by one and without its head.
LEMMA ItemsTail ==
  ASSUME NEW S, NEW q \in Seq(S), q # <<>>
  PROVE  /\ Head(q) \in S /\ Head(q) \in Items(q)
         /\ Tail(q) \in Seq(S)
         /\ Items(Tail(q)) \subseteq Items(q)
BY DEF Items

\* A subsequence has no new elements.
LEMMA ItemsSubSeq ==
  ASSUME NEW S, NEW q \in Seq(S), NEW m \in 1..(Len(q)+1), NEW n \in 0..Len(q)
  PROVE  /\ SubSeq(q, m, n) \in Seq(S)
         /\ Items(SubSeq(q, m, n)) \subseteq Items(q)
BY DEF Items

\* Cutting a sequence short and appending an element adds only that element.
LEMMA ItemsCut ==
  ASSUME NEW S, NEW q \in Seq(S), NEW n \in 0..Len(q), NEW x \in S
  PROVE  Items(Append(SubSeq(q, 1, n), x)) \subseteq Items(q) \cup {x}
<1>1. SubSeq(q, 1, n) \in Seq(S) /\ Items(SubSeq(q, 1, n)) \subseteq Items(q)
  BY ItemsSubSeq
<1>2. \A r \in Seq(S) : Items(Append(r, x)) = Items(r) \cup {x}
  BY ItemsAppend
<1> QED
  BY <1>1, <1>2

\* What concatenation does to the set of elements.
LEMMA ItemsConcat ==
  ASSUME NEW S, NEW q \in Seq(S), NEW r \in Seq(S)
  PROVE  /\ q \o r \in Seq(S)
         /\ Items(q \o r) = Items(q) \cup Items(r)
<1>1. /\ q \o r \in Seq(S) /\ Len(q \o r) = Len(q) + Len(r)
      /\ Len(q) \in Nat /\ Len(r) \in Nat
      /\ \A i \in 1..Len(q) : (q \o r)[i] = q[i]
      /\ \A i \in 1..Len(r) : (q \o r)[Len(q) + i] = r[i]
  BY ConcatProperties
<1>2. Items(q) \cup Items(r) \subseteq Items(q \o r)
  BY <1>1 DEF Items
<1>3. ASSUME NEW i \in 1..Len(q \o r)
      PROVE  (q \o r)[i] \in Items(q) \cup Items(r)
  <2>1. CASE i \in 1..Len(q)
    BY <1>1, <2>1 DEF Items
  <2>2. CASE i \notin 1..Len(q)
    <3>1. i - Len(q) \in 1..Len(r) /\ i = Len(q) + (i - Len(q))
      BY <1>1, <2>2
    <3> QED
      BY <1>1, <3>1 DEF Items
  <2> QED
    BY <2>1, <2>2
<1> QED
  BY <1>1, <1>2, <1>3 DEF Items

\* Swapping two neighbours keeps the set of elements.
LEMMA ItemsSwap ==
  ASSUME NEW S, NEW q \in Seq(S), NEW i \in 1..Len(q), NEW j \in 1..Len(q)
  PROVE  /\ [q EXCEPT ![i] = q[j], ![j] = q[i]] \in Seq(S)
         /\ Items([q EXCEPT ![i] = q[j], ![j] = q[i]]) \subseteq Items(q)
BY DEF Items

\* The empty sequence has no elements.
LEMMA ItemsEmpty == Items(<<>>) = {}
BY DEF Items

-----------------------------------------------------------------------------
(***************************************************************************)
(* The inductive invariant.                                                *)
(***************************************************************************)

\* The session behind a client or a device state.
Responded == client.st \in {"Responded", "Authenticated"}

\* The number of the next command signed in the session.
NextSeq == IF client.st = "Authenticated" THEN client.next ELSE 1

\* The challenge of this session was issued, and is not the pending one.
Spent(s) ==
  /\ s.device <= issued
  /\ ~(device.st = "Challenged" /\ device.session.device = s.device)

\* Connection numbers only move forward, and a state of the client carries the
\* number of its connection.
ClientInv ==
  /\ devConn <= conn
  /\ ~open => client = Idle
  /\ open => client # Idle
  /\ client.st = "Begun" => client.client = conn
  /\ Responded => client.session.client = conn
  /\ client.st = "Authenticated" => Spent(client.session) /\ client.next >= 1

\* The device's session was challenged on the connection it serves.
DeviceInv ==
  device.st # "Idle" =>
    /\ device.session.device <= issued
    /\ device.session.client <= conn
    /\ devConn # 0 => device.session.client = devConn

\* Nothing is under way for a connection that was not opened yet.
ConnInv == \A l \in Items(up) : l.conn <= conn

\* A proof on its way answers the challenge of its own connection, the only one
\* the client answers there.
ResponseInv ==
  \A l \in Items(up) : l.kind = "Response" =>
    /\ l.conn = conn => client.st # "Begun"
    /\ (l.conn = conn /\ Responded) => l.proof = client.session

\* "Accepted" is only under way once the client's session is established.
AcceptedInv ==
  \A m \in Items(down) : m.kind = "Accepted" =>
    /\ client.st # "Begun"
    /\ client.st = "Responded" => Spent(client.session)

\* Signed lines belong to established sessions and are numbered below the
\* client's counters.
SignedInv ==
  \A l \in Items(up) : l.kind = "Signed" =>
    /\ Spent(l.session)
    /\ l.cmd \in 1..sent
    /\ l.session.client <= conn
    /\ l.session.client = conn => client.st \notin {"Begun", "Responded"}
    /\ (client.st = "Authenticated" /\ l.session = client.session)
         => l.seq < client.next

\* Within a session, sequence numbers and command numbers grow together.
PairInv ==
  \A l, m \in Items(up) :
    (/\ l.kind = "Signed" /\ m.kind = "Signed" /\ l.session = m.session
     /\ l.seq < m.seq) => l.cmd < m.cmd

ObeyedInv ==
  /\ \A i \in 1..Len(obeyed) : obeyed[i] <= sent
  /\ \A i, j \in 1..Len(obeyed) : i < j => obeyed[i] < obeyed[j]

\* What the device would still accept comes after everything it has obeyed.
FreshInv ==
  \A l \in Items(up) :
    (/\ l.kind = "Signed" /\ device.st = "Authenticated"
     /\ l.session = device.session /\ l.seq > device.last)
      => \A i \in 1..Len(obeyed) : obeyed[i] < l.cmd

\* On the connection they share, an authenticated device and its client hold
\* one session, and the client is ahead.
AgreeInv ==
  (device.st = "Authenticated" /\ devConn = conn) =>
    /\ client.st # "Begun"
    /\ Responded => client.session = device.session /\ device.last < NextSeq

Facts ==
  /\ ClientInv /\ DeviceInv /\ ConnInv /\ ResponseInv /\ AcceptedInv
  /\ SignedInv /\ PairInv /\ ObeyedInv /\ FreshInv /\ AgreeInv

IInv == TypeOK /\ Facts

-----------------------------------------------------------------------------
(***************************************************************************)
(* Type correctness.                                                       *)
(***************************************************************************)

\* The constructors of lines make lines.
LEMMA LineTypes ==
  ASSUME NEW c \in Nat, NEW n \in Nat, NEW op \in Op, NEW s \in Session, NEW q \in Nat
  PROVE  /\ OpenLine(c) \in Line /\ CloseLine(c) \in Line /\ BeginLine(c) \in Line
         /\ ResponseLine(c, s) \in Line /\ PlainLine(c, n, op) \in Line
         /\ SignedLine(c, n, op, s, q) \in Line
BY DEF Line, OpenLine, CloseLine, BeginLine, ResponseLine, PlainLine, SignedLine

\* Writing a line keeps the input of the worker well typed.
LEMMA WriteType ==
  ASSUME TypeOK, NEW l \in Line, Write(l)
  PROVE  up' \in Seq(Line)
BY ItemsAppend DEF TypeOK, Write

\* Taking a work item keeps the rest of the input well typed.
LEMMA TakeType ==
  ASSUME TypeOK, NEW kind, Take(kind)
  PROVE  /\ Head(up) \in Line /\ Head(up).conn \in Nat /\ Head(up).kind = kind
         /\ Head(up) \in Items(up)
         /\ up' \in Seq(Line) /\ Items(up') \subseteq Items(up)
<1>1. up \in Seq(Line) /\ up # <<>> /\ up' = Tail(up) /\ Head(up).kind = kind
  BY DEF TypeOK, Take
<1>2. /\ Head(up) \in Line /\ Head(up) \in Items(up)
      /\ up' \in Seq(Line) /\ Items(up') \subseteq Items(up)
  BY <1>1, ItemsTail
<1>3. Head(up).conn \in Nat
  BY <1>2 DEF Line
<1> QED
  BY <1>1, <1>2, <1>3

\* A reply keeps the messages for the desktop well typed.
LEMMA ReplyType ==
  ASSUME TypeOK, NEW m \in Message, Reply(m)
  PROVE  /\ down' \in Seq(Message) /\ lost' \in Nat
         /\ Items(down') \subseteq Items(down) \cup {m}
<1>1. CASE down' = Append(down, m) /\ UNCHANGED lost
  BY <1>1, ItemsAppend DEF TypeOK
<1>2. CASE down' = down /\ (UNCHANGED lost \/ lost' = lost + 1)
  BY <1>2 DEF TypeOK
<1> QED
  BY <1>1, <1>2 DEF Reply

\* The session that remains after the key check is none or the device's own.
LEMMA CheckedType ==
  ASSUME TypeOK
  PROVE  /\ Checked \in DeviceState
         /\ Checked # Idle => Checked = device /\ device.session.key = devKey
BY DEF TypeOK, Checked, DeviceState, Idle

\* The initial states are well typed.
LEMMA TypeInit == Init => TypeOK
<1> SUFFICES ASSUME Init PROVE TypeOK
  OBVIOUS
<1>1. up \in Seq(Line) /\ down \in Seq(Message) /\ obeyed \in Seq(Nat)
  BY DEF Init
<1>2. client \in ClientState /\ device \in DeviceState
  BY DEF Init, ClientState, DeviceState
<1> QED
  BY <1>1, <1>2 DEF Init, TypeOK

\* The steps of the worker keep the types.
LEMMA TypeDevice ==
  ASSUME TypeOK, DeviceStep
  PROVE  TypeOK'
<1> USE DEF linkVars, deviceVars, keyVars, boundVars
<1>1. CASE OnConnected
  <2>1. /\ Head(up).conn \in Nat /\ up' \in Seq(Line)
    BY <1>1, TakeType DEF OnConnected, Reset
  <2>2. device' \in DeviceState /\ devConn' \in Nat /\ warned' \in BOOLEAN
    BY <1>1, <2>1 DEF OnConnected, Reset, TypeOK, DeviceState
  <2> QED
    BY <1>1, <2>1, <2>2 DEF OnConnected, Reset, TypeOK
<1>2. CASE OnClosed
  <2>1. up' \in Seq(Line)
    BY <1>2, TakeType DEF OnClosed, Reset
  <2>2. device' \in DeviceState /\ devConn' \in Nat /\ warned' \in BOOLEAN
    <3>1. CASE Served
      <4>1. devConn' = 0 /\ device' = Idle /\ warned' = FALSE
        BY <1>2, <3>1 DEF OnClosed, Reset
      <4>2. device' \in DeviceState
        BY <4>1 DEF DeviceState
      <4>3. warned' \in BOOLEAN
        BY <4>1
      <4> QED
        BY <4>1, <4>2, <4>3
    <3>2. CASE ~Served
      BY <1>2, <3>2 DEF OnClosed, Reset, TypeOK
    <3> QED
      BY <3>1, <3>2
  <2> QED
    BY <1>2, <2>1, <2>2 DEF OnClosed, Reset, TypeOK
<1>3. CASE IgnoreLine
  <2>1. up' \in Seq(Line)
    BY <1>3, TakeType DEF IgnoreLine
  <2> QED
    BY <1>3, <2>1 DEF IgnoreLine, TypeOK
<1>4. CASE Begin
  <2> DEFINE s == [key |-> devKey, client |-> Head(up).conn, device |-> issued + 1]
  <2>1. Head(up).conn \in Nat /\ up' \in Seq(Line)
    BY <1>4, TakeType DEF Begin
  <2>2. CASE devKey = NoKey
    <3>1. [kind |-> "Unprovisioned"] \in Message
      BY DEF Message
    <3>2. down' \in Seq(Message) /\ lost' \in Nat
      BY <1>4, <2>2, <3>1, ReplyType DEF Begin
    <3> QED
      BY <1>4, <2>1, <2>2, <3>2 DEF Begin, TypeOK, DeviceState
  <2>3. CASE devKey # NoKey
    <3>1. s \in Session
      BY <2>1, <2>3 DEF TypeOK, Session
    <3>2. [kind |-> "Challenge", proof |-> s] \in Message
      BY <3>1 DEF Message
    <3>3. down' \in Seq(Message) /\ lost' \in Nat
      BY <1>4, <2>3, <3>2, ReplyType DEF Begin
    <3>4. device' = [st |-> "Challenged", session |-> s] /\ issued' = issued + 1
      BY <1>4, <2>3 DEF Begin
    <3>5. device' \in DeviceState
      BY <3>1, <3>4 DEF DeviceState
    <3> QED
      BY <1>4, <2>1, <3>3, <3>4, <3>5 DEF Begin, TypeOK
  <2> QED
    BY <2>2, <2>3
<1>5. CASE Respond
  <2>1. up' \in Seq(Line)
    BY <1>5, TakeType DEF Respond
  <2>2. down' \in Seq(Message) /\ lost' \in Nat
    <3>1. [kind |-> "Accepted"] \in Message /\ [kind |-> "Refused"] \in Message
      BY DEF Message
    <3> QED
      BY <1>5, <3>1, ReplyType DEF Respond
  <2>3. device' \in DeviceState
    BY <1>5, CheckedType DEF Respond, DeviceState, Idle
  <2> QED
    BY <1>5, <2>1, <2>2, <2>3 DEF Respond, TypeOK
<1>6. CASE HandlePlain
  <2>1. up' \in Seq(Line) /\ Head(up) \in Line /\ Head(up).kind = "Plain"
    BY <1>6, TakeType DEF HandlePlain
  <2>2. Head(up).cmd \in Nat /\ warned' \in BOOLEAN
    BY <1>6, <2>1 DEF Line, HandlePlain, TypeOK
  <2>3. device' \in DeviceState
    BY <1>6, CheckedType DEF HandlePlain
  <2> QED
    BY <1>6, <2>1, <2>2, <2>3 DEF HandlePlain, TypeOK
<1>7. CASE HandleSigned
  <2>1. /\ up' \in Seq(Line) /\ Head(up) \in Line /\ Head(up).kind = "Signed"
    BY <1>7, TakeType DEF HandleSigned
  <2>2. Head(up).cmd \in Nat /\ Head(up).seq \in Nat
    BY <2>1 DEF Line
  <2>3. Checked \in DeviceState
    BY CheckedType
  <2>4. device' \in DeviceState
    BY <1>7, <2>2, <2>3 DEF HandleSigned, Acceptable, DeviceState, Idle
  <2>5. obeyed' \in Seq(Nat)
    <3>1. obeyed' = Append(obeyed, Head(up).cmd) \/ obeyed' = obeyed
      BY <1>7 DEF HandleSigned
    <3>2. obeyed \in Seq(Nat)
      BY DEF TypeOK
    <3> QED
      BY <2>2, <3>1, <3>2, ItemsAppend
  <2> QED
    BY <1>7, <2>1, <2>4, <2>5 DEF HandleSigned, TypeOK
<1> QED
  BY <1>1, <1>2, <1>3, <1>4, <1>5, <1>6, <1>7 DEF DeviceStep

\* What the client may hold when it accepts a challenge.
LEMMA ChallengeType ==
  ASSUME NEW m \in Message, m.kind = "Challenge"
  PROVE  m.proof \in Session
BY DEF Message

\* Handling an Auth message keeps the types.
LEMMA TypeOnMessage ==
  ASSUME TypeOK, OnMessage
  PROVE  TypeOK'
<1> DEFINE m == Head(down)
<1>1. m \in Message /\ down' \in Seq(Message)
  BY ItemsTail DEF OnMessage, TypeOK
<1>2. client' \in ClientState
  <2>1. \A why \in Reasons : Done(why) \in ClientState
    BY DEF Done, ClientState, Reasons
  <2>2. CASE client' = [st |-> "Responded", session |-> m.proof] /\ m.kind = "Challenge"
    BY <1>1, <2>2, ChallengeType DEF ClientState
  <2>3. CASE /\ client' = [st |-> "Authenticated", session |-> client.session, next |-> 1]
             /\ client.st = "Responded"
    <3>1. client.session \in Session
      BY <2>3 DEF TypeOK, ClientState, Idle
    <3> QED
      BY <2>3, <3>1 DEF ClientState
  <2>4. CASE client' = client
    BY <2>4 DEF TypeOK
  <2>5. CASE \E why \in Reasons : client' = Done(why)
    BY <2>1, <2>5
  <2> QED
    BY <2>2, <2>3, <2>4, <2>5 DEF OnMessage, Reasons
<1>3. up' \in Seq(Line)
  <2>1. CASE Write(ResponseLine(conn, m.proof)) /\ m.kind = "Challenge"
    <3>1. ResponseLine(conn, m.proof) \in Line
      BY <1>1, <2>1, ChallengeType DEF TypeOK, ResponseLine, Line
    <3> QED
      BY <2>1, <3>1, WriteType
  <2>2. CASE up' = up
    BY <2>2 DEF TypeOK
  <2> QED
    BY <2>1, <2>2 DEF OnMessage
<1> QED
  BY <1>1, <1>2, <1>3
  DEF OnMessage, TypeOK, linkVars, deviceVars, keyVars, boundVars

\* Sending a command keeps the types.
LEMMA TypeSendData ==
  ASSUME TypeOK, NEW op \in Op, SendData(op)
  PROVE  TypeOK'
<1>1. CASE CanSign
  <2>1. client.session \in Session /\ client.next \in Nat
    BY <1>1 DEF CanSign, TypeOK, ClientState, Idle
  <2>2. client' \in ClientState
    <3>1. client \in [st : {"Authenticated"}, session : Session, next : Nat]
      BY <1>1 DEF CanSign, TypeOK, ClientState, Idle
    <3>2. client' \in [st : {"Authenticated"}, session : Session, next : Nat]
      BY <1>1, <3>1 DEF SendData, SignedOne
    <3> QED
      BY <3>2 DEF ClientState
  <2>3. SignedLine(conn, sent + 1, op, client.session, client.next) \in Line
    BY <2>1 DEF TypeOK, SignedLine, Line
  <2>4. up' \in Seq(Line)
    BY <1>1, <2>3, WriteType DEF SendData, SignedOne
  <2> QED
    BY <2>2, <2>4 DEF SendData, SignedOne, TypeOK, linkVars, deviceVars, keyVars, boundVars
<1>2. CASE ~CanSign
  <2>1. PlainLine(conn, sent + 1, op) \in Line
    BY DEF TypeOK, PlainLine, Line
  <2>2. up' \in Seq(Line)
    BY <1>2, <2>1, WriteType DEF SendData, SignedOne
  <2> QED
    BY <1>2, <2>2 DEF SendData, SignedOne, TypeOK, linkVars, deviceVars, keyVars, boundVars
<1> QED
  BY <1>1, <1>2

\* The steps of the desktop keep the types.
LEMMA TypeDesktop ==
  ASSUME TypeOK, DesktopStep
  PROVE  TypeOK'
<1> USE DEF linkVars, deviceVars, keyVars, boundVars
<1>1. CASE Connect
  <2>1. <<OpenLine(conn + 1), BeginLine(conn + 1)>> \in Seq(Line)
    BY DEF TypeOK, OpenLine, BeginLine, Line
  <2>2. up' \in Seq(Line)
    BY <1>1, <2>1, ItemsConcat DEF Connect, TypeOK
  <2>3. client' \in ClientState /\ down' \in Seq(Message)
    BY <1>1 DEF Connect, TypeOK, ClientState
  <2> QED
    BY <1>1, <2>2, <2>3 DEF Connect, TypeOK
<1>2. CASE Disconnect
  <2>1. up' \in Seq(Line)
    <3>1. CloseLine(conn) \in Line
      BY DEF TypeOK, CloseLine, Line
    <3> QED
      BY <1>2, <3>1, ItemsAppend DEF Disconnect, TypeOK
  <2>2. client' \in ClientState /\ down' \in Seq(Message)
    BY <1>2 DEF Disconnect, ClientState
  <2> QED
    BY <1>2, <2>1, <2>2 DEF Disconnect, TypeOK
<1> QED
  BY <1>1, <1>2, TypeOnMessage, TypeSendData DEF DesktopStep

\* The steps of the environment keep the types.
LEMMA TypeEnvironment ==
  ASSUME TypeOK, Environment
  PROVE  TypeOK'
<1> USE DEF linkVars, deviceVars, keyVars, boundVars
<1>0. up \in Seq(Line) /\ CloseLine(conn) \in Line
  BY DEF TypeOK, CloseLine, Line
<1>1. CASE DropConnection
  <2>1. device' \in DeviceState /\ warned' \in BOOLEAN
    BY <1>1 DEF DropConnection, Reset, TypeOK, DeviceState
  <2>2. up' \in Seq(Line) /\ down' \in Seq(Message) /\ linkUp' \in BOOLEAN
    <3>1. Append(up, CloseLine(conn)) \in Seq(Line)
      BY <1>0, ItemsAppend
    <3>2. CASE linkUp' = FALSE /\ down' = <<>> /\ up' = Append(up, CloseLine(conn))
      <4>1. down' \in Seq(Message)
        BY <3>2
      <4>2. linkUp' \in BOOLEAN
        BY <3>2
      <4> QED
        BY <3>1, <3>2, <4>1, <4>2
    <3>3. CASE UNCHANGED <<linkUp, down, up>>
      BY <3>3 DEF TypeOK
    <3> QED
      BY <1>1, <3>2, <3>3 DEF DropConnection, Reset
  <2> QED
    BY <1>1, <2>1, <2>2 DEF DropConnection, Reset, TypeOK
<1>2. CASE LinkLost
  <2>1. PICK n \in 0..Len(up) : up' = Append(SubSeq(up, 1, n), CloseLine(conn))
    BY <1>2 DEF LinkLost
  <2>2. SubSeq(up, 1, n) \in Seq(Line)
    BY <1>0, ItemsSubSeq
  <2>3. up' \in Seq(Line)
    BY <1>0, <2>1, <2>2, ItemsAppend
  <2>4. down' \in Seq(Message)
    BY <1>2 DEF LinkLost
  <2>6. linkUp' \in BOOLEAN
    BY <1>2 DEF LinkLost
  <2>5. UNCHANGED <<open, conn, client, deviceVars, keyVars, sent, obeyed, trusted, boundVars>>
    BY <1>2 DEF LinkLost
  <2> QED
    BY <2>3, <2>4, <2>5, <2>6 DEF TypeOK
<1>3. CASE RepeatLine
  <2>1. PICK i \in 1..Len(up) : up' = SubSeq(up, 1, i) \o SubSeq(up, i, Len(up))
    BY <1>3 DEF RepeatLine
  <2>2. SubSeq(up, 1, i) \in Seq(Line) /\ SubSeq(up, i, Len(up)) \in Seq(Line)
    BY <1>0, ItemsSubSeq
  <2>3. up' \in Seq(Line)
    BY <2>1, <2>2, ItemsConcat
  <2> QED
    BY <1>3, <2>3 DEF RepeatLine, TypeOK
<1>4. CASE SwapLines
  <2>1. PICK i \in 1..(Len(up) - 1) : up' = [up EXCEPT ![i] = up[i + 1], ![i + 1] = up[i]]
    BY <1>4 DEF SwapLines
  <2>2. i \in 1..Len(up) /\ i + 1 \in 1..Len(up)
    BY <1>0
  <2>3. up' \in Seq(Line)
    BY <1>0, <2>1, <2>2, ItemsSwap
  <2>4. /\ faults' = faults + 1
        /\ UNCHANGED <<linkVars, client, down, deviceVars, keyVars, sent, obeyed, trusted, lost>>
    BY <1>4 DEF SwapLines
  <2> QED
    BY <2>3, <2>4 DEF TypeOK
<1>5. ASSUME NEW k \in Key \cup {NoKey}, ChangeDeviceKey(k)
      PROVE  TypeOK'
  BY <1>5 DEF ChangeDeviceKey, TypeOK
<1>6. ASSUME NEW k \in Key \cup {NoKey}, ChangeDesktopKey(k)
      PROVE  TypeOK'
  BY <1>6 DEF ChangeDesktopKey, TypeOK
<1> QED
  BY <1>1, <1>2, <1>3, <1>4, <1>5, <1>6 DEF Environment

\* Every step keeps the types.
LEMMA TypeStep == TypeOK /\ [Next]_vars => TypeOK'
<1>1. CASE Next
  BY <1>1, TypeDevice, TypeDesktop, TypeEnvironment DEF Next
<1>2. CASE UNCHANGED vars
  BY <1>2 DEF TypeOK, vars, linkVars, deviceVars, keyVars, boundVars
<1> QED
  BY <1>1, <1>2

\* Every variable keeps its type in every behaviour, for every set of keys and
\* every bound.
THEOREM TypeCorrect == Spec => []TypeOK
BY TypeInit, TypeStep, PTL DEF Spec

-----------------------------------------------------------------------------
(***************************************************************************)
(* The inductive invariant is preserved.  Most steps are quiet: they add   *)
(* neither a proof nor a signed line nor an "Accepted", and the device     *)
(* keeps its session or forgets it.                                        *)
(***************************************************************************)

QuietUp == \A l \in Items(up') :
             l \in Items(up) \/ (l.kind \notin {"Response", "Signed"} /\ l.conn <= conn)

QuietDown == \A m \in Items(down') : m \in Items(down) \/ m.kind # "Accepted"

QuietDevice ==
  /\ device' \in {device, Idle}
  /\ devConn' <= conn
  /\ devConn' = devConn \/ device' = Idle \/ (devConn' = 0 /\ conn # 0)

\* Steps that only shorten the input and touch no session keep the facts.
LEMMA QuietStep ==
  ASSUME TypeOK, Facts, QuietUp, QuietDown, QuietDevice,
         UNCHANGED <<open, conn, client, issued, sent, obeyed>>
  PROVE  Facts'
<1>0. \A s : Spent(s) => Spent(s)'
  BY DEF Spent, QuietDevice, Idle
<1>1. ClientInv'
  BY <1>0 DEF Facts, ClientInv, Responded, QuietDevice
<1>2. DeviceInv'
  BY DEF Facts, DeviceInv, QuietDevice, Idle
<1>3. ConnInv'
  BY DEF Facts, ConnInv, QuietUp
<1>4. ResponseInv'
  BY DEF Facts, ResponseInv, QuietUp, Responded
<1>5. AcceptedInv'
  BY <1>0 DEF Facts, AcceptedInv, QuietDown
<1>6. SignedInv'
  BY <1>0 DEF Facts, SignedInv, QuietUp
<1>7. PairInv'
  BY DEF Facts, PairInv, QuietUp
<1>8. ObeyedInv'
  BY DEF Facts, ObeyedInv
<1>9. FreshInv'
  BY DEF Facts, FreshInv, QuietUp, QuietDevice, Idle
<1>10. AgreeInv'
  BY DEF Facts, AgreeInv, QuietDevice, Responded, NextSeq, Idle
<1> QED
  BY <1>1, <1>2, <1>3, <1>4, <1>5, <1>6, <1>7, <1>8, <1>9, <1>10 DEF Facts

\* The steps of the device that only read the queue.
LEMMA FactsConnection ==
  ASSUME IInv, OnConnected \/ OnClosed \/ IgnoreLine \/ HandlePlain
  PROVE  Facts'
<1> USE DEF IInv, linkVars, deviceVars, boundVars
<1>1. PICK kind : Take(kind)
  BY DEF OnConnected, OnClosed, Reset, IgnoreLine, HandlePlain
<1>2. Items(up') \subseteq Items(up) /\ Head(up).conn <= conn
  BY <1>1, TakeType DEF Facts, ConnInv
<1>3. QuietUp /\ QuietDown
  <2>1. down' = down
    BY DEF OnConnected, OnClosed, Reset, IgnoreLine, HandlePlain
  <2> QED
    BY <1>2, <2>1 DEF QuietUp, QuietDown
<1>4. QuietDevice
  <2>0. /\ devConn \in Nat /\ conn \in Nat /\ devConn <= conn
        /\ Checked \in {device, Idle}
    BY CheckedType DEF TypeOK, Facts, ClientInv
  <2>1. CASE OnConnected
    BY <1>2, <2>0, <2>1 DEF OnConnected, Reset, QuietDevice
  <2>2. CASE OnClosed
    BY <2>0, <2>2 DEF OnClosed, Reset, QuietDevice
  <2>3. CASE IgnoreLine
    BY <2>0, <2>3 DEF IgnoreLine, QuietDevice
  <2>4. CASE HandlePlain
    BY <2>0, <2>4 DEF HandlePlain, QuietDevice
  <2> QED
    BY <2>1, <2>2, <2>3, <2>4
<1>5. UNCHANGED <<open, conn, client, issued, sent, obeyed>>
  BY DEF OnConnected, OnClosed, Reset, IgnoreLine, HandlePlain
<1> QED
  BY <1>3, <1>4, <1>5, QuietStep

\* A new challenge replaces whatever session the device had.
LEMMA FactsBegin ==
  ASSUME IInv, Begin
  PROVE  Facts'
<1> USE DEF IInv
<1>0. TypeOK /\ Facts
  OBVIOUS
<1>1. /\ Items(up') \subseteq Items(up)
      /\ Head(up).conn = devConn /\ devConn \in Nat /\ conn \in Nat /\ devConn <= conn
      /\ issued \in Nat
  BY TakeType DEF Begin, Served, TypeOK, Facts, ClientInv
<1>2. CASE devKey = NoKey
  <2>1. [kind |-> "Unprovisioned"] \in Message
    BY DEF Message
  <2>2. Items(down') \subseteq Items(down) \cup {[kind |-> "Unprovisioned"]}
    BY <1>2, <2>1, ReplyType DEF Begin
  <2>3. QuietUp /\ QuietDown
    BY <1>1, <2>2 DEF QuietUp, QuietDown
  <2>4. QuietDevice
    BY <1>1, <1>2 DEF Begin, QuietDevice
  <2>5. UNCHANGED <<open, conn, client, issued, sent, obeyed>>
    BY <1>2 DEF Begin, linkVars
  <2> QED
    BY <2>3, <2>4, <2>5, QuietStep
<1>3. CASE devKey # NoKey
  <2> DEFINE s == [key |-> devKey, client |-> devConn, device |-> issued + 1]
             m == [kind |-> "Challenge", proof |-> s]
  <2>1. /\ device' = [st |-> "Challenged", session |-> s]
        /\ issued' = issued + 1 /\ Reply(m)
        /\ UNCHANGED <<open, conn, client, devConn, sent, obeyed>>
    BY <1>1, <1>3 DEF Begin, linkVars
  <2>2. m \in Message
    BY <1>1, <1>3 DEF Message, Session, TypeOK
  <2>3. Items(down') \subseteq Items(down) \cup {m}
    BY <2>1, <2>2, ReplyType
  <2>4. ASSUME NEW t \in Session, Spent(t)
        PROVE  Spent(t)'
    BY <1>1, <2>1, <2>4 DEF Spent, Session
  <2>5. \A l \in Items(up) : l.kind = "Signed" => l.session \in Session
    BY DEF TypeOK, Items, Line
  <2>6. Responded => client.session \in Session
    BY DEF TypeOK, Responded, ClientState, Idle
  <2>7. ClientInv'
    BY <1>1, <2>1, <2>4, <2>6 DEF Facts, ClientInv, Responded
  <2>8. DeviceInv'
    BY <1>1, <2>1 DEF DeviceInv
  <2>9. ConnInv' /\ ResponseInv' /\ PairInv' /\ ObeyedInv'
    BY <1>1, <2>1 DEF Facts, ConnInv, ResponseInv, PairInv, ObeyedInv, Responded
  <2>10. AcceptedInv'
    BY <2>1, <2>3, <2>4, <2>6 DEF Facts, AcceptedInv, Responded
  <2>11. SignedInv'
    BY <1>1, <2>1, <2>4, <2>5 DEF Facts, SignedInv
  <2>12. FreshInv' /\ AgreeInv'
    BY <2>1 DEF FreshInv, AgreeInv
  <2> QED
    BY <2>7, <2>8, <2>9, <2>10, <2>11, <2>12 DEF Facts
<1> QED
  BY <1>2, <1>3

\* The device authenticates the session it challenged: no line signed in it is
\* under way yet, and the client, if it is still there, holds the same session.
LEMMA FactsRespond ==
  ASSUME IInv, Respond
  PROVE  Facts'
<1> USE DEF IInv
<1> DEFINE l == Head(up)
           s == l.proof
<1>1. /\ Items(up') \subseteq Items(up) /\ l \in Items(up)
      /\ l.kind = "Response" /\ l.conn = devConn
  BY TakeType DEF Respond, Served
<1>2. UNCHANGED <<open, conn, client, issued, devConn, sent, obeyed>>
  BY DEF Respond, linkVars
<1>3. CASE ~(Checked.st = "Challenged" /\ Checked.session = s)
  <2>1. [kind |-> "Refused"] \in Message
    BY DEF Message
  <2>2. device' = Idle /\ Reply([kind |-> "Refused"])
    BY <1>3 DEF Respond
  <2>3. Items(down') \subseteq Items(down) \cup {[kind |-> "Refused"]}
    BY <2>1, <2>2, ReplyType
  <2>4. QuietUp /\ QuietDown /\ QuietDevice
    BY <1>1, <1>2, <2>2, <2>3
    DEF QuietUp, QuietDown, QuietDevice, Facts, ClientInv
  <2> QED
    BY <1>2, <2>4, QuietStep
<1>4. CASE Checked.st = "Challenged" /\ Checked.session = s
  <2>1. device.st = "Challenged" /\ device.session = s
    BY <1>4, CheckedType DEF Idle
  <2>2. /\ device' = [st |-> "Authenticated", session |-> s, last |-> 0]
        /\ Reply([kind |-> "Accepted"])
    BY <1>4 DEF Respond
  <2>3. /\ s \in Session /\ s.device \in Nat /\ s.device <= issued /\ s.client <= conn
        /\ devConn # 0 => s.client = devConn
    BY <2>1 DEF Facts, DeviceInv, TypeOK, DeviceState, Session, Idle
  <2>4. l.conn = conn => client.st # "Begun" /\ (Responded => s = client.session)
    BY <1>1 DEF Facts, ResponseInv
  <2>5. \A t : Spent(t) => Spent(t)'
    BY <1>2, <2>2 DEF Spent
  <2>6. ClientInv'
    BY <1>2, <2>5 DEF Facts, ClientInv, Responded
  <2>7. DeviceInv'
    BY <1>2, <2>2, <2>3 DEF DeviceInv
  <2>8. ConnInv' /\ ResponseInv' /\ PairInv' /\ ObeyedInv'
    BY <1>1, <1>2 DEF Facts, ConnInv, ResponseInv, PairInv, ObeyedInv, Responded
  <2>9. AcceptedInv'
    <3>1. [kind |-> "Accepted"] \in Message
      BY DEF Message
    <3>2. Items(down') \subseteq Items(down) \cup {[kind |-> "Accepted"]}
      BY <2>2, <3>1, ReplyType
    <3>3. CASE devConn = conn
      <4>1. client.st # "Begun" /\ (client.st = "Responded" => Spent(client.session)')
        BY <1>1, <1>2, <2>2, <2>3, <2>4, <3>3 DEF Spent, Responded
      <4> QED
        BY <1>2, <4>1 DEF AcceptedInv
    <3>4. CASE devConn # conn
      <4>1. down' = down
        BY <2>2, <3>4 DEF Reply
      <4> QED
        BY <1>2, <2>5, <4>1 DEF Facts, AcceptedInv
    <3> QED
      BY <3>3, <3>4
  <2>10. SignedInv'
    BY <1>1, <1>2, <2>5 DEF Facts, SignedInv
  <2>11. FreshInv'
    <3>1. \A k \in Items(up) : k.kind = "Signed" => k.session # s
      BY <2>1 DEF Facts, SignedInv, Spent
    <3> QED
      BY <1>1, <2>2, <3>1 DEF FreshInv
  <2>12. AgreeInv'
    <3>1. client.st = "Authenticated" => client.next \in Nat /\ client.next >= 1
      BY DEF Facts, ClientInv, TypeOK, ClientState, Idle
    <3> QED
      BY <1>1, <1>2, <2>2, <2>4, <3>1 DEF AgreeInv, Responded, NextSeq
  <2> QED
    BY <2>6, <2>7, <2>8, <2>9, <2>10, <2>11, <2>12 DEF Facts
<1> QED
  BY <1>3, <1>4

\* An accepted signed line comes after everything obeyed so far, and what stays
\* acceptable comes after it.
LEMMA FactsHandleSigned ==
  ASSUME IInv, HandleSigned
  PROVE  Facts'
<1> USE DEF IInv
<1> DEFINE l == Head(up)
<1>1. /\ Items(up') \subseteq Items(up) /\ l \in Items(up) /\ l \in Line
      /\ l.kind = "Signed" /\ l.conn = devConn
  BY TakeType DEF HandleSigned, Served
<1>2. UNCHANGED <<open, conn, client, issued, devConn, sent, down>>
  BY DEF HandleSigned, linkVars
<1>3. CASE ~Acceptable(Checked, l)
  <2>1. QuietUp /\ QuietDown /\ QuietDevice /\ UNCHANGED obeyed
    BY <1>1, <1>2, <1>3, CheckedType
    DEF HandleSigned, QuietUp, QuietDown, QuietDevice, Facts, ClientInv
  <2> QED
    BY <1>2, <2>1, QuietStep
<1>4. CASE Acceptable(Checked, l)
  <2>1. /\ device.st = "Authenticated" /\ l.session = device.session
        /\ l.seq > device.last /\ Checked = device
    BY <1>4, CheckedType DEF Acceptable, Idle
  <2>2. device' = [device EXCEPT !.last = l.seq] /\ obeyed' = Append(obeyed, l.cmd)
    BY <1>4, <2>1 DEF HandleSigned
  <2>3. /\ device \in [st : {"Authenticated"}, session : Session, last : Nat]
        /\ l.seq \in Nat /\ l.cmd \in Nat /\ l.session \in Session
    BY <1>1, <2>1 DEF TypeOK, DeviceState, Idle, Line
  <2>4. device'.st = "Authenticated" /\ device'.session = device.session /\ device'.last = l.seq
    BY <2>2, <2>3
  <2>5. \A t : Spent(t) => Spent(t)'
    BY <1>2, <2>4 DEF Spent
  <2>6. ClientInv'
    BY <1>2, <2>5 DEF Facts, ClientInv, Responded
  <2>7. DeviceInv'
    BY <1>2, <2>1, <2>4 DEF Facts, DeviceInv
  <2>8. ConnInv' /\ ResponseInv' /\ PairInv'
    BY <1>1, <1>2 DEF Facts, ConnInv, ResponseInv, PairInv, Responded
  <2>9. AcceptedInv' /\ SignedInv'
    BY <1>1, <1>2, <2>5 DEF Facts, AcceptedInv, SignedInv
  <2>10. /\ obeyed \in Seq(Nat) /\ l.cmd <= sent
         /\ \A i \in 1..Len(obeyed) : obeyed[i] < l.cmd
    BY <1>1, <2>1 DEF Facts, FreshInv, SignedInv, TypeOK
  <2>11. /\ Len(obeyed') = Len(obeyed) + 1
         /\ \A i \in 1..Len(obeyed) : obeyed'[i] = obeyed[i]
         /\ obeyed'[Len(obeyed) + 1] = l.cmd
    BY <2>2, <2>3, <2>10
  <2>12. ObeyedInv'
    <3>1. ASSUME NEW i \in 1..(Len(obeyed) + 1)
          PROVE  obeyed'[i] <= sent
      BY <2>3, <2>10, <2>11, <3>1 DEF Facts, ObeyedInv
    <3>2. ASSUME NEW i \in 1..(Len(obeyed) + 1), NEW j \in 1..(Len(obeyed) + 1), i < j
          PROVE  obeyed'[i] < obeyed'[j]
      <4>1. i \in 1..Len(obeyed)
        BY <2>10, <3>2
      <4>2. CASE j \in 1..Len(obeyed)
        BY <2>11, <3>2, <4>1, <4>2 DEF Facts, ObeyedInv
      <4>3. CASE j = Len(obeyed) + 1
        BY <2>10, <2>11, <4>1, <4>3
      <4> QED
        BY <2>10, <4>2, <4>3
    <3> QED
      BY <1>2, <2>11, <3>1, <3>2 DEF ObeyedInv
  <2>13. FreshInv'
    <3> SUFFICES ASSUME NEW m \in Items(up), m.kind = "Signed",
                        m.session = device.session, m.seq > l.seq,
                        NEW i \in 1..(Len(obeyed) + 1)
                 PROVE  obeyed'[i] < m.cmd
      BY <1>1, <2>4, <2>11 DEF FreshInv
    <3>1. m.seq \in Nat /\ m.cmd \in Nat
      BY DEF Items, TypeOK, Line
    <3>2. l.cmd < m.cmd
      BY <1>1, <2>1, <2>3, <3>1 DEF Facts, PairInv
    <3>3. i \in 1..Len(obeyed) => obeyed[i] \in Nat /\ obeyed[i] < l.cmd
      BY <2>10
    <3> QED
      BY <2>3, <2>10, <2>11, <3>1, <3>2, <3>3
  <2>14. AgreeInv'
    <3> SUFFICES ASSUME devConn = conn
                 PROVE  /\ client.st # "Begun"
                        /\ Responded => client.session = device.session /\ l.seq < NextSeq
      BY <1>2, <2>4 DEF AgreeInv, Responded, NextSeq
    <3>1. client.st # "Begun" /\ (Responded => client.session = device.session)
      BY <2>1 DEF Facts, AgreeInv
    <3>2. ASSUME Responded
          PROVE  l.seq < NextSeq
      <4>1. client.session.client = conn /\ l.session = client.session
        BY <2>1, <3>1, <3>2 DEF Facts, ClientInv
      <4>2. client.st = "Authenticated"
        BY <1>1, <3>2, <4>1 DEF Facts, SignedInv, Responded
      <4> QED
        BY <1>1, <4>1, <4>2 DEF Facts, SignedInv, NextSeq
    <3> QED
      BY <3>1, <3>2
  <2> QED
    BY <2>6, <2>7, <2>8, <2>9, <2>12, <2>13, <2>14 DEF Facts
<1> QED
  BY <1>3, <1>4

\* Faults of the link and key changes are quiet.
LEMMA FactsEnvironment ==
  ASSUME IInv, Environment
  PROVE  Facts'
<1> USE DEF IInv, linkVars, deviceVars
<1>0. /\ up \in Seq(Line) /\ CloseLine(conn) \in Line
      /\ CloseLine(conn).kind \notin {"Response", "Signed"} /\ CloseLine(conn).conn = conn
      /\ conn \in Nat /\ devConn \in Nat /\ devConn <= conn
  BY DEF TypeOK, CloseLine, Line, Facts, ClientInv
<1>1. UNCHANGED <<open, conn, client, issued, sent, obeyed>>
  BY DEF Environment, DropConnection, Reset, LinkLost, RepeatLine, SwapLines,
         ChangeDeviceKey, ChangeDesktopKey
<1>2. QuietDown
  BY ItemsEmpty
  DEF Environment, DropConnection, Reset, LinkLost, RepeatLine, SwapLines,
      ChangeDeviceKey, ChangeDesktopKey, QuietDown
<1>3. QuietDevice
  BY <1>0
  DEF Environment, DropConnection, Reset, LinkLost, RepeatLine, SwapLines,
      ChangeDeviceKey, ChangeDesktopKey, QuietDevice
<1>4. QuietUp
  <2>1. CASE DropConnection
    <3>1. up' = Append(up, CloseLine(conn)) \/ up' = up
      BY <2>1 DEF DropConnection, Reset
    <3>2. Items(Append(up, CloseLine(conn))) = Items(up) \cup {CloseLine(conn)}
      BY <1>0, ItemsAppend
    <3>3. Items(up') \subseteq Items(up) \cup {CloseLine(conn)}
      BY <3>1, <3>2
    <3> QED
      BY <1>0, <3>3 DEF QuietUp
  <2>2. CASE LinkLost
    <3>1. PICK n \in 0..Len(up) : up' = Append(SubSeq(up, 1, n), CloseLine(conn))
      BY <2>2 DEF LinkLost
    <3>2. Items(Append(SubSeq(up, 1, n), CloseLine(conn)))
            \subseteq Items(up) \cup {CloseLine(conn)}
      BY <1>0, ItemsCut
    <3>3. Items(up') \subseteq Items(up) \cup {CloseLine(conn)}
      BY <3>1, <3>2
    <3> QED
      BY <1>0, <3>3 DEF QuietUp
  <2>3. CASE RepeatLine
    <3>1. PICK i \in 1..Len(up) : up' = SubSeq(up, 1, i) \o SubSeq(up, i, Len(up))
      BY <2>3 DEF RepeatLine
    <3>2. /\ SubSeq(up, 1, i) \in Seq(Line) /\ SubSeq(up, i, Len(up)) \in Seq(Line)
          /\ Items(SubSeq(up, 1, i)) \subseteq Items(up)
          /\ Items(SubSeq(up, i, Len(up))) \subseteq Items(up)
      BY <1>0, ItemsSubSeq
    <3>3. Items(SubSeq(up, 1, i) \o SubSeq(up, i, Len(up)))
            = Items(SubSeq(up, 1, i)) \cup Items(SubSeq(up, i, Len(up)))
      BY <3>2, ItemsConcat
    <3>4. Items(up') \subseteq Items(up)
      BY <3>1, <3>2, <3>3
    <3> QED
      BY <3>4 DEF QuietUp
  <2>4. CASE SwapLines
    <3>1. PICK i \in 1..(Len(up) - 1) : up' = [up EXCEPT ![i] = up[i + 1], ![i + 1] = up[i]]
      BY <2>4 DEF SwapLines
    <3>2. i \in 1..Len(up) /\ i + 1 \in 1..Len(up)
      BY <1>0
    <3>3. Items(up') \subseteq Items(up)
      BY <1>0, <3>1, <3>2, ItemsSwap
    <3> QED
      BY <3>3 DEF QuietUp
  <2>5. CASE \E k \in Key \cup {NoKey} : ChangeDeviceKey(k) \/ ChangeDesktopKey(k)
    BY <2>5 DEF ChangeDeviceKey, ChangeDesktopKey, QuietUp
  <2> QED
    BY <2>1, <2>2, <2>3, <2>4, <2>5 DEF Environment
<1> QED
  BY <1>1, <1>2, <1>3, <1>4, QuietStep

\* A new connection starts with a nonce that nothing under way carries.
LEMMA FactsConnect ==
  ASSUME IInv, Connect
  PROVE  Facts'
<1> USE DEF IInv
<1> DEFINE new == <<OpenLine(conn + 1), BeginLine(conn + 1)>>
<1>1. /\ conn \in Nat /\ devConn \in Nat /\ up \in Seq(Line) /\ new \in Seq(Line)
      /\ devConn <= conn
  BY DEF TypeOK, OpenLine, BeginLine, Line, Facts, ClientInv
<1>2. /\ open' = TRUE /\ conn' = conn + 1 /\ client' = [st |-> "Begun", client |-> conn + 1]
      /\ up' = up \o new /\ down' = <<>>
      /\ UNCHANGED <<devConn, device, issued, sent, obeyed>>
  BY DEF Connect, deviceVars
<1>3. \A l \in Items(up') : \/ l \in Items(up)
                            \/ l.kind \notin {"Response", "Signed"} /\ l.conn = conn + 1
  <2>1. Items(up \o new) = Items(up) \cup Items(new)
    BY <1>1, ItemsConcat
  <2>2. \A l \in Items(new) : l.kind \notin {"Response", "Signed"} /\ l.conn = conn + 1
    BY DEF Items, OpenLine, BeginLine
  <2> QED
    BY <1>2, <2>1, <2>2
<1>4. \A l \in Items(up) : l \in Line
  BY DEF TypeOK, Items
<1>5. ClientInv'
  BY <1>1, <1>2 DEF ClientInv, Responded, Idle
<1>6. DeviceInv'
  <2>1. device.st # "Idle" => device.session.client \in Nat
    BY DEF TypeOK, DeviceState, Session, Idle
  <2> QED
    BY <1>1, <1>2, <2>1 DEF Facts, DeviceInv
<1>7. ConnInv'
  <2>1. \A l \in Items(up) : l.conn \in Nat /\ l.conn <= conn
    BY <1>4 DEF Line, Facts, ConnInv
  <2>2. \A l \in Items(up') : l.conn <= conn + 1
    BY <1>1, <1>3, <2>1
  <2> QED
    BY <1>2, <2>2 DEF ConnInv
<1>8. ResponseInv'
  <2>1. \A l \in Items(up) : l.conn # conn + 1
    <3>1. \A l \in Items(up) : l.conn \in Nat /\ l.conn <= conn
      BY <1>4 DEF Line, Facts, ConnInv
    <3> QED
      BY <1>1, <3>1
  <2> QED
    BY <1>2, <1>3, <2>1 DEF ResponseInv, Responded
<1>9. AcceptedInv'
  BY <1>2, ItemsEmpty DEF AcceptedInv
<1>10. SignedInv'
  <2> SUFFICES ASSUME NEW l \in Items(up), l.kind = "Signed"
               PROVE  /\ Spent(l.session)' /\ l.cmd \in 1..sent
                      /\ l.session.client <= conn' /\ l.session.client # conn'
    BY <1>2, <1>3 DEF SignedInv
  <2>1. l.session.client \in Nat
    BY <1>4 DEF Line, Session
  <2>2. Spent(l.session)'
    BY <1>2 DEF Facts, SignedInv, Spent
  <2> QED
    BY <1>1, <1>2, <2>1, <2>2 DEF Facts, SignedInv
<1>11. PairInv' /\ ObeyedInv' /\ FreshInv'
  BY <1>2, <1>3 DEF Facts, PairInv, ObeyedInv, FreshInv
<1>12. AgreeInv'
  BY <1>1, <1>2 DEF AgreeInv
<1> QED
  BY <1>5, <1>6, <1>7, <1>8, <1>9, <1>10, <1>11, <1>12 DEF Facts

\* Closing the link leaves nothing that could authenticate again on it.
LEMMA FactsDisconnect ==
  ASSUME IInv, Disconnect
  PROVE  Facts'
<1> USE DEF IInv
<1>1. /\ up \in Seq(Line) /\ CloseLine(conn) \in Line /\ conn \in Nat
      /\ CloseLine(conn).kind = "Close" /\ CloseLine(conn).conn = conn
  BY DEF TypeOK, CloseLine, Line
<1>2. /\ open' = FALSE /\ client' = Idle /\ down' = <<>>
      /\ UNCHANGED <<conn, devConn, device, issued, sent, obeyed>>
  BY DEF Disconnect, deviceVars
<1>3. \A l \in Items(up') : l \in Items(up) \/ (l.kind = "Close" /\ l.conn = conn)
  <2>1. Items(Append(up, CloseLine(conn))) = Items(up) \cup {CloseLine(conn)}
    BY <1>1, ItemsAppend
  <2>2. up' = Append(up, CloseLine(conn)) \/ up' = up
    BY DEF Disconnect
  <2> QED
    BY <1>1, <2>1, <2>2
<1>4. \A s : Spent(s)' = Spent(s)
  BY <1>2 DEF Spent
<1>5. ClientInv' /\ DeviceInv'
  BY <1>2 DEF Facts, ClientInv, DeviceInv, Responded, Idle
<1>6. ConnInv'
  BY <1>1, <1>2, <1>3 DEF Facts, ConnInv
<1>7. ResponseInv' /\ AcceptedInv' /\ AgreeInv'
  BY <1>2, <1>3 DEF ResponseInv, AcceptedInv, AgreeInv, Responded, Idle
<1>8. SignedInv'
  BY <1>2, <1>3, <1>4 DEF Facts, SignedInv, Idle
<1>9. PairInv' /\ ObeyedInv' /\ FreshInv'
  BY <1>2, <1>3 DEF Facts, PairInv, ObeyedInv, FreshInv
<1> QED
  BY <1>5, <1>6, <1>7, <1>8, <1>9 DEF Facts

\* The client answers one challenge per connection, and takes "Accepted" only for
\* the session it answered with.
LEMMA FactsOnMessage ==
  ASSUME IInv, OnMessage
  PROVE  Facts'
<1> USE DEF IInv
<1> DEFINE m == Head(down)
<1>1. /\ m \in Message /\ m \in Items(down) /\ Items(down') \subseteq Items(down)
  BY ItemsTail DEF OnMessage, TypeOK
<1>2. /\ open = TRUE /\ conn \in Nat /\ up \in Seq(Line)
      /\ UNCHANGED <<open, conn, devConn, device, issued, sent, obeyed>>
  BY DEF OnMessage, linkVars, deviceVars, TypeOK
<1>3. \A s : Spent(s)' = Spent(s)
  BY <1>2 DEF Spent
<1>4. DeviceInv' /\ ObeyedInv'
  BY <1>2 DEF Facts, DeviceInv, ObeyedInv
<1>5. CASE client' = client /\ up' = up
  BY <1>1, <1>2, <1>3, <1>4, <1>5
  DEF Facts, ClientInv, ConnInv, ResponseInv, AcceptedInv, SignedInv, PairInv,
      FreshInv, AgreeInv, Responded, NextSeq
<1>6. CASE (\E why \in Reasons : client' = Done(why)) /\ up' = up
  <2>1. client'.st = "Done" /\ client' # Idle
    BY <1>6 DEF Done, Idle
  <2>2. ClientInv'
    BY <1>2, <2>1 DEF Facts, ClientInv, Responded
  <2>3. ConnInv' /\ ResponseInv' /\ PairInv' /\ FreshInv' /\ AgreeInv'
    BY <1>2, <1>6, <2>1 DEF Facts, ConnInv, ResponseInv, PairInv, FreshInv, AgreeInv, Responded
  <2>4. AcceptedInv' /\ SignedInv'
    BY <1>1, <1>2, <1>3, <1>6, <2>1 DEF Facts, AcceptedInv, SignedInv
  <2> QED
    BY <1>4, <2>2, <2>3, <2>4 DEF Facts
<1>7. CASE /\ m.kind = "Challenge" /\ client.st = "Begun"
           /\ m.proof.client = client.client
           /\ client' = [st |-> "Responded", session |-> m.proof]
           /\ Write(ResponseLine(conn, m.proof))
  <2> DEFINE r == ResponseLine(conn, m.proof)
  <2>1. r \in Line /\ r.kind = "Response" /\ r.conn = conn /\ r.proof = m.proof
    BY <1>1, <1>2, <1>7, ChallengeType DEF ResponseLine, Line
  <2>2. Items(up') \subseteq Items(up) \cup {r}
    <3>1. Items(Append(up, r)) = Items(up) \cup {r}
      BY <1>2, <2>1, ItemsAppend
    <3>2. up' = Append(up, r) \/ up' = up
      BY <1>7 DEF Write
    <3> QED
      BY <3>1, <3>2
  <2>3. client'.st = "Responded" /\ client'.session = m.proof /\ client' # Idle
    BY <1>7 DEF Idle
  <2>4. client.client = conn
    BY <1>7 DEF Facts, ClientInv
  <2>5. ClientInv'
    BY <1>2, <1>7, <2>3, <2>4 DEF Facts, ClientInv, Responded
  <2>6. ConnInv'
    BY <1>2, <2>1, <2>2 DEF Facts, ConnInv
  <2>7. ResponseInv'
    BY <1>2, <1>7, <2>1, <2>2, <2>3 DEF Facts, ResponseInv, Responded
  <2>8. AcceptedInv'
    BY <1>1, <1>7 DEF Facts, AcceptedInv
  <2>9. SignedInv'
    BY <1>2, <1>3, <1>7, <2>1, <2>2 DEF Facts, SignedInv
  <2>10. PairInv' /\ FreshInv'
    BY <1>2, <2>1, <2>2 DEF Facts, PairInv, FreshInv
  <2>11. AgreeInv'
    BY <1>2, <1>7 DEF Facts, AgreeInv
  <2> QED
    BY <1>4, <2>5, <2>6, <2>7, <2>8, <2>9, <2>10, <2>11 DEF Facts
<1>8. CASE /\ m.kind = "Accepted" /\ client.st = "Responded"
           /\ client' = [st |-> "Authenticated", session |-> client.session, next |-> 1]
           /\ up' = up
  <2>1. /\ client'.st = "Authenticated" /\ client'.session = client.session
        /\ client'.next = 1 /\ client' # Idle
    BY <1>8 DEF Idle
  <2>2. Spent(client.session) /\ client.session.client = conn
    BY <1>1, <1>8 DEF Facts, AcceptedInv, ClientInv, Responded
  <2>3. ClientInv'
    BY <1>2, <1>3, <2>1, <2>2 DEF Facts, ClientInv, Responded
  <2>4. ConnInv' /\ PairInv' /\ FreshInv'
    BY <1>2, <1>8 DEF Facts, ConnInv, PairInv, FreshInv
  <2>5. ResponseInv'
    BY <1>2, <1>8, <2>1 DEF Facts, ResponseInv, Responded
  <2>6. AcceptedInv'
    BY <2>1 DEF AcceptedInv
  <2>7. SignedInv'
    <3>1. \A l \in Items(up) : l.kind = "Signed" => l.session.client # conn
      BY <1>8 DEF Facts, SignedInv
    <3> QED
      BY <1>2, <1>3, <1>8, <2>1, <2>2, <3>1 DEF Facts, SignedInv
  <2>8. AgreeInv'
    BY <1>2, <1>8, <2>1 DEF Facts, AgreeInv, Responded, NextSeq
  <2> QED
    BY <1>4, <2>3, <2>4, <2>5, <2>6, <2>7, <2>8 DEF Facts
<1> QED
  BY <1>5, <1>6, <1>7, <1>8 DEF OnMessage, Reasons

\* A newly signed command is numbered after everything sent, signed or obeyed.
LEMMA FactsSendData ==
  ASSUME IInv, NEW op \in Op, SendData(op)
  PROVE  Facts'
<1> USE DEF IInv
<1>1. /\ conn \in Nat /\ sent \in Nat /\ up \in Seq(Line) /\ sent' = sent + 1
      /\ open = TRUE
      /\ UNCHANGED <<open, conn, down, devConn, device, issued, obeyed>>
  BY DEF SendData, SignedOne, linkVars, deviceVars, TypeOK
<1>2. \A s : Spent(s)' = Spent(s)
  BY <1>1 DEF Spent
<1>3. \A l \in Items(up) : l \in Line
  BY <1>1 DEF Items
<1>4. DeviceInv' /\ ObeyedInv'
  <2>1. \A i \in 1..Len(obeyed) : obeyed[i] \in Nat
    BY DEF TypeOK
  <2> QED
    BY <1>1, <2>1 DEF Facts, DeviceInv, ObeyedInv
<1>5. CASE ~CanSign
  <2> DEFINE r == PlainLine(conn, sent + 1, op)
  <2>1. r \in Line /\ r.kind = "Plain" /\ r.conn = conn
    BY <1>1 DEF PlainLine, Line
  <2>2. Items(up') \subseteq Items(up) \cup {r}
    <3>1. Items(Append(up, r)) = Items(up) \cup {r}
      BY <1>1, <2>1, ItemsAppend
    <3>2. up' = Append(up, r) \/ up' = up
      BY <1>5 DEF SendData, SignedOne, Write
    <3> QED
      BY <3>1, <3>2
  <2>3. client' = client
    BY <1>5 DEF SendData, SignedOne
  <2>4. ClientInv' /\ AcceptedInv' /\ AgreeInv'
    BY <1>1, <1>2, <2>3 DEF Facts, ClientInv, AcceptedInv, AgreeInv, Responded, NextSeq
  <2>5. ConnInv' /\ ResponseInv' /\ PairInv' /\ FreshInv'
    BY <1>1, <2>1, <2>2, <2>3 DEF Facts, ConnInv, ResponseInv, PairInv, FreshInv, Responded
  <2>6. SignedInv'
    <3>1. \A l \in Items(up) : l.kind = "Signed" => l.cmd \in 1..(sent + 1)
      BY <1>1 DEF Facts, SignedInv
    <3> QED
      BY <1>1, <1>2, <2>1, <2>2, <2>3, <3>1 DEF Facts, SignedInv
  <2> QED
    BY <1>4, <2>4, <2>5, <2>6 DEF Facts
<1>6. CASE CanSign
  <2> DEFINE r == SignedLine(conn, sent + 1, op, client.session, client.next)
  <2>1. client \in [st : {"Authenticated"}, session : Session, next : Nat]
    BY <1>6 DEF CanSign, TypeOK, ClientState, Idle
  <2>2. /\ r \in Line /\ r.kind = "Signed" /\ r.conn = conn /\ r.cmd = sent + 1
        /\ r.session = client.session /\ r.seq = client.next
    BY <1>1, <2>1 DEF SignedLine, Line
  <2>3. Items(up') \subseteq Items(up) \cup {r}
    <3>1. Items(Append(up, r)) = Items(up) \cup {r}
      BY <1>1, <2>2, ItemsAppend
    <3>2. up' = Append(up, r) \/ up' = up
      BY <1>6 DEF SendData, SignedOne, Write
    <3> QED
      BY <3>1, <3>2
  <2>4. client' = [client EXCEPT !.next = client.next + 1]
    BY <1>6 DEF SendData, SignedOne
  <2>5. /\ client'.st = "Authenticated" /\ client'.session = client.session
        /\ client'.next = client.next + 1 /\ client' # Idle
        /\ client.st = "Authenticated" /\ client.next \in Nat /\ client.next >= 1
        /\ Spent(client.session) /\ client.session.client = conn
    BY <2>1, <2>4 DEF Idle, Facts, ClientInv, Responded
  <2>6. ClientInv'
    BY <1>1, <1>2, <2>5 DEF Facts, ClientInv, Responded
  <2>7. ConnInv'
    BY <1>1, <2>2, <2>3 DEF Facts, ConnInv
  <2>8. ResponseInv'
    BY <1>1, <2>2, <2>3, <2>5 DEF Facts, ResponseInv, Responded
  <2>9. AcceptedInv'
    BY <2>5 DEF AcceptedInv
  <2>10. \A l \in Items(up) : l.kind = "Signed" =>
           /\ l.cmd \in 1..sent /\ l.seq \in Nat
           /\ l.session = client.session => l.seq < client.next
    BY <1>3, <2>5 DEF Line, Facts, SignedInv
  <2>11. SignedInv'
    <3> SUFFICES ASSUME NEW l \in Items(up) \cup {r}, l.kind = "Signed"
                 PROVE  /\ Spent(l.session) /\ l.cmd \in 1..(sent + 1)
                        /\ l.session.client <= conn
                        /\ l.session = client.session => l.seq < client.next + 1
      BY <1>1, <1>2, <2>3, <2>5 DEF SignedInv
    <3>1. CASE l = r
      BY <1>1, <2>2, <2>5, <3>1
    <3>2. CASE l \in Items(up)
      BY <1>1, <2>5, <2>10, <3>2 DEF Facts, SignedInv
    <3> QED
      BY <3>1, <3>2
  <2>12. PairInv'
    <3> SUFFICES ASSUME NEW l \in Items(up) \cup {r}, NEW k \in Items(up) \cup {r},
                        l.kind = "Signed", k.kind = "Signed",
                        l.session = k.session, l.seq < k.seq
                 PROVE  l.cmd < k.cmd
      BY <2>3 DEF PairInv
    <3>1. CASE l \in Items(up) /\ k \in Items(up)
      BY <3>1 DEF Facts, PairInv
    <3>2. CASE l \in Items(up) /\ k = r
      BY <1>1, <2>2, <2>10, <3>2
    <3>3. CASE l = r
      BY <2>2, <2>5, <2>10, <3>3
    <3> QED
      BY <3>1, <3>2, <3>3
  <2>13. FreshInv'
    <3>1. \A i \in 1..Len(obeyed) : obeyed[i] < sent + 1
      <4>1. \A i \in 1..Len(obeyed) : obeyed[i] \in Nat /\ obeyed[i] <= sent
        BY DEF TypeOK, Facts, ObeyedInv
      <4> QED
        BY <1>1, <4>1
    <3> QED
      BY <1>1, <2>2, <2>3, <3>1 DEF Facts, FreshInv
  <2>14. AgreeInv'
    <3>1. device.st = "Authenticated" => device.last \in Nat
      BY DEF TypeOK, DeviceState, Idle
    <3> QED
      BY <1>1, <2>5, <3>1 DEF Facts, AgreeInv, Responded, NextSeq
  <2> QED
    BY <1>4, <2>6, <2>7, <2>8, <2>9, <2>11, <2>12, <2>13, <2>14 DEF Facts
<1> QED
  BY <1>5, <1>6

\* The facts hold at the start.
LEMMA FactsInit == Init => Facts
BY ItemsEmpty
DEF Init, Facts, ClientInv, DeviceInv, ConnInv, ResponseInv, AcceptedInv, SignedInv,
    PairInv, ObeyedInv, FreshInv, AgreeInv, Responded, Idle

\* The invariant is inductive.
LEMMA IInvStep == IInv /\ [Next]_vars => IInv'
<1> SUFFICES ASSUME IInv, [Next]_vars PROVE IInv'
  OBVIOUS
<1>1. TypeOK'
  BY TypeStep DEF IInv
<1>2. CASE DeviceStep
  <2>1. Facts'
    BY <1>2, FactsConnection, FactsBegin, FactsRespond, FactsHandleSigned DEF DeviceStep
  <2> QED
    BY <1>1, <2>1 DEF IInv
<1>3. CASE DesktopStep
  <2>1. Facts'
    BY <1>3, FactsConnect, FactsDisconnect, FactsOnMessage, FactsSendData DEF DesktopStep
  <2> QED
    BY <1>1, <2>1 DEF IInv
<1>4. CASE Environment
  BY <1>1, <1>4, FactsEnvironment DEF IInv
<1>5. CASE UNCHANGED vars
  <2>1. QuietUp /\ QuietDown /\ QuietDevice
    BY <1>5 DEF QuietUp, QuietDown, QuietDevice, vars, deviceVars, linkVars, IInv, Facts,
                ClientInv, ConnInv
  <2>2. Facts'
    BY <1>5, <2>1, QuietStep DEF vars, deviceVars, linkVars, IInv
  <2> QED
    BY <1>1, <2>2 DEF IInv
<1> QED
  BY <1>2, <1>3, <1>4, <1>5 DEF Next

\* The strengthened invariant holds in every reachable state: a session key
\* both ends can hold was derived on the connection it is used on, and what the
\* device has counted was signed by the desktop (session.rs:240-320, 428-521).
THEOREM Inductive == Spec => []IInv
<1>1. Init => IInv
  BY TypeInit, FactsInit DEF IInv
<1> QED
  BY <1>1, IInvStep, PTL DEF Spec

-----------------------------------------------------------------------------
(***************************************************************************)
(* What follows for the properties that the runs check.                    *)
(***************************************************************************)

\* Whenever both ends consider the connection authenticated, they share the
\* session key and the desktop's counter is ahead of the device's.
THEOREM AgreementHolds == Spec => []Agreement
<1>1. IInv => Agreement
  BY DEF IInv, Facts, AgreeInv, Agreement, Responded, NextSeq
<1> QED
  BY <1>1, Inductive, PTL

\* A device session never outlives the connection it was negotiated on.
THEOREM SessionsEndWithConnections == Spec => []SessionOfThisConnection
<1>1. IInv => SessionOfThisConnection
  BY DEF IInv, Facts, DeviceInv, SessionOfThisConnection
<1> QED
  BY <1>1, Inductive, PTL

\* Only the signed-line handler acts on signed commands.
LEMMA WhoObeys ==
  ASSUME TypeOK, [Next]_vars, obeyed' # obeyed
  PROVE  HandleSigned /\ Acceptable(Checked, Head(up)) /\ obeyed' = Append(obeyed, Head(up).cmd)
BY DEF Next, DeviceStep, DesktopStep, Environment, OnConnected, OnClosed, Reset, IgnoreLine, Begin,
       Respond, HandlePlain, HandleSigned, Connect, Disconnect, OnMessage, SendData, SignedOne,
       DropConnection, LinkLost, RepeatLine, SwapLines, ChangeDeviceKey, ChangeDesktopKey, vars

\* No signed command is obeyed under a key the device no longer has.
THEOREM KeyChangesEndSessions == Spec => KeyChangeEndsSession
<1>1. ASSUME TypeOK, [Next]_vars
      PROVE  [obeyed' # obeyed => device'.session.key = devKey]_vars
  <2> SUFFICES ASSUME obeyed' # obeyed PROVE device'.session.key = devKey
    OBVIOUS
  <2>1. /\ Acceptable(Checked, Head(up)) /\ HandleSigned
    BY <1>1, WhoObeys
  <2>2. Checked = device /\ device.st = "Authenticated" /\ device.session.key = devKey
    BY <1>1, <2>1, CheckedType DEF Acceptable, Idle
  <2>3. device \in [st : {"Authenticated"}, session : Session, last : Nat]
    BY <1>1, <2>2 DEF TypeOK, DeviceState, Idle
  <2>4. device' = [device EXCEPT !.last = Head(up).seq]
    BY <2>1, <2>2 DEF HandleSigned
  <2> QED
    BY <2>2, <2>3, <2>4
<1> QED
  BY <1>1, TypeCorrect, PTL DEF Spec, KeyChangeEndsSession

\* The link implements the command channel: signed commands are obeyed in the
\* order the application sent them, each at most once.
THEOREM LinkImplementsChannel == Spec => ImplementsChannel
<1>1. Init => Channel!ChannelInit
  BY DEF Init, Channel!ChannelInit
<1>2. ASSUME IInv, [Next]_vars
      PROVE  [Channel!ChannelNext]_(Channel!channelVars)
  <2>1. CASE obeyed' # obeyed
    <3>1. HandleSigned /\ Acceptable(Checked, Head(up)) /\ obeyed' = Append(obeyed, Head(up).cmd)
      BY <1>2, <2>1, WhoObeys DEF IInv
    <3>2. /\ Head(up) \in Items(up) /\ Head(up).kind = "Signed" /\ sent' = sent
      BY <1>2, <3>1, TakeType DEF HandleSigned, IInv
    <3>3. device.st = "Authenticated" /\ Head(up).session = device.session /\ Head(up).seq > device.last
      BY <1>2, <3>1, CheckedType DEF Acceptable, Idle, IInv
    <3>4. Head(up).cmd \in 1..sent /\ \A i \in 1..Len(obeyed) : obeyed[i] < Head(up).cmd
      BY <1>2, <3>2, <3>3 DEF IInv, Facts, SignedInv, FreshInv
    <3>5. Channel!Obey(Head(up).cmd)
      BY <3>1, <3>2, <3>4 DEF Channel!Obey
    <3> QED
      BY <3>4, <3>5 DEF Channel!ChannelNext
  <2>2. CASE obeyed' = obeyed
    <3>1. sent' = sent + 1 \/ sent' = sent
      BY <1>2 DEF Next, DeviceStep, DesktopStep, Environment, OnConnected, OnClosed, Reset,
         IgnoreLine, Begin, Respond, HandlePlain, HandleSigned, Connect, Disconnect,
         OnMessage, SendData, SignedOne, DropConnection, Reset, LinkLost, RepeatLine, SwapLines,
         ChangeDeviceKey, ChangeDesktopKey, vars
    <3> QED
      BY <2>2, <3>1 DEF Channel!ChannelNext, Channel!Submit, Channel!channelVars
  <2> QED
    BY <2>1, <2>2
<1> QED
  BY <1>1, <1>2, Inductive, PTL DEF Spec, ImplementsChannel, Channel!ChannelSpec
=============================================================================
