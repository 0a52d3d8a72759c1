---------------------------- MODULE AuthSession ----------------------------
(***************************************************************************)
(* The authenticated radio link between one desktop and one device:        *)
(* ClientSession and DeviceSession of protocol/src/auth/session.rs, driven *)
(* by the desktop's AuthLink (auth_link.rs, serial_transport.rs) and by    *)
(* the firmware's auth_gate.rs inside the Bluetooth worker.                *)
(*                                                                         *)
(* Cryptography is ideal: a session key is the record of the device key    *)
(* and the two nonces it was derived from, a proof or a MAC verifies       *)
(* exactly when it was computed with the same record, and a fresh nonce is *)
(* the next number.  A desktop starts one handshake per connection, so the *)
(* connection number is its nonce.                                         *)
(***************************************************************************)
EXTENDS Naturals, Sequences

CONSTANTS
  Key,           \* device keys
  NoKey,         \* a device without a key, a desktop that was never paired
  MaxSeq,        \* u32::MAX, the largest sequence number of a signed command
  MaxConn,       \* bound: connections the desktop opens
  MaxCmd,        \* bound: commands the WebView sends
  MaxKeyChanges, \* bound: key changes over USB, on either side
  MaxFaults,     \* bound: lines that the link repeats or swaps
  MaxLost        \* bound: replies dropped by a full Bluetooth write queue

ASSUME NoKeyAssumption == NoKey \notin Key
ASSUME BoundsAssumption ==
  /\ MaxSeq \in Nat \ {0}
  /\ {MaxConn, MaxCmd, MaxKeyChanges, MaxFaults, MaxLost} \subseteq Nat

VARIABLES
  open,          \* the desktop holds a link (AppState.link is Some)
  conn,          \* number of the desktop's latest connection, its client nonce
  linkUp,        \* that connection still carries bytes
  client,        \* ClientSession.state
  deskKey,       \* DeviceKeys: the key the desktop stores for this device
  up,            \* Bluetooth worker input: connection events and lines, in order
  down,          \* Auth messages on their way to the desktop
  devConn,       \* run_worker's `connection`, 0 for None
  device,        \* DeviceSession.state
  warned,        \* DeviceSession.warned_unprovisioned
  devKey,        \* KeyStore.current
  issued,        \* challenges issued so far: the next device nonce is issued + 1
  sent,          \* commands accepted from the WebView so far
  obeyed,        \* signed commands delivered to the main loop, by number
  trusted,       \* plain commands delivered to the main loop, by number
  keyChanges, faults, lost \* what the bounds count

linkVars == <<open, conn, linkUp>>
deviceVars == <<devConn, device, warned, issued>>
keyVars == <<devKey, deskKey, keyChanges>>
boundVars == <<faults, lost>>
vars == <<linkVars, client, up, down, deviceVars, keyVars, sent, obeyed,
          trusted, boundVars>>

Op == {"Module", "Rediscover"}
Session == [key : Key, client : Nat, device : Nat]

Idle == [st |-> "Idle"]
Done(why) == [st |-> "Done", why |-> why]
Reasons == {"Unprovisioned", "NoKey", "DeviceRejected", "Failed"}

ClientState ==
  {Idle}
    \cup [st : {"Begun"}, client : Nat]
    \cup [st : {"Responded"}, session : Session]
    \cup [st : {"Authenticated"}, session : Session, next : Nat]
    \cup [st : {"Done"}, why : Reasons]

DeviceState ==
  {Idle}
    \cup [st : {"Challenged"}, session : Session]
    \cup [st : {"Authenticated"}, session : Session, last : Nat]

Line ==
  [kind : {"Open", "Close", "Begin"}, conn : Nat]
    \cup [kind : {"Response"}, conn : Nat, proof : Session]
    \cup [kind : {"Plain"}, conn : Nat, cmd : Nat, op : Op]
    \cup [kind : {"Signed"}, conn : Nat, cmd : Nat, op : Op,
          session : Session, seq : Nat]

Message ==
  [kind : {"Challenge"}, proof : Session]
    \cup [kind : {"Unprovisioned", "Accepted", "Refused"}]

OpenLine(c) == [kind |-> "Open", conn |-> c]
CloseLine(c) == [kind |-> "Close", conn |-> c]
BeginLine(c) == [kind |-> "Begin", conn |-> c]
ResponseLine(c, s) == [kind |-> "Response", conn |-> c, proof |-> s]
PlainLine(c, n, op) == [kind |-> "Plain", conn |-> c, cmd |-> n, op |-> op]
SignedLine(c, n, op, s, q) ==
  [kind |-> "Signed", conn |-> c, cmd |-> n, op |-> op, session |-> s, seq |-> q]

Init ==
  /\ open = FALSE /\ conn = 0 /\ linkUp = FALSE
  /\ client = Idle
  /\ deskKey \in Key \cup {NoKey}
  /\ up = <<>> /\ down = <<>>
  /\ devConn = 0 /\ device = Idle /\ warned = FALSE /\ issued = 0
  /\ devKey \in Key \cup {NoKey}
  /\ sent = 0 /\ obeyed = <<>> /\ trusted = {}
  /\ keyChanges = 0 /\ faults = 0 /\ lost = 0

-----------------------------------------------------------------------------
(* The desktop. *)

\* A line written to the port reaches the device in order while the link is up;
\* otherwise the write fails and the caller only reports it.
Write(line) == up' = IF linkUp THEN Append(up, line) ELSE up

\* Opening the port makes the device see a connection; AuthBegin follows.
Connect ==
  /\ ~open /\ conn < MaxConn
  /\ open' = TRUE /\ linkUp' = TRUE /\ conn' = conn + 1
  /\ client' = [st |-> "Begun", client |-> conn + 1]
  /\ up' = up \o <<OpenLine(conn + 1), BeginLine(conn + 1)>>
  /\ down' = <<>>
  /\ UNCHANGED <<deviceVars, keyVars, sent, obeyed, trusted, boundVars>>

\* shutdown() drops the link and joins the reader.
Disconnect ==
  /\ open
  /\ open' = FALSE /\ linkUp' = FALSE
  /\ client' = Idle
  /\ up' = IF linkUp THEN Append(up, CloseLine(conn)) ELSE up
  /\ down' = <<>>
  /\ UNCHANGED <<conn, deviceVars, keyVars, sent, obeyed, trusted, boundVars>>

\* ClientSession::on_message on the next Auth message, and its reply.
OnMessage ==
  /\ open /\ down # <<>>
  /\ down' = Tail(down)
  /\ LET m == Head(down)
         pending == client.st \in {"Begun", "Responded"}
     IN \/ /\ m.kind = "Challenge" /\ client.st = "Begun" /\ deskKey = NoKey
           /\ client' = Done("NoKey")
           /\ UNCHANGED up
        \/ /\ m.kind = "Challenge" /\ client.st = "Begun" /\ deskKey # NoKey
           /\ \/ m.proof.key # deskKey
              \/ m.proof.client # client.client
           /\ client' = Done("DeviceRejected")
           /\ UNCHANGED up
        \/ /\ m.kind = "Challenge" /\ client.st = "Begun"
           /\ m.proof.key = deskKey /\ m.proof.client = client.client
           /\ client' = [st |-> "Responded", session |-> m.proof]
           /\ Write(ResponseLine(conn, m.proof))
        \/ /\ m.kind = "Unprovisioned" /\ client.st = "Begun"
           /\ client' = Done("Unprovisioned")
           /\ UNCHANGED up
        \/ /\ m.kind = "Accepted" /\ client.st = "Responded"
           /\ client' = [st |-> "Authenticated", session |-> client.session, next |-> 1]
           /\ UNCHANGED up
        \/ /\ \/ m.kind = "Refused" /\ pending
              \/ m.kind = "Accepted" /\ client.st = "Begun"
           /\ client' = Done("Failed")
           /\ UNCHANGED up
        \/ /\ \/ ~pending
              \/ m.kind \in {"Challenge", "Unprovisioned"} /\ client.st = "Responded"
           /\ UNCHANGED <<client, up>>
  /\ UNCHANGED <<linkVars, deviceVars, keyVars, sent, obeyed, trusted, boundVars>>

\* ClientSession::sign: checked_add leaves the last number unused.
CanSign == client.st = "Authenticated" /\ client.next < MaxSeq

\* Mutant: signing does not count.
SignedSame == client

\* The state after signing one command.
SignedOne == [client EXCEPT !.next = @ + 1]

\* send_data -> AuthLink::outgoing: signed when possible, plain otherwise.
SendData(op) ==
  /\ open /\ sent < MaxCmd
  /\ sent' = sent + 1
  /\ IF CanSign
       THEN /\ client' = SignedOne
            /\ Write(SignedLine(conn, sent + 1, op, client.session, client.next))
       ELSE /\ Write(PlainLine(conn, sent + 1, op))
            /\ UNCHANGED client
  /\ UNCHANGED <<linkVars, down, deviceVars, keyVars, obeyed, trusted, boundVars>>

-----------------------------------------------------------------------------
(* The device: one step per work item of the Bluetooth worker. *)

\* Mutant: a reset only forgets the warning.
ResetWarning == warned' = FALSE /\ UNCHANGED device

\* DeviceSession::reset.
Reset == device' = Idle /\ warned' = FALSE

\* Mutants: no key check; the new key replaces the old one in the session.
Unchecked == device
Rekeyed ==
  IF device.st # "Idle" /\ device.session.key # devKey
    THEN [device EXCEPT !.session.key = devKey] ELSE device

\* A key change over USB ends the session, at the next line.
Checked == IF device.st # "Idle" /\ device.session.key # devKey THEN Idle ELSE device

\* The next work item, of the kind each action handles.
Take(kind) ==
  /\ up # <<>> /\ Head(up).kind = kind
  /\ up' = Tail(up)
Served == Head(up).conn = devConn

\* Mutant: an idle session does not answer.
ReplyInSession(m) ==
  /\ down' = IF linkUp /\ devConn = conn /\ device.st # "Idle"
               THEN Append(down, m) ELSE down
  /\ UNCHANGED lost

\* A reply to the peer: enqueue() drops it when 128 frames are waiting, and it
\* reaches the desktop only on the connection the desktop still has.
Reply(m) ==
  \/ /\ down' = IF linkUp /\ devConn = conn THEN Append(down, m) ELSE down
     /\ UNCHANGED lost
  \/ /\ lost < MaxLost
     /\ lost' = lost + 1
     /\ UNCHANGED down

\* Work::Connected: a second peer is refused.
OnConnected ==
  /\ Take("Open")
  /\ IF devConn = 0
       THEN devConn' = Head(up).conn /\ Reset
       ELSE UNCHANGED <<devConn, device, warned>>
  /\ UNCHANGED <<linkVars, client, down, issued, keyVars, sent, obeyed, trusted, boundVars>>

OnClosed ==
  /\ Take("Close")
  /\ IF Served
       THEN devConn' = 0 /\ Reset
       ELSE UNCHANGED <<devConn, device, warned>>
  /\ UNCHANGED <<linkVars, client, down, issued, keyVars, sent, obeyed, trusted, boundVars>>

\* Data of a connection the worker no longer serves.
IgnoreLine ==
  /\ \E kind \in {"Begin", "Response", "Plain", "Signed"} : Take(kind)
  /\ ~Served
  /\ UNCHANGED <<linkVars, client, down, deviceVars, keyVars, sent, obeyed, trusted, boundVars>>

\* DeviceSession::begin: any session ends; a keyed device issues a challenge.
Begin ==
  /\ Take("Begin") /\ Served
  /\ IF devKey = NoKey
       THEN /\ device' = Idle
            /\ Reply([kind |-> "Unprovisioned"])
            /\ UNCHANGED issued
       ELSE LET s == [key |-> devKey, client |-> Head(up).conn, device |-> issued + 1]
            IN /\ device' = [st |-> "Challenged", session |-> s]
               /\ issued' = issued + 1
               /\ Reply([kind |-> "Challenge", proof |-> s])
  /\ UNCHANGED <<linkVars, client, devConn, warned, keyVars, sent, obeyed, trusted, faults>>

\* DeviceSession::respond: the challenge is used up whatever the proof says.
Respond ==
  /\ Take("Response") /\ Served
  /\ LET d == Checked
     IN IF d.st = "Challenged" /\ d.session = Head(up).proof
          THEN /\ device' = [st |-> "Authenticated", session |-> d.session, last |-> 0]
               /\ Reply([kind |-> "Accepted"])
          ELSE /\ device' = Idle
               /\ Reply([kind |-> "Refused"])
  /\ UNCHANGED <<linkVars, client, devConn, warned, issued, keyVars, sent, obeyed, trusted, faults>>

\* DeviceSession::handle_plain for a command of the WebView.
HandlePlain ==
  /\ Take("Plain") /\ Served
  /\ device' = Checked
  /\ trusted' = IF Head(up).op = "Rediscover" \/ devKey = NoKey
                  THEN trusted \cup {Head(up).cmd} ELSE trusted
  /\ warned' = (warned \/ (Head(up).op # "Rediscover" /\ devKey = NoKey))
  /\ UNCHANGED <<linkVars, client, down, devConn, issued, keyVars, sent, obeyed, boundVars>>

\* Mutants: the last number is accepted again; the first number is not accepted.
AcceptableAgain(d, line) ==
  d.st = "Authenticated" /\ d.session = line.session /\ line.seq >= d.last
AcceptableLate(d, line) ==
  d.st = "Authenticated" /\ d.session = line.session /\ line.seq > d.last + 1

\* A signed line counts when its MAC verifies and its number is new.
Acceptable(d, line) ==
  d.st = "Authenticated" /\ d.session = line.session /\ line.seq > d.last

\* DeviceSession::handle_signed, after the key check of handle.
HandleSigned ==
  /\ Take("Signed") /\ Served
  /\ IF Acceptable(Checked, Head(up))
       THEN /\ device' = [Checked EXCEPT !.last = Head(up).seq]
            /\ obeyed' = Append(obeyed, Head(up).cmd)
       ELSE /\ device' = Checked
            /\ UNCHANGED obeyed
  /\ UNCHANGED <<linkVars, client, down, devConn, warned, issued, keyVars, sent, trusted, boundVars>>

\* A callback-queue overflow, a failed write or an overlong line: the worker
\* forgets the connection and disconnects.  Only the overlong line also resets
\* the session; after the others it waits for the next connection's reset.
DropConnection ==
  /\ devConn # 0
  /\ devConn' = 0
  /\ \/ Reset
     \/ UNCHANGED <<device, warned>>
  /\ IF devConn = conn /\ linkUp
       THEN linkUp' = FALSE /\ down' = <<>> /\ up' = Append(up, CloseLine(conn))
       ELSE UNCHANGED <<linkUp, down, up>>
  /\ UNCHANGED <<open, conn, client, issued, keyVars, sent, obeyed, trusted, boundVars>>

-----------------------------------------------------------------------------
(* The environment. *)

\* The radio link breaks: lines in flight may be lost, the device sees a close.
LinkLost ==
  /\ linkUp
  /\ linkUp' = FALSE
  /\ down' = <<>>
  /\ \E n \in 0..Len(up) :
       /\ \A i \in (n + 1)..Len(up) : up[i].conn = conn /\ up[i].kind # "Open"
       /\ up' = Append(SubSeq(up, 1, n), CloseLine(conn))
  /\ UNCHANGED <<open, conn, client, deviceVars, keyVars, sent, obeyed, trusted, boundVars>>

IsLine(i) == up[i].kind \in {"Begin", "Response", "Plain", "Signed"}

\* A line arrives twice.
RepeatLine ==
  /\ faults < MaxFaults
  /\ \E i \in 1..Len(up) :
       /\ IsLine(i)
       /\ up' = SubSeq(up, 1, i) \o SubSeq(up, i, Len(up))
  /\ faults' = faults + 1
  /\ UNCHANGED <<linkVars, client, down, deviceVars, keyVars, sent, obeyed, trusted, lost>>

\* Two lines arrive in the wrong order.
SwapLines ==
  /\ faults < MaxFaults
  /\ \E i \in 1..(Len(up) - 1) :
       /\ IsLine(i) /\ IsLine(i + 1)
       /\ up' = [up EXCEPT ![i] = up[i + 1], ![i + 1] = up[i]]
  /\ faults' = faults + 1
  /\ UNCHANGED <<linkVars, client, down, deviceVars, keyVars, sent, obeyed, trusted, lost>>

\* ProvisionKey or ClearKey on the USB console.
ChangeDeviceKey(k) ==
  /\ keyChanges < MaxKeyChanges /\ k # devKey
  /\ devKey' = k /\ keyChanges' = keyChanges + 1
  /\ UNCHANGED <<linkVars, client, up, down, deviceVars, deskKey, sent, obeyed, trusted, boundVars>>

\* Pairing, forgetting or unpairing changes the desktop's stored key.
ChangeDesktopKey(k) ==
  /\ keyChanges < MaxKeyChanges /\ k # deskKey
  /\ deskKey' = k /\ keyChanges' = keyChanges + 1
  /\ UNCHANGED <<linkVars, client, up, down, deviceVars, devKey, sent, obeyed, trusted, boundVars>>

DeviceStep ==
  \/ OnConnected \/ OnClosed \/ IgnoreLine
  \/ Begin \/ Respond \/ HandlePlain \/ HandleSigned

DesktopStep ==
  Connect \/ Disconnect \/ OnMessage \/ \E op \in Op : SendData(op)

Environment ==
  \/ DropConnection \/ LinkLost \/ RepeatLine \/ SwapLines
  \/ \E k \in Key \cup {NoKey} : ChangeDeviceKey(k) \/ ChangeDesktopKey(k)

Next == DeviceStep \/ DesktopStep \/ Environment

Spec == Init /\ [][Next]_vars

\* The worker thread and the COM reader thread keep running (blocking reads).
FairSpec == Spec /\ WF_vars(DeviceStep) /\ WF_vars(OnMessage)

-----------------------------------------------------------------------------
(* Properties. *)

\* Every variable stays in the range its code type allows.
TypeOK ==
  /\ open \in BOOLEAN /\ linkUp \in BOOLEAN /\ conn \in Nat
  /\ client \in ClientState
  /\ deskKey \in Key \cup {NoKey} /\ devKey \in Key \cup {NoKey}
  /\ up \in Seq(Line) /\ down \in Seq(Message)
  /\ devConn \in Nat /\ device \in DeviceState /\ warned \in BOOLEAN /\ issued \in Nat
  /\ sent \in Nat /\ obeyed \in Seq(Nat) /\ trusted \in SUBSET Nat
  /\ keyChanges \in Nat /\ faults \in Nat /\ lost \in Nat

\* While both ends consider the connection authenticated they hold the same
\* session key, and the device has counted no further than the desktop: no
\* command the desktop signs next can look like a replay (session.rs:269-320,
\* 476-521).
Agreement ==
  (/\ client.st = "Authenticated" /\ device.st = "Authenticated"
   /\ devConn = conn)
    => /\ client.session = device.session
       /\ device.last < client.next

\* A session never outlives its connection: what the device serves was
\* negotiated with a nonce of the connection it serves (bluetooth.rs:314-339).
SessionOfThisConnection ==
  (device.st # "Idle" /\ devConn # 0) => device.session.client = devConn

\* No signed command is obeyed under a key that is not the device's key at
\* that moment, however the key changed while the session was open
\* (session.rs:185-194: "A key change ... ends the session").
KeyChangeEndsSession ==
  [][obeyed' # obeyed => device'.session.key = devKey]_vars

\* The link implements the abstract command channel: signed commands are obeyed
\* in the order the application sent them and at most once, across repeated and
\* swapped lines, reconnections and key changes (session.rs:297-321).
Channel == INSTANCE CommandChannel WITH submitted <- sent
ImplementsChannel == Channel!ChannelSpec

Pending == client.st \in {"Begun", "Responded"}

\* A handshake does not hang: unless the link breaks or the full write queue
\* dropped a reply, the desktop leaves "Pending" (bluetooth.rs:340-375,
\* serial_transport.rs:196-231).
HandshakeSettles == Pending ~> (~Pending \/ ~linkUp \/ lost > 0)

SignedInFlight(n) ==
  \E i \in 1..Len(up) : up[i].kind = "Signed" /\ up[i].cmd = n /\ up[i].conn = conn

\* On a faultless link with stable keys every command the desktop signs is
\* obeyed: the numbering of the two ends fits together (session.rs:289, 311-314,
\* 486, 515-516).
SignedCommandsAreObeyed ==
  \A n \in 1..MaxCmd :
    SignedInFlight(n)
      ~> (\/ \E i \in 1..Len(obeyed) : obeyed[i] = n
          \/ ~linkUp \/ keyChanges > 0 \/ faults > 0)
=============================================================================
