---------------------------- MODULE WifiListener ----------------------------
(***************************************************************************)
(* The desktop's Wi-Fi listener (wifi_transport.rs): one accept thread, one *)
(* worker thread per peer, the WebView's calls of send and stop, and what  *)
(* the WebView concludes from the events (transport.ts).  The workers      *)
(* share the session slot under a mutex and two atomics outside it.        *)
(*                                                                         *)
(* A peer is the number its worker got from next_id.  The token exchange   *)
(* and the handshake are outcomes; AuthSession has the handshake.          *)
(***************************************************************************)
EXTENDS Naturals, FiniteSets

CONSTANTS
  MaxPendingAuth,  \* MAX_PENDING_AUTH
  MaxPeers         \* bound: workers the accept thread starts

ASSUME ListenerAssumption == MaxPendingAuth \in Nat \ {0} /\ MaxPeers \in Nat

VARIABLES
  acceptor,   \* accept_loop: "Check", "Accept" or "Done"
  nextId,     \* accept_loop's next_id
  pending,    \* Shared.pending
  worker,     \* serve_peer of each peer, by what it does next
  stream,     \* the peers whose TCP stream carries bytes both ways
  slot,       \* Shared.current: the peer of the current session, 0 for None
  status,     \* AuthLink::status of each peer's latest session
  connected,  \* Shared.connected
  running,    \* Shared.running
  stopper,    \* stop(): "No", "Flagged", "Cleared" or "Joined"
  portStat,   \* what the WebView shows after the latest wifiConnection event
  deviceAuth, \* the latest deviceAuth event
  newest      \* the latest peer that was given the slot

uiVars == <<portStat, deviceAuth>>
acceptVars == <<acceptor, nextId>>
vars == <<acceptVars, pending, worker, stream, slot, status, connected, running, stopper,
          uiVars, newest>>

Peers == 1..MaxPeers
Status == {"Idle", "Pending", "Authenticated", "Refused"}

Init ==
  /\ acceptor = "Check" /\ nextId = 0 /\ pending = 0
  /\ worker = [p \in Peers |-> "None"] /\ stream = {}
  /\ slot = 0 /\ status = [p \in Peers |-> "Idle"] /\ newest = 0
  /\ connected = FALSE /\ running = TRUE /\ stopper = "No"
  /\ portStat = "Listening" /\ deviceAuth = "Idle"

Goto(p, what) == worker' = [worker EXCEPT ![p] = what]

-----------------------------------------------------------------------------
(* The accept thread. *)

AcceptCheck ==
  /\ acceptor = "Check"
  /\ acceptor' = IF running THEN "Accept" ELSE "Done"
  /\ UNCHANGED <<nextId, pending, worker, stream, slot, status, connected, running, stopper,
                 uiVars, newest>>

\* Whether one more peer may authenticate.
Room == pending < MaxPendingAuth

\* A peer is refused, its thread cannot be started, or it gets a worker.
Accept ==
  /\ acceptor = "Accept"
  /\ acceptor' = "Check"
  /\ \/ UNCHANGED <<nextId, pending, worker, stream>>
     \/ /\ Room /\ nextId < MaxPeers
        /\ nextId' = nextId + 1
        /\ \/ UNCHANGED <<pending, worker, stream>>
           \/ /\ pending' = pending + 1
              /\ Goto(nextId + 1, "Authenticate")
              /\ stream' = stream \cup {nextId + 1}
  /\ UNCHANGED <<slot, status, connected, running, stopper, uiVars, newest>>

-----------------------------------------------------------------------------
(* serve_peer, one step per access to shared state. *)

\* Mutant: a failed token exchange never releases its place.
FinishedGood(ok) == IF ok THEN pending - 1 ELSE pending

\* The counter after one token exchange, good or bad.
Finished(ok) == pending - 1

\* The token is good or wrong, or AUTH_DEADLINE passes.
Authenticate(p) ==
  /\ worker[p] = "Authenticate"
  /\ \E ok \in BOOLEAN :
       /\ pending' = Finished(ok)
       /\ Goto(p, IF ok THEN "CheckRunning" ELSE "Gone")
       /\ stream' = IF ok THEN stream ELSE stream \ {p}
  /\ UNCHANGED <<acceptVars, slot, status, connected, running, stopper, uiVars, newest>>

\* The listener may have stopped meanwhile, or the stream cannot be configured.
CheckRunning(p) ==
  /\ worker[p] = "CheckRunning"
  /\ \/ running /\ Goto(p, "Install") /\ UNCHANGED stream
     \/ Goto(p, "Gone") /\ stream' = stream \ {p}
  /\ UNCHANGED <<acceptVars, pending, slot, status, connected, running, stopper, uiVars,
                 newest>>

\* Under the lock: shut the old session down, begin the handshake (not without a
\* nonce) and take the slot.  When AuthBegin cannot be written the slot stays empty.
Install(p) ==
  /\ worker[p] = "Install"
  /\ \/ /\ slot' = p /\ newest' = p
        /\ \E begun \in {"Pending", "Idle"} : status' = [status EXCEPT ![p] = begun]
        /\ Goto(p, "SetFlag")
        /\ stream' = stream \ {slot}
     \/ /\ slot' = 0
        /\ Goto(p, "Gone")
        /\ stream' = stream \ {slot, p}
        /\ UNCHANGED <<status, newest>>
  /\ UNCHANGED <<acceptVars, pending, connected, running, stopper, uiVars>>

SetFlag(p) ==
  /\ worker[p] = "SetFlag"
  /\ connected' = TRUE
  /\ Goto(p, "SayConnected")
  /\ UNCHANGED <<acceptVars, pending, stream, slot, status, running, stopper, uiVars, newest>>

SayConnected(p) ==
  /\ worker[p] = "SayConnected"
  /\ portStat' = "Connected"
  /\ Goto(p, "SayStatus")
  /\ UNCHANGED <<acceptVars, pending, stream, slot, status, connected, running, stopper,
                 deviceAuth, newest>>

\* The status captured under the lock, right after begin.
SayStatus(p) ==
  /\ worker[p] = "SayStatus"
  /\ deviceAuth' = status[p]
  /\ Goto(p, "Read")
  /\ UNCHANGED <<acceptVars, pending, stream, slot, status, connected, running, stopper,
                 portStat, newest>>

\* Mutant: ids are compared off by one.
NextPeer(p) == slot = p + 1

\* Whether p is the peer of the current session.
Current(p) == slot = p

\* handle_auth on an Auth message of p, which may have been received before p was
\* replaced: the handshake of the current session ends well or badly.
HandleAuth(p) ==
  /\ worker[p] = "Read"
  /\ Current(p) /\ status[slot] = "Pending"
  /\ \E outcome \in {"Authenticated", "Refused"} :
       status' = [status EXCEPT ![slot] = outcome] /\ deviceAuth' = outcome
  /\ UNCHANGED <<acceptVars, pending, worker, stream, slot, connected, running, stopper,
                 portStat, newest>>

\* read_messages returns: end of stream, read error, overlong line, or stop.
EndRead(p) ==
  /\ worker[p] = "Read"
  /\ Goto(p, "Release")
  /\ UNCHANGED <<acceptVars, pending, stream, slot, status, connected, running, stopper,
                 uiVars, newest>>

\* Under the lock: give the slot up, if it is still this peer's.
Release(p) ==
  /\ worker[p] = "Release"
  /\ IF Current(p)
       THEN slot' = 0 /\ Goto(p, "ClearFlag")
       ELSE Goto(p, "Gone") /\ UNCHANGED slot
  /\ stream' = stream \ {p}
  /\ UNCHANGED <<acceptVars, pending, status, connected, running, stopper, uiVars, newest>>

ClearFlag(p) ==
  /\ worker[p] = "ClearFlag"
  /\ connected' = FALSE
  /\ Goto(p, "SayDisconnected")
  /\ UNCHANGED <<acceptVars, pending, stream, slot, status, running, stopper, uiVars, newest>>

SayDisconnected(p) ==
  /\ worker[p] = "SayDisconnected"
  /\ portStat' = "Listening" /\ deviceAuth' = "Idle"
  /\ Goto(p, "Gone")
  /\ UNCHANGED <<acceptVars, pending, stream, slot, status, connected, running, stopper,
                 newest>>

-----------------------------------------------------------------------------
(* The WebView's calls and the network. *)

\* send: a failed write takes the session, still under the lock.
SendFails ==
  /\ slot # 0 /\ stopper = "No"
  /\ slot' = 0 /\ connected' = FALSE
  /\ stream' = stream \ {slot}
  /\ UNCHANGED <<acceptVars, pending, worker, status, running, stopper, uiVars, newest>>

StopFlags ==
  /\ stopper = "No"
  /\ stopper' = "Flagged" /\ running' = FALSE /\ connected' = FALSE
  /\ UNCHANGED <<acceptVars, pending, worker, stream, slot, status, uiVars, newest>>

StopSlot ==
  /\ stopper = "Flagged"
  /\ stopper' = "Cleared"
  /\ slot' = 0 /\ stream' = stream \ {slot}
  /\ UNCHANGED <<acceptVars, pending, worker, status, connected, running, uiVars, newest>>

StopJoin ==
  /\ stopper = "Cleared" /\ acceptor = "Done"
  /\ stopper' = "Joined"
  /\ UNCHANGED <<acceptVars, pending, worker, stream, slot, status, connected, running,
                 uiVars, newest>>

\* A peer goes away.
PeerCloses(p) ==
  /\ p \in stream
  /\ stream' = stream \ {p}
  /\ UNCHANGED <<acceptVars, pending, worker, slot, status, connected, running, stopper,
                 uiVars, newest>>

Announce(p) == SetFlag(p) \/ SayConnected(p) \/ SayStatus(p)
GiveUp(p) == Release(p) \/ ClearFlag(p) \/ SayDisconnected(p)

\* Mutant: a reader that does not look at `running`.
EndOnClose(p) == EndRead(p) /\ p \notin stream

\* The read loop ends when the stream or the listener has.
MustEndRead(p) == EndRead(p) /\ (p \notin stream \/ ~running)

Worker(p) ==
  \/ Authenticate(p) \/ CheckRunning(p) \/ Install(p) \/ Announce(p)
  \/ HandleAuth(p) \/ EndRead(p) \/ GiveUp(p)

Next ==
  \/ AcceptCheck \/ Accept
  \/ SendFails \/ StopFlags \/ StopSlot \/ StopJoin
  \/ \E p \in Peers : Worker(p) \/ PeerCloses(p)

Spec == Init /\ [][Next]_vars

\* The threads run: the accept loop polls, a token exchange has a deadline, a read
\* has a timeout of 100 ms and then sees the end of the stream or of the listener.
\* A call of stop runs to its end.
FairSpec ==
  /\ Spec
  /\ WF_vars(AcceptCheck) /\ WF_vars(Accept) /\ WF_vars(StopSlot) /\ WF_vars(StopJoin)
  /\ \A p \in Peers :
       /\ WF_vars(Authenticate(p) \/ CheckRunning(p) \/ Install(p))
       /\ WF_vars(Announce(p)) /\ WF_vars(MustEndRead(p)) /\ WF_vars(GiveUp(p))

-----------------------------------------------------------------------------
(* Properties. *)

Working ==
  {"Authenticate", "CheckRunning", "Install", "SetFlag", "SayConnected", "SayStatus", "Read",
   "Release", "ClearFlag", "SayDisconnected"}

\* The shared state has the values its types allow.
TypeOK ==
  /\ acceptor \in {"Check", "Accept", "Done"} /\ nextId \in 0..MaxPeers /\ pending \in Nat
  /\ worker \in [Peers -> Working \cup {"None", "Gone"}]
  /\ stream \in SUBSET Peers
  /\ slot \in 0..MaxPeers /\ newest \in 0..MaxPeers /\ status \in [Peers -> Status]
  /\ connected \in BOOLEAN /\ running \in BOOLEAN
  /\ stopper \in {"No", "Flagged", "Cleared", "Joined"}
  /\ portStat \in {"Listening", "Connected"} /\ deviceAuth \in Status

\* The counter of authenticating peers is exact on every path out of the token
\* exchange and never exceeds its limit, so finished peers cannot lock the listener
\* (wifi_transport.rs:202-216, 235-242).
PendingExact ==
  /\ pending = Cardinality({p \in Peers : worker[p] = "Authenticate"})
  /\ pending <= MaxPendingAuth

\* The slot holds the newest installed session, and a worker that is still reading
\* or about to: no orphan would keep the slot for ever (wifi_transport.rs:254-298).
SlotIsServed ==
  slot # 0 =>
    /\ slot = newest
    /\ worker[slot] \in {"SetFlag", "SayConnected", "SayStatus", "Read", "Release"}

\* A session leaves the slot only together with its stream: no worker drops a
\* connection that is not its own (wifi_transport.rs:292-298).
SlotKeepsLiveSession ==
  [][slot # 0 /\ slot' # slot => slot \notin stream']_vars

\* After stop no worker and no session survives, even of a peer that was being
\* authenticated (wifi_transport.rs:166-178, 243-245, 365).
StopEndsEverything ==
  (stopper = "Flagged")
    ~> [](stopper = "Joined" /\ slot = 0 /\ pending = 0
            /\ \A p \in Peers : worker[p] \notin Working)
=============================================================================
