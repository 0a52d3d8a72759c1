-------------------------- MODULE WifiListenerProofs --------------------------
(***************************************************************************)
(* Proofs about WifiListener, for any number of peers and any limit of     *)
(* peers that authenticate at once.                                        *)
(***************************************************************************)
EXTENDS WifiListener, FiniteSetTheorems, TLAPS

\* The peers whose token exchange is under way.
Authenticating == {p \in Peers : worker[p] = "Authenticate"}

\* A worker exists only for an id that was handed out.
IdsInv == \A p \in Peers : p > nextId => worker[p] = "None"

\* The inductive invariant: the ids are what keeps a new worker away from the slot
\* and from the peers that are already counted.
ListenerInv == TypeOK /\ PendingExact /\ IdsInv /\ SlotIsServed

-----------------------------------------------------------------------------
(* The count of authenticating peers. *)

\* Whatever the workers do, only finitely many authenticate.
LEMMA AuthenticatingFinite ==
  /\ IsFiniteSet(Authenticating)
  /\ Cardinality(Authenticating) \in Nat
<1>1. 1 \in Int /\ MaxPeers \in Int
  BY ListenerAssumption
<1>2. IsFiniteSet(Peers)
  BY <1>1, FS_Interval DEF Peers
<1>3. Authenticating \in SUBSET Peers
  BY DEF Authenticating
<1>4. IsFiniteSet(Authenticating)
  BY <1>2, <1>3, FS_Subset
<1> QED
  BY <1>4, FS_CardinalityType

\* A worker that starts its token exchange adds one to the count.
LEMMA OneMore ==
  ASSUME TypeOK, NEW p \in Peers, worker[p] # "Authenticate", Goto(p, "Authenticate")
  PROVE  Cardinality(Authenticating') = Cardinality(Authenticating) + 1
<1>1. Authenticating' = Authenticating \cup {p}
  BY DEF TypeOK, Goto, Authenticating, Peers
<1>2. p \notin Authenticating
  BY DEF Authenticating
<1> QED
  BY <1>1, <1>2, AuthenticatingFinite, FS_AddElement

\* A worker that ends it takes one away, and there was one to take.
LEMMA OneLess ==
  ASSUME TypeOK, NEW p \in Peers, worker[p] = "Authenticate", NEW what,
         what # "Authenticate", Goto(p, what)
  PROVE  /\ Cardinality(Authenticating') = Cardinality(Authenticating) - 1
         /\ Cardinality(Authenticating) > 0
<1>1. Authenticating' = Authenticating \ {p}
  BY DEF TypeOK, Goto, Authenticating, Peers
<1>2. p \in Authenticating
  BY DEF Authenticating
<1>3. /\ Cardinality(Authenticating \ {p}) = Cardinality(Authenticating) - 1
      /\ Cardinality(Authenticating \ {p}) \in Nat
  <2>1. IsFiniteSet(Authenticating \ {p})
    BY AuthenticatingFinite, FS_RemoveElement
  <2> QED
    BY <2>1, <1>2, AuthenticatingFinite, FS_RemoveElement, FS_CardinalityType
<1> QED
  BY <1>1, <1>3, AuthenticatingFinite

\* Any other step of a worker leaves the count alone.
LEMMA SameCount ==
  ASSUME TypeOK, NEW p \in Peers, worker[p] # "Authenticate", NEW what,
         what # "Authenticate", Goto(p, what)
  PROVE  Authenticating' = Authenticating
BY DEF TypeOK, Goto, Authenticating, Peers

-----------------------------------------------------------------------------
(* The steps, one lemma per thread. *)

\* A step that moves no worker preserves the invariant when it leaves the slot
\* alone or empties it.
LEMMA NoWorkerMoves ==
  ASSUME ListenerInv, TypeOK', UNCHANGED <<pending, nextId, worker, newest>>,
         slot' \in {0, slot}
  PROVE  ListenerInv'
<1>1. PendingExact'
  BY DEF ListenerInv, PendingExact, Peers
<1>2. IdsInv'
  BY DEF ListenerInv, IdsInv, Peers
<1>3. SlotIsServed'
  BY DEF ListenerInv, SlotIsServed
<1> QED
  BY <1>1, <1>2, <1>3 DEF ListenerInv

\* A step of a worker that neither counts nor takes the slot preserves the
\* invariant when the worker, if it has the slot, goes on serving it.
LEMMA WorkerMoves ==
  ASSUME ListenerInv, TypeOK', NEW p \in Peers, NEW what,
         worker[p] \in Working \ {"Authenticate"}, what # "Authenticate",
         Goto(p, what), UNCHANGED <<pending, nextId, newest>>,
         slot' \in {0, slot},
         slot' = p => what \in {"SetFlag", "SayConnected", "SayStatus", "Read", "Release"}
  PROVE  ListenerInv'
<1>1. PendingExact'
  <2>1. Authenticating' = Authenticating
    BY SameCount DEF ListenerInv
  <2> QED
    BY <2>1 DEF ListenerInv, PendingExact, Authenticating
<1>2. p <= nextId
  BY DEF ListenerInv, IdsInv, TypeOK, Peers, Working
<1>3. IdsInv'
  BY <1>2 DEF ListenerInv, IdsInv, TypeOK, Goto, Peers
<1>4. SlotIsServed'
  BY DEF ListenerInv, SlotIsServed, TypeOK, Goto, Peers
<1> QED
  BY <1>1, <1>3, <1>4 DEF ListenerInv

\* The accept thread.
LEMMA AcceptKeepsInv ==
  ASSUME ListenerInv, AcceptCheck \/ Accept
  PROVE  ListenerInv'
<1> USE ListenerAssumption
<1>1. CASE AcceptCheck
  <2>1. TypeOK'
    BY <1>1 DEF ListenerInv, TypeOK, AcceptCheck, uiVars
  <2> QED
    BY <1>1, <2>1, NoWorkerMoves DEF AcceptCheck
<1>2. CASE Accept /\ UNCHANGED <<pending, worker, stream>>
  <2>1. nextId' \in {nextId, nextId + 1} /\ nextId' \in 0..MaxPeers
    BY <1>2 DEF ListenerInv, TypeOK, Accept
  <2>2. TypeOK'
    BY <1>2, <2>1 DEF ListenerInv, TypeOK, Accept, uiVars
  <2>3. PendingExact'
    BY <1>2 DEF ListenerInv, PendingExact, Peers
  <2>4. IdsInv'
    BY <1>2, <2>1 DEF ListenerInv, IdsInv, TypeOK, Peers
  <2>5. SlotIsServed'
    BY <1>2 DEF ListenerInv, SlotIsServed, Accept
  <2> QED
    BY <2>2, <2>3, <2>4, <2>5 DEF ListenerInv
<1>3. CASE Accept /\ Room /\ nextId < MaxPeers /\ nextId' = nextId + 1 /\ pending' = pending + 1
           /\ Goto(nextId + 1, "Authenticate") /\ stream' = stream \cup {nextId + 1}
  <2>1. nextId + 1 \in Peers /\ worker[nextId + 1] = "None"
    BY <1>3 DEF ListenerInv, IdsInv, TypeOK, Peers
  <2>2. TypeOK'
    <3>1. worker' \in [Peers -> Working \cup {"None", "Gone"}]
      BY <1>3, <2>1 DEF ListenerInv, TypeOK, Goto, Working
    <3>2. stream' \in SUBSET Peers /\ nextId' \in 0..MaxPeers /\ pending' \in Nat
      BY <1>3, <2>1 DEF ListenerInv, TypeOK
    <3> QED
      BY <1>3, <3>1, <3>2 DEF ListenerInv, TypeOK, Accept, uiVars
  <2>3. PendingExact'
    <3>1. Cardinality(Authenticating') = Cardinality(Authenticating) + 1
      BY <1>3, <2>1, OneMore DEF ListenerInv
    <3> QED
      BY <1>3, <3>1 DEF ListenerInv, TypeOK, PendingExact, Authenticating, Room
  <2>4. IdsInv'
    BY <1>3, <2>1 DEF ListenerInv, IdsInv, TypeOK, Goto, Peers
  <2>5. SlotIsServed'
    BY <1>3, <2>1 DEF ListenerInv, SlotIsServed, TypeOK, Goto, Peers, Accept
  <2> QED
    BY <2>2, <2>3, <2>4, <2>5 DEF ListenerInv
<1> QED
  BY <1>1, <1>2, <1>3 DEF Accept

\* serve_peer up to the end of the token exchange.
LEMMA AuthenticateKeepsInv ==
  ASSUME ListenerInv, NEW p \in Peers, Authenticate(p)
  PROVE  ListenerInv'
<1> USE ListenerAssumption
<1>1. PICK what \in {"CheckRunning", "Gone"} : Goto(p, what)
  BY DEF Authenticate
<1>2. /\ Cardinality(Authenticating') = Cardinality(Authenticating) - 1
      /\ Cardinality(Authenticating) > 0
  BY <1>1, OneLess DEF ListenerInv, Authenticate
<1>3. pending' = pending - 1 /\ pending' \in Nat
  BY <1>2, AuthenticatingFinite DEF ListenerInv, TypeOK, PendingExact, Authenticating,
     Authenticate, Finished
<1>4. TypeOK'
  <2>1. worker' \in [Peers -> Working \cup {"None", "Gone"}]
    BY <1>1 DEF ListenerInv, TypeOK, Goto, Working
  <2>2. stream' \in SUBSET Peers
    BY DEF ListenerInv, TypeOK, Authenticate
  <2> QED
    BY <1>3, <2>1, <2>2 DEF ListenerInv, TypeOK, Authenticate, acceptVars, uiVars
<1>5. PendingExact'
  BY <1>2, <1>3 DEF ListenerInv, TypeOK, PendingExact, Authenticating
<1>6. IdsInv'
  <2>1. p <= nextId
    BY DEF ListenerInv, IdsInv, TypeOK, Peers, Authenticate
  <2> QED
    BY <1>1, <2>1 DEF ListenerInv, IdsInv, TypeOK, Goto, Peers, Authenticate, acceptVars
<1>7. SlotIsServed'
  BY <1>1 DEF ListenerInv, SlotIsServed, TypeOK, Goto, Peers, Authenticate
<1> QED
  BY <1>4, <1>5, <1>6, <1>7 DEF ListenerInv

\* A session is installed, or the slot is left empty.
LEMMA InstallKeepsInv ==
  ASSUME ListenerInv, NEW p \in Peers, Install(p)
  PROVE  ListenerInv'
<1> USE ListenerAssumption
<1>1. PICK what \in {"SetFlag", "Gone"} : Goto(p, what)
  BY DEF Install
<1>2. TypeOK'
  <2>1. worker' \in [Peers -> Working \cup {"None", "Gone"}]
    BY <1>1 DEF ListenerInv, TypeOK, Goto, Working
  <2>2. slot' \in 0..MaxPeers /\ newest' \in 0..MaxPeers
    BY DEF ListenerInv, TypeOK, Install, Peers
  <2>3. stream' \in SUBSET Peers
    BY DEF ListenerInv, TypeOK, Install
  <2>4. status' \in [Peers -> Status]
    BY DEF ListenerInv, TypeOK, Install, Status
  <2> QED
    BY <2>1, <2>2, <2>3, <2>4 DEF ListenerInv, TypeOK, Install, acceptVars, uiVars
<1>3. PendingExact'
  <2>1. Authenticating' = Authenticating
    BY <1>1, SameCount DEF ListenerInv, Install
  <2> QED
    BY <2>1 DEF ListenerInv, PendingExact, Authenticating, Install
<1>4. IdsInv'
  <2>1. p <= nextId
    BY DEF ListenerInv, IdsInv, TypeOK, Peers, Install
  <2> QED
    BY <1>1, <2>1 DEF ListenerInv, IdsInv, TypeOK, Goto, Peers, Install, acceptVars
<1>5. SlotIsServed'
  <2>1. CASE slot' = 0
    BY <2>1 DEF SlotIsServed
  <2>2. CASE slot' = p /\ newest' = p /\ Goto(p, "SetFlag")
    BY <2>2 DEF ListenerInv, SlotIsServed, TypeOK, Goto
  <2> QED
    BY <2>1, <2>2 DEF Install
<1> QED
  BY <1>2, <1>3, <1>4, <1>5 DEF ListenerInv

\* The other steps of a worker.
LEMMA WorkerKeepsInv ==
  ASSUME ListenerInv, NEW p \in Peers,
         CheckRunning(p) \/ Announce(p) \/ HandleAuth(p) \/ EndRead(p) \/ GiveUp(p)
  PROVE  ListenerInv'
<1> USE ListenerAssumption
<1>1. CASE CheckRunning(p)
  <2>1. PICK what \in {"Install", "Gone"} : Goto(p, what)
    BY <1>1 DEF CheckRunning
  <2>2. slot # p
    BY <1>1 DEF ListenerInv, SlotIsServed, CheckRunning, Peers
  <2>3. worker' \in [Peers -> Working \cup {"None", "Gone"}]
    BY <2>1 DEF ListenerInv, TypeOK, Goto, Working
  <2>4. TypeOK'
    BY <1>1, <2>3 DEF ListenerInv, TypeOK, CheckRunning, acceptVars, uiVars
  <2> QED
    BY <1>1, <2>1, <2>2, <2>4, WorkerMoves DEF CheckRunning, acceptVars, Working
<1>2. CASE SetFlag(p)
  <2>1. worker' \in [Peers -> Working \cup {"None", "Gone"}]
    BY <1>2 DEF ListenerInv, TypeOK, SetFlag, Goto, Working
  <2>2. TypeOK'
    BY <1>2, <2>1 DEF ListenerInv, TypeOK, SetFlag, acceptVars, uiVars
  <2> QED
    BY <1>2, <2>2, WorkerMoves DEF SetFlag, acceptVars, Working
<1>3. CASE SayConnected(p)
  <2>1. worker' \in [Peers -> Working \cup {"None", "Gone"}]
    BY <1>3 DEF ListenerInv, TypeOK, SayConnected, Goto, Working
  <2>2. TypeOK'
    BY <1>3, <2>1 DEF ListenerInv, TypeOK, SayConnected, acceptVars
  <2> QED
    BY <1>3, <2>2, WorkerMoves DEF SayConnected, acceptVars, Working
<1>4. CASE SayStatus(p)
  <2>1. worker' \in [Peers -> Working \cup {"None", "Gone"}]
    BY <1>4 DEF ListenerInv, TypeOK, SayStatus, Goto, Working
  <2>2. deviceAuth' \in Status
    BY <1>4 DEF ListenerInv, TypeOK, SayStatus
  <2>3. TypeOK'
    BY <1>4, <2>1, <2>2 DEF ListenerInv, TypeOK, SayStatus, acceptVars
  <2> QED
    BY <1>4, <2>3, WorkerMoves DEF SayStatus, acceptVars, Working
<1>5. CASE HandleAuth(p)
  <2>1. status' \in [Peers -> Status] /\ deviceAuth' \in Status
    BY <1>5 DEF ListenerInv, TypeOK, HandleAuth, Status
  <2>2. TypeOK'
    BY <1>5, <2>1 DEF ListenerInv, TypeOK, HandleAuth, acceptVars
  <2> QED
    BY <1>5, <2>2, NoWorkerMoves DEF HandleAuth, acceptVars
<1>6. CASE EndRead(p)
  <2>1. worker' \in [Peers -> Working \cup {"None", "Gone"}]
    BY <1>6 DEF ListenerInv, TypeOK, EndRead, Goto, Working
  <2>2. TypeOK'
    BY <1>6, <2>1 DEF ListenerInv, TypeOK, EndRead, acceptVars, uiVars
  <2> QED
    BY <1>6, <2>2, WorkerMoves DEF EndRead, acceptVars, Working
<1>7. CASE Release(p)
  <2>1. PICK what \in {"ClearFlag", "Gone"} :
          Goto(p, what) /\ slot' \in {0, slot} /\ slot' # p
    BY <1>7 DEF Release, Current, Peers
  <2>2. worker' \in [Peers -> Working \cup {"None", "Gone"}]
    BY <2>1 DEF ListenerInv, TypeOK, Goto, Working
  <2>3. slot' \in 0..MaxPeers /\ stream' \in SUBSET Peers
    BY <1>7, <2>1 DEF ListenerInv, TypeOK, Release
  <2>4. TypeOK'
    BY <1>7, <2>2, <2>3 DEF ListenerInv, TypeOK, Release, acceptVars, uiVars
  <2> QED
    BY <1>7, <2>1, <2>4, WorkerMoves DEF Release, acceptVars, Working
<1>8. CASE ClearFlag(p) \/ SayDisconnected(p)
  <2>1. PICK what \in {"SayDisconnected", "Gone"} : Goto(p, what)
    BY <1>8 DEF ClearFlag, SayDisconnected
  <2>2. slot # p
    BY <1>8 DEF ListenerInv, SlotIsServed, ClearFlag, SayDisconnected, Peers
  <2>3. worker' \in [Peers -> Working \cup {"None", "Gone"}]
    BY <2>1 DEF ListenerInv, TypeOK, Goto, Working
  <2>4. TypeOK'
    BY <1>8, <2>3 DEF ListenerInv, TypeOK, ClearFlag, SayDisconnected, acceptVars, uiVars,
       Status
  <2> QED
    BY <1>8, <2>1, <2>2, <2>4, WorkerMoves DEF ClearFlag, SayDisconnected, acceptVars,
       Working
<1> QED
  BY <1>1, <1>2, <1>3, <1>4, <1>5, <1>6, <1>7, <1>8 DEF Announce, GiveUp

\* The calls of the WebView and the network.
LEMMA OutsideKeepsInv ==
  ASSUME ListenerInv,
         SendFails \/ StopFlags \/ StopSlot \/ StopJoin \/ \E p \in Peers : PeerCloses(p)
  PROVE  ListenerInv'
<1> USE ListenerAssumption
<1>1. CASE SendFails
  <2>1. slot' \in 0..MaxPeers /\ stream' \in SUBSET Peers
    BY <1>1 DEF ListenerInv, TypeOK, SendFails
  <2>2. connected' \in BOOLEAN
    BY <1>1 DEF SendFails
  <2>3. TypeOK'
    BY <1>1, <2>1, <2>2 DEF ListenerInv, TypeOK, SendFails, acceptVars, uiVars
  <2> QED
    BY <1>1, <2>3, NoWorkerMoves DEF SendFails, acceptVars
<1>2. CASE StopFlags
  <2>1. TypeOK'
    BY <1>2 DEF ListenerInv, TypeOK, StopFlags, acceptVars, uiVars
  <2> QED
    BY <1>2, <2>1, NoWorkerMoves DEF StopFlags, acceptVars
<1>3. CASE StopSlot
  <2>1. slot' \in 0..MaxPeers /\ stream' \in SUBSET Peers
    BY <1>3 DEF ListenerInv, TypeOK, StopSlot
  <2>2. TypeOK'
    BY <1>3, <2>1 DEF ListenerInv, TypeOK, StopSlot, acceptVars, uiVars
  <2> QED
    BY <1>3, <2>2, NoWorkerMoves DEF StopSlot, acceptVars
<1>4. CASE StopJoin
  <2>1. TypeOK'
    BY <1>4 DEF ListenerInv, TypeOK, StopJoin, acceptVars, uiVars
  <2> QED
    BY <1>4, <2>1, NoWorkerMoves DEF StopJoin, acceptVars
<1>5. CASE \E p \in Peers : PeerCloses(p)
  <2>1. TypeOK'
    BY <1>5 DEF ListenerInv, TypeOK, PeerCloses, acceptVars, uiVars
  <2> QED
    BY <1>5, <2>1, NoWorkerMoves DEF PeerCloses, acceptVars
<1> QED
  BY <1>1, <1>2, <1>3, <1>4, <1>5

-----------------------------------------------------------------------------
(* The theorems. *)

\* The invariant holds in every reachable state: the threads of the listener, the
\* calls of the WebView and the peers preserve it in whatever order they run
\* (wifi_transport.rs:197-306).
THEOREM ListenerInvariant == Spec => []ListenerInv
<1>1. Init => ListenerInv
  <2> SUFFICES ASSUME Init PROVE ListenerInv
    OBVIOUS
  <2>1. TypeOK
    <3>1. worker \in [Peers -> Working \cup {"None", "Gone"}] /\ status \in [Peers -> Status]
      BY DEF Init, Status
    <3>2. connected \in BOOLEAN /\ running \in BOOLEAN
      BY DEF Init
    <3>3. nextId \in 0..MaxPeers /\ pending \in Nat /\ slot \in 0..MaxPeers /\ newest \in 0..MaxPeers
      BY ListenerAssumption DEF Init
    <3>4. stream \in SUBSET Peers /\ deviceAuth \in Status
      BY DEF Init, Status
    <3> QED
      BY <3>1, <3>2, <3>3, <3>4 DEF Init, TypeOK
  <2>2. PendingExact
    <3>1. {p \in Peers : worker[p] = "Authenticate"} = {}
      BY DEF Init
    <3> QED
      BY <3>1, FS_EmptySet, ListenerAssumption DEF Init, PendingExact
  <2>3. IdsInv /\ SlotIsServed
    BY DEF Init, IdsInv, SlotIsServed
  <2> QED
    BY <2>1, <2>2, <2>3 DEF ListenerInv
<1>2. ListenerInv /\ [Next]_vars => ListenerInv'
  <2> SUFFICES ASSUME ListenerInv, [Next]_vars PROVE ListenerInv'
    OBVIOUS
  <2>1. CASE AcceptCheck \/ Accept
    BY <2>1, AcceptKeepsInv
  <2>2. CASE SendFails \/ StopFlags \/ StopSlot \/ StopJoin \/ \E p \in Peers : PeerCloses(p)
    BY <2>2, OutsideKeepsInv
  <2>3. CASE \E p \in Peers : Worker(p)
    BY <2>3, AuthenticateKeepsInv, InstallKeepsInv, WorkerKeepsInv DEF Worker
  <2>4. CASE UNCHANGED vars
    <3>1. TypeOK'
      BY <2>4 DEF ListenerInv, TypeOK, vars, acceptVars, uiVars
    <3> QED
      BY <2>4, <3>1, NoWorkerMoves DEF vars, acceptVars
  <2> QED
    BY <2>1, <2>2, <2>3, <2>4 DEF Next
<1> QED
  BY <1>1, <1>2, PTL DEF Spec

\* The shared state stays well typed; above all the unsigned counter of
\* authenticating peers never goes below zero (wifi_transport.rs:235-242).
THEOREM ListenerTypeCorrect == Spec => []TypeOK
<1>1. ListenerInv => TypeOK
  BY DEF ListenerInv
<1> QED
  BY <1>1, ListenerInvariant, PTL

\* The counter of authenticating peers is exact and within its limit, so it can
\* neither lock the listener nor let more peers in (wifi_transport.rs:202-216).
THEOREM PendingIsExact == Spec => []PendingExact
<1>1. ListenerInv => PendingExact
  BY DEF ListenerInv
<1> QED
  BY <1>1, ListenerInvariant, PTL

\* The slot holds the newest session, and its worker has not given it up
\* (wifi_transport.rs:254-298).
THEOREM SlotIsAlwaysServed == Spec => []SlotIsServed
<1>1. ListenerInv => SlotIsServed
  BY DEF ListenerInv
<1> QED
  BY <1>1, ListenerInvariant, PTL

\* No step takes a session out of the slot and leaves its stream open, so no worker
\* drops a connection that is not its own (wifi_transport.rs:292-298).
THEOREM SlotKeepsItsSession == Spec => SlotKeepsLiveSession
<1>1. [Next]_vars => [slot # 0 /\ slot' # slot => slot \notin stream']_vars
  <2> SUFFICES ASSUME Next, slot # 0, slot' # slot PROVE slot \notin stream'
    BY DEF vars
  <2>1. CASE SendFails \/ StopSlot
    BY <2>1 DEF SendFails, StopSlot
  <2>2. CASE \E p \in Peers : Install(p) \/ Release(p)
    BY <2>2 DEF Install, Release, Current
  <2>3. CASE AcceptCheck \/ Accept \/ StopFlags \/ StopJoin \/ \E p \in Peers : PeerCloses(p)
    BY <2>3 DEF AcceptCheck, Accept, StopFlags, StopJoin, PeerCloses
  <2>4. CASE \E p \in Peers : Authenticate(p) \/ CheckRunning(p) \/ HandleAuth(p) \/ EndRead(p)
    BY <2>4 DEF Authenticate, CheckRunning, HandleAuth, EndRead
  <2>5. CASE \E p \in Peers : Announce(p) \/ ClearFlag(p) \/ SayDisconnected(p)
    BY <2>5 DEF Announce, SetFlag, SayConnected, SayStatus, ClearFlag, SayDisconnected
  <2> QED
    BY <2>1, <2>2, <2>3, <2>4, <2>5 DEF Next, Worker, GiveUp
<1> QED
  BY <1>1, PTL DEF Spec, SlotKeepsLiveSession
=============================================================================
