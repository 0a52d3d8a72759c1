--------------------------- MODULE BluetoothWorker ---------------------------
(***************************************************************************)
(* The Bluetooth worker (run_worker in bluetooth.rs), the SPP callbacks    *)
(* that queue its work, and the radio stack as the code sees it: links     *)
(* with handles, writes that complete later, congestion.  AuthSession has  *)
(* the session that judges the lines, FirmwarePipeline the threads that    *)
(* the work queue connects.                                                *)
(*                                                                         *)
(* The bytes of a link are pieces 1, 2, 3, ...; a line is an odd piece and *)
(* the even piece after it, so a callback may carry a part of a line or    *)
(* the end of one and the start of the next.  A frame to the desktop is    *)
(* two chunks of SPP_WRITE_CHUNK_BYTES.                                    *)
(***************************************************************************)
EXTENDS Naturals, Sequences, FiniteSets

CONSTANTS
  Module,        \* modules with a registration
  System,        \* the subject of the system snapshot
  Event,         \* the subject of runtime events, which are not cached
  WorkCap,       \* capacity of the work queue (128)
  PendingCap,    \* frames that may wait for a write (128)
  MaxLinks,      \* bound: links the peers open
  MaxPieces,     \* bound: pieces sent on one link
  MaxEvents      \* bound: messages, bytes, failed or rejected writes, congestions

ASSUME SubjectsAssumption == System \notin Module /\ Event \notin Module \cup {System}
ASSUME WorkerAssumption ==
  /\ {WorkCap, PendingCap} \subseteq Nat \ {0}
  /\ {MaxLinks, MaxPieces, MaxEvents} \subseteq Nat

VARIABLES
  radio,        \* handles of the links that are open
  opened,       \* links opened so far: the latest handle
  closing,      \* handles the worker has asked the stack to disconnect
  said,         \* pieces sent on each link
  flying,       \* writes the stack has accepted and not yet completed
  jammed,       \* links the stack has reported congested
  heard,        \* chunks that have arrived at the desktop, by link
  work,         \* the work queue
  overflow,     \* a callback was lost
  lost,         \* links of which a callback was lost while they were not served
  checked,      \* the worker has looked at the flag and receives next
  connection,   \* run_worker's connection, 0 for None
  writePending, congested, \* whether the worker may write
  framer,       \* LineFramer.buffer: pieces of an unfinished line
  pending,      \* frames that wait for a write, with the chunks they still need
  system, registrations, \* the replay cache
  obeyed,       \* lines parsed, by link
  created,      \* messages created by the main loop
  linkDrops,    \* Stage::Link drops
  events        \* what MaxEvents counts

linkVars == <<radio, opened, closing, said, jammed, heard>>
queueVars == <<work, overflow, lost>>
writeVars == <<connection, writePending, congested, pending, flying>>
cacheVars == <<system, registrations>>
vars == <<linkVars, queueVars, checked, writeVars, framer, cacheVars, obeyed, created,
          linkDrops, events>>

Handle == 1..MaxLinks
Subject == Module \cup {System, Event}
Message == [about : Subject, n : Nat]
Frame == [message : Message, left : 1..2]
Chunk == [message : Message, part : 1..2]

Connected(h) == [kind |-> "Connected", handle |-> h]
Closed(h) == [kind |-> "Closed", handle |-> h]
Data(h, from, to) == [kind |-> "Data", handle |-> h, from |-> from, to |-> to]
TooLong(h) == [kind |-> "TooLong", handle |-> h]
WriteDone(h, ok, cong) == [kind |-> "WriteDone", handle |-> h, ok |-> ok, cong |-> cong]
Congestion(h, cong) == [kind |-> "Congestion", handle |-> h, cong |-> cong]
Outbound(m) == [kind |-> "Message", message |-> m]

Work ==
  [kind : {"Connected", "Closed", "TooLong"}, handle : Handle]
    \cup [kind : {"Data"}, handle : Handle, from : Nat, to : Nat]
    \cup [kind : {"WriteDone"}, handle : Handle, ok : BOOLEAN, cong : BOOLEAN]
    \cup [kind : {"Congestion"}, handle : Handle, cong : BOOLEAN]
    \cup [kind : {"Message"}, message : Message]

Init ==
  /\ radio = {} /\ opened = 0 /\ closing = {} /\ jammed = {}
  /\ said = [h \in Handle |-> 0] /\ heard = [h \in Handle |-> <<>>] /\ flying = <<>>
  /\ work = <<>> /\ overflow = FALSE /\ lost = {} /\ checked = FALSE
  /\ connection = 0 /\ writePending = FALSE /\ congested = FALSE
  /\ framer = <<>> /\ pending = <<>>
  /\ system = <<>> /\ registrations = <<>>
  /\ obeyed = [h \in Handle |-> <<>>] /\ created = 0 /\ linkDrops = 0 /\ events = 0

-----------------------------------------------------------------------------
(* The links and the stack; every event goes through the SPP callback. *)

\* The length at which try_send fails.
Full == WorkCap

\* try_send, or the flag when the queue is full.
Callback(item) ==
  \/ /\ Len(work) < Full
     /\ work' = Append(work, item)
     /\ UNCHANGED <<overflow, lost>>
  \/ /\ Len(work) >= Full
     /\ overflow' = TRUE
     /\ lost' = lost \cup ({item.handle} \ {connection})
     /\ UNCHANGED work

LinkOpens ==
  /\ opened < MaxLinks
  /\ opened' = opened + 1
  /\ radio' = radio \cup {opened + 1}
  /\ Callback(Connected(opened + 1))
  /\ UNCHANGED <<closing, said, jammed, heard, checked, writeVars, framer, cacheVars, obeyed,
                 created, linkDrops, events>>

\* The peer leaves, or the stack does what spp.disconnect asked for.
LinkCloses(h) ==
  /\ h \in radio
  /\ radio' = radio \ {h}
  /\ Callback(Closed(h))
  /\ UNCHANGED <<opened, closing, said, jammed, heard, checked, writeVars, framer, cacheVars,
                 obeyed, created, linkDrops, events>>

\* Bytes arrive, in parts that have nothing to do with lines. (The stack is taken to
\* deliver some, less than 1 KiB at a time. The callback only sets the flag for none or
\* more than MAX_MESSAGE_BYTES; there the next part could be parsed before the worker,
\* waiting at an empty queue, looks at the flag.)
PeerSends(h) ==
  /\ h \in radio /\ events < MaxEvents /\ events' = events + 1
  /\ \E to \in {said[h] + 1, said[h] + 2} :
       /\ to <= MaxPieces
       /\ said' = [said EXCEPT ![h] = to]
       /\ Callback(Data(h, said[h] + 1, to))
  /\ UNCHANGED <<radio, opened, closing, jammed, heard, checked, writeVars, framer, cacheVars,
                 obeyed, created, linkDrops>>

PeerSendsTooLong(h) ==
  /\ h \in radio /\ events < MaxEvents
  /\ events' = events + 1
  /\ Callback(TooLong(h))
  /\ UNCHANGED <<linkVars, checked, writeVars, framer, cacheVars, obeyed, created, linkDrops>>

\* The stack completes its oldest write: the chunk arrives, or the write fails, or
\* the link has gone and that may or may not be reported.
WriteCompletes ==
  /\ flying # <<>>
  /\ flying' = Tail(flying)
  /\ LET h == Head(flying).handle
     IN \/ /\ h \in radio
           /\ heard' = [heard EXCEPT ![h] = Append(@, Head(flying).chunk)]
           /\ \/ /\ Callback(WriteDone(h, TRUE, h \in jammed))
                 /\ UNCHANGED <<jammed, events>>
              \/ /\ events < MaxEvents /\ events' = events + 1
                 /\ jammed' = jammed \cup {h}
                 /\ Callback(WriteDone(h, TRUE, TRUE))
        \/ /\ h \in radio /\ events < MaxEvents /\ events' = events + 1
           /\ Callback(WriteDone(h, FALSE, FALSE))
           /\ UNCHANGED <<heard, jammed>>
        \/ /\ h \notin radio
           /\ Callback(WriteDone(h, FALSE, FALSE)) \/ UNCHANGED queueVars
           /\ UNCHANGED <<heard, jammed, events>>
  /\ UNCHANGED <<radio, opened, closing, said, checked, connection, writePending, congested,
                 pending, framer, cacheVars, obeyed, created, linkDrops>>

CongestionBegins(h) ==
  /\ h \in radio \ jammed /\ events < MaxEvents /\ events' = events + 1
  /\ jammed' = jammed \cup {h}
  /\ Callback(Congestion(h, TRUE))
  /\ UNCHANGED <<radio, opened, closing, said, heard, checked, writeVars, framer, cacheVars,
                 obeyed, created, linkDrops>>

CongestionEnds(h) ==
  /\ h \in radio \cap jammed
  /\ jammed' = jammed \ {h}
  /\ Callback(Congestion(h, FALSE))
  /\ UNCHANGED <<radio, opened, closing, said, heard, checked, writeVars, framer, cacheVars,
                 obeyed, created, linkDrops, events>>

\* Bluetooth::event: the sender thread queues a message when there is room.
SenderSends(about) ==
  /\ Len(work) < Full
  /\ events < MaxEvents /\ events' = events + 1
  /\ created' = created + 1
  /\ work' = Append(work, Outbound([about |-> about, n |-> created + 1]))
  /\ UNCHANGED <<linkVars, overflow, lost, checked, writeVars, framer, cacheVars, obeyed,
                 linkDrops>>

-----------------------------------------------------------------------------
(* The worker. *)

\* Mutant: clearing the framer leaves its buffer.
NotCleared == framer

\* LineFramer::clear.
Cleared == <<>>

\* Mutant: lost callbacks empty the buffers and leave the connection.
Kept == connection

\* The connection after lost callbacks.
Resynced == 0

\* The head of the loop, after an item or when none came for 50 ms: lost callbacks end
\* the connection.  (Without a lost callback the second does nothing.)
WorkerCheck ==
  /\ ~checked \/ (work = <<>> /\ overflow)
  /\ checked' = TRUE
  /\ overflow' = FALSE
  /\ IF overflow
       THEN /\ framer' = Cleared /\ pending' = <<>>
            /\ connection' = Resynced
            /\ closing' = closing \cup ({connection} \ {0})
       ELSE UNCHANGED <<framer, pending, connection, closing>>
  /\ UNCHANGED <<radio, opened, said, jammed, heard, work, lost, writePending, congested,
                 flying, cacheVars, obeyed, created, linkDrops, events>>

\* Receive an item of one kind.
Take(kind) ==
  /\ checked /\ checked' = FALSE
  /\ work # <<>> /\ Head(work).kind = kind
  /\ work' = Tail(work)
  /\ UNCHANGED <<overflow, lost>>
Ours == Head(work).handle = connection

\* One write in flight, none while congested.
MayWrite(c, busy, cong, frames) == c # 0 /\ ~busy /\ ~cong /\ frames # <<>>

\* Mutant: a frame counts as written with its first chunk.
DrainedWhole(frames) == Tail(frames)

\* What waits after a chunk of the first frame was written.
Drained(frames) ==
  IF Head(frames).left = 1 THEN Tail(frames)
  ELSE <<[Head(frames) EXCEPT !.left = 1]>> \o Tail(frames)

\* The foot of the loop, with the values the handler has left behind: write the next
\* chunk of the first frame; a rejected write drops the connection.  hungUp is what
\* the handler itself has disconnected.
Write(c, busy, cong, frames, hungUp) ==
  /\ congested' = cong
  /\ \/ /\ ~MayWrite(c, busy, cong, frames)
        /\ connection' = c /\ writePending' = busy /\ pending' = frames
        /\ closing' = closing \cup hungUp
        /\ UNCHANGED <<flying, events>>
     \/ /\ MayWrite(c, busy, cong, frames)
        /\ LET f == Head(frames)
           IN /\ flying' = Append(flying,
                   [handle |-> c, chunk |-> [message |-> f.message, part |-> 3 - f.left]])
              /\ pending' = Drained(frames)
        /\ connection' = c /\ writePending' = TRUE
        /\ closing' = closing \cup hungUp
        /\ UNCHANGED events
     \/ /\ MayWrite(c, busy, cong, frames)
        /\ events < MaxEvents /\ events' = events + 1
        /\ connection' = 0 /\ pending' = <<>> /\ writePending' = busy
        /\ closing' = closing \cup hungUp \cup {c}
        /\ UNCHANGED flying

\* enqueue: at most PendingCap frames wait, the rest is dropped.
Framed(messages) == [i \in 1..Len(messages) |-> [message |-> messages[i], left |-> 2]]
Enqueue(frames, messages) ==
  SubSeq(frames \o Framed(messages), 1,
         IF Len(frames) + Len(messages) > PendingCap THEN PendingCap
         ELSE Len(frames) + Len(messages))
Dropped(frames, messages) ==
  IF Len(frames) + Len(messages) > PendingCap
    THEN Len(frames) + Len(messages) - PendingCap ELSE 0

\* Mutant: only the registrations are replayed.
ReplayRegistrations == registrations

\* What a new connection is sent first.
Replay == system \o registrations

\* Mutant: a new connection inherits the flag of a write that was never completed.
BusyKept == writePending

\* A new connection has no write in flight.
NotBusy == FALSE

\* A second peer is refused; the loop starts over without a write.
OnConnectedTwice ==
  /\ Take("Connected") /\ connection # 0
  /\ closing' = closing \cup {Head(work).handle}
  /\ UNCHANGED <<radio, opened, said, jammed, heard, writeVars, framer, cacheVars, obeyed,
                 created, linkDrops, events>>

OnConnected ==
  /\ Take("Connected") /\ connection = 0
  /\ framer' = Cleared
  /\ Write(Head(work).handle, NotBusy, FALSE, Enqueue(<<>>, Replay), {})
  /\ linkDrops' = linkDrops + Dropped(<<>>, Replay)
  /\ UNCHANGED <<radio, opened, said, jammed, heard, cacheVars, obeyed, created>>

OnClosed ==
  /\ Take("Closed") /\ Ours
  /\ framer' = Cleared
  /\ Write(0, FALSE, FALSE, <<>>, {})
  /\ UNCHANGED <<radio, opened, said, jammed, heard, cacheVars, obeyed, created, linkDrops>>

\* The session's answer to a line: at most one message.
Answer == [about |-> Event, n |-> 0]
Answers(lines) == IF lines = 0 THEN {<<>>} ELSE {<<>>, <<Answer>>}

\* LineFramer::push: at most one of the new pieces ends a line, which the session
\* judges and may answer.
OnData ==
  /\ Take("Data") /\ Ours
  /\ LET w == Head(work)
         bytes == framer \o [i \in 1..(w.to - w.from + 1) |-> w.from + i - 1]
         ends == {i \in (Len(framer) + 1)..Len(bytes) : bytes[i] % 2 = 0}
     IN /\ \/ ends = {} /\ framer' = bytes /\ UNCHANGED obeyed
           \/ \E e \in ends :
                /\ framer' = SubSeq(bytes, e + 1, Len(bytes))
                /\ obeyed' = [obeyed EXCEPT ![w.handle] = Append(@, SubSeq(bytes, 1, e))]
        /\ \E reply \in Answers(Cardinality(ends)) :
             /\ Write(connection, writePending, congested, Enqueue(pending, reply), {})
             /\ linkDrops' = linkDrops + Dropped(pending, reply)
  /\ UNCHANGED <<radio, opened, said, jammed, heard, cacheVars, created>>

OnTooLong ==
  /\ Take("TooLong") /\ Ours
  /\ framer' = Cleared
  /\ Write(0, writePending, congested, <<>>, {connection})
  /\ UNCHANGED <<radio, opened, said, jammed, heard, cacheVars, obeyed, created, linkDrops>>

OnWriteDone ==
  /\ Take("WriteDone") /\ Ours
  /\ IF Head(work).ok
       THEN Write(connection, FALSE, Head(work).cong, pending, {})
       ELSE Write(0, writePending, congested, <<>>, {connection})
  /\ UNCHANGED <<radio, opened, said, jammed, heard, framer, cacheVars, obeyed, created,
                 linkDrops>>

OnCongestion ==
  /\ Take("Congestion") /\ Ours
  /\ Write(connection, writePending, Head(work).cong, pending, {})
  /\ UNCHANGED <<radio, opened, said, jammed, heard, framer, cacheVars, obeyed, created,
                 linkDrops>>

\* remember: the latest snapshot, and the latest registration of each module where
\* its first one stood.
Remember(m) ==
  IF m.about = System THEN system' = <<m>> /\ UNCHANGED registrations
  ELSE IF m.about = Event THEN UNCHANGED cacheVars
  ELSE /\ registrations' =
            IF \E i \in 1..Len(registrations) : registrations[i].about = m.about
              THEN [i \in 1..Len(registrations) |->
                      IF registrations[i].about = m.about THEN m ELSE registrations[i]]
              ELSE Append(registrations, m)
       /\ UNCHANGED system

OnMessage ==
  /\ Take("Message")
  /\ LET m == Head(work).message
     IN /\ Remember(m)
        /\ IF connection # 0
             THEN /\ Write(connection, writePending, congested, Enqueue(pending, <<m>>), {})
                  /\ linkDrops' = linkDrops + Dropped(pending, <<m>>)
             ELSE UNCHANGED <<writeVars, closing, linkDrops, events>>
  /\ UNCHANGED <<radio, opened, said, jammed, heard, framer, obeyed, created>>

\* An item of a link the worker does not serve.
OnStale ==
  /\ \E kind \in {"Closed", "Data", "TooLong", "WriteDone", "Congestion"} : Take(kind)
  /\ ~Ours
  /\ Write(connection, writePending, congested, pending, {})
  /\ UNCHANGED <<radio, opened, said, jammed, heard, framer, cacheVars, obeyed, created,
                 linkDrops>>

Worker ==
  \/ WorkerCheck
  \/ OnConnectedTwice \/ OnConnected \/ OnClosed \/ OnData \/ OnTooLong
  \/ OnWriteDone \/ OnCongestion \/ OnMessage \/ OnStale

Stack ==
  \/ LinkOpens \/ WriteCompletes
  \/ \E h \in Handle :
       \/ LinkCloses(h) \/ PeerSends(h) \/ PeerSendsTooLong(h)
       \/ CongestionBegins(h) \/ CongestionEnds(h)

Next == Worker \/ Stack \/ \E about \in Subject : SenderSends(about)

Spec == Init /\ [][Next]_vars

\* The worker thread runs; the stack completes writes, disconnects where it was
\* asked to, and a congestion ends.
FairSpec ==
  /\ Spec
  /\ WF_vars(Worker) /\ WF_vars(WriteCompletes)
  /\ \A h \in Handle :
       WF_vars(h \in closing /\ LinkCloses(h)) /\ WF_vars(CongestionEnds(h))

-----------------------------------------------------------------------------
(* Properties. *)

\* The worker's variables hold what their types allow, the queues no more than their
\* capacity.
TypeOK ==
  /\ radio \in SUBSET Handle /\ opened \in 0..MaxLinks /\ closing \in SUBSET Handle
  /\ jammed \in SUBSET Handle
  /\ said \in [Handle -> 0..MaxPieces] /\ heard \in [Handle -> Seq(Chunk)]
  /\ flying \in Seq([handle : Handle, chunk : Chunk])
  /\ work \in Seq(Work) /\ Len(work) <= WorkCap
  /\ lost \in SUBSET Handle
  /\ {overflow, checked, writePending, congested} \subseteq BOOLEAN
  /\ connection \in 0..MaxLinks
  /\ framer \in Seq(Nat)
  /\ pending \in Seq(Frame) /\ Len(pending) <= PendingCap
  /\ system \in Seq(Message) /\ registrations \in Seq(Message)
  /\ obeyed \in [Handle -> Seq(Seq(Nat))]
  /\ {created, linkDrops, events} \subseteq Nat

WholeLines(h) == obeyed[h] = [i \in 1..Len(obeyed[h]) |-> <<2 * i - 1, 2 * i>>]

\* Every line that is parsed was sent as one line on that link, and the lines of a
\* link are parsed in order and without a gap, however the bytes were cut, whatever
\* another link left behind, and whatever callbacks were lost while the link was
\* served (bluetooth.rs:288-296, 322, 331-363).
LinesAreWhole == \A h \in Handle \ lost : WholeLines(h)

\* What arrives on a link is whole frames, one after the other: no frame is cut short
\* by another, and none begins in the middle because its start went to another link
\* (bluetooth.rs:398-421).
FramesAreWhole ==
  \A h \in Handle : \A i \in 1..Len(heard[h]) :
    IF i % 2 = 1 THEN heard[h][i].part = 1
    ELSE heard[h][i] = [message |-> heard[h][i - 1].message, part |-> 2]

\* What a link gets, in order, as writes: what has arrived, what flies and what waits.
Arrived(h) == [i \in 1..Len(heard[h]) |-> [handle |-> h, chunk |-> heard[h][i]]]
Waiting(h) ==
  [i \in 1..Len(pending) |->
     [handle |-> h, chunk |-> [message |-> pending[i].message, part |-> 3 - pending[i].left]]]
Way(h) == Arrived(h) \o flying \o Waiting(h)

\* A frame about this subject begins here.
Begins(w, h, about) == w.handle = h /\ w.chunk.part = 1 /\ w.chunk.message.about = about

\* The last that a sequence of writes says to a link of the subject of m is m.
EndsWith(way, h, m) ==
  \E i \in 1..Len(way) :
    /\ Begins(way[i], h, m.about) /\ way[i].chunk.message = m
    /\ \A j \in 1..Len(way) : j > i => ~Begins(way[j], h, m.about)

\* The worker will learn that the stack lost a write of its connection.
LossIsReported ==
  \/ overflow
  \/ \E i \in 1..Len(work) :
       work[i].kind = "WriteDone" /\ work[i].handle = connection /\ ~work[i].ok

\* A served desktop gets the latest snapshot and the latest registration of every
\* module, by replay or live, and nothing older after it, unless the pending queue
\* dropped a frame or the worker is about to end the connection
\* (bluetooth.rs:325-328, 386-391, discovery_cache.rs:12-31).
DesktopIsUpToDate ==
  (connection \in radio /\ linkDrops = 0 /\ ~LossIsReported) =>
    /\ \A i \in 1..Len(system) : EndsWith(Way(connection), connection, system[i])
    /\ \A i \in 1..Len(registrations) : EndsWith(Way(connection), connection, registrations[i])

\* Waiting frames are written in the end, or the connection ends: neither a lost
\* completion nor congestion leaves the worker waiting for ever, as long as callbacks
\* are lost only of the link that is served (bluetooth.rs:288-296, 376-389, 399-421).
FramesAreWritten ==
  \A h \in Handle :
    (connection = h /\ pending # <<>>) ~> (connection # h \/ pending = <<>> \/ h \in lost)

\* The worker does not go on serving a link that is gone, which would keep every other
\* peer out (bluetooth.rs:288-296, 315-318, 331-338).
GoneLinkIsLeft ==
  \A h \in Handle : (connection = h /\ h \notin radio) ~> (connection # h \/ h \in lost)
=============================================================================
