------------------------ MODULE BluetoothWorkerProofs ------------------------
(***************************************************************************)
(* Proofs about BluetoothWorker: its types, that every line is parsed      *)
(* whole (LinesAreWhole), that every frame arrives whole (FramesAreWhole)  *)
(* and that a served desktop has the latest of what is cached              *)
(* (DesktopIsUpToDate), for any number of links, pieces, messages and any  *)
(* capacity of the queues.  Four invariants carry them:                    *)
(*                                                                         *)
(*   OrderInv   the Connected of a link stands before everything else of   *)
(*              it in the work queue, and before the worker takes it the   *)
(*              worker has done nothing for the link;                      *)
(*   LinesInv   the Data of a link the worker serves, or will serve, wait  *)
(*              in the order of their pieces, the first where the framer   *)
(*              stands, without a gap unless a callback was lost;          *)
(*   FramesInv  a link has at most one write in flight or completed and    *)
(*              not yet seen, and what waits continues what will have      *)
(*              arrived when the worker sees it;                           *)
(*   CacheInv   the cache has one message of each subject.                 *)
(***************************************************************************)
EXTENDS BluetoothWorker, SequenceTheorems, TLAPS
-----------------------------------------------------------------------------
(* Types. *)

FlyingWrite == [handle : Handle, chunk : Chunk]
Places(w) == 1..Len(w)
IsOf(item, h) == item.kind # "Message" /\ item.handle = h
IsKind(item, kind, h) == item.kind = kind /\ item.handle = h

LEMMA Bounds == WorkCap \in Nat /\ WorkCap > 0 /\ PendingCap \in Nat /\ PendingCap > 0
                /\ MaxLinks \in Nat /\ MaxPieces \in Nat /\ MaxEvents \in Nat
  BY WorkerAssumption

LEMMA Subjects == System \in Subject /\ Event \in Subject
                  /\ System \notin Module /\ Event \notin Module /\ Event # System
  BY SubjectsAssumption DEF Subject

\* The fields of an item.
LEMMA ItemFields ==
  ASSUME NEW w \in Work
  PROVE  /\ w.kind = "Message" => w.message \in Message
         /\ w.kind # "Message" => w.handle \in Handle
         /\ w.kind = "Data" => w.from \in Nat /\ w.to \in Nat
         /\ w.kind = "WriteDone" => w.ok \in BOOLEAN /\ w.cong \in BOOLEAN
         /\ w.kind = "Congestion" => w.cong \in BOOLEAN
  BY DEF Work

LEMMA Items ==
  ASSUME NEW h \in Handle, NEW f \in Nat, NEW t \in Nat, NEW b \in BOOLEAN, NEW c \in BOOLEAN,
         NEW m \in Message
  PROVE  /\ Connected(h) \in Work /\ Closed(h) \in Work /\ TooLong(h) \in Work
         /\ Data(h, f, t) \in Work /\ WriteDone(h, b, c) \in Work /\ Congestion(h, b) \in Work
         /\ Outbound(m) \in Work
  BY DEF Work, Connected, Closed, TooLong, Data, WriteDone, Congestion, Outbound

LEMMA HeadItem ==
  ASSUME NEW w \in Seq(Work), w # <<>>
  PROVE  /\ Head(w) \in Work /\ Tail(w) \in Seq(Work) /\ Len(Tail(w)) = Len(w) - 1
         /\ Len(w) > 0 /\ w[1] = Head(w) /\ Len(w) \in Nat
         /\ \A i \in 1..Len(w) - 1 : Tail(w)[i] = w[i + 1]
  BY HeadTailProperties, LenProperties

\* What a callback does to the queue.
LEMMA CallbackTypes ==
  ASSUME work \in Seq(Work), Len(work) <= WorkCap, lost \in SUBSET Handle, overflow \in BOOLEAN,
         NEW item \in Work, item.kind # "Message", Callback(item)
  PROVE  /\ work' \in Seq(Work) /\ Len(work') <= WorkCap /\ lost' \in SUBSET Handle
         /\ overflow' \in BOOLEAN
<1>1. item.handle \in Handle
  BY ItemFields
<1>2. CASE Len(work) < Full
  BY <1>1, <1>2, Bounds, AppendProperties, LenProperties DEF Callback, Full
<1>3. CASE ~(Len(work) < Full)
  BY <1>1, <1>3 DEF Callback, Full
<1> QED BY <1>2, <1>3

\* enqueue keeps the frames it has and adds frames until the queue is full.
LEMMA FramedType ==
  ASSUME NEW ms \in Seq(Message)
  PROVE  /\ Framed(ms) \in Seq(Frame) /\ Len(Framed(ms)) = Len(ms)
         /\ \A i \in 1..Len(ms) : Framed(ms)[i] = [message |-> ms[i], left |-> 2]
<1>1. \A i \in 1..Len(ms) : [message |-> ms[i], left |-> 2] \in Frame
  <2> TAKE i \in 1..Len(ms)
  <2>1. ms[i] \in Message
    BY ElementOfSeq
  <2> QED BY <2>1 DEF Frame
<1> QED BY <1>1, LenProperties DEF Framed

LEMMA FramesJoin ==
  \A s, t \in Seq(Frame) :
    /\ s \o t \in Seq(Frame) /\ Len(s \o t) = Len(s) + Len(t)
    /\ \A i \in 1..Len(s) + Len(t) :
         (s \o t)[i] = IF i <= Len(s) THEN s[i] ELSE t[i - Len(s)]
  BY ConcatProperties

Least(a, b) == IF a > b THEN b ELSE a

LEMMA EnqueueIs ==
  ASSUME NEW frames \in Seq(Frame), NEW ms \in Seq(Message)
  PROVE  LET n == Len(frames) + Len(ms)
             all == Len(Enqueue(frames, ms))
         IN /\ Enqueue(frames, ms) \in Seq(Frame)
            /\ all = Least(n, PendingCap)
            /\ \A i \in 1..all :
                 Enqueue(frames, ms)[i] =
                   IF i <= Len(frames) THEN frames[i]
                   ELSE [message |-> ms[i - Len(frames)], left |-> 2]
<1> DEFINE f == Framed(ms)
           j == frames \o f
           n == Len(frames) + Len(ms)
           m == Least(n, PendingCap)
           S == SubSeq(j, 1, m)
<1>1. f \in Seq(Frame) /\ Len(f) = Len(ms) /\ Len(frames) \in Nat /\ Len(ms) \in Nat
      /\ \A i \in 1..Len(ms) : f[i] = [message |-> ms[i], left |-> 2]
  BY FramedType, LenProperties
<1>2. Enqueue(frames, ms) = S
  BY DEF Enqueue, Least
<1> HIDE DEF f
<1>3. /\ j \in Seq(Frame) /\ Len(j) = Len(frames) + Len(f)
      /\ \A i \in 1..Len(frames) + Len(f) :
           j[i] = IF i <= Len(frames) THEN frames[i] ELSE f[i - Len(frames)]
  BY <1>1, FramesJoin
<1> HIDE DEF j
<1>4. n \in Nat /\ m \in Nat /\ m <= n /\ Len(j) = n
  BY <1>1, <1>3, Bounds DEF Least
<1> HIDE DEF m, n
<1>5. \A i \in 1..m : j[i] \in Frame
  BY <1>3, <1>4, ElementOfSeq
<1>6. S \in Seq(Frame) /\ Len(S) = m /\ \A i \in 1..m : S[i] = j[i]
  BY <1>3, <1>4, <1>5, SubSeqProperties
<1>7. ASSUME NEW i \in 1..m
      PROVE  S[i] = IF i <= Len(frames) THEN frames[i]
                    ELSE [message |-> ms[i - Len(frames)], left |-> 2]
  <2>1. i \in 1..Len(frames) + Len(f) /\ S[i] = j[i]
    BY <1>1, <1>3, <1>4, <1>6
  <2>2. CASE i <= Len(frames)
    BY <1>3, <2>1, <2>2
  <2>3. CASE ~(i <= Len(frames))
    <3>1. i - Len(frames) \in 1..Len(ms)
      BY <1>1, <2>1, <2>3
    <3> QED BY <1>1, <1>3, <2>1, <2>3, <3>1
  <2> QED BY <2>2, <2>3
<1> HIDE DEF S
<1> QED BY <1>2, <1>6, <1>7 DEF m, n

LEMMA EnqueueType ==
  ASSUME NEW frames \in Seq(Frame), NEW ms \in Seq(Message)
  PROVE  Enqueue(frames, ms) \in Seq(Frame) /\ Len(Enqueue(frames, ms)) <= PendingCap
<1>1. \A a, b \in Nat : Least(a, b) <= b
  BY DEF Least
<1>2. Len(frames) + Len(ms) \in Nat /\ PendingCap \in Nat
  BY Bounds, LenProperties
<1> QED BY <1>1, <1>2, EnqueueIs

LEMMA DroppedType ==
  ASSUME NEW frames \in Seq(Frame), NEW ms \in Seq(Message)
  PROVE  Dropped(frames, ms) \in Nat
  BY Bounds, LenProperties DEF Dropped

\* What waits after a chunk was written: the first frame without it, and the others.
LEMMA DrainedIs ==
  ASSUME NEW frames \in Seq(Frame), frames # <<>>
  PROVE  /\ Drained(frames) \in Seq(Frame)
         /\ Head(frames).left = 1 => Drained(frames) = Tail(frames)
         /\ Head(frames).left = 2 =>
              /\ Len(Drained(frames)) = Len(frames)
              /\ Drained(frames)[1] = [message |-> Head(frames).message, left |-> 1]
              /\ \A i \in 2..Len(frames) : Drained(frames)[i] = frames[i]
         /\ Len(Drained(frames)) <= Len(frames)
<1> DEFINE f == Head(frames)
           one == [message |-> f.message, left |-> 1]
           o == <<one>>
           t == Tail(frames)
<1>1. /\ f \in Frame /\ t \in Seq(Frame) /\ Len(t) = Len(frames) - 1 /\ Len(frames) \in Nat
      /\ \A i \in 1..Len(frames) - 1 : t[i] = frames[i + 1]
  BY HeadTailProperties, LenProperties
<1>2. f.left \in {1, 2} /\ [f EXCEPT !.left = 1] = one /\ one \in Frame
  BY <1>1 DEF Frame
<1>3. Drained(frames) = IF f.left = 1 THEN t ELSE o \o t
  BY <1>2 DEF Drained
<1>4. o \in Seq(Frame) /\ Len(o) = 1 /\ o[1] = one
  BY <1>2
<1> HIDE DEF f, o, t, one
<1>5. /\ o \o t \in Seq(Frame) /\ Len(o \o t) = 1 + Len(t)
      /\ \A i \in 1..1 + Len(t) : (o \o t)[i] = IF i <= 1 THEN o[i] ELSE t[i - 1]
  <2>1. /\ o \o t \in Seq(Frame) /\ Len(o \o t) = Len(o) + Len(t)
        /\ \A i \in 1..Len(o) + Len(t) : (o \o t)[i] = IF i <= Len(o) THEN o[i] ELSE t[i - Len(o)]
    BY <1>1, <1>4, FramesJoin
  <2> QED BY <1>4, <2>1
<1>6. CASE f.left = 1
  <2>1. Drained(frames) = t /\ Len(t) <= Len(frames) /\ f.left # 2
    BY <1>1, <1>3, <1>6
  <2> QED BY <1>1, <2>1 DEF f, t
<1>7. CASE f.left = 2
  <2>1. Drained(frames) = o \o t /\ Len(o \o t) = Len(frames)
    BY <1>1, <1>3, <1>5, <1>7
  <2>2. (o \o t)[1] = one
    BY <1>1, <1>4, <1>5
  <2>3. ASSUME NEW i \in 2..Len(frames)
        PROVE  (o \o t)[i] = frames[i]
    <3>1. (o \o t)[i] = t[i - 1]
      BY <1>1, <1>5
    <3>2. i - 1 \in 1..Len(frames) - 1 /\ (i - 1) + 1 = i
      BY <1>1
    <3>3. t[i - 1] = frames[(i - 1) + 1]
      BY <1>1, <3>2
    <3> QED BY <3>1, <3>2, <3>3
  <2> QED BY <1>5, <1>7, <2>1, <2>2, <2>3 DEF f, one
<1> QED BY <1>2, <1>6, <1>7

LEMMA TypeFacts ==
  ASSUME TypeOK
  PROVE  /\ radio \in SUBSET Handle /\ opened \in 0..MaxLinks /\ closing \in SUBSET Handle
         /\ jammed \in SUBSET Handle
         /\ said \in [Handle -> 0..MaxPieces] /\ heard \in [Handle -> Seq(Chunk)]
         /\ flying \in Seq(FlyingWrite) /\ work \in Seq(Work) /\ Len(work) <= WorkCap
         /\ lost \in SUBSET Handle /\ overflow \in BOOLEAN /\ checked \in BOOLEAN
         /\ writePending \in BOOLEAN /\ congested \in BOOLEAN
         /\ connection \in 0..MaxLinks /\ framer \in Seq(Nat)
         /\ pending \in Seq(Frame) /\ Len(pending) <= PendingCap
         /\ system \in Seq(Message) /\ registrations \in Seq(Message)
         /\ obeyed \in [Handle -> Seq(Seq(Nat))]
         /\ created \in Nat /\ linkDrops \in Nat /\ events \in Nat
  BY DEF TypeOK, FlyingWrite

\* A callback with an item of the right type keeps the types, when the step it is part
\* of does.
CallbackVars == <<work, overflow, lost>>
RestTypes ==
  /\ radio \in SUBSET Handle /\ opened \in 0..MaxLinks /\ closing \in SUBSET Handle
  /\ jammed \in SUBSET Handle
  /\ said \in [Handle -> 0..MaxPieces] /\ heard \in [Handle -> Seq(Chunk)]
  /\ flying \in Seq(FlyingWrite)
  /\ checked \in BOOLEAN /\ writePending \in BOOLEAN /\ congested \in BOOLEAN
  /\ connection \in 0..MaxLinks /\ framer \in Seq(Nat)
  /\ pending \in Seq(Frame) /\ Len(pending) <= PendingCap
  /\ system \in Seq(Message) /\ registrations \in Seq(Message)
  /\ obeyed \in [Handle -> Seq(Seq(Nat))]
  /\ created \in Nat /\ linkDrops \in Nat /\ events \in Nat
QueueTypes ==
  work \in Seq(Work) /\ Len(work) <= WorkCap /\ lost \in SUBSET Handle /\ overflow \in BOOLEAN

LEMMA TypesAre == TypeOK <=> RestTypes /\ QueueTypes
  BY DEF TypeOK, RestTypes, QueueTypes, FlyingWrite

LEMMA CallbackKeepsTypes ==
  ASSUME TypeOK, RestTypes', NEW item \in Work, item.kind # "Message", Callback(item)
  PROVE  TypeOK'
<1>1. QueueTypes
  BY TypesAre
<1>2. QueueTypes'
  BY <1>1, CallbackTypes DEF QueueTypes
<1> QED BY <1>2 DEF TypeOK, RestTypes, QueueTypes, FlyingWrite

LEMMA FlyingHead ==
  ASSUME TypeOK, flying # <<>>
  PROVE  /\ Head(flying).handle \in Handle /\ Head(flying).chunk \in Chunk
         /\ Tail(flying) \in Seq(FlyingWrite) /\ Head(flying) \in FlyingWrite
<1>1. flying \in Seq(FlyingWrite)
  BY TypeFacts
<1>2. Head(flying) \in FlyingWrite /\ Tail(flying) \in Seq(FlyingWrite)
  BY <1>1, HeadTailProperties
<1> QED BY <1>2 DEF FlyingWrite

LEMMA StackTypes ==
  ASSUME TypeOK, Stack
  PROVE  TypeOK'
<1> USE TypeFacts DEF writeVars, cacheVars, linkVars
<1>1. CASE LinkOpens
  <2>1. Connected(opened + 1) \in Work /\ opened + 1 \in Handle
    <3>1. opened \in 0..MaxLinks /\ opened < MaxLinks /\ MaxLinks \in Nat
      BY <1>1, Bounds DEF LinkOpens
    <3>2. opened + 1 \in Handle
      BY <3>1 DEF Handle
    <3> QED BY <3>2 DEF Work, Connected
  <2>2. RestTypes'
    <3>1. radio' \in SUBSET Handle
      BY <1>1, <2>1 DEF LinkOpens
    <3>2. opened' \in 0..MaxLinks
      <4>1. opened' = opened + 1 /\ opened + 1 \in 1..MaxLinks
        BY <1>1, <2>1 DEF LinkOpens, Handle
      <4> QED BY ONLY <4>1
    <3> QED BY <1>1, <3>1, <3>2 DEF LinkOpens, RestTypes
  <2>3. Connected(opened + 1).kind # "Message"
    BY DEF Connected
  <2> QED BY <1>1, <2>1, <2>2, <2>3, CallbackKeepsTypes DEF LinkOpens
<1>2. ASSUME NEW h \in Handle, LinkCloses(h)
      PROVE  TypeOK'
  <2>1. Closed(h) \in Work /\ Closed(h).kind # "Message"
    BY DEF Work, Closed
  <2>2. RestTypes'
    BY <1>2 DEF LinkCloses, RestTypes
  <2> QED BY <1>2, <2>1, <2>2, CallbackKeepsTypes DEF LinkCloses
<1>3. ASSUME NEW h \in Handle, PeerSends(h)
      PROVE  TypeOK'
  <2>1. PICK to \in {said[h] + 1, said[h] + 2} :
          to <= MaxPieces /\ said' = [said EXCEPT ![h] = to] /\ Callback(Data(h, said[h] + 1, to))
    BY <1>3 DEF PeerSends
  <2>2. said[h] \in Nat /\ to \in Nat /\ to \in 0..MaxPieces
    <3>1. said[h] \in 0..MaxPieces /\ MaxPieces \in Nat
      BY Bounds
    <3>2. to <= MaxPieces /\ (to = said[h] + 1 \/ to = said[h] + 2)
      BY <2>1
    <3> QED BY ONLY <3>1, <3>2
  <2>3. Data(h, said[h] + 1, to) \in Work /\ Data(h, said[h] + 1, to).kind # "Message"
    <3>1. said[h] + 1 \in Nat /\ to \in Nat
      BY ONLY <2>2
    <3> QED BY ONLY <3>1 DEF Work, Data
  <2>4. RestTypes'
    <3>1. said' \in [Handle -> 0..MaxPieces]
      <4>1. said \in [Handle -> 0..MaxPieces]
        OBVIOUS
      <4> QED BY ONLY <2>1, <2>2, <4>1
    <3>2. events' \in Nat
      <4>1. events' = events + 1 /\ events \in Nat
        BY <1>3 DEF PeerSends
      <4> QED BY ONLY <4>1
    <3> QED BY <1>3, <3>1, <3>2 DEF PeerSends, RestTypes
  <2> QED BY <2>1, <2>3, <2>4, CallbackKeepsTypes
<1>4. ASSUME NEW h \in Handle, PeerSendsTooLong(h)
      PROVE  TypeOK'
  <2>1. TooLong(h) \in Work /\ TooLong(h).kind # "Message"
    BY DEF Work, TooLong
  <2>2. RestTypes'
    <3>1. events' \in Nat
      <4>1. events' = events + 1 /\ events \in Nat
        BY <1>4 DEF PeerSendsTooLong
      <4> QED BY ONLY <4>1
    <3> QED BY <1>4, <3>1 DEF PeerSendsTooLong, RestTypes
  <2> QED BY <1>4, <2>1, <2>2, CallbackKeepsTypes DEF PeerSendsTooLong
<1>5. CASE WriteCompletes
  <2> DEFINE h == Head(flying).handle
  <2>1. h \in Handle /\ Head(flying).chunk \in Chunk /\ Tail(flying) \in Seq(FlyingWrite)
    BY <1>5, FlyingHead DEF WriteCompletes
  <2>2. \A b, c \in BOOLEAN : WriteDone(h, b, c) \in Work /\ WriteDone(h, b, c).kind # "Message"
    BY <2>1 DEF Work, WriteDone
  <2>3. RestTypes'
    <3>1. heard' \in [Handle -> Seq(Chunk)] /\ jammed' \in SUBSET Handle /\ events' \in Nat
      <4>1. Append(heard[h], Head(flying).chunk) \in Seq(Chunk)
        BY <2>1, AppendProperties
      <4>2. heard' = heard \/ heard' = [heard EXCEPT ![h] = Append(heard[h], Head(flying).chunk)]
        BY <1>5 DEF WriteCompletes
      <4>3. heard' \in [Handle -> Seq(Chunk)]
        <5>1. heard \in [Handle -> Seq(Chunk)]
          OBVIOUS
        <5> HIDE DEF h
        <5> QED BY ONLY <2>1, <4>1, <4>2, <5>1
      <4>4. jammed' = jammed \/ jammed' = jammed \cup {h}
        BY <1>5 DEF WriteCompletes
      <4>5. events' = events \/ events' = events + 1
        BY <1>5 DEF WriteCompletes
      <4>6. jammed' \in SUBSET Handle
        BY <2>1, <4>4
      <4>7. events' \in Nat
        <5>1. events \in Nat
          OBVIOUS
        <5> QED BY ONLY <4>5, <5>1
      <4> QED BY <4>3, <4>6, <4>7
    <3> QED BY <1>5, <2>1, <3>1 DEF WriteCompletes, RestTypes
  <2>4. (\E b, c \in BOOLEAN : Callback(WriteDone(h, b, c))) \/ UNCHANGED queueVars
    <3>1. (h \in jammed) \in BOOLEAN
      OBVIOUS
    <3> QED BY <1>5, <3>1 DEF WriteCompletes
  <2>5. CASE \E b, c \in BOOLEAN : Callback(WriteDone(h, b, c))
    BY <2>2, <2>3, <2>5, CallbackKeepsTypes
  <2>6. CASE UNCHANGED queueVars
    BY <2>3, <2>6 DEF queueVars, RestTypes, TypeOK, FlyingWrite
  <2> QED BY <2>4, <2>5, <2>6
<1>6. ASSUME NEW h \in Handle, CongestionBegins(h) \/ CongestionEnds(h)
      PROVE  TypeOK'
  <2>1. \A b \in BOOLEAN : Congestion(h, b) \in Work /\ Congestion(h, b).kind # "Message"
    BY DEF Work, Congestion
  <2>2. RestTypes'
    <3>1. jammed' \in SUBSET Handle /\ events' \in Nat
      <4>1. jammed' \in {jammed \cup {h}, jammed \ {h}}
        BY <1>6 DEF CongestionBegins, CongestionEnds
      <4>2. events' = events \/ events' = events + 1
        BY <1>6 DEF CongestionBegins, CongestionEnds
      <4> QED BY <4>1, <4>2
    <3> QED BY <1>6, <3>1 DEF CongestionBegins, CongestionEnds, RestTypes
  <2> QED BY <1>6, <2>1, <2>2, CallbackKeepsTypes DEF CongestionBegins, CongestionEnds
<1> QED BY <1>1, <1>2, <1>3, <1>4, <1>5, <1>6 DEF Stack

LEMMA SenderTypes ==
  ASSUME TypeOK, NEW about \in Subject, SenderSends(about)
  PROVE  TypeOK'
<1> USE TypeFacts DEF writeVars, cacheVars, linkVars
<1> DEFINE m == [about |-> about, n |-> created + 1]
<1>1. m \in Message /\ Outbound(m) \in Work
  BY DEF Message, Outbound, Work
<1>2. work' \in Seq(Work) /\ Len(work') <= WorkCap
  <2>1. work' = Append(work, Outbound(m)) /\ Len(work) < WorkCap
    BY DEF SenderSends, Full
  <2> HIDE DEF m
  <2> QED BY <1>1, <2>1, Bounds, AppendProperties, LenProperties
<1>3. RestTypes'
  <2>1. created' = created + 1 /\ events' = events + 1 /\ created \in Nat /\ events \in Nat
    BY DEF SenderSends
  <2>2. created' \in Nat /\ events' \in Nat
    BY ONLY <2>1
  <2> QED BY <2>2 DEF SenderSends, RestTypes
<1>4. QueueTypes'
  BY <1>2 DEF SenderSends, QueueTypes
<1> QED BY <1>3, <1>4 DEF TypeOK, RestTypes, QueueTypes, FlyingWrite

\* What the foot of the worker's loop leaves behind.
WriteVarsType ==
  /\ connection \in 0..MaxLinks /\ writePending \in BOOLEAN /\ congested \in BOOLEAN
  /\ pending \in Seq(Frame) /\ Len(pending) <= PendingCap
  /\ flying \in Seq(FlyingWrite) /\ closing \in SUBSET Handle /\ events \in Nat

LEMMA WriteTypes ==
  ASSUME TypeOK, NEW c \in 0..MaxLinks, NEW busy \in BOOLEAN, NEW cong \in BOOLEAN,
         NEW frames \in Seq(Frame), Len(frames) <= PendingCap, NEW hungUp \in SUBSET Handle,
         Write(c, busy, cong, frames, hungUp)
  PROVE  WriteVarsType'
<1> USE TypeFacts
<1>1. congested' \in BOOLEAN
  BY DEF Write
<1>2. CASE ~MayWrite(c, busy, cong, frames)
  BY <1>1, <1>2 DEF Write, WriteVarsType
<1>3. CASE MayWrite(c, busy, cong, frames)
  <2>1. c \in Handle /\ frames # <<>>
    BY <1>3, Bounds DEF MayWrite, Handle
  <2>2. Head(frames) \in Frame /\ Head(frames).message \in Message /\ Head(frames).left \in 1..2
    <3>1. Head(frames) \in Frame
      BY <2>1, HeadTailProperties
    <3> QED BY <3>1 DEF Frame
  <2> DEFINE w == [handle |-> c,
                   chunk |-> [message |-> Head(frames).message, part |-> 3 - Head(frames).left]]
  <2>3. w \in FlyingWrite
    <3>1. 3 - Head(frames).left \in 1..2
      BY ONLY <2>2
    <3> QED BY <2>1, <2>2, <3>1 DEF FlyingWrite, Chunk
  <2>4. Append(flying, w) \in Seq(FlyingWrite)
    BY <2>3, AppendProperties
  <2>5. Drained(frames) \in Seq(Frame) /\ Len(Drained(frames)) <= PendingCap
    <3>1. Drained(frames) \in Seq(Frame) /\ Len(Drained(frames)) <= Len(frames)
      BY <2>1, DrainedIs
    <3> QED BY <3>1, Bounds, LenProperties
  <2>6. CASE flying' = Append(flying, w) /\ pending' = Drained(frames) /\ connection' = c
             /\ writePending' = TRUE /\ closing' = closing \cup hungUp /\ UNCHANGED events
    BY <1>1, <2>4, <2>5, <2>6 DEF WriteVarsType
  <2>7. CASE events' = events + 1 /\ connection' = 0 /\ pending' = <<>> /\ writePending' = busy
             /\ closing' = closing \cup hungUp \cup {c} /\ UNCHANGED flying
    <3>1. <<>> \in Seq(Frame) /\ Len(<<>>) = 0
      BY EmptySeq
    <3>2. 0 \in 0..MaxLinks /\ 0 <= PendingCap /\ events' \in Nat
      <4>1. events' = events + 1 /\ events \in Nat
        BY <2>7
      <4> QED BY ONLY <4>1, Bounds
    <3> QED BY <1>1, <2>1, <2>7, <3>1, <3>2 DEF WriteVarsType
  <2> QED BY <1>3, <2>6, <2>7 DEF Write
<1> QED BY <1>2, <1>3

LEMMA TakeTypes ==
  ASSUME TypeOK, NEW kind, Take(kind)
  PROVE  /\ QueueTypes' /\ checked' \in BOOLEAN
         /\ Head(work) \in Work /\ Head(work).kind = kind /\ work # <<>>
         /\ work' = Tail(work)
<1>1. work \in Seq(Work) /\ work # <<>> /\ work' = Tail(work)
  BY TypeFacts DEF Take
<1>2. Tail(work) \in Seq(Work) /\ Len(Tail(work)) = Len(work) - 1 /\ Len(work) \in Nat
  BY <1>1, HeadItem
<1>3. Head(work) \in Work
  BY <1>1, HeadItem
<1>4. Len(work') <= WorkCap
  <2>1. Len(work) <= WorkCap
    BY TypeFacts
  <2> QED BY <1>1, <1>2, <2>1, Bounds
<1>5. lost' \in SUBSET Handle /\ overflow' \in BOOLEAN
  BY TypeFacts DEF Take
<1> QED BY <1>1, <1>2, <1>3, <1>4, <1>5 DEF Take, QueueTypes

LEMMA ReplayType ==
  ASSUME TypeOK
  PROVE  Replay \in Seq(Message)
  BY TypeFacts, ConcatProperties DEF Replay

LEMMA AnswersType ==
  ASSUME NEW n, NEW reply \in Answers(n)
  PROVE  reply \in Seq(Message)
<1>1. Answer \in Message
  BY Subjects DEF Answer, Message
<1>2. <<Answer>> \in Seq(Message) /\ <<>> \in Seq(Message)
  BY <1>1, EmptySeq
<1> QED BY <1>2 DEF Answers

LEMMA RememberTypes ==
  ASSUME TypeOK, NEW m \in Message, Remember(m)
  PROVE  system' \in Seq(Message) /\ registrations' \in Seq(Message)
<1> USE TypeFacts
<1>1. CASE m.about = System
  <2>1. <<m>> \in Seq(Message)
    OBVIOUS
  <2> QED BY <1>1, <2>1 DEF Remember
<1>2. CASE m.about = Event
  BY <1>2, Subjects DEF Remember, cacheVars
<1>3. CASE m.about # System /\ m.about # Event
  <2> DEFINE R == [i \in 1..Len(registrations) |->
                     IF registrations[i].about = m.about THEN m ELSE registrations[i]]
  <2>1. R \in Seq(Message)
    <3>1. \A i \in 1..Len(registrations) : registrations[i] \in Message
      BY ElementOfSeq
    <3> QED BY <3>1, LenProperties
  <2>2. Append(registrations, m) \in Seq(Message)
    BY AppendProperties
  <2> QED BY <1>3, <2>1, <2>2 DEF Remember
<1> QED BY <1>1, <1>2, <1>3

\* One lemma for the handlers: what they leave alone, and what they do.
LEMMA HandlerTypes ==
  ASSUME TypeOK, NEW kind, Take(kind), WriteVarsType',
         framer' \in Seq(Nat), system' \in Seq(Message), registrations' \in Seq(Message),
         obeyed' \in [Handle -> Seq(Seq(Nat))], linkDrops' \in Nat,
         UNCHANGED <<radio, opened, said, jammed, heard, created>>
  PROVE  TypeOK'
<1>1. QueueTypes' /\ checked' \in BOOLEAN
  BY TakeTypes
<1>2. RestTypes'
  BY <1>1, TypeFacts DEF RestTypes, WriteVarsType
<1> QED BY <1>1, <1>2 DEF TypeOK, RestTypes, QueueTypes, FlyingWrite

LEMMA EmptyFrames == <<>> \in Seq(Frame) /\ Len(<<>>) <= PendingCap
  BY EmptySeq, Bounds

LEMMA DropsType ==
  ASSUME TypeOK, NEW frames \in Seq(Frame), NEW ms \in Seq(Message),
         linkDrops' = linkDrops + Dropped(frames, ms)
  PROVE  linkDrops' \in Nat
<1> DEFINE d == Dropped(frames, ms)
<1>1. d \in Nat /\ linkDrops \in Nat
  BY DroppedType, TypeFacts
<1> HIDE DEF d
<1>2. linkDrops' = linkDrops + d
  BY DEF d
<1> QED BY <1>1, <1>2

LEMMA ConnectionIs ==
  ASSUME TypeOK
  PROVE  connection \in 0..MaxLinks /\ 0 \in 0..MaxLinks /\ {} \in SUBSET Handle
         /\ (connection # 0 => connection \in Handle)
         /\ \A h \in Handle : h \in 0..MaxLinks /\ h # 0
<1>1. connection \in 0..MaxLinks /\ MaxLinks \in Nat
  BY TypeFacts, Bounds
<1> QED BY <1>1 DEF Handle

\* The pieces a data item carries, after those in the framer.
Bytes(w) == framer \o [i \in 1..(w.to - w.from + 1) |-> w.from + i - 1]
Ends(w) == {i \in (Len(framer) + 1)..Len(Bytes(w)) : Bytes(w)[i] % 2 = 0}

LEMMA PiecesType ==
  ASSUME NEW f \in Nat, NEW t \in Nat, NEW b, b = [i \in 1..(t - f + 1) |-> f + i - 1]
  PROVE  b \in Seq(Nat) /\ (t \in {f, f + 1} => Len(b) = t - f + 1)
<1>1. \A i \in 1..(t - f + 1) : f + i - 1 \in Nat
  OBVIOUS
<1>2. t - f + 1 \in Int
  OBVIOUS
<1>3. CASE t - f + 1 \in Nat
  <2> DEFINE n == t - f + 1
  <2>1. b = [i \in 1..n |-> f + i - 1] /\ n \in Nat /\ \A i \in 1..n : f + i - 1 \in Nat
    BY <1>1, <1>3
  <2> HIDE DEF n
  <2>2. b \in [1..n -> Nat]
    BY <2>1
  <2>3. b \in Seq(Nat) /\ Len(b) = n
    BY ONLY <2>1, <2>2
  <2> QED BY <2>3 DEF n
<1>4. CASE ~(t - f + 1 \in Nat)
  <2>1. 1..(t - f + 1) = {}
    BY <1>2, <1>4
  <2>2. b = <<>>
    BY <2>1
  <2>3. t \notin {f, f + 1}
    BY <1>4
  <2> QED BY <2>2, <2>3, EmptySeq
<1> QED BY <1>3, <1>4

LEMMA BytesType ==
  ASSUME TypeOK, NEW w \in Work, w.kind = "Data"
  PROVE  Bytes(w) \in Seq(Nat)
<1> DEFINE b == [i \in 1..(w.to - w.from + 1) |-> w.from + i - 1]
<1>1. w.from \in Nat /\ w.to \in Nat /\ framer \in Seq(Nat)
  BY ItemFields, TypeFacts
<1>2. b \in Seq(Nat)
  BY <1>1, PiecesType
<1> HIDE DEF b
<1>3. framer \o b \in Seq(Nat)
  BY <1>1, <1>2, ConcatProperties
<1> QED BY <1>3 DEF Bytes, b

LEMMA OnDataIs ==
  ASSUME OnData
  PROVE  LET w == Head(work)
         IN /\ \/ Ends(w) = {} /\ framer' = Bytes(w) /\ UNCHANGED obeyed
               \/ \E e \in Ends(w) :
                    /\ framer' = SubSeq(Bytes(w), e + 1, Len(Bytes(w)))
                    /\ obeyed' = [obeyed EXCEPT ![w.handle] = Append(@, SubSeq(Bytes(w), 1, e))]
            /\ \E n : \E reply \in Answers(n) :
                 /\ Write(connection, writePending, congested, Enqueue(pending, reply), {})
                 /\ linkDrops' = linkDrops + Dropped(pending, reply)
  BY DEF OnData, Bytes, Ends

LEMMA SlicesType ==
  ASSUME NEW b \in Seq(Nat), NEW e \in 1..Len(b)
  PROVE  SubSeq(b, e + 1, Len(b)) \in Seq(Nat) /\ SubSeq(b, 1, e) \in Seq(Nat)
<1>1. Len(b) \in Nat /\ e \in Nat /\ \A i \in 1..Len(b) : b[i] \in Nat
  BY LenProperties, ElementOfSeq
<1>2. \A i \in (e + 1)..Len(b) : b[i] \in Nat
  BY <1>1
<1>3. \A i \in 1..e : b[i] \in Nat
  BY <1>1
<1> QED BY <1>1, <1>2, <1>3, SubSeqProperties

LEMMA DataTypes ==
  ASSUME TypeOK, OnData
  PROVE  TypeOK'
<1> DEFINE w == Head(work)
           b == Bytes(w)
<1>1. w \in Work /\ w.kind = "Data" /\ Take("Data")
  BY TakeTypes DEF OnData
<1>2. w.handle \in Handle /\ b \in Seq(Nat)
  BY <1>1, ItemFields, BytesType
<1>3. framer' \in Seq(Nat) /\ obeyed' \in [Handle -> Seq(Seq(Nat))]
  <2>1. CASE framer' = b /\ UNCHANGED obeyed
    BY <1>2, <2>1, TypeFacts
  <2>2. CASE \E e \in Ends(w) :
               /\ framer' = SubSeq(b, e + 1, Len(b))
               /\ obeyed' = [obeyed EXCEPT ![w.handle] = Append(@, SubSeq(b, 1, e))]
    <3>1. PICK e \in Ends(w) :
               /\ framer' = SubSeq(b, e + 1, Len(b))
               /\ obeyed' = [obeyed EXCEPT ![w.handle] = Append(@, SubSeq(b, 1, e))]
      BY <2>2
    <3> DEFINE h == w.handle
               l == SubSeq(b, 1, e)
    <3>2. e \in 1..Len(b)
      <4>1. framer \in Seq(Nat) /\ e \in (Len(framer) + 1)..Len(b)
        BY TypeFacts DEF Ends
      <4>2. Len(framer) \in Nat /\ Len(b) \in Nat
        BY <1>2, <4>1, LenProperties
      <4> QED BY <4>1, <4>2
    <3>3. framer' \in Seq(Nat) /\ l \in Seq(Nat)
      BY <1>2, <3>1, <3>2, SlicesType
    <3>4. h \in Handle /\ obeyed' = [obeyed EXCEPT ![h] = Append(obeyed[h], l)]
          /\ obeyed \in [Handle -> Seq(Seq(Nat))]
      BY <1>2, <3>1, TypeFacts
    <3> DEFINE T == Seq(Nat)
    <3>5. obeyed \in [Handle -> Seq(T)] /\ l \in T
      BY <3>3, <3>4
    <3> HIDE DEF h, l, w, b, T
    <3>6. Append(obeyed[h], l) \in Seq(T)
      BY <3>4, <3>5, AppendProperties
    <3>7. obeyed' \in [Handle -> Seq(T)]
      BY <3>4, <3>5, <3>6
    <3> QED BY <3>3, <3>7 DEF T
  <2> QED BY <2>1, <2>2, OnDataIs
<1>4. PICK n : \E reply \in Answers(n) :
                 /\ Write(connection, writePending, congested, Enqueue(pending, reply), {})
                 /\ linkDrops' = linkDrops + Dropped(pending, reply)
  BY OnDataIs
<1>5. PICK reply \in Answers(n) :
                 /\ Write(connection, writePending, congested, Enqueue(pending, reply), {})
                 /\ linkDrops' = linkDrops + Dropped(pending, reply)
  BY <1>4
<1>6. reply \in Seq(Message) /\ pending \in Seq(Frame)
  BY AnswersType, TypeFacts
<1>7. Enqueue(pending, reply) \in Seq(Frame) /\ Len(Enqueue(pending, reply)) <= PendingCap
  BY <1>6, EnqueueType
<1>8. linkDrops' \in Nat
  BY <1>5, <1>6, DropsType
<1>9. WriteVarsType'
  BY <1>5, <1>7, WriteTypes, ConnectionIs, TypeFacts
<1>10. system' \in Seq(Message) /\ registrations' \in Seq(Message)
       /\ UNCHANGED <<radio, opened, said, jammed, heard, created>>
  BY TypeFacts DEF OnData, cacheVars
<1> QED BY <1>1, <1>3, <1>8, <1>9, <1>10, HandlerTypes

LEMMA ConnectedTypes ==
  ASSUME TypeOK, OnConnected
  PROVE  TypeOK'
<1> DEFINE h == Head(work).handle
           ms == Replay
<1>1. Take("Connected") /\ framer' = <<>> /\ Write(h, FALSE, FALSE, Enqueue(<<>>, ms), {})
      /\ linkDrops' = linkDrops + Dropped(<<>>, ms)
      /\ UNCHANGED <<radio, opened, said, jammed, heard, cacheVars, obeyed, created>>
  BY DEF OnConnected, Cleared, NotBusy
<1>2. h \in Handle /\ h \in 0..MaxLinks
  <2>1. h \in Handle
    BY <1>1, TakeTypes, ItemFields
  <2> QED BY <2>1, ConnectionIs
<1>3. ms \in Seq(Message) /\ <<>> \in Seq(Frame)
  BY ReplayType, EmptyFrames
<1> HIDE DEF h, ms
<1>4. Enqueue(<<>>, ms) \in Seq(Frame) /\ Len(Enqueue(<<>>, ms)) <= PendingCap
  BY <1>3, EnqueueType
<1>5. WriteVarsType'
  BY <1>1, <1>2, <1>4, WriteTypes, ConnectionIs
<1>6. linkDrops' \in Nat
  BY <1>1, <1>3, DropsType
<1>7. framer' \in Seq(Nat) /\ system' \in Seq(Message) /\ registrations' \in Seq(Message)
      /\ obeyed' \in [Handle -> Seq(Seq(Nat))]
  BY <1>1, TypeFacts, EmptySeq DEF cacheVars
<1> QED BY <1>1, <1>5, <1>6, <1>7, HandlerTypes

\* The handlers that write what they have, with flags of their own.
LEMMA FlagTypes ==
  ASSUME TypeOK, NEW kind, Take(kind), NEW c \in {0, connection}, NEW busy \in BOOLEAN,
         NEW cong \in BOOLEAN, NEW frames \in {<<>>, pending}, NEW hungUp \in SUBSET Handle,
         Write(c, busy, cong, frames, hungUp), framer' \in {<<>>, framer},
         UNCHANGED <<radio, opened, said, jammed, heard, cacheVars, obeyed, created, linkDrops>>
  PROVE  TypeOK'
<1>1. frames \in Seq(Frame) /\ Len(frames) <= PendingCap
  BY EmptyFrames, TypeFacts
<1>2. c \in 0..MaxLinks
  BY ConnectionIs
<1>3. WriteVarsType'
  BY <1>1, <1>2, WriteTypes
<1>4. framer' \in Seq(Nat) /\ system' \in Seq(Message) /\ registrations' \in Seq(Message)
      /\ obeyed' \in [Handle -> Seq(Seq(Nat))] /\ linkDrops' \in Nat
  BY TypeFacts, EmptySeq DEF cacheVars
<1> QED BY <1>3, <1>4, HandlerTypes

LEMMA MessageTypes ==
  ASSUME TypeOK, OnMessage
  PROVE  TypeOK'
<1> DEFINE m == Head(work).message
<1>1. Take("Message") /\ Remember(m) /\ UNCHANGED <<radio, opened, said, jammed, heard, framer,
                                                   obeyed, created>>
  BY DEF OnMessage
<1>2. m \in Message
  BY <1>1, TakeTypes, ItemFields
<1>3. system' \in Seq(Message) /\ registrations' \in Seq(Message)
  BY <1>1, <1>2, RememberTypes
<1>4. WriteVarsType' /\ linkDrops' \in Nat
  <2>1. CASE connection # 0
    <3>1. /\ Write(connection, writePending, congested, Enqueue(pending, <<m>>), {})
          /\ linkDrops' = linkDrops + Dropped(pending, <<m>>)
      BY <2>1 DEF OnMessage
    <3> DEFINE ms == <<m>>
    <3>2. ms \in Seq(Message) /\ pending \in Seq(Frame)
      BY <1>2, TypeFacts
    <3> HIDE DEF m, ms
    <3>3. Enqueue(pending, ms) \in Seq(Frame) /\ Len(Enqueue(pending, ms)) <= PendingCap
      BY <3>2, EnqueueType
    <3>4. /\ Write(connection, writePending, congested, Enqueue(pending, ms), {})
          /\ linkDrops' = linkDrops + Dropped(pending, ms)
      BY <3>1 DEF ms
    <3>5. linkDrops' \in Nat
      BY <3>2, <3>4, DropsType
    <3> QED BY <3>3, <3>4, <3>5, WriteTypes, ConnectionIs, TypeFacts
  <2>2. CASE connection = 0
    BY <2>2, TypeFacts DEF OnMessage, WriteVarsType, writeVars
  <2> QED BY <2>1, <2>2
<1> HIDE DEF m
<1>5. framer' \in Seq(Nat) /\ obeyed' \in [Handle -> Seq(Seq(Nat))]
  BY <1>1, TypeFacts
<1> QED BY <1>1, <1>3, <1>4, <1>5, HandlerTypes

LEMMA TwiceTypes ==
  ASSUME TypeOK, OnConnectedTwice
  PROVE  TypeOK'
<1>1. Take("Connected")
  BY DEF OnConnectedTwice
<1>2. Head(work).handle \in Handle
  BY <1>1, TakeTypes, ItemFields
<1>3. WriteVarsType'
  BY <1>2, TypeFacts DEF OnConnectedTwice, WriteVarsType, writeVars
<1>4. framer' \in Seq(Nat) /\ system' \in Seq(Message) /\ registrations' \in Seq(Message)
      /\ obeyed' \in [Handle -> Seq(Seq(Nat))] /\ linkDrops' \in Nat
      /\ UNCHANGED <<radio, opened, said, jammed, heard, created>>
  BY TypeFacts DEF OnConnectedTwice, cacheVars
<1> QED BY <1>1, <1>3, <1>4, HandlerTypes

LEMMA WorkerTypes ==
  ASSUME TypeOK, Worker
  PROVE  TypeOK'
<1>1. CASE WorkerCheck
  <2> USE TypeFacts DEF cacheVars
  <2>1. framer' \in Seq(Nat) /\ pending' \in Seq(Frame) /\ Len(pending') <= PendingCap
    BY <1>1, EmptySeq, EmptyFrames DEF WorkerCheck, Cleared
  <2>2. connection' \in 0..MaxLinks /\ closing' \in SUBSET Handle
    BY <1>1, ConnectionIs DEF WorkerCheck, Resynced
  <2>3. RestTypes'
    BY <1>1, <2>1, <2>2 DEF WorkerCheck, RestTypes
  <2>4. QueueTypes'
    BY <1>1 DEF WorkerCheck, QueueTypes
  <2> QED BY <2>3, <2>4 DEF TypeOK, RestTypes, QueueTypes, FlyingWrite
<1>2. CASE OnConnectedTwice
  BY <1>2, TwiceTypes
<1>3. CASE OnConnected
  BY <1>3, ConnectedTypes
<1>4. CASE OnData
  BY <1>4, DataTypes
<1>5. CASE OnMessage
  BY <1>5, MessageTypes
<1>6. CASE OnClosed
  <2>1. Take("Closed") /\ Write(0, FALSE, FALSE, <<>>, {}) /\ framer' = <<>>
        /\ UNCHANGED <<radio, opened, said, jammed, heard, cacheVars, obeyed, created, linkDrops>>
    BY <1>6 DEF OnClosed, Cleared
  <2> QED BY <2>1, FlagTypes, ConnectionIs
<1>7. CASE OnTooLong
  <2>1. Take("TooLong") /\ Write(0, writePending, congested, <<>>, {connection}) /\ framer' = <<>>
        /\ UNCHANGED <<radio, opened, said, jammed, heard, cacheVars, obeyed, created, linkDrops>>
        /\ Ours
    BY <1>7 DEF OnTooLong, Cleared
  <2>2. {connection} \in SUBSET Handle
    BY <2>1, TakeTypes, ItemFields DEF Ours
  <2> QED BY <2>1, <2>2, FlagTypes, TypeFacts
<1>8. CASE OnWriteDone
  <2>1. Take("WriteDone") /\ Ours /\ framer' = framer
        /\ UNCHANGED <<radio, opened, said, jammed, heard, cacheVars, obeyed, created, linkDrops>>
    BY <1>8 DEF OnWriteDone
  <2>2. {connection} \in SUBSET Handle /\ Head(work).cong \in BOOLEAN
    BY <2>1, TakeTypes, ItemFields DEF Ours
  <2>3. CASE Write(connection, FALSE, Head(work).cong, pending, {})
    BY <2>1, <2>2, <2>3, FlagTypes, ConnectionIs
  <2>4. CASE Write(0, writePending, congested, <<>>, {connection})
    BY <2>1, <2>2, <2>4, FlagTypes, TypeFacts
  <2> QED BY <1>8, <2>3, <2>4 DEF OnWriteDone
<1>9. CASE OnCongestion
  <2>1. Take("Congestion") /\ framer' = framer
        /\ UNCHANGED <<radio, opened, said, jammed, heard, cacheVars, obeyed, created, linkDrops>>
        /\ Write(connection, writePending, Head(work).cong, pending, {})
    BY <1>9 DEF OnCongestion
  <2>2. Head(work).cong \in BOOLEAN
    BY <2>1, TakeTypes, ItemFields
  <2> QED BY <2>1, <2>2, FlagTypes, TypeFacts, ConnectionIs
<1>10. CASE OnStale
  <2>1. PICK kind : Take(kind)
    BY <1>10 DEF OnStale
  <2>2. Write(connection, writePending, congested, pending, {}) /\ framer' = framer
        /\ UNCHANGED <<radio, opened, said, jammed, heard, cacheVars, obeyed, created, linkDrops>>
    BY <1>10 DEF OnStale
  <2> QED BY <2>1, <2>2, FlagTypes, TypeFacts, ConnectionIs
<1> QED BY <1>1, <1>2, <1>3, <1>4, <1>5, <1>6, <1>7, <1>8, <1>9, <1>10 DEF Worker

LEMMA NextTypes ==
  ASSUME TypeOK, [Next]_vars
  PROVE  TypeOK'
<1>1. CASE UNCHANGED vars
  BY <1>1 DEF vars, linkVars, queueVars, writeVars, cacheVars, TypeOK
<1> QED BY <1>1, StackTypes, WorkerTypes, SenderTypes DEF Next

\* The worker's variables hold what their types allow, the queues no more than their
\* capacity (bluetooth.rs:30-45).
THEOREM WorkerTypesHold == Spec => []TypeOK
<1>1. Init => TypeOK
  <2> SUFFICES ASSUME Init PROVE TypeOK
    OBVIOUS
  <2>1. 0 \in 0..MaxLinks /\ 0 \in 0..MaxPieces /\ 0 <= WorkCap /\ 0 <= PendingCap
    BY Bounds
  <2>2. \A S : <<>> \in Seq(S) /\ Len(<<>>) = 0
    BY EmptySeq
  <2>3. heard \in [Handle -> Seq(Chunk)] /\ obeyed \in [Handle -> Seq(Seq(Nat))]
        /\ said \in [Handle -> 0..MaxPieces]
    BY <2>1, <2>2 DEF Init
  <2>4. /\ flying \in Seq([handle : Handle, chunk : Chunk]) /\ work \in Seq(Work)
        /\ framer \in Seq(Nat) /\ pending \in Seq(Frame) /\ system \in Seq(Message)
        /\ registrations \in Seq(Message) /\ Len(work) = 0 /\ Len(pending) = 0
    BY <2>2 DEF Init
  <2>5. {overflow, checked, writePending, congested} \subseteq BOOLEAN
    BY DEF Init
  <2>6. {created, linkDrops, events} \subseteq Nat
    BY DEF Init
  <2>7. /\ radio \in SUBSET Handle /\ opened \in 0..MaxLinks /\ closing \in SUBSET Handle
        /\ jammed \in SUBSET Handle /\ lost \in SUBSET Handle /\ connection \in 0..MaxLinks
    BY <2>1 DEF Init
  <2>8. Len(work) <= WorkCap /\ Len(pending) <= PendingCap
    BY <2>1, <2>4
  <2> QED BY <2>3, <2>4, <2>5, <2>6, <2>7, <2>8 DEF TypeOK
<1>2. TypeOK /\ [Next]_vars => TypeOK'
  BY NextTypes
<1> QED BY <1>1, <1>2, PTL DEF Spec

-----------------------------------------------------------------------------
(* The order of a link's items: its Connected is queued before anything else of it, *)
(* and until the worker has taken that item it has done nothing for the link.       *)

Opens(w, h) == \E i \in Places(w) : IsKind(w[i], "Connected", h)
Unserved(h) == h > opened \/ Opens(work, h)

Ordered(w, top) ==
  /\ \A i \in Places(w) : w[i].kind # "Message" => w[i].handle <= top
  /\ \A i, j \in Places(w) :
       w[i].kind = "Connected" /\ IsOf(w[j], w[i].handle) => i <= j

OrderInv ==
  /\ radio \subseteq 1..opened
  /\ Ordered(work, opened)
  /\ \A h \in Handle : h > opened => said[h] = 0
  /\ \A h \in Handle : Unserved(h) =>
       /\ connection # h /\ obeyed[h] = <<>> /\ heard[h] = <<>>
       /\ \A i \in Places(flying) : flying[i].handle # h

LEMMA AppendItem ==
  ASSUME NEW w \in Seq(Work), NEW item \in Work
  PROVE  /\ Append(w, item) \in Seq(Work) /\ Len(Append(w, item)) = Len(w) + 1
         /\ Places(Append(w, item)) = Places(w) \cup {Len(w) + 1}
         /\ Append(w, item)[Len(w) + 1] = item
         /\ \A i \in Places(w) : Append(w, item)[i] = w[i]
         /\ \A i \in Places(w) : i \in Nat /\ i > 0 /\ i < Len(w) + 1
         /\ Len(w) \in Nat
<1> DEFINE a == Append(w, item)
<1>1. /\ a \in Seq(Work) /\ Len(a) = Len(w) + 1 /\ a[Len(w) + 1] = item
      /\ \A i \in 1..Len(w) : a[i] = w[i]
  BY AppendProperties
<1>2. Len(w) \in Nat
  BY LenProperties
<1> HIDE DEF a
<1>3. 1..Len(a) = 1..Len(w) \cup {Len(w) + 1}
  BY <1>1, <1>2
<1> QED BY <1>1, <1>2, <1>3 DEF Places, a

LEMMA OpensAppend ==
  ASSUME NEW w \in Seq(Work), NEW item \in Work, NEW h
  PROVE  Opens(Append(w, item), h) <=> Opens(w, h) \/ IsKind(item, "Connected", h)
  BY AppendItem DEF Opens

LEMMA OrderedAppend ==
  ASSUME NEW w \in Seq(Work), NEW item \in Work, NEW top \in Nat, Ordered(w, top),
         item.kind # "Connected", item.kind # "Message" => item.handle <= top
  PROVE  Ordered(Append(w, item), top)
<1> DEFINE a == Append(w, item)
<1>1. /\ Places(a) = Places(w) \cup {Len(w) + 1} /\ a[Len(w) + 1] = item
      /\ \A i \in Places(w) : a[i] = w[i] /\ i \in Nat /\ i > 0 /\ i < Len(w) + 1
      /\ Len(w) \in Nat
  BY AppendItem
<1> HIDE DEF a
<1>2. ASSUME NEW i \in Places(a), a[i].kind # "Message"
      PROVE  a[i].handle <= top
  BY <1>1, <1>2 DEF Ordered
<1>3. ASSUME NEW i \in Places(a), NEW j \in Places(a), a[i].kind = "Connected",
             IsOf(a[j], a[i].handle)
      PROVE  i <= j
  <2>1. i \in Places(w) /\ a[i] = w[i]
    BY <1>1, <1>3
  <2>2. CASE j \in Places(w)
    BY <1>1, <1>3, <2>1, <2>2 DEF Ordered
  <2>3. CASE j = Len(w) + 1
    <3>1. i \in Nat /\ i < Len(w) + 1 /\ Len(w) \in Nat
      BY <1>1, <2>1
    <3> QED BY <2>3, <3>1
  <2> QED BY <1>1, <2>2, <2>3
<1> QED BY <1>2, <1>3 DEF Ordered, a

LEMMA OrderedOpen ==
  ASSUME NEW w \in Seq(Work), NEW top \in Nat, top + 1 \in Handle, Ordered(w, top)
  PROVE  Ordered(Append(w, Connected(top + 1)), top + 1)
<1> DEFINE item == Connected(top + 1)
           a == Append(w, item)
<1>1. item \in Work /\ item.kind = "Connected" /\ item.handle = top + 1
  BY DEF Connected, Work
<1> HIDE DEF item
<1>2. /\ Places(a) = Places(w) \cup {Len(w) + 1} /\ a[Len(w) + 1] = item
      /\ \A i \in Places(w) : a[i] = w[i] /\ i \in Nat /\ i > 0 /\ i < Len(w) + 1
      /\ Len(w) \in Nat
  BY <1>1, AppendItem
<1>3. \A i \in Places(w) : w[i] \in Work
  BY ElementOfSeq DEF Places
<1> HIDE DEF a
<1>4. ASSUME NEW i \in Places(w), w[i].kind # "Message"
      PROVE  w[i].handle <= top /\ w[i].handle <= top + 1 /\ w[i].handle # top + 1
  <2>1. w[i].handle \in Handle /\ w[i].handle <= top
    BY <1>3, <1>4, ItemFields DEF Ordered
  <2>2. w[i].handle \in Int
    BY <2>1 DEF Handle
  <2> QED BY <2>1, <2>2
<1>5. ASSUME NEW i \in Places(a), a[i].kind # "Message"
      PROVE  a[i].handle <= top + 1
  BY <1>1, <1>2, <1>4, <1>5
<1>6. ASSUME NEW i \in Places(a), NEW j \in Places(a), a[i].kind = "Connected",
             IsOf(a[j], a[i].handle)
      PROVE  i <= j
  <2>1. CASE i \in Places(w) /\ j \in Places(w)
    BY <1>2, <1>6, <2>1 DEF Ordered
  <2>2. CASE i \in Places(w) /\ j = Len(w) + 1
    BY <1>2, <2>2
  <2>3. CASE i = Len(w) + 1 /\ j \in Places(w)
    BY <1>1, <1>2, <1>4, <1>6, <2>3 DEF IsOf
  <2>4. CASE i = Len(w) + 1 /\ j = Len(w) + 1
    BY <1>2, <2>4
  <2> QED BY <1>2, <2>1, <2>2, <2>3, <2>4
<1> QED BY <1>5, <1>6 DEF Ordered, a, item

LEMMA TailItem ==
  ASSUME NEW w \in Seq(Work), w # <<>>
  PROVE  /\ \A i \in Places(Tail(w)) : /\ Tail(w)[i] = w[i + 1] /\ i + 1 \in Places(w)
                                       /\ i \in Nat /\ i > 0
         /\ \A j \in Places(w) : j = 1 \/ (j - 1 \in Places(Tail(w)) /\ Tail(w)[j - 1] = w[j]
                                            /\ j \in Nat)
         /\ 1 \in Places(w) /\ w[1] = Head(w) /\ Head(w) \in Work /\ Tail(w) \in Seq(Work)
<1> DEFINE t == Tail(w)
<1>1. /\ t \in Seq(Work) /\ Len(t) = Len(w) - 1 /\ Len(w) > 0 /\ Len(w) \in Nat
      /\ w[1] = Head(w) /\ Head(w) \in Work
      /\ \A i \in 1..Len(w) - 1 : t[i] = w[i + 1]
  BY HeadItem
<1> HIDE DEF t
<1>2. ASSUME NEW i \in Places(t)
      PROVE  t[i] = w[i + 1] /\ i + 1 \in Places(w) /\ i \in Nat /\ i > 0
  BY <1>1 DEF Places
<1>3. ASSUME NEW j \in Places(w), j # 1
      PROVE  j - 1 \in Places(t) /\ t[j - 1] = w[j] /\ j \in Nat
  <2>1. j - 1 \in Places(t) /\ j \in Nat
    BY <1>1, <1>3 DEF Places
  <2>2. t[j - 1] = w[(j - 1) + 1]
    BY <1>2, <2>1
  <2> QED BY <2>1, <2>2
<1> QED BY <1>1, <1>2, <1>3 DEF t, Places

LEMMA OrderedTail ==
  ASSUME NEW w \in Seq(Work), w # <<>>, NEW top \in Nat, Ordered(w, top)
  PROVE  /\ Ordered(Tail(w), top)
         /\ \A h : Opens(Tail(w), h) => Opens(w, h)
         /\ \A h : IsOf(Head(w), h) => ~Opens(Tail(w), h)
         /\ \A h : IsOf(Head(w), h) /\ Head(w).kind # "Connected" => ~Opens(w, h)
         /\ Head(w).kind # "Message" => Head(w).handle <= top
<1> DEFINE t == Tail(w)
<1>1. /\ \A i \in Places(t) : t[i] = w[i + 1] /\ i + 1 \in Places(w) /\ i \in Nat /\ i > 0
      /\ 1 \in Places(w) /\ w[1] = Head(w)
      /\ \A j \in Places(w) : j = 1 \/ j \in Nat
  BY TailItem
<1> HIDE DEF t
<1>2. Ordered(t, top)
  <2>1. ASSUME NEW i \in Places(t), t[i].kind # "Message"
        PROVE  t[i].handle <= top
    BY <1>1, <2>1 DEF Ordered
  <2>2. ASSUME NEW i \in Places(t), NEW j \in Places(t), t[i].kind = "Connected",
               IsOf(t[j], t[i].handle)
        PROVE  i <= j
    <3>1. i + 1 <= j + 1
      BY <1>1, <2>2 DEF Ordered
    <3> QED BY <1>1, <3>1
  <2> QED BY <2>1, <2>2 DEF Ordered
<1>3. ASSUME NEW h, Opens(t, h)
      PROVE  Opens(w, h)
  BY <1>1, <1>3 DEF Opens
<1>4. ASSUME NEW h, IsOf(Head(w), h), Opens(t, h)
      PROVE  FALSE
  <2>1. PICK i \in Places(t) : IsKind(t[i], "Connected", h)
    BY <1>4 DEF Opens
  <2>2. i + 1 \in Places(w) /\ w[i + 1].kind = "Connected" /\ w[i + 1].handle = h
    BY <1>1, <2>1 DEF IsKind
  <2>3. IsOf(w[1], w[i + 1].handle)
    BY <1>1, <1>4, <2>2
  <2>4. i + 1 <= 1
    BY <1>1, <2>2, <2>3 DEF Ordered
  <2> QED BY <1>1, <2>4
<1>5. ASSUME NEW h, IsOf(Head(w), h), Head(w).kind # "Connected", Opens(w, h)
      PROVE  FALSE
  <2>1. PICK i \in Places(w) : IsKind(w[i], "Connected", h)
    BY <1>5 DEF Opens
  <2>2. i <= 1
    BY <1>1, <1>5, <2>1 DEF IsKind, Ordered
  <2>3. i = 1
    BY <1>1, <2>1, <2>2 DEF Places
  <2> QED BY <1>1, <1>5, <2>1, <2>3 DEF IsKind
<1>6. Head(w).kind # "Message" => Head(w).handle <= top
  BY <1>1 DEF Ordered
<1> QED BY <1>2, <1>3, <1>4, <1>5, <1>6 DEF t

LEMMA OpenedIs ==
  ASSUME TypeOK
  PROVE  opened \in Nat /\ work \in Seq(Work) /\ flying \in Seq(FlyingWrite)
         /\ Len(work) \in Nat /\ WorkCap > 0 /\ (Len(work) >= Full => work # <<>>)
<1>1. opened \in 0..MaxLinks /\ MaxLinks \in Nat /\ work \in Seq(Work)
      /\ flying \in Seq(FlyingWrite)
  BY TypeFacts, Bounds
<1>2. Len(work) \in Nat /\ WorkCap \in Nat /\ WorkCap > 0
  BY <1>1, Bounds, LenProperties
<1>3. Len(<<>>) = 0
  BY EmptySeq
<1> QED BY <1>1, <1>2, <1>3 DEF Full

\* What a callback leaves behind.
LEMMA CallbackIs ==
  ASSUME TypeOK, NEW item \in Work, item.kind # "Message", Callback(item)
  PROVE  \/ work' = Append(work, item) /\ UNCHANGED <<overflow, lost>>
         \/ /\ work' = work /\ overflow' = TRUE /\ work # <<>>
            /\ lost' = lost \cup ({item.handle} \ {connection})
  BY OpenedIs DEF Callback

\* A callback of an open link.
LEMMA CallbackOrder ==
  ASSUME TypeOK, OrderInv, NEW item \in Work, item.kind # "Message", item.kind # "Connected",
         item.handle \in 1..opened, Callback(item)
  PROVE  Ordered(work', opened) /\ \A h : Opens(work', h) <=> Opens(work, h)
<1>1. work \in Seq(Work) /\ opened \in Nat /\ Ordered(work, opened) /\ item.handle <= opened
  BY OpenedIs DEF OrderInv
<1>2. CASE work' = work
  BY <1>1, <1>2
<1>3. CASE work' = Append(work, item)
  <2>1. Ordered(work', opened)
    BY <1>1, <1>3, OrderedAppend
  <2>2. \A h : Opens(work', h) <=> Opens(work, h)
    BY <1>1, <1>3, OpensAppend DEF IsKind
  <2> QED BY <2>1, <2>2
<1> QED BY <1>2, <1>3, CallbackIs

\* The steps of the stack for a link that is open.
StackFrame ==
  UNCHANGED <<opened, closing, checked, connection, writePending, congested, pending, framer,
              system, registrations, obeyed, created, linkDrops>>

\* What each step of the stack does, besides the callback it makes.
LEMMA StackShape ==
  ASSUME TypeOK, Stack, radio \subseteq 1..opened
  PROVE  \/ LinkOpens
         \/ \E h \in radio : \E to \in {said[h] + 1, said[h] + 2} :
              /\ said' = [said EXCEPT ![h] = to] /\ Callback(Data(h, said[h] + 1, to))
              /\ StackFrame /\ UNCHANGED <<radio, flying, heard>> /\ to <= MaxPieces
         \/ \E h \in radio : \E item \in {Closed(h), TooLong(h), Congestion(h, TRUE),
                                          Congestion(h, FALSE)} :
              /\ Callback(item) /\ radio' \subseteq radio
              /\ StackFrame /\ UNCHANGED <<said, flying, heard>>
         \/ WriteCompletes
<1> USE DEF StackFrame, linkVars, writeVars, cacheVars
<1>1. ASSUME NEW h \in Handle, LinkCloses(h)
      PROVE  h \in radio /\ Callback(Closed(h)) /\ radio' \subseteq radio /\ StackFrame
             /\ UNCHANGED <<said, flying, heard>>
  BY <1>1 DEF LinkCloses
<1>2. ASSUME NEW h \in Handle, PeerSends(h)
      PROVE  h \in radio /\ \E to \in {said[h] + 1, said[h] + 2} :
              /\ said' = [said EXCEPT ![h] = to] /\ Callback(Data(h, said[h] + 1, to))
              /\ StackFrame /\ UNCHANGED <<radio, flying, heard>> /\ to <= MaxPieces
  BY <1>2 DEF PeerSends
<1>3. ASSUME NEW h \in Handle, PeerSendsTooLong(h)
      PROVE  h \in radio /\ Callback(TooLong(h)) /\ radio' \subseteq radio /\ StackFrame
             /\ UNCHANGED <<said, flying, heard>>
  BY <1>3 DEF PeerSendsTooLong
<1>4. ASSUME NEW h \in Handle, CongestionBegins(h)
      PROVE  h \in radio /\ Callback(Congestion(h, TRUE)) /\ radio' \subseteq radio /\ StackFrame
             /\ UNCHANGED <<said, flying, heard>>
  BY <1>4 DEF CongestionBegins
<1>5. ASSUME NEW h \in Handle, CongestionEnds(h)
      PROVE  h \in radio /\ Callback(Congestion(h, FALSE)) /\ radio' \subseteq radio /\ StackFrame
             /\ UNCHANGED <<said, flying, heard>>
  BY <1>5 DEF CongestionEnds
<1> QED BY ONLY Stack, <1>1, <1>2, <1>3, <1>4, <1>5 DEF Stack

LEMMA OpenLink ==
  ASSUME TypeOK, OrderInv, NEW h \in radio
  PROVE  h \in Handle /\ h \in 1..opened /\ h \in Nat /\ h > 0 /\ ~(h > opened)
<1>1. radio \in SUBSET Handle /\ radio \subseteq 1..opened /\ opened \in Nat
  BY TypeFacts, OpenedIs DEF OrderInv
<1> QED BY <1>1

\* What the items of the stack are.
LEMMA StackItems ==
  ASSUME NEW h \in Handle, NEW item \in {Closed(h), TooLong(h), Congestion(h, TRUE),
                                         Congestion(h, FALSE)}
  PROVE  item \in Work /\ item.handle = h /\ item.kind \in {"Closed", "TooLong", "Congestion"}
<1>1. /\ Closed(h) \in Work /\ TooLong(h) \in Work
      /\ Congestion(h, TRUE) \in Work /\ Congestion(h, FALSE) \in Work
  BY DEF Work, Closed, TooLong, Congestion
<1>2. /\ Closed(h).handle = h /\ TooLong(h).handle = h /\ Congestion(h, TRUE).handle = h
      /\ Congestion(h, FALSE).handle = h
  BY DEF Closed, TooLong, Congestion
<1>3. /\ Closed(h).kind = "Closed" /\ TooLong(h).kind = "TooLong"
      /\ Congestion(h, TRUE).kind = "Congestion" /\ Congestion(h, FALSE).kind = "Congestion"
  BY DEF Closed, TooLong, Congestion
<1> QED BY <1>1, <1>2, <1>3

LEMMA DataIs ==
  ASSUME TypeOK, NEW h \in Handle, NEW to \in {said[h] + 1, said[h] + 2}
  PROVE  LET item == Data(h, said[h] + 1, to)
         IN /\ item \in Work /\ item.handle = h /\ item.kind = "Data" /\ item.from = said[h] + 1
            /\ item.to = to /\ said[h] \in Nat /\ to \in Nat
<1>1. said[h] \in 0..MaxPieces /\ MaxPieces \in Nat
  BY TypeFacts, Bounds
<1> QED BY <1>1 DEF Data, Work

\* WriteCompletes: the write it completes, the chunk that may arrive, the callback.
LEMMA CompletesShape ==
  ASSUME TypeOK, WriteCompletes
  PROVE  LET w == Head(flying)
             h == w.handle
         IN /\ flying # <<>> /\ flying' = Tail(flying) /\ w \in FlyingWrite /\ h \in Handle
            /\ StackFrame /\ UNCHANGED <<said, radio>>
            /\ \/ /\ heard' = [heard EXCEPT ![h] = Append(@, w.chunk)] /\ h \in radio
                  /\ \E b \in BOOLEAN : Callback(WriteDone(h, TRUE, b))
               \/ heard' = heard /\ Callback(WriteDone(h, FALSE, FALSE))
               \/ heard' = heard /\ UNCHANGED queueVars /\ h \notin radio
<1>1. Head(flying) \in FlyingWrite /\ Head(flying).handle \in Handle /\ flying # <<>>
      /\ flying' = Tail(flying)
  BY FlyingHead DEF WriteCompletes
<1>2. StackFrame /\ UNCHANGED <<said, radio>>
  BY DEF WriteCompletes, StackFrame, cacheVars
<1> DEFINE h == Head(flying).handle
<1>3. (h \in jammed) \in BOOLEAN
  OBVIOUS
<1>4. \/ /\ heard' = [heard EXCEPT ![h] = Append(@, Head(flying).chunk)] /\ h \in radio
         /\ Callback(WriteDone(h, TRUE, h \in jammed)) \/ Callback(WriteDone(h, TRUE, TRUE))
      \/ heard' = heard /\ Callback(WriteDone(h, FALSE, FALSE))
      \/ heard' = heard /\ UNCHANGED queueVars /\ h \notin radio
  BY DEF WriteCompletes
<1>5. (Callback(WriteDone(h, TRUE, h \in jammed)) \/ Callback(WriteDone(h, TRUE, TRUE)))
        => \E b \in BOOLEAN : Callback(WriteDone(h, TRUE, b))
  BY <1>3
<1> QED BY <1>1, <1>2, <1>4, <1>5

LEMMA DoneIs ==
  ASSUME NEW h \in Handle, NEW b \in BOOLEAN, NEW c \in BOOLEAN
  PROVE  LET item == WriteDone(h, b, c)
         IN item \in Work /\ item.kind = "WriteDone" /\ item.handle = h /\ item.ok = b
  BY DEF WriteDone, Work

\* The places of a sequence without its head.
LEMMA TailPlaces ==
  ASSUME NEW S, NEW s \in Seq(S), s # <<>>
  PROVE  /\ \A i \in Places(Tail(s)) : Tail(s)[i] = s[i + 1] /\ i + 1 \in Places(s) /\ i \in Nat
         /\ 1 \in Places(s) /\ s[1] = Head(s) /\ Head(s) \in S /\ Tail(s) \in Seq(S)
<1>1. /\ Tail(s) \in Seq(S) /\ Len(Tail(s)) = Len(s) - 1 /\ Len(s) \in Nat /\ Head(s) = s[1]
      /\ \A i \in 1..Len(s) - 1 : Tail(s)[i] = s[i + 1] /\ Head(s) \in S
  BY HeadTailProperties, LenProperties
<1>2. Len(s) > 0
  BY <1>1, EmptySeq
<1>3. Head(s) \in S
  BY HeadTailProperties
<1> QED BY <1>1, <1>2, <1>3 DEF Places

\* A step of an open link changes neither its order nor what is unserved.
LEMMA OrderStays ==
  ASSUME TypeOK, OrderInv, Ordered(work', opened), \A h : Opens(work', h) <=> Opens(work, h),
         radio' \subseteq radio, UNCHANGED <<opened, connection, obeyed>>,
         \A h \in Handle : h > opened => said'[h] = 0,
         \A h \in Handle : Unserved(h) =>
            heard'[h] = <<>> /\ \A i \in Places(flying') : flying'[i].handle # h
  PROVE  OrderInv'
<1>1. \A h : Unserved(h)' <=> Unserved(h)
  BY DEF Unserved
<1>2. Ordered(work, opened)'
  BY DEF Ordered
<1>3. radio' \subseteq 1..opened'
  BY DEF OrderInv
<1>4. ASSUME NEW h \in Handle, Unserved(h)
      PROVE  connection # h /\ obeyed[h] = <<>>
  BY <1>4 DEF OrderInv
<1> QED BY <1>1, <1>2, <1>3, <1>4 DEF OrderInv

LEMMA OrderStack ==
  ASSUME TypeOK, OrderInv, Stack
  PROVE  OrderInv'
<1> USE DEF StackFrame
<1>0. radio \subseteq 1..opened /\ said \in [Handle -> 0..MaxPieces] /\ opened \in Nat
      /\ heard \in [Handle -> Seq(Chunk)] /\ flying \in Seq(FlyingWrite)
      /\ \A h \in Handle : Unserved(h) =>
           heard[h] = <<>> /\ \A i \in Places(flying) : flying[i].handle # h
  BY TypeFacts, OpenedIs DEF OrderInv
<1>1. CASE LinkOpens
  <2> DEFINE n == opened + 1
             item == Connected(n)
  <2>1. opened' = n /\ radio' = radio \cup {n} /\ Callback(item) /\ n \in Handle
        /\ UNCHANGED <<said, connection, obeyed, heard, flying>>
    <3>1. opened \in 0..MaxLinks /\ opened < MaxLinks /\ MaxLinks \in Nat
      BY <1>1, TypeFacts, Bounds DEF LinkOpens
    <3>2. n \in Handle
      BY <3>1 DEF Handle
    <3> QED BY <1>1, <3>2 DEF LinkOpens, writeVars
  <2>2. item \in Work /\ item.kind = "Connected" /\ item.handle = n
    BY <2>1 DEF Connected, Work
  <2>3. Ordered(work, opened) /\ work \in Seq(Work)
    BY OpenedIs DEF OrderInv
  <2> HIDE DEF item
  <2>4. /\ Ordered(work', n)
        /\ \A h : Opens(work', h) => Opens(work, h) \/ h = n
    <3>1. CASE work' = Append(work, item)
      <4>1. Ordered(Append(work, item), n)
        BY <1>0, <2>1, <2>3, OrderedOpen DEF item
      <4>2. \A h : Opens(Append(work, item), h) <=> Opens(work, h) \/ IsKind(item, "Connected", h)
        BY <2>2, <2>3, OpensAppend
      <4> QED BY <2>2, <3>1, <4>1, <4>2 DEF IsKind
    <3>2. CASE work' = work
      <4>1. Ordered(work, n)
        <5>1. ASSUME NEW i \in Places(work), work[i].kind # "Message"
              PROVE  work[i].handle <= n
          <6>1. work[i] \in Work
            BY <2>3, ElementOfSeq DEF Places
          <6>2. work[i].handle \in Int /\ work[i].handle <= opened
            BY <2>3, <5>1, <6>1, ItemFields DEF Ordered, Handle
          <6> QED BY <1>0, <6>2
        <5> QED BY <2>3, <5>1 DEF Ordered
      <4> QED BY <3>2, <4>1
    <3> QED BY <2>1, <2>2, <3>1, <3>2, CallbackIs
  <2>5. Ordered(work, opened)'
    BY <2>1, <2>4 DEF Ordered
  <2>6. \A h \in Handle : (h > n => h > opened) /\ (h = n => h > opened)
    BY <1>0 DEF Handle
  <2>7. ASSUME NEW h \in Handle, Unserved(h)'
        PROVE  Unserved(h)
    BY <2>1, <2>4, <2>6, <2>7 DEF Unserved
  <2>8. radio' \subseteq 1..n
    BY <1>0, <2>1
  <2>9. \A h \in Handle : h > opened' => said'[h] = 0
    BY <2>1, <2>6 DEF OrderInv
  <2>10. ASSUME NEW h \in Handle, Unserved(h)'
         PROVE  /\ connection' # h /\ obeyed'[h] = <<>> /\ heard'[h] = <<>>
                /\ \A i \in Places(flying') : flying'[i].handle # h
    BY <2>1, <2>7, <2>10 DEF OrderInv
  <2> QED BY <2>1, <2>5, <2>8, <2>9, <2>10 DEF OrderInv
<1>2. ASSUME NEW h \in radio, NEW to \in {said[h] + 1, said[h] + 2},
             said' = [said EXCEPT ![h] = to], Callback(Data(h, said[h] + 1, to)),
             StackFrame, UNCHANGED <<radio, flying, heard>>
      PROVE  OrderInv'
  <2>1. h \in Handle /\ h \in 1..opened /\ ~(h > opened)
    BY OpenLink
  <2> DEFINE item == Data(h, said[h] + 1, to)
  <2>2. item \in Work /\ item.handle = h /\ item.kind = "Data"
    BY <2>1, DataIs
  <2> HIDE DEF item
  <2>3. Callback(item)
    BY <1>2 DEF item
  <2>4. Ordered(work', opened) /\ \A g : Opens(work', g) <=> Opens(work, g)
    BY <2>1, <2>2, <2>3, CallbackOrder
  <2>5. \A g \in Handle : g > opened => said'[g] = 0
    BY <1>0, <1>2, <2>1 DEF OrderInv
  <2> QED BY <1>0, <1>2, <2>4, <2>5, OrderStays
<1>3. ASSUME NEW h \in radio, NEW item \in {Closed(h), TooLong(h), Congestion(h, TRUE),
                                            Congestion(h, FALSE)},
             Callback(item), radio' \subseteq radio, StackFrame, UNCHANGED <<said, flying, heard>>
      PROVE  OrderInv'
  <2>1. h \in Handle /\ h \in 1..opened
    BY OpenLink
  <2>2. item \in Work /\ item.handle = h /\ item.kind # "Message" /\ item.kind # "Connected"
    BY <2>1, StackItems
  <2>4. Ordered(work', opened) /\ \A g : Opens(work', g) <=> Opens(work, g)
    BY <1>3, <2>1, <2>2, CallbackOrder
  <2>5. \A g \in Handle : g > opened => said'[g] = 0
    BY <1>3 DEF OrderInv
  <2> QED BY <1>0, <1>3, <2>4, <2>5, OrderStays
<1>4. CASE WriteCompletes
  <2> DEFINE w == Head(flying)
             h == w.handle
  <2>1. /\ flying # <<>> /\ flying' = Tail(flying) /\ w \in FlyingWrite /\ h \in Handle
        /\ StackFrame /\ UNCHANGED <<said, radio>>
        /\ heard' = [heard EXCEPT ![h] = Append(@, w.chunk)] \/ heard' = heard
        /\ (\E a, b \in BOOLEAN : Callback(WriteDone(h, a, b))) \/ UNCHANGED queueVars
    BY <1>4, CompletesShape
  <2>2. 1 \in Places(flying) /\ flying[1] = w
        /\ \A i \in Places(flying') : flying'[i] = flying[i + 1] /\ i + 1 \in Places(flying)
    BY <1>0, <2>1, TailPlaces
  <2>3. ~Unserved(h)
    BY <1>0, <2>1, <2>2
  <2>4. h \in 1..opened
    BY <1>0, <2>1, <2>3 DEF Unserved, Handle
  <2>5. Ordered(work', opened) /\ \A g : Opens(work', g) <=> Opens(work, g)
    <3>1. CASE UNCHANGED queueVars
      BY <3>1 DEF queueVars, OrderInv
    <3>2. ASSUME NEW a \in BOOLEAN, NEW b \in BOOLEAN, Callback(WriteDone(h, a, b))
          PROVE  Ordered(work', opened) /\ \A g : Opens(work', g) <=> Opens(work, g)
      <4>1. WriteDone(h, a, b) \in Work /\ WriteDone(h, a, b).kind = "WriteDone"
            /\ WriteDone(h, a, b).handle = h
        BY <2>1, DoneIs
      <4> QED BY <2>4, <3>2, <4>1, CallbackOrder
    <3> QED BY <2>1, <3>1, <3>2
  <2> HIDE DEF w, h
  <2>6. ASSUME NEW g \in Handle, Unserved(g)
        PROVE  heard'[g] = <<>> /\ \A i \in Places(flying') : flying'[i].handle # g
    <3>1. g # h
      BY <2>3, <2>6
    <3>2. heard'[g] = heard[g]
      BY <1>0, <2>1, <3>1
    <3> QED BY <1>0, <2>2, <2>6, <3>2
  <2>7. \A g \in Handle : g > opened => said'[g] = 0
    BY <2>1 DEF OrderInv
  <2> QED BY <2>1, <2>5, <2>6, <2>7, OrderStays
<1> QED BY <1>0, <1>1, <1>2, <1>3, <1>4, StackShape

\* What the foot of the loop does with the connection and the flying writes.
LEMMA WriteDoes ==
  ASSUME NEW c, NEW busy, NEW cong, NEW frames, NEW hungUp, Write(c, busy, cong, frames, hungUp)
  PROVE  \/ /\ ~MayWrite(c, busy, cong, frames)
            /\ connection' = c /\ writePending' = busy /\ pending' = frames /\ flying' = flying
         \/ /\ MayWrite(c, busy, cong, frames)
            /\ flying' = Append(flying, [handle |-> c,
                 chunk |-> [message |-> Head(frames).message, part |-> 3 - Head(frames).left]])
            /\ pending' = Drained(frames) /\ connection' = c /\ writePending' = TRUE
         \/ /\ connection' = 0 /\ pending' = <<>> /\ writePending' = busy /\ flying' = flying
            /\ c # 0
  BY DEF Write, MayWrite

\* What is common to the steps of the worker: it takes at most one item, and it serves
\* its connection, the link whose Connected it takes, or none.
LEMMA WorkerShape ==
  ASSUME TypeOK, OrderInv, Worker
  PROVE  \E c \in 0..MaxLinks :
           /\ connection' \in {0, c}
           /\ flying' = flying \/ (c # 0 /\ \E k : flying' = Append(flying, [handle |-> c, chunk |-> k]))
           /\ c \in {0, connection} \/ (c # 0 /\ work # <<>> /\ Head(work) \in Work
                                         /\ IsKind(Head(work), "Connected", c) /\ work' = Tail(work))
           /\ work' = work \/ (work # <<>> /\ work' = Tail(work))
           /\ obeyed' = obeyed \/ (connection # 0 /\ \E l : obeyed' = [obeyed EXCEPT ![connection] = l])
           /\ UNCHANGED <<radio, opened, said, heard, lost>>
<1> USE DEF writeVars, cacheVars
<1>1. ASSUME NEW c, NEW busy, NEW cong, NEW frames, NEW hungUp, Write(c, busy, cong, frames, hungUp)
      PROVE  /\ connection' \in {0, c}
             /\ flying' = flying
                \/ (c # 0 /\ \E k : flying' = Append(flying, [handle |-> c, chunk |-> k]))
  BY <1>1, WriteDoes DEF MayWrite
<1>2. connection \in 0..MaxLinks /\ 0 \in 0..MaxLinks
  BY ConnectionIs
<1>3. ASSUME NEW kind, Take(kind)
      PROVE  work # <<>> /\ work' = Tail(work) /\ Head(work) \in Work /\ lost' = lost
             /\ Head(work).kind = kind
  BY <1>3, TakeTypes DEF Take
<1>4. CASE WorkerCheck
  BY <1>2, <1>4 DEF WorkerCheck, Resynced
<1>5. CASE OnConnectedTwice
  BY <1>2, <1>3, <1>5 DEF OnConnectedTwice
<1>6. CASE OnConnected
  <2> DEFINE h == Head(work).handle
  <2>1. Take("Connected") /\ Write(h, NotBusy, FALSE, Enqueue(<<>>, Replay), {})
        /\ UNCHANGED <<radio, opened, said, jammed, heard, cacheVars, obeyed, created>>
    BY <1>6 DEF OnConnected
  <2>2. h \in Handle /\ h \in 0..MaxLinks /\ h # 0
    BY <2>1, TakeTypes, ItemFields, ConnectionIs
  <2>3. /\ connection' \in {0, h}
        /\ flying' = flying
           \/ (h # 0 /\ \E k : flying' = Append(flying, [handle |-> h, chunk |-> k]))
    BY <1>1, <2>1
  <2>4. work # <<>> /\ work' = Tail(work) /\ Head(work) \in Work /\ lost' = lost
        /\ IsKind(Head(work), "Connected", h)
    BY <1>3, <2>1 DEF IsKind
  <2> HIDE DEF h
  <2> QED BY <2>1, <2>2, <2>3, <2>4
<1>7. CASE OnClosed
  BY <1>1, <1>2, <1>3, <1>7 DEF OnClosed
<1>8. CASE OnData
  <2>1. Take("Data") /\ Ours /\ UNCHANGED <<radio, opened, said, jammed, heard, cacheVars, created>>
    BY <1>8 DEF OnData
  <2>2. \E frames : Write(connection, writePending, congested, frames, {})
    BY <1>8 DEF OnData
  <2>3. obeyed' = obeyed \/ \E l : obeyed' = [obeyed EXCEPT ![connection] = l]
    BY <1>8, <2>1 DEF OnData, Ours
  <2>4. connection # 0
    BY <2>1, TakeTypes, ItemFields, ConnectionIs DEF Ours
  <2> QED BY <1>1, <1>2, <1>3, <2>1, <2>2, <2>3, <2>4
<1>9. CASE OnTooLong
  BY <1>1, <1>2, <1>3, <1>9 DEF OnTooLong
<1>10. CASE OnWriteDone
  <2>1. Take("WriteDone") /\ UNCHANGED <<radio, opened, said, heard, obeyed>>
    BY <1>10 DEF OnWriteDone
  <2>2. \/ Write(connection, FALSE, Head(work).cong, pending, {})
        \/ Write(0, writePending, congested, <<>>, {connection})
    BY <1>10 DEF OnWriteDone
  <2> QED BY <1>1, <1>2, <1>3, <2>1, <2>2
<1>11. CASE OnCongestion
  BY <1>1, <1>2, <1>3, <1>11 DEF OnCongestion
<1>12. CASE OnMessage
  <2>1. Take("Message") /\ UNCHANGED <<radio, opened, said, heard, obeyed>>
    BY <1>12 DEF OnMessage
  <2>2. (\E frames : Write(connection, writePending, congested, frames, {})) \/ UNCHANGED writeVars
    BY <1>12 DEF OnMessage
  <2> QED BY <1>1, <1>2, <1>3, <2>1, <2>2
<1>13. CASE OnStale
  <2>1. \E kind : Take(kind)
    BY <1>13 DEF OnStale
  <2>2. Write(connection, writePending, congested, pending, {})
        /\ UNCHANGED <<radio, opened, said, heard, obeyed>>
    BY <1>13 DEF OnStale
  <2> QED BY <1>1, <1>2, <1>3, <2>1, <2>2
<1> QED BY <1>4, <1>5, <1>6, <1>7, <1>8, <1>9, <1>10, <1>11, <1>12, <1>13 DEF Worker

LEMMA OrderWorker ==
  ASSUME TypeOK, OrderInv, Worker
  PROVE  OrderInv'
<1>0. PICK c \in 0..MaxLinks :
           /\ connection' \in {0, c}
           /\ flying' = flying \/ (c # 0 /\ \E k : flying' = Append(flying, [handle |-> c, chunk |-> k]))
           /\ c \in {0, connection} \/ (c # 0 /\ work # <<>> /\ Head(work) \in Work
                                         /\ IsKind(Head(work), "Connected", c) /\ work' = Tail(work))
           /\ work' = work \/ (work # <<>> /\ work' = Tail(work))
           /\ obeyed' = obeyed \/ (connection # 0 /\ \E l : obeyed' = [obeyed EXCEPT ![connection] = l])
           /\ UNCHANGED <<radio, opened, said, heard, lost>>
  BY WorkerShape
<1>1. work \in Seq(Work) /\ opened \in Nat /\ Ordered(work, opened) /\ flying \in Seq(FlyingWrite)
      /\ obeyed \in [Handle -> Seq(Seq(Nat))]
  BY OpenedIs, TypeFacts DEF OrderInv
<1>2. Ordered(work', opened) /\ \A h : Opens(work', h) => Opens(work, h)
  BY <1>0, <1>1, OrderedTail
<1>3. \A h \in Handle : Unserved(h)' => Unserved(h)
  BY <1>0, <1>2 DEF Unserved
<1>4. c # 0 => ~Unserved(c)' /\ c \in Handle
  <2>1. CASE c = 0
    BY <2>1
  <2>2. CASE c # 0 /\ c = connection
    <3>1. c \in Handle
      BY <2>2, ConnectionIs
    <3>2. ~Unserved(c)
      BY <2>2, <3>1 DEF OrderInv
    <3> QED BY <1>3, <3>1, <3>2
  <2>3. CASE c # 0 /\ c # connection
    <3>1. work # <<>> /\ Head(work) \in Work /\ IsKind(Head(work), "Connected", c) /\ work' = Tail(work)
      BY <1>0, <2>3
    <3>2. c \in Handle /\ c <= opened /\ ~Opens(work', c)
      BY <1>1, <3>1, ItemFields, OrderedTail DEF IsKind, IsOf
    <3>3. ~(c > opened)
      BY <1>1, <3>2 DEF Handle
    <3> QED BY <1>0, <3>2, <3>3 DEF Unserved
  <2> QED BY <2>1, <2>2, <2>3
<1>5. ASSUME NEW h \in Handle, Unserved(h)'
      PROVE  /\ connection' # h /\ obeyed'[h] = <<>> /\ heard'[h] = <<>>
             /\ \A i \in Places(flying') : flying'[i].handle # h
  <2>1. /\ connection # h /\ obeyed[h] = <<>> /\ heard[h] = <<>>
        /\ \A i \in Places(flying) : flying[i].handle # h
    BY <1>3, <1>5 DEF OrderInv
  <2>2. connection' # h
    BY <1>0, <1>4, <1>5, ConnectionIs
  <2>3. obeyed'[h] = <<>>
    BY <1>0, <1>1, <2>1
  <2>4. ASSUME NEW i \in Places(flying')
        PROVE  flying'[i].handle # h
    <3>1. CASE flying' = flying
      BY <2>1, <3>1
    <3>2. ASSUME NEW k, flying' = Append(flying, [handle |-> c, chunk |-> k]), c # 0
          PROVE  flying'[i].handle # h
      <4> DEFINE x == [handle |-> c, chunk |-> k]
                 S == FlyingWrite \cup {x}
      <4>1. flying \in Seq(S) /\ x \in S /\ x.handle = c
        BY <1>1, SeqMonotonic
      <4> HIDE DEF x, S
      <4>2. /\ Len(Append(flying, x)) = Len(flying) + 1 /\ Append(flying, x)[Len(flying) + 1] = x
            /\ \A j \in 1..Len(flying) : Append(flying, x)[j] = flying[j]
        BY <4>1, AppendProperties
      <4>3. Len(flying) \in Nat
        BY <4>1, LenProperties
      <4>4. i \in Places(flying) \/ i = Len(flying) + 1
        BY <3>2, <4>2, <4>3 DEF Places, x
      <4> QED BY <1>4, <1>5, <2>1, <3>2, <4>1, <4>2, <4>4 DEF Places, x
    <3> QED BY <1>0, <3>1, <3>2
  <2> QED BY <1>0, <2>1, <2>2, <2>3, <2>4
<1>6. Ordered(work, opened)'
  BY <1>0, <1>2 DEF Ordered
<1> QED BY <1>0, <1>5, <1>6 DEF OrderInv

LEMMA OrderNext ==
  ASSUME TypeOK, OrderInv, [Next]_vars
  PROVE  OrderInv'
<1>1. CASE UNCHANGED vars
  <2>1. UNCHANGED <<radio, opened, said, connection, obeyed, heard, flying, work>>
    BY <1>1 DEF vars, linkVars, queueVars, writeVars
  <2>2. \A h : Unserved(h)' <=> Unserved(h)
    BY <2>1 DEF Unserved, Opens
  <2> QED BY <2>1, <2>2 DEF OrderInv, Ordered
<1>2. ASSUME NEW about \in Subject, SenderSends(about)
      PROVE  OrderInv'
  <2> DEFINE m == [about |-> about, n |-> created + 1]
             item == Outbound(m)
  <2>1. item \in Work /\ item.kind = "Message"
    <3>1. created \in Nat
      BY TypeFacts
    <3> QED BY <3>1 DEF Message, Outbound, Work
  <2>2. work' = Append(work, item) /\ UNCHANGED <<radio, opened, said, connection, obeyed, heard, flying>>
    BY <1>2 DEF SenderSends, linkVars, writeVars
  <2> HIDE DEF item
  <2>3. Ordered(work', opened) /\ \A h : Opens(work', h) <=> Opens(work, h)
    <3>1. work \in Seq(Work) /\ opened \in Nat /\ Ordered(work, opened)
      BY OpenedIs DEF OrderInv
    <3>2. Ordered(Append(work, item), opened)
      BY <2>1, <3>1, OrderedAppend
    <3>3. \A h : Opens(Append(work, item), h) <=> Opens(work, h)
      BY <2>1, <3>1, OpensAppend DEF IsKind
    <3> QED BY <2>2, <3>2, <3>3
  <2>4. \A h \in Handle : h > opened => said'[h] = 0
    BY <2>2 DEF OrderInv
  <2>5. \A h \in Handle : Unserved(h) =>
            heard'[h] = <<>> /\ \A i \in Places(flying') : flying'[i].handle # h
    BY <2>2 DEF OrderInv
  <2>6. radio' \subseteq radio /\ UNCHANGED <<opened, connection, obeyed>>
    BY <2>2
  <2> QED BY <2>3, <2>4, <2>5, <2>6, OrderStays
<1> QED BY <1>1, <1>2, OrderStack, OrderWorker DEF Next

LEMMA OrderInit == Init => OrderInv
<1> SUFFICES ASSUME Init PROVE OrderInv
  OBVIOUS
<1>1. work = <<>> /\ flying = <<>> /\ radio = {} /\ connection = 0
      /\ \A h \in Handle : said[h] = 0 /\ obeyed[h] = <<>> /\ heard[h] = <<>>
  BY DEF Init
<1>2. Places(work) = {} /\ Places(flying) = {}
  BY <1>1 DEF Places
<1>3. \A h \in Handle : h # 0
  BY DEF Handle
<1> QED BY <1>1, <1>2, <1>3 DEF OrderInv, Ordered

-----------------------------------------------------------------------------
(* The lines. *)

\* The data items of link h in w carry its pieces from e to s, in order.
Runs(w, h, e, s) ==
  /\ e <= s + 1
  /\ \A i \in Places(w) : IsKind(w[i], "Data", h) =>
       e <= w[i].from /\ w[i].to <= s /\ w[i].to \in {w[i].from, w[i].from + 1}
  /\ \A i, j \in Places(w) :
       i < j /\ IsKind(w[i], "Data", h) /\ IsKind(w[j], "Data", h) => w[i].to < w[j].from
  /\ \A p \in e..s : \E i \in Places(w) : IsKind(w[i], "Data", h) /\ p \in w[i].from..w[i].to

Expected(h) == 2 * Len(obeyed[h]) + Len(framer) + 1

\* Of a link that is served and of which no callback was lost before, the framer holds
\* the start of the line after those obeyed, and the queue holds what follows.  Once a
\* callback is lost, the worker takes at most one more item before it sees the flag,
\* the one that was first in the full queue.
LinesInv ==
  /\ LinesAreWhole
  /\ \A h \in Handle \ lost : Opens(work, h) => Runs(work, h, 1, said[h])
  /\ connection \in Handle \ lost =>
       /\ framer \in {<<>>, <<2 * Len(obeyed[connection]) + 1>>}
       /\ ~overflow => Runs(work, connection, Expected(connection), said[connection])
       /\ overflow /\ checked =>
            /\ work # <<>>
            /\ IsKind(Head(work), "Data", connection) =>
                 /\ Head(work).from = Expected(connection)
                 /\ Head(work).to \in {Head(work).from, Head(work).from + 1}

LEMMA DataTypesOf ==
  ASSUME NEW w \in Seq(Work), NEW i \in Places(w), NEW h, IsKind(w[i], "Data", h)
  PROVE  w[i].from \in Nat /\ w[i].to \in Nat
<1>1. w[i] \in Work
  BY ElementOfSeq DEF Places
<1> QED BY <1>1, ItemFields DEF IsKind

LEMMA RunsAppendOther ==
  ASSUME NEW w \in Seq(Work), NEW item \in Work, NEW h, NEW e, NEW s,
         ~IsKind(item, "Data", h), Runs(w, h, e, s)
  PROVE  Runs(Append(w, item), h, e, s)
<1> DEFINE a == Append(w, item)
<1>1. /\ Places(a) = Places(w) \cup {Len(w) + 1} /\ a[Len(w) + 1] = item
      /\ \A i \in Places(w) : a[i] = w[i]
  BY AppendItem
<1> HIDE DEF a
<1>2. \A i \in Places(a) : IsKind(a[i], "Data", h) => i \in Places(w) /\ a[i] = w[i]
  BY <1>1
<1>3. \A i \in Places(w) : i \in Places(a) /\ a[i] = w[i]
  BY <1>1
<1>4. e <= s + 1
  BY DEF Runs
<1>5. \A i \in Places(a) : IsKind(a[i], "Data", h) =>
       e <= a[i].from /\ a[i].to <= s /\ a[i].to \in {a[i].from, a[i].from + 1}
  BY <1>2 DEF Runs
<1>6. \A i, j \in Places(a) :
       i < j /\ IsKind(a[i], "Data", h) /\ IsKind(a[j], "Data", h) => a[i].to < a[j].from
  BY <1>2 DEF Runs
<1>7. \A p \in e..s : \E i \in Places(a) : IsKind(a[i], "Data", h) /\ p \in a[i].from..a[i].to
  BY <1>3 DEF Runs
<1> QED BY <1>4, <1>5, <1>6, <1>7 DEF Runs, a

LEMMA RunsAppend ==
  ASSUME NEW w \in Seq(Work), NEW item \in Work, NEW h, NEW e \in Nat, NEW s \in Nat,
         IsKind(item, "Data", h), item.from = s + 1, item.to \in {s + 1, s + 2}, Runs(w, h, e, s)
  PROVE  Runs(Append(w, item), h, e, item.to)
<1> DEFINE a == Append(w, item)
           t == item.to
           n == Len(w) + 1
<1>1. /\ Places(a) = Places(w) \cup {n} /\ a[n] = item /\ n \in Nat
      /\ \A i \in Places(w) : a[i] = w[i] /\ i \in Nat /\ i < n
  BY AppendItem
<1>0. t \in Nat /\ s <= t /\ t \in {s + 1, s + 2} /\ item.from = s + 1 /\ item.to = t
  OBVIOUS
<1> HIDE DEF a, t, n
<1>2. e <= s + 1
  BY DEF Runs
<1>3. ASSUME NEW i \in Places(w), IsKind(w[i], "Data", h)
      PROVE  /\ w[i].from \in Nat /\ w[i].to \in Nat /\ e <= w[i].from /\ w[i].to <= s
             /\ w[i].to \in {w[i].from, w[i].from + 1} /\ w[i].to <= t /\ w[i].to < s + 1
  <2>1. w[i].from \in Nat /\ w[i].to \in Nat
    BY <1>3, DataTypesOf
  <2>2. e <= w[i].from /\ w[i].to <= s /\ w[i].to \in {w[i].from, w[i].from + 1}
    BY <1>3 DEF Runs
  <2> QED BY <1>0, <2>1, <2>2
<1>4. ASSUME NEW i \in Places(a), IsKind(a[i], "Data", h)
      PROVE  e <= a[i].from /\ a[i].to <= t /\ a[i].to \in {a[i].from, a[i].from + 1}
  <2>1. CASE i \in Places(w)
    BY <1>1, <1>3, <1>4, <2>1
  <2>2. CASE i = n
    <3>1. a[i] = item
      BY <1>1, <2>2
    <3>2. e <= s + 1 /\ t <= t /\ t \in {s + 1, (s + 1) + 1}
      BY <1>0, <1>2
    <3> QED BY <1>0, <3>1, <3>2
  <2> QED BY <1>1, <2>1, <2>2
<1>5. ASSUME NEW i \in Places(a), NEW j \in Places(a), i < j, IsKind(a[i], "Data", h),
             IsKind(a[j], "Data", h)
      PROVE  a[i].to < a[j].from
  <2>1. CASE i \in Places(w) /\ j \in Places(w)
    BY <1>1, <1>5, <2>1 DEF Runs
  <2>2. CASE i \in Places(w) /\ j = n
    BY <1>0, <1>1, <1>3, <1>5, <2>2
  <2>3. CASE i = n
    BY <1>1, <1>5, <2>3
  <2> QED BY <1>1, <2>1, <2>2, <2>3
<1>6. ASSUME NEW p \in e..t
      PROVE  \E i \in Places(a) : IsKind(a[i], "Data", h) /\ p \in a[i].from..a[i].to
  <2>1. CASE p \in e..s
    <3>1. \E i \in Places(w) : IsKind(w[i], "Data", h) /\ p \in w[i].from..w[i].to
      BY <2>1 DEF Runs
    <3> QED BY <1>1, <3>1
  <2>2. CASE ~(p \in e..s)
    <3>1. p \in (s + 1)..t
      BY <1>0, <2>2
    <3> QED BY <1>0, <1>1, <3>1
  <2> QED BY <2>1, <2>2
<1>7. e <= t + 1
  BY <1>0, <1>2
<1> QED BY <1>4, <1>5, <1>6, <1>7 DEF Runs, a, t

LEMMA RunsTailOther ==
  ASSUME NEW w \in Seq(Work), w # <<>>, NEW h, NEW e, NEW s,
         ~IsKind(Head(w), "Data", h), Runs(w, h, e, s)
  PROVE  Runs(Tail(w), h, e, s)
<1> DEFINE t == Tail(w)
<1>1. /\ \A i \in Places(t) : t[i] = w[i + 1] /\ i + 1 \in Places(w) /\ i \in Nat
      /\ \A j \in Places(w) : j = 1 \/ (j - 1 \in Places(t) /\ t[j - 1] = w[j])
      /\ w[1] = Head(w)
  BY TailItem
<1> HIDE DEF t
<1>2. \A i, j \in Places(t) : i < j => i + 1 < j + 1
  BY <1>1
<1>3. e <= s + 1
  BY DEF Runs
<1>4. \A i \in Places(t) : IsKind(t[i], "Data", h) =>
       e <= t[i].from /\ t[i].to <= s /\ t[i].to \in {t[i].from, t[i].from + 1}
  BY <1>1 DEF Runs
<1>5. \A i, j \in Places(t) :
       i < j /\ IsKind(t[i], "Data", h) /\ IsKind(t[j], "Data", h) => t[i].to < t[j].from
  BY <1>1, <1>2 DEF Runs
<1>6. ASSUME NEW p \in e..s
      PROVE  \E i \in Places(t) : IsKind(t[i], "Data", h) /\ p \in t[i].from..t[i].to
  <2>1. PICK j \in Places(w) : IsKind(w[j], "Data", h) /\ p \in w[j].from..w[j].to
    BY DEF Runs
  <2>2. j # 1
    BY <1>1, <2>1
  <2>3. j - 1 \in Places(t) /\ t[j - 1] = w[j]
    BY <1>1, <2>2
  <2> QED BY <2>1, <2>3
<1> QED BY <1>3, <1>4, <1>5, <1>6 DEF Runs, t

LEMMA RunsTail ==
  ASSUME NEW w \in Seq(Work), w # <<>>, NEW h, NEW e \in Nat, NEW s \in Nat,
         IsKind(Head(w), "Data", h), Runs(w, h, e, s)
  PROVE  /\ Head(w).from = e /\ Head(w).to \in {Head(w).from, Head(w).from + 1}
         /\ Runs(Tail(w), h, Head(w).to + 1, s)
<1> DEFINE t == Tail(w)
           f == Head(w).from
           l == Head(w).to
<1>1. /\ \A i \in Places(t) : t[i] = w[i + 1] /\ i + 1 \in Places(w) /\ i \in Nat /\ i > 0
      /\ \A j \in Places(w) : j = 1 \/ (j - 1 \in Places(t) /\ t[j - 1] = w[j] /\ j \in Nat)
      /\ 1 \in Places(w) /\ w[1] = Head(w)
  BY TailItem
<1>2. f \in Nat /\ l \in Nat /\ IsKind(w[1], "Data", h) /\ w[1].from = f /\ w[1].to = l
  BY <1>1, DataTypesOf
<1> HIDE DEF t, f, l
<1>3. e <= f /\ l <= s /\ l \in {f, f + 1}
  BY <1>1, <1>2 DEF Runs
<1>4. ASSUME NEW i \in Places(w), i # 1, IsKind(w[i], "Data", h)
      PROVE  l < w[i].from /\ w[i].from \in Nat /\ w[i].to \in Nat /\ 1 < i
  <2>1. 1 < i
    BY <1>4 DEF Places
  <2>2. l < w[i].from
    BY <1>1, <1>2, <1>4, <2>1 DEF Runs
  <2> QED BY <1>4, <2>1, <2>2, DataTypesOf
<1>5. f = e
  <2>1. e \in e..s
    BY <1>2, <1>3
  <2>2. PICK i \in Places(w) : IsKind(w[i], "Data", h) /\ e \in w[i].from..w[i].to
    BY <2>1 DEF Runs
  <2>3. CASE i = 1
    BY <1>2, <1>3, <2>2, <2>3
  <2>4. CASE i # 1
    <3>1. l < w[i].from /\ w[i].from \in Nat /\ w[i].from <= e
      BY <1>4, <2>2, <2>4
    <3> QED BY <1>2, <1>3, <3>1
  <2> QED BY <2>3, <2>4
<1>6. l + 1 <= s + 1
  BY <1>2, <1>3
<1>7. ASSUME NEW i \in Places(t), IsKind(t[i], "Data", h)
      PROVE  l + 1 <= t[i].from /\ t[i].to <= s /\ t[i].to \in {t[i].from, t[i].from + 1}
  <2>1. t[i] = w[i + 1] /\ i + 1 \in Places(w) /\ i + 1 # 1
    BY <1>1
  <2>2. l < t[i].from /\ t[i].from \in Nat
    BY <1>4, <1>7, <2>1
  <2>3. t[i].to <= s /\ t[i].to \in {t[i].from, t[i].from + 1}
    BY <1>7, <2>1 DEF Runs
  <2> QED BY <1>2, <2>2, <2>3
<1>8. ASSUME NEW i \in Places(t), NEW j \in Places(t), i < j, IsKind(t[i], "Data", h),
             IsKind(t[j], "Data", h)
      PROVE  t[i].to < t[j].from
  <2>1. i + 1 < j + 1
    BY <1>1, <1>8
  <2> QED BY <1>1, <1>8, <2>1 DEF Runs
<1>9. ASSUME NEW p \in (l + 1)..s
      PROVE  \E i \in Places(t) : IsKind(t[i], "Data", h) /\ p \in t[i].from..t[i].to
  <2>1. p \in e..s /\ ~(p <= l)
    BY <1>2, <1>3, <1>5
  <2>2. PICK j \in Places(w) : IsKind(w[j], "Data", h) /\ p \in w[j].from..w[j].to
    BY <2>1 DEF Runs
  <2>3. j # 1
    BY <1>2, <2>1, <2>2
  <2>4. j - 1 \in Places(t) /\ t[j - 1] = w[j]
    BY <1>1, <2>3
  <2> QED BY <2>2, <2>4
<1>10. Runs(t, h, l + 1, s)
  BY <1>6, <1>7, <1>8, <1>9 DEF Runs
<1> QED BY <1>3, <1>5, <1>10 DEF t, f, l

LEMMA RunsNothing ==
  ASSUME NEW w, NEW h, \A i \in Places(w) : ~IsKind(w[i], "Data", h)
  PROVE  Runs(w, h, 1, 0)
<1>1. 1..0 = {}
  OBVIOUS
<1> QED BY <1>1 DEF Runs

LEMMA ExpectedType ==
  ASSUME TypeOK, NEW h \in Handle
  PROVE  Expected(h) \in Nat /\ said[h] \in Nat /\ Len(obeyed[h]) \in Nat /\ Len(framer) \in Nat
<1>1. said[h] \in 0..MaxPieces /\ MaxPieces \in Nat /\ obeyed[h] \in Seq(Seq(Nat))
      /\ framer \in Seq(Nat)
  BY TypeFacts, Bounds
<1>2. Len(obeyed[h]) \in Nat /\ Len(framer) \in Nat
  BY <1>1, LenProperties
<1> QED BY <1>1, <1>2 DEF Expected

\* A step that appends an item or loses it, and that leaves the worker alone.
LEMMA LinesQueued ==
  ASSUME TypeOK, OrderInv, LinesInv, NEW item \in Work,
         \/ work' = Append(work, item) /\ UNCHANGED <<overflow, lost>>
         \/ /\ work' = work /\ overflow' = TRUE /\ work # <<>>
            /\ lost' = lost \cup ({item.handle} \ {connection}),
         UNCHANGED <<connection, checked, framer, obeyed>>,
         \/ /\ \A h \in Handle : ~IsKind(item, "Data", h)
            /\ said' = said
         \/ \E g \in Handle : \E to \in {said[g] + 1, said[g] + 2} :
              /\ said' = [said EXCEPT ![g] = to] /\ IsKind(item, "Data", g)
              /\ item.from = said[g] + 1 /\ item.to = to,
         \A h \in Handle \ lost' : Opens(work', h) => Opens(work, h) \/ Runs(work', h, 1, said'[h])
  PROVE  LinesInv'
<1> DEFINE app == work' = Append(work, item) /\ UNCHANGED <<overflow, lost>>
           full == /\ work' = work /\ overflow' = TRUE /\ work # <<>>
                   /\ lost' = lost \cup ({item.handle} \ {connection})
<1>0. work \in Seq(Work) /\ said \in [Handle -> 0..MaxPieces] /\ (app \/ full)
  BY TypeFacts
<1>1. lost \subseteq lost'
  BY <1>0
\* What one more item does to the pieces of a link.
<1>2. ASSUME NEW h \in Handle, NEW e \in Nat, app, Runs(work, h, e, said[h])
      PROVE  Runs(work', h, e, said'[h])
  <2>1. CASE ~IsKind(item, "Data", h)
    <3>1. said'[h] = said[h]
      <4>1. ASSUME NEW g \in Handle, NEW to, said' = [said EXCEPT ![g] = to], IsKind(item, "Data", g)
            PROVE  said'[h] = said[h]
        BY <1>0, <2>1, <4>1
      <4> QED BY <4>1
    <3> QED BY <1>0, <1>2, <2>1, <3>1, RunsAppendOther
  <2>2. CASE IsKind(item, "Data", h)
    <3>1. PICK g \in Handle : \E to \in {said[g] + 1, said[g] + 2} :
              /\ said' = [said EXCEPT ![g] = to] /\ IsKind(item, "Data", g)
              /\ item.from = said[g] + 1 /\ item.to = to
      BY <2>2
    <3>2. g = h
      BY <2>2, <3>1 DEF IsKind
    <3>3. item.from = said[h] + 1 /\ item.to \in {said[h] + 1, said[h] + 2} /\ said'[h] = item.to
      BY <1>0, <3>1, <3>2
    <3>4. said[h] \in Nat
      BY ExpectedType
    <3> QED BY <1>0, <1>2, <2>2, <3>3, <3>4, RunsAppend
  <2> QED BY <2>1, <2>2
<1>3. LinesAreWhole'
  BY <1>1 DEF LinesInv, LinesAreWhole, WholeLines
<1>4. ASSUME NEW h \in Handle \ lost', Opens(work', h)
      PROVE  Runs(work', h, 1, said'[h])
  <2>1. CASE Opens(work, h)
    <3>1. connection # h /\ Runs(work, h, 1, said[h])
      BY <1>1, <2>1 DEF OrderInv, Unserved, LinesInv
    <3>2. CASE app
      BY <1>2, <3>1, <3>2
    <3>3. CASE full
      <4>1. item.handle # h
        BY <3>1, <3>3
      <4>2. said'[h] = said[h]
        <5>1. ASSUME NEW g \in Handle, NEW to, said' = [said EXCEPT ![g] = to], IsKind(item, "Data", g)
              PROVE  said'[h] = said[h]
          BY <1>0, <4>1, <5>1 DEF IsKind
        <5> QED BY <5>1
      <4> QED BY <3>1, <3>3, <4>2
    <3> QED BY <1>0, <3>2, <3>3
  <2> QED BY <1>4, <2>1
<1>5. ASSUME connection' \in Handle \ lost'
      PROVE  /\ framer' \in {<<>>, <<2 * Len(obeyed'[connection']) + 1>>}
             /\ ~overflow' => Runs(work', connection', Expected(connection)', said'[connection'])
             /\ overflow' /\ checked' =>
                  /\ work' # <<>>
                  /\ IsKind(Head(work'), "Data", connection') =>
                       /\ Head(work').from = Expected(connection)'
                       /\ Head(work').to \in {Head(work').from, Head(work').from + 1}
  <2> DEFINE c == connection
  <2>1. c \in Handle \ lost /\ c \in Handle
    BY <1>1, <1>5
  <2>2. Expected(connection)' = Expected(c) /\ Expected(c) \in Nat /\ said[c] \in Nat
    BY <2>1, ExpectedType DEF Expected
  <2>3. framer' \in {<<>>, <<2 * Len(obeyed'[connection']) + 1>>}
    BY <2>1 DEF LinesInv
  <2>4. ASSUME ~overflow'
        PROVE  Runs(work', c, Expected(c), said'[c])
    <3>1. app /\ ~overflow
      BY <1>0, <2>4
    <3>2. Runs(work, c, Expected(c), said[c])
      BY <2>1, <3>1 DEF LinesInv
    <3> QED BY <1>2, <2>1, <2>2, <3>1, <3>2
  <2>5. ASSUME overflow', checked'
        PROVE  /\ work' # <<>>
               /\ IsKind(Head(work'), "Data", c) =>
                    /\ Head(work').from = Expected(c)
                    /\ Head(work').to \in {Head(work').from, Head(work').from + 1}
    <3>1. CASE overflow
      <4>1. /\ work # <<>>
            /\ IsKind(Head(work), "Data", c) =>
                 Head(work).from = Expected(c) /\ Head(work).to \in {Head(work).from, Head(work).from + 1}
        BY <2>1, <2>5, <3>1 DEF LinesInv
      <4>2. work' # <<>> /\ Head(work') = Head(work)
        <5>1. CASE app
          BY <1>0, <4>1, <5>1, HeadTailAppend, AppendProperties
        <5>2. CASE full
          BY <4>1, <5>2
        <5> QED BY <1>0, <5>1, <5>2
      <4> QED BY <4>1, <4>2
    <3>2. CASE ~overflow
      <4>1. full
        BY <1>0, <2>5, <3>2
      <4>2. Runs(work, c, Expected(c), said[c])
        BY <2>1, <3>2 DEF LinesInv
      <4>3. IsKind(Head(work), "Data", c) =>
              Head(work).from = Expected(c) /\ Head(work).to \in {Head(work).from, Head(work).from + 1}
        BY <1>0, <2>2, <4>1, <4>2, RunsTail
      <4> QED BY <4>1, <4>3
    <3> QED BY <3>1, <3>2
  <2>6. connection' = c
    OBVIOUS
  <2> HIDE DEF c
  <2> QED BY <2>2, <2>3, <2>4, <2>5, <2>6
<1> QED BY <1>3, <1>4, <1>5 DEF LinesInv

LEMMA LinesStack ==
  ASSUME TypeOK, OrderInv, LinesInv, Stack
  PROVE  LinesInv'
<1> USE DEF StackFrame
<1>0. radio \subseteq 1..opened /\ opened \in Nat /\ work \in Seq(Work)
      /\ said \in [Handle -> 0..MaxPieces]
  BY OpenedIs, TypeFacts DEF OrderInv
<1>1. CASE LinkOpens
  <2> DEFINE n == opened + 1
             item == Connected(n)
  <2>1. Callback(item) /\ n \in Handle
        /\ UNCHANGED <<said, connection, checked, framer, obeyed>>
    <3>1. opened \in 0..MaxLinks /\ opened < MaxLinks /\ MaxLinks \in Nat
      BY <1>1, TypeFacts, Bounds DEF LinkOpens
    <3>2. n \in Handle
      BY <3>1 DEF Handle
    <3> QED BY <1>1, <3>2 DEF LinkOpens, writeVars
  <2>2. item \in Work /\ item.kind = "Connected" /\ item.handle = n
    BY <2>1 DEF Connected, Work
  <2>3. n > opened
    BY <1>0
  <2> HIDE DEF item, n
  <2>4. \/ work' = Append(work, item) /\ UNCHANGED <<overflow, lost>>
        \/ /\ work' = work /\ overflow' = TRUE /\ work # <<>>
           /\ lost' = lost \cup ({item.handle} \ {connection})
    BY <2>1, <2>2, CallbackIs
  <2>5. \A h \in Handle : ~IsKind(item, "Data", h)
    BY <2>2 DEF IsKind
  <2>6. ASSUME NEW h \in Handle, Opens(work', h)
        PROVE  Opens(work, h) \/ Runs(work', h, 1, said'[h])
    <3>1. CASE work' = Append(work, item) /\ ~Opens(work, h)
      <4>1. h = n
        BY <1>0, <2>2, <2>6, <3>1, OpensAppend DEF IsKind
      <4>2. said'[h] = 0
        BY <2>1, <2>3, <4>1 DEF OrderInv
      <4>3. ASSUME NEW i \in Places(work), IsKind(work[i], "Data", h)
            PROVE  FALSE
        <5>1. work[i].handle = h /\ work[i].kind # "Message" /\ Ordered(work, opened)
          BY <4>3 DEF IsKind, OrderInv
        <5>2. h <= opened
          BY <5>1 DEF Ordered
        <5> QED BY <1>0, <2>1, <2>3, <4>1, <5>2 DEF Handle
      <4>4. Runs(work, h, 1, 0)
        BY <4>3, RunsNothing
      <4> QED BY <1>0, <2>2, <2>5, <3>1, <4>2, <4>4, RunsAppendOther
    <3> QED BY <2>4, <2>6, <3>1
  <2> QED BY <2>1, <2>2, <2>4, <2>5, <2>6, LinesQueued
<1>2. ASSUME NEW h \in radio, NEW to \in {said[h] + 1, said[h] + 2},
             said' = [said EXCEPT ![h] = to], Callback(Data(h, said[h] + 1, to)),
             StackFrame, UNCHANGED <<radio, flying, heard>>
      PROVE  LinesInv'
  <2> DEFINE item == Data(h, said[h] + 1, to)
  <2>1. h \in Handle /\ h \in 1..opened
    BY OpenLink
  <2>2. item \in Work /\ IsKind(item, "Data", h) /\ item.kind = "Data"
        /\ item.from = said[h] + 1 /\ item.to = to /\ item.handle = h
    BY <2>1, DataIs DEF IsKind
  <2> HIDE DEF item
  <2>3. Callback(item)
    BY <1>2 DEF item
  <2>4. \/ work' = Append(work, item) /\ UNCHANGED <<overflow, lost>>
        \/ /\ work' = work /\ overflow' = TRUE /\ work # <<>>
           /\ lost' = lost \cup ({item.handle} \ {connection})
    BY <2>2, <2>3, CallbackIs
  <2>5. \A g : Opens(work', g) <=> Opens(work, g)
    BY <2>1, <2>2, <2>3, CallbackOrder
  <2> QED BY <1>2, <2>1, <2>2, <2>4, <2>5, LinesQueued
<1>3. ASSUME NEW item \in Work, item.kind \in {"Closed", "TooLong", "Congestion", "WriteDone"},
             item.handle \in 1..opened, Callback(item), StackFrame, said' = said
      PROVE  LinesInv'
  <2>1. \/ work' = Append(work, item) /\ UNCHANGED <<overflow, lost>>
        \/ /\ work' = work /\ overflow' = TRUE /\ work # <<>>
           /\ lost' = lost \cup ({item.handle} \ {connection})
    BY <1>3, CallbackIs
  <2>2. \A g : Opens(work', g) <=> Opens(work, g)
    BY <1>3, CallbackOrder
  <2>3. \A h \in Handle : ~IsKind(item, "Data", h)
    BY <1>3 DEF IsKind
  <2> QED BY <1>3, <2>1, <2>2, <2>3, LinesQueued
<1>4. ASSUME NEW h \in radio, NEW item \in {Closed(h), TooLong(h), Congestion(h, TRUE),
                                            Congestion(h, FALSE)},
             Callback(item), radio' \subseteq radio, StackFrame, UNCHANGED <<said, flying, heard>>
      PROVE  LinesInv'
  <2>1. h \in Handle /\ h \in 1..opened
    BY OpenLink
  <2>2. item \in Work /\ item.handle = h /\ item.kind \in {"Closed", "TooLong", "Congestion"}
    BY <2>1, StackItems
  <2> QED BY <1>3, <1>4, <2>1, <2>2
<1>5. CASE WriteCompletes
  <2> DEFINE h == Head(flying).handle
  <2>1. flying # <<>> /\ h \in Handle /\ StackFrame /\ said' = said
        /\ ((\E a, b \in BOOLEAN : Callback(WriteDone(h, a, b))) \/ UNCHANGED queueVars)
    BY <1>5, CompletesShape
  <2>2. h \in 1..opened
    <3>1. 1 \in Places(flying) /\ flying[1] = Head(flying)
      BY <2>1, OpenedIs, TailPlaces
    <3>2. ~Unserved(h)
      BY <2>1, <3>1 DEF OrderInv
    <3> QED BY <1>0, <2>1, <3>2 DEF Unserved, Handle
  <2>3. ASSUME NEW a \in BOOLEAN, NEW b \in BOOLEAN, Callback(WriteDone(h, a, b))
        PROVE  LinesInv'
    <3>1. WriteDone(h, a, b) \in Work /\ WriteDone(h, a, b).kind = "WriteDone"
          /\ WriteDone(h, a, b).handle = h
      BY <2>1, DoneIs
    <3> QED BY <1>3, <2>1, <2>2, <2>3, <3>1
  <2>4. CASE UNCHANGED queueVars
    <3>1. UNCHANGED <<work, overflow, lost, said, connection, checked, framer, obeyed>>
      BY <2>1, <2>4 DEF queueVars
    <3>2. \A g : Expected(g)' = Expected(g)
      BY <3>1 DEF Expected
    <3> QED BY <3>1, <3>2 DEF LinesInv, LinesAreWhole, WholeLines, Expected
  <2> QED BY <2>1, <2>3, <2>4
<1> QED BY <1>0, <1>1, <1>2, <1>4, <1>5, StackShape

\* What the framer makes of the next piece or two: the first half of a line, or a line
\* and perhaps the first half of the next.
LEMMA PiecesAre ==
  ASSUME NEW f \in Nat, NEW t \in {f, f + 1}, NEW b, b = [i \in 1..(t - f + 1) |-> f + i - 1]
  PROVE  b \in Seq(Nat) /\ Len(b) = t - f + 1 /\ \A i \in 1..(t - f + 1) : b[i] = f + i - 1
<1>1. t \in Nat
  OBVIOUS
<1>2. b \in Seq(Nat) /\ Len(b) = t - f + 1
  BY <1>1, PiecesType
<1> QED BY <1>2

LEMMA NatsJoin ==
  \A s, t \in Seq(Nat) :
    /\ s \o t \in Seq(Nat) /\ Len(s \o t) = Len(s) + Len(t)
    /\ \A i \in 1..Len(s) + Len(t) :
         (s \o t)[i] = IF i <= Len(s) THEN s[i] ELSE t[i - Len(s)]
  BY ConcatProperties

LEMMA BytesAre ==
  ASSUME NEW w \in Work, w.kind = "Data", NEW L \in Nat,
         framer \in {<<>>, <<2 * L + 1>>}, w.from = 2 * L + Len(framer) + 1,
         w.to \in {w.from, w.from + 1}
  PROVE  LET b == Bytes(w)
         IN /\ b \in Seq(Nat) /\ 2 * L + Len(b) = w.to /\ Len(b) \in 1..3
            /\ \A i \in 1..Len(b) : b[i] = 2 * L + i
            /\ Len(framer) \in {0, 1} /\ Len(framer) < Len(b)
<1> DEFINE f == w.from
           t == w.to
           p == [i \in 1..(t - f + 1) |-> f + i - 1]
           b == framer \o p
           k == Len(framer)
<1>1. f \in Nat /\ t \in Nat /\ t \in {f, f + 1} /\ f = 2 * L + k + 1
  BY ItemFields
<1>2. framer \in Seq(Nat) /\ k \in {0, 1} /\ \A i \in 1..k : framer[i] = 2 * L + i
  <2>1. CASE framer = <<>>
    <3>1. Len(<<>>) = 0 /\ <<>> \in Seq(Nat)
      BY EmptySeq
    <3> QED BY <2>1, <3>1
  <2>2. CASE framer = <<2 * L + 1>>
    <3> DEFINE v == 2 * L + 1
    <3>1. v \in Nat
      OBVIOUS
    <3> HIDE DEF v
    <3>2. <<v>> \in Seq(Nat) /\ Len(<<v>>) = 1 /\ <<v>>[1] = v
      BY <3>1
    <3> QED BY <2>2, <3>2 DEF v
  <2> QED BY <2>1, <2>2
<1>3. p \in Seq(Nat) /\ Len(p) = t - f + 1 /\ \A i \in 1..(t - f + 1) : p[i] = f + i - 1
  BY <1>1, PiecesAre
<1> HIDE DEF f, t, p
<1>4. /\ b \in Seq(Nat) /\ Len(b) = Len(framer) + Len(p)
      /\ \A i \in 1..Len(framer) + Len(p) :
           b[i] = IF i <= Len(framer) THEN framer[i] ELSE p[i - Len(framer)]
  BY <1>2, <1>3, NatsJoin
<1> HIDE DEF b, k
<1>5. Len(framer) = k
  BY DEF k
<1>6. 2 * L + Len(b) = t /\ Len(b) \in 1..3 /\ k < Len(b)
  BY <1>1, <1>2, <1>3, <1>4, <1>5
<1>7. ASSUME NEW i \in 1..Len(b)
      PROVE  b[i] = 2 * L + i
  <2>1. CASE i <= k
    BY <1>2, <1>3, <1>4, <1>5, <1>6, <2>1
  <2>2. CASE ~(i <= k)
    <3>1. i - k \in 1..(t - f + 1) /\ b[i] = p[i - k]
      BY <1>1, <1>2, <1>3, <1>4, <1>5, <1>6, <2>2
    <3>2. p[i - k] = f + (i - k) - 1
      BY <1>3, <3>1
    <3> QED BY <1>1, <1>2, <3>1, <3>2
  <2> QED BY <2>1, <2>2
<1>8. Bytes(w) = b
  BY DEF Bytes, b, p, f, t
<1> QED BY <1>2, <1>4, <1>5, <1>6, <1>7, <1>8 DEF t

LEMMA OnlyPiece ==
  ASSUME NEW b \in Seq(Nat), NEW v \in Nat, Len(b) = 1, b[1] = v
  PROVE  b = <<v>>
<1>1. <<v>> \in Seq(Nat) /\ Len(<<v>>) = 1 /\ <<v>>[1] = v
  OBVIOUS
<1> QED BY <1>1, SeqEqual

LEMMA TwoPieces ==
  ASSUME NEW b \in Seq(Nat), NEW v \in Nat, NEW u \in Nat, Len(b) = 2, b[1] = v, b[2] = u
  PROVE  b = <<v, u>>
<1>1. <<v, u>> \in Seq(Nat) /\ Len(<<v, u>>) = 2 /\ <<v, u>>[1] = v /\ <<v, u>>[2] = u
  OBVIOUS
<1> DEFINE c == <<v, u>>
<1>2. c \in Seq(Nat) /\ Len(c) = Len(b) /\ \A i \in 1..Len(b) : b[i] = c[i]
  BY <1>1
<1> HIDE DEF c
<1>3. b = c
  BY <1>2, SeqEqual
<1> QED BY <1>3 DEF c

LEMMA ParityOf ==
  \A L \in Nat : \A i \in {1, 2, 3} : ((2 * L + i) % 2 = 0 <=> i = 2)
  OBVIOUS

LEMMA FramerPushes ==
  ASSUME TypeOK, NEW w \in Work, w.kind = "Data", NEW L \in Nat,
         framer \in {<<>>, <<2 * L + 1>>}, w.from = 2 * L + Len(framer) + 1,
         w.to \in {w.from, w.from + 1}
  PROVE  LET b == Bytes(w)
         IN /\ Ends(w) = {} => b \in {<<>>, <<2 * L + 1>>} /\ 2 * L + Len(b) = w.to
            /\ \A e \in Ends(w) :
                 /\ SubSeq(b, 1, e) = <<2 * L + 1, 2 * L + 2>>
                 /\ SubSeq(b, e + 1, Len(b)) \in {<<>>, <<2 * (L + 1) + 1>>}
                 /\ 2 * (L + 1) + Len(SubSeq(b, e + 1, Len(b))) = w.to
<1> DEFINE b == Bytes(w)
           n == Len(b)
           k == Len(framer)
<1>1. /\ b \in Seq(Nat) /\ 2 * L + n = w.to /\ n \in 1..3 /\ k \in {0, 1} /\ k < n
      /\ \A i \in 1..n : b[i] = 2 * L + i
  BY BytesAre
<1>2. Ends(w) = {i \in (k + 1)..n : b[i] % 2 = 0}
  BY DEF Ends
<1> HIDE DEF b, n, k
<1>3. \A i \in (k + 1)..n : b[i] % 2 = 0 <=> i = 2
  <2> TAKE i \in (k + 1)..n
  <2>1. i \in {1, 2, 3} /\ i \in 1..n
    BY <1>1
  <2>2. b[i] = 2 * L + i
    BY <1>1, <2>1
  <2>3. (2 * L + i) % 2 = 0 <=> i = 2
    BY <2>1, ParityOf
  <2> QED BY <2>2, <2>3
<1>4. \A e \in Ends(w) : e = 2 /\ n >= 2
  BY <1>1, <1>2, <1>3
<1>5. n >= 2 => 2 \in Ends(w)
  BY <1>1, <1>2, <1>3
<1>6. ASSUME Ends(w) = {}
      PROVE  b \in {<<>>, <<2 * L + 1>>} /\ 2 * L + n = w.to
  <2>1. n = 1
    BY <1>1, <1>5, <1>6
  <2>2. b = <<2 * L + 1>>
    BY <1>1, <2>1, OnlyPiece DEF n
  <2> QED BY <1>1, <2>2
<1>7. ASSUME NEW e \in Ends(w)
      PROVE  /\ SubSeq(b, 1, e) = <<2 * L + 1, 2 * L + 2>>
             /\ SubSeq(b, e + 1, n) \in {<<>>, <<2 * (L + 1) + 1>>}
             /\ 2 * (L + 1) + Len(SubSeq(b, e + 1, n)) = w.to
  <2>1. e = 2 /\ n \in {2, 3}
    BY <1>1, <1>4
  <2> DEFINE s == SubSeq(b, 1, 2)
             r == SubSeq(b, 3, n)
  <2>2. \A i \in 1..n : b[i] \in Nat
    BY <1>1
  <2>3. s \in Seq(Nat) /\ Len(s) = 2 /\ s[1] = b[1] /\ s[2] = b[2]
    BY <1>1, <2>1, <2>2, SubSeqProperties DEF n
  <2>4. s = <<2 * L + 1, 2 * L + 2>>
    <3>1. s[1] = 2 * L + 1 /\ s[2] = 2 * L + 2
      BY <1>1, <2>1, <2>3
    <3> HIDE DEF s
    <3> QED BY <2>3, <3>1, TwoPieces
  <2>5. CASE n = 2
    <3>1. r = <<>>
      BY <1>1, <2>5, SubSeqProperties DEF n
    <3>2. Len(<<>>) = 0
      BY EmptySeq
    <3> QED BY <1>1, <2>1, <2>4, <2>5, <3>1, <3>2
  <2>6. CASE n = 3
    <3>1. r \in Seq(Nat) /\ Len(r) = 1 /\ r[1] = b[3]
      BY <1>1, <2>2, <2>6, SubSeqProperties DEF n
    <3>2. b[3] = 2 * (L + 1) + 1
      BY <1>1, <2>6
    <3> HIDE DEF r
    <3>3. r = <<2 * (L + 1) + 1>>
      BY <3>1, <3>2, OnlyPiece
    <3> QED BY <1>1, <2>1, <2>4, <2>6, <3>1, <3>3 DEF r
  <2> QED BY <2>1, <2>5, <2>6
<1> QED BY <1>6, <1>7 DEF b, n

\* Taking an item that is not data of the connection, and not the Connected it accepts.
LEMMA LinesTake ==
  ASSUME TypeOK, OrderInv, LinesInv, work # <<>>, work' = Tail(work), checked' = FALSE,
         UNCHANGED <<overflow, lost, said, obeyed>>, connection' \in {0, connection},
         connection' # 0 => framer' = framer /\ ~IsKind(Head(work), "Data", connection)
  PROVE  LinesInv'
<1>0. work \in Seq(Work) /\ opened \in Nat /\ Ordered(work, opened)
  BY OpenedIs DEF OrderInv
<1>1. LinesAreWhole'
  BY DEF LinesInv, LinesAreWhole, WholeLines
<1>2. ASSUME NEW h \in Handle \ lost, Opens(work', h)
      PROVE  Runs(work', h, 1, said'[h])
  <2>1. Opens(work, h) /\ ~IsOf(Head(work), h)
    BY <1>0, <1>2, OrderedTail
  <2>2. Runs(work, h, 1, said[h]) /\ ~IsKind(Head(work), "Data", h)
    BY <2>1 DEF LinesInv, IsKind, IsOf
  <2> QED BY <1>0, <2>2, RunsTailOther
<1>3. ASSUME connection' \in Handle \ lost'
      PROVE  /\ framer' \in {<<>>, <<2 * Len(obeyed'[connection']) + 1>>}
             /\ ~overflow' => Runs(work', connection', Expected(connection)', said'[connection'])
  <2>1. connection' = connection /\ framer' = framer /\ ~IsKind(Head(work), "Data", connection)
        /\ connection \in Handle \ lost
    BY <1>3, ConnectionIs
  <2>2. Expected(connection)' = Expected(connection)
    BY <2>1 DEF Expected
  <2>3. ~overflow => Runs(work, connection, Expected(connection), said[connection])
    BY <2>1 DEF LinesInv
  <2>4. ~overflow => Runs(Tail(work), connection, Expected(connection), said[connection])
    BY <1>0, <2>1, <2>3, RunsTailOther
  <2>5. framer \in {<<>>, <<2 * Len(obeyed[connection]) + 1>>}
    BY <2>1 DEF LinesInv
  <2> QED BY <2>1, <2>2, <2>4, <2>5
<1> QED BY <1>1, <1>2, <1>3 DEF LinesInv

LEMMA LinesConnected ==
  ASSUME TypeOK, OrderInv, LinesInv, OnConnected
  PROVE  LinesInv'
<1> DEFINE h == Head(work).handle
<1>0. /\ Take("Connected") /\ framer' = <<>> /\ connection' \in {0, h} /\ work # <<>>
      /\ work' = Tail(work) /\ checked' = FALSE
      /\ UNCHANGED <<overflow, lost, said, obeyed>>
  <2>1. Take("Connected") /\ framer' = <<>> /\ Write(h, NotBusy, FALSE, Enqueue(<<>>, Replay), {})
        /\ UNCHANGED <<said, obeyed>>
    BY DEF OnConnected, Cleared
  <2> QED BY <2>1, WriteDoes DEF Take
<1>1. work \in Seq(Work) /\ opened \in Nat /\ Ordered(work, opened) /\ Head(work) \in Work
      /\ IsKind(Head(work), "Connected", h) /\ h \in Handle /\ 1 \in Places(work)
      /\ work[1] = Head(work)
  BY <1>0, OpenedIs, TakeTypes, ItemFields, TailItem DEF OrderInv, IsKind
<1> HIDE DEF h
<1>2. LinesAreWhole'
  BY <1>0 DEF LinesInv, LinesAreWhole, WholeLines
<1>3. ASSUME NEW g \in Handle \ lost, Opens(work', g)
      PROVE  Runs(work', g, 1, said'[g])
  <2>1. Opens(work, g) /\ ~IsOf(Head(work), g)
    BY <1>0, <1>1, <1>3, OrderedTail
  <2>2. Runs(work, g, 1, said[g]) /\ ~IsKind(Head(work), "Data", g)
    BY <2>1 DEF LinesInv, IsKind, IsOf
  <2> QED BY <1>0, <1>1, <2>2, RunsTailOther
<1>4. ASSUME connection' \in Handle \ lost'
      PROVE  Runs(work', connection', Expected(connection)', said'[connection'])
  <2>1. connection' = h /\ h \notin lost
    BY <1>0, <1>4, ConnectionIs
  <2>2. Opens(work, h)
    BY <1>1 DEF Opens
  <2>3. obeyed[h] = <<>> /\ Runs(work, h, 1, said[h])
    BY <1>1, <2>1, <2>2 DEF OrderInv, Unserved, LinesInv
  <2>4. Runs(work', h, 1, said[h])
    BY <1>0, <1>1, <2>3, RunsTailOther DEF IsKind
  <2>5. Expected(connection)' = 1
    <3>1. Len(<<>>) = 0
      BY EmptySeq
    <3> QED BY <1>0, <2>1, <2>3, <3>1 DEF Expected
  <2> QED BY <1>0, <2>1, <2>4, <2>5
<1>5. connection' \in Handle \ lost' => framer' \in {<<>>, <<2 * Len(obeyed'[connection']) + 1>>}
  BY <1>0
<1> QED BY <1>0, <1>2, <1>3, <1>4, <1>5 DEF LinesInv

WholeSeq(o) == o = [i \in 1..Len(o) |-> <<2 * i - 1, 2 * i>>]

LEMMA LinesData ==
  ASSUME TypeOK, OrderInv, LinesInv, OnData
  PROVE  LinesInv'
<1> DEFINE w == Head(work)
           c == connection
           b == Bytes(w)
<1>0. /\ Take("Data") /\ work # <<>> /\ work' = Tail(work) /\ checked /\ checked' = FALSE
      /\ UNCHANGED <<overflow, lost, said>> /\ w.handle = c /\ w.kind = "Data"
      /\ connection' \in {0, c}
  <2>1. Take("Data") /\ Ours /\ UNCHANGED said
    BY DEF OnData
  <2>2. PICK frames : Write(connection, writePending, congested, frames, {})
    BY DEF OnData
  <2>3. connection' \in {0, c}
    BY <2>2, WriteDoes
  <2> QED BY <2>1, <2>3 DEF Take, Ours
<1>1. work \in Seq(Work) /\ opened \in Nat /\ Ordered(work, opened) /\ w \in Work
      /\ c \in Handle /\ obeyed \in [Handle -> Seq(Seq(Nat))]
  BY <1>0, OpenedIs, TakeTypes, TypeFacts, ItemFields DEF OrderInv
<1>2. \/ Ends(w) = {} /\ framer' = b /\ UNCHANGED obeyed
      \/ \E e \in Ends(w) :
           /\ framer' = SubSeq(b, e + 1, Len(b))
           /\ obeyed' = [obeyed EXCEPT ![w.handle] = Append(@, SubSeq(b, 1, e))]
  BY OnDataIs
<1>3. \A h \in Handle : h # c => obeyed'[h] = obeyed[h]
  BY <1>0, <1>1, <1>2
<1>4. ASSUME NEW h \in Handle \ lost, Opens(work', h)
      PROVE  Runs(work', h, 1, said'[h])
  <2>1. Opens(work, h) /\ ~IsOf(w, h)
    BY <1>0, <1>1, <1>4, OrderedTail
  <2>2. Runs(work, h, 1, said[h]) /\ ~IsKind(w, "Data", h)
    BY <2>1 DEF LinesInv, IsKind, IsOf
  <2> QED BY <1>0, <1>1, <2>2, RunsTailOther
<1>5. CASE c \in lost
  <2>1. LinesAreWhole'
    BY <1>0, <1>3, <1>5 DEF LinesInv, LinesAreWhole, WholeLines
  <2>2. ~(connection' \in Handle \ lost')
    BY <1>0, <1>5, ConnectionIs
  <2> QED BY <1>0, <1>4, <2>1, <2>2 DEF LinesInv
<1>6. CASE c \notin lost
  <2> DEFINE L == Len(obeyed[c])
             k == Len(framer)
  <2>1. L \in Nat /\ k \in Nat /\ said[c] \in Nat /\ Expected(c) \in Nat /\ Expected(c) = 2 * L + k + 1
        /\ framer \in {<<>>, <<2 * L + 1>>}
    BY <1>1, <1>6, ExpectedType DEF Expected, LinesInv
  <2>2. w.from = Expected(c) /\ w.to \in {w.from, w.from + 1}
        /\ (~overflow => Runs(work', c, w.to + 1, said[c]))
    <3>1. IsKind(w, "Data", c)
      BY <1>0 DEF IsKind
    <3>2. CASE overflow
      BY <1>0, <1>1, <1>6, <3>1, <3>2 DEF LinesInv
    <3>3. CASE ~overflow
      <4>1. Runs(work, c, Expected(c), said[c])
        BY <1>1, <1>6, <3>3 DEF LinesInv
      <4> QED BY <1>0, <1>1, <2>1, <3>1, <4>1, RunsTail
    <3> QED BY <3>2, <3>3
  <2>3. w.from = 2 * L + Len(framer) + 1 /\ w.to \in Nat
    BY <1>0, <1>1, <2>1, <2>2, ItemFields
  <2>4. /\ Ends(w) = {} => b \in {<<>>, <<2 * L + 1>>} /\ 2 * L + Len(b) = w.to
        /\ \A e \in Ends(w) :
             /\ SubSeq(b, 1, e) = <<2 * L + 1, 2 * L + 2>>
             /\ SubSeq(b, e + 1, Len(b)) \in {<<>>, <<2 * (L + 1) + 1>>}
             /\ 2 * (L + 1) + Len(SubSeq(b, e + 1, Len(b))) = w.to
    BY <1>0, <1>1, <2>1, <2>2, <2>3, FramerPushes
  <2>5. WholeSeq(obeyed[c])
    BY <1>1, <1>6 DEF LinesInv, LinesAreWhole, WholeLines, WholeSeq
  <2> HIDE DEF c, w, b
  <2>6. /\ WholeSeq(obeyed'[c])
        /\ framer' \in {<<>>, <<2 * Len(obeyed'[c]) + 1>>}
        /\ 2 * Len(obeyed'[c]) + Len(framer') = w.to
    <3>1. CASE Ends(w) = {} /\ framer' = b /\ UNCHANGED obeyed
      <4>1. obeyed'[c] = obeyed[c] /\ Len(obeyed'[c]) = L /\ framer' = b
        BY <3>1
      <4> QED BY <2>4, <2>5, <3>1, <4>1
    <3>2. ASSUME NEW e \in Ends(w), framer' = SubSeq(b, e + 1, Len(b)),
                 obeyed' = [obeyed EXCEPT ![w.handle] = Append(@, SubSeq(b, 1, e))]
          PROVE  /\ WholeSeq(obeyed'[c])
                 /\ framer' \in {<<>>, <<2 * Len(obeyed'[c]) + 1>>}
                 /\ 2 * Len(obeyed'[c]) + Len(framer') = w.to
      <4> DEFINE l == <<2 * L + 1, 2 * L + 2>>
                 o == obeyed[c]
                 T == Seq(Nat)
                 a == Append(o, l)
      <4>1. obeyed'[c] = a
        BY <1>0, <1>1, <2>4, <3>2
      <4>2. o \in Seq(T) /\ l \in T /\ L = Len(o)
        BY <1>1
      <4>3. \A i \in 1..Len(o) : o[i] = <<2 * i - 1, 2 * i>>
        BY <2>5 DEF WholeSeq
      <4>4. l = <<2 * (L + 1) - 1, 2 * (L + 1)>>
        BY <2>1
      <4> HIDE DEF l, T, o, L
      <4>5. a \in Seq(T) /\ Len(a) = Len(o) + 1 /\ a[Len(o) + 1] = l
            /\ \A i \in 1..Len(o) : a[i] = o[i]
        BY <4>2, AppendProperties
      <4> HIDE DEF a
      <4>6. \A i \in 1..Len(a) : a[i] = <<2 * i - 1, 2 * i>>
        <5> TAKE i \in 1..Len(a)
        <5>1. CASE i \in 1..Len(o)
          BY <4>3, <4>5, <5>1
        <5>2. CASE i = Len(o) + 1
          BY <4>2, <4>4, <4>5, <5>2
        <5> QED BY <2>1, <4>2, <4>5, <5>1, <5>2
      <4>7. a = [i \in 1..Len(a) |-> <<2 * i - 1, 2 * i>>]
        <5>1. a = [i \in 1..Len(a) |-> a[i]]
          BY <4>5
        <5> QED BY <4>6, <5>1
      <4>8. WholeSeq(obeyed'[c])
        BY <4>1, <4>7 DEF WholeSeq
      <4>9. Len(obeyed'[c]) = L + 1
        BY <4>1, <4>2, <4>5
      <4> QED BY <2>4, <3>2, <4>8, <4>9
    <3> QED BY <1>2, <3>1, <3>2
  <2>7. LinesAreWhole'
    <3> SUFFICES ASSUME NEW h \in Handle \ lost'
                 PROVE  WholeLines(h)'
      BY DEF LinesAreWhole
    <3>1. CASE h = c
      BY <2>6, <3>1 DEF WholeLines, WholeSeq
    <3>2. CASE h # c
      BY <1>0, <1>3, <3>2 DEF LinesInv, LinesAreWhole, WholeLines
    <3> QED BY <3>1, <3>2
  <2>8. ASSUME connection' \in Handle \ lost'
        PROVE  /\ framer' \in {<<>>, <<2 * Len(obeyed'[connection']) + 1>>}
               /\ ~overflow' => Runs(work', connection', Expected(connection)', said'[connection'])
    <3>1. connection' = c
      BY <1>0, <2>8, ConnectionIs
    <3>2. Expected(connection)' = w.to + 1
      <4>1. Expected(connection)' = 2 * Len(obeyed'[c]) + Len(framer') + 1
        BY <3>1 DEF Expected
      <4> QED BY <2>6, <4>1
    <3> QED BY <1>0, <2>2, <2>6, <3>1, <3>2
  <2> QED BY <1>0, <1>4, <2>7, <2>8 DEF LinesInv
<1> QED BY <1>5, <1>6

LEMMA LinesWorker ==
  ASSUME TypeOK, OrderInv, LinesInv, Worker
  PROVE  LinesInv'
<1>1. CASE WorkerCheck
  <2>1. UNCHANGED <<work, lost, said, obeyed>>
    BY <1>1 DEF WorkerCheck
  <2>2. LinesAreWhole' /\ \A h \in Handle \ lost : Opens(work', h) => Runs(work', h, 1, said'[h])
    BY <2>1 DEF LinesInv, LinesAreWhole, WholeLines
  <2>3. CASE overflow
    <3>1. connection' = 0
      BY <1>1, <2>3 DEF WorkerCheck, Resynced
    <3>2. 0 \notin Handle
      BY DEF Handle
    <3> QED BY <2>1, <2>2, <3>1, <3>2 DEF LinesInv
  <2>4. CASE ~overflow
    <3>1. UNCHANGED <<connection, framer>> /\ overflow' = FALSE
      BY <1>1, <2>4 DEF WorkerCheck
    <3>2. Expected(connection)' = Expected(connection)
      BY <2>1, <3>1 DEF Expected
    <3> QED BY <2>1, <2>2, <2>4, <3>1, <3>2 DEF LinesInv
  <2> QED BY <2>3, <2>4
<1>2. ASSUME NEW kind, Take(kind), kind # "Data" \/ ~Ours, UNCHANGED <<said, obeyed>>,
             connection' \in {0, connection}, connection' # 0 => framer' = framer
      PROVE  LinesInv'
  <2>1. work # <<>> /\ work' = Tail(work) /\ checked' = FALSE /\ UNCHANGED <<overflow, lost>>
        /\ Head(work).kind = kind
    BY <1>2 DEF Take
  <2>2. ~IsKind(Head(work), "Data", connection)
    BY <1>2, <2>1 DEF IsKind, Ours
  <2> QED BY <1>2, <2>1, <2>2, LinesTake
<1>3. CASE OnConnectedTwice
  BY <1>2, <1>3 DEF OnConnectedTwice, writeVars
<1>4. CASE OnClosed
  <2>1. Take("Closed") /\ connection' = 0 /\ UNCHANGED <<said, obeyed>>
    BY <1>4, WriteDoes DEF OnClosed, MayWrite
  <2> QED BY <1>2, <2>1
<1>5. CASE OnTooLong
  <2>1. Take("TooLong") /\ connection' = 0 /\ UNCHANGED <<said, obeyed>>
    BY <1>5, WriteDoes DEF OnTooLong, MayWrite
  <2> QED BY <1>2, <2>1
<1>6. CASE OnWriteDone
  <2>1. Take("WriteDone") /\ UNCHANGED <<said, obeyed, framer>>
    BY <1>6 DEF OnWriteDone
  <2>2. \/ Write(connection, FALSE, Head(work).cong, pending, {})
        \/ Write(0, writePending, congested, <<>>, {connection})
    BY <1>6 DEF OnWriteDone
  <2>3. connection' \in {0, connection}
    BY <2>2, WriteDoes
  <2> QED BY <1>2, <2>1, <2>3
<1>7. CASE OnCongestion
  <2>1. Take("Congestion") /\ UNCHANGED <<said, obeyed, framer>>
        /\ Write(connection, writePending, Head(work).cong, pending, {})
    BY <1>7 DEF OnCongestion
  <2> QED BY <1>2, <2>1, WriteDoes
<1>8. CASE OnMessage
  <2>1. Take("Message") /\ UNCHANGED <<said, obeyed, framer>>
    BY <1>8 DEF OnMessage
  <2>2. (\E frames : Write(connection, writePending, congested, frames, {})) \/ UNCHANGED writeVars
    BY <1>8 DEF OnMessage
  <2>3. connection' \in {0, connection}
    BY <2>2, WriteDoes DEF writeVars
  <2> QED BY <1>2, <2>1, <2>3
<1>9. CASE OnStale
  <2>1. PICK kind : Take(kind)
    BY <1>9 DEF OnStale
  <2>2. ~Ours /\ Write(connection, writePending, congested, pending, {})
        /\ UNCHANGED <<said, obeyed, framer>>
    BY <1>9 DEF OnStale
  <2>3. connection' \in {0, connection}
    BY <2>2, WriteDoes
  <2> QED BY <1>2, <2>1, <2>2, <2>3
<1> QED BY <1>1, <1>3, <1>4, <1>5, <1>6, <1>7, <1>8, <1>9, LinesConnected, LinesData DEF Worker

LEMMA LinesNext ==
  ASSUME TypeOK, OrderInv, LinesInv, [Next]_vars
  PROVE  LinesInv'
<1>1. CASE UNCHANGED vars
  <2>1. UNCHANGED <<work, overflow, lost, said, connection, checked, framer, obeyed>>
    BY <1>1 DEF vars, linkVars, queueVars, writeVars
  <2>2. \A h : Expected(h)' = Expected(h)
    BY <2>1 DEF Expected
  <2> QED BY <2>1, <2>2 DEF LinesInv, LinesAreWhole, WholeLines, Expected
<1>2. ASSUME NEW about \in Subject, SenderSends(about)
      PROVE  LinesInv'
  <2> DEFINE item == Outbound([about |-> about, n |-> created + 1])
  <2>1. item \in Work /\ item.kind = "Message"
    <3>1. created \in Nat
      BY TypeFacts
    <3> QED BY <3>1 DEF Message, Outbound, Work
  <2>2. work' = Append(work, item) /\ UNCHANGED <<overflow, lost, said, connection, checked, framer, obeyed>>
    BY <1>2 DEF SenderSends, linkVars, writeVars
  <2> HIDE DEF item
  <2>3. \A h \in Handle : ~IsKind(item, "Data", h)
    BY <2>1 DEF IsKind
  <2>4. \A h : Opens(work', h) <=> Opens(work, h)
    BY <2>1, <2>2, OpenedIs, OpensAppend DEF IsKind
  <2> QED BY <2>1, <2>2, <2>3, <2>4, LinesQueued
<1> QED BY <1>1, <1>2, LinesStack, LinesWorker DEF Next

LEMMA LinesInit == Init => LinesInv
<1> SUFFICES ASSUME Init PROVE LinesInv
  OBVIOUS
<1>1. work = <<>> /\ connection = 0 /\ \A h \in Handle : obeyed[h] = <<>>
  BY DEF Init
<1>2. Places(work) = {}
  BY <1>1 DEF Places
<1>3. 0 \notin Handle
  BY DEF Handle
<1>4. <<>> = [i \in 1..Len(<<>>) |-> <<2 * i - 1, 2 * i>>]
  <2>1. Len(<<>>) = 0
    BY EmptySeq
  <2> QED BY <2>1
<1> QED BY <1>1, <1>2, <1>3, <1>4 DEF LinesInv, LinesAreWhole, WholeLines, Opens

\* What LinesAreWhole rests on: of every link the worker serves, or will serve, the
\* pieces that wait in the queue continue what it has parsed, up to the first lost
\* callback, after which it parses at most what was queued before (bluetooth.rs:288-296).
THEOREM WorkerLinesInv == Spec => [](OrderInv /\ LinesInv)
<1>1. Init => OrderInv /\ LinesInv
  BY OrderInit, LinesInit
<1>2. TypeOK /\ OrderInv /\ LinesInv /\ [Next]_vars => (OrderInv /\ LinesInv)'
  BY OrderNext, LinesNext
<1> QED BY <1>1, <1>2, WorkerTypesHold, PTL DEF Spec

\* Every line that is parsed was sent as one line on that link, and the lines of a link
\* are parsed in order and without a gap (bluetooth.rs:288-296, 322, 331-363).
THEOREM WorkerLinesAreWhole == Spec => []LinesAreWhole
<1>1. LinesInv => LinesAreWhole
  BY DEF LinesInv
<1> QED BY <1>1, WorkerLinesInv, PTL

-----------------------------------------------------------------------------
(* The frames. *)

\* c may follow the chunks of s that have arrived.
Fits(c, s) ==
  IF Len(s) % 2 = 0 THEN c.part = 1
  ELSE c = [message |-> s[Len(s)].message, part |-> 2]
Whole(s) ==
  \A i \in 1..Len(s) :
    IF i % 2 = 1 THEN s[i].part = 1
    ELSE s[i] = [message |-> s[i - 1].message, part |-> 2]

\* What waits continues after s: whole frames, after the second half of the frame of
\* which s ends with the first.
Continues(frames, s) ==
  /\ \A i \in 2..Len(frames) : frames[i].left = 2
  /\ Len(s) % 2 = 0 => (frames # <<>> => frames[1].left = 2)
  /\ Len(s) % 2 # 0 => frames # <<>> /\ frames[1] = [message |-> s[Len(s)].message, left |-> 1]

\* No write to link h is in flight, and none has been completed and not yet been seen.
Free(h, w, fl) ==
  /\ \A i \in Places(w) : ~IsKind(w[i], "WriteDone", h)
  /\ \A i \in Places(fl) : fl[i].handle # h

\* What waits for link c, which has heard s, fits behind the write in flight.
ServedInv(c, busy, frames, w, fl, s) ==
  /\ ~busy => Free(c, w, fl) /\ Continues(frames, s)
  /\ \A i \in Places(fl) : fl[i].handle = c => Continues(frames, Append(s, fl[i].chunk))
  /\ \A i \in Places(w) : IsKind(w[i], "WriteDone", c) /\ w[i].ok => Continues(frames, s)

\* At most one write of a link is in flight or completed and not yet seen.
OneWrite(w, fl) ==
  /\ \A i, j \in Places(fl) : fl[i].handle = fl[j].handle => i = j
  /\ \A i, j \in Places(w) :
       w[i].kind = "WriteDone" /\ IsKind(w[j], "WriteDone", w[i].handle) => i = j
  /\ \A i \in Places(w), j \in Places(fl) : w[i].kind = "WriteDone" => w[i].handle # fl[j].handle

FramesInv ==
  /\ \A h \in Handle : Whole(heard[h])
  /\ \A i \in Places(flying) : Fits(flying[i].chunk, heard[flying[i].handle])
  /\ OneWrite(work, flying)
  /\ \A i, j \in Places(work) :
       work[i].kind = "Connected" => ~IsKind(work[j], "WriteDone", work[i].handle)
  /\ connection # 0 =>
       ServedInv(connection, writePending, pending, work, flying, heard[connection])

LEMMA FramesAre == FramesInv => FramesAreWhole
  BY DEF FramesInv, FramesAreWhole, Whole

LEMMA ChunksGrow ==
  ASSUME NEW s \in Seq(Chunk), NEW c \in Chunk
  PROVE  /\ Append(s, c) \in Seq(Chunk) /\ Len(Append(s, c)) = Len(s) + 1 /\ Len(s) \in Nat
         /\ Append(s, c)[Len(s) + 1] = c
         /\ \A i \in 1..Len(s) : Append(s, c)[i] = s[i]
  BY AppendProperties, LenProperties

LEMMA NextParity == \A n \in Nat : (n + 1) % 2 = 0 <=> n % 2 # 0
  OBVIOUS

LEMMA OddOrEven == \A n \in Nat : n % 2 = 0 \/ n % 2 = 1
  OBVIOUS

LEMMA WholeAppend ==
  ASSUME NEW s \in Seq(Chunk), NEW c \in Chunk, Whole(s), Fits(c, s)
  PROVE  Whole(Append(s, c))
<1> DEFINE a == Append(s, c)
           n == Len(s)
<1>1. /\ Len(a) = n + 1 /\ n \in Nat /\ a[n + 1] = c
      /\ \A i \in 1..n : a[i] = s[i]
  BY ChunksGrow
<1> HIDE DEF a
<1>2. ASSUME NEW i \in 1..Len(a)
      PROVE  IF i % 2 = 1 THEN a[i].part = 1
             ELSE a[i] = [message |-> a[i - 1].message, part |-> 2]
  <2>1. CASE i \in 1..n
    <3>1. IF i % 2 = 1 THEN s[i].part = 1
          ELSE s[i] = [message |-> s[i - 1].message, part |-> 2]
      BY <2>1 DEF Whole
    <3>2. a[i] = s[i]
      BY <1>1, <2>1
    <3>3. CASE i % 2 = 1
      BY <3>1, <3>2, <3>3
    <3>4. CASE i % 2 # 1
      <4>1. i # 1
        BY <3>4
      <4>2. i - 1 \in 1..n
        BY <1>1, <2>1, <4>1
      <4>3. a[i - 1] = s[i - 1]
        BY <1>1, <4>2
      <4> QED BY <3>1, <3>2, <3>4, <4>3
    <3> QED BY <3>3, <3>4
  <2>2. CASE i = n + 1
    <3>1. CASE n % 2 = 0
      <4>1. i % 2 = 1
        BY <1>1, <2>2, <3>1
      <4>2. c.part = 1
        BY <3>1 DEF Fits
      <4> QED BY <1>1, <2>2, <4>1, <4>2
    <3>2. CASE n % 2 # 0
      <4>1. i % 2 # 1 /\ n # 0 /\ i - 1 = n
        BY <1>1, <2>2, <3>2
      <4>2. n \in 1..n
        BY <1>1, <4>1
      <4>3. a[i - 1] = s[n]
        BY <1>1, <4>1, <4>2
      <4>4. c = [message |-> s[n].message, part |-> 2]
        BY <3>2 DEF Fits
      <4> QED BY <1>1, <2>2, <4>1, <4>3, <4>4
    <3> QED BY <3>1, <3>2
  <2> QED BY <1>1, <2>1, <2>2
<1> QED BY <1>2 DEF Whole, a

LEMMA ContinuesEnqueue ==
  ASSUME NEW frames \in Seq(Frame), NEW ms \in Seq(Message), NEW s, Continues(frames, s)
  PROVE  Continues(Enqueue(frames, ms), s)
<1> DEFINE e == Enqueue(frames, ms)
           n == Len(frames)
<1>1. /\ e \in Seq(Frame) /\ Len(e) = Least(n + Len(ms), PendingCap)
      /\ \A i \in 1..Len(e) :
           e[i] = IF i <= n THEN frames[i] ELSE [message |-> ms[i - n], left |-> 2]
  BY EnqueueIs
<1>2. n \in Nat /\ Len(ms) \in Nat /\ PendingCap \in Nat /\ PendingCap > 0 /\ Len(e) \in Nat
  BY <1>1, Bounds, LenProperties
<1>3. n > 0 => Len(e) > 0
  BY <1>1, <1>2 DEF Least
<1>4. /\ \A i \in 2..n : frames[i].left = 2
      /\ Len(s) % 2 = 0 => (frames # <<>> => frames[1].left = 2)
      /\ Len(s) % 2 # 0 => frames # <<>> /\ frames[1] = [message |-> s[Len(s)].message, left |-> 1]
  BY DEF Continues
<1>5. (frames # <<>> <=> n > 0) /\ (e # <<>> <=> Len(e) > 0)
  BY <1>1, <1>2, EmptySeq
<1> HIDE DEF e, n
<1>6. ASSUME NEW i \in 2..Len(e)
      PROVE  e[i].left = 2
  <2>1. i \in 1..Len(e) /\ (i <= n => i \in 2..n)
    BY <1>2
  <2> QED BY <1>1, <1>4, <2>1
<1>7. n > 0 => e # <<>> /\ e[1] = frames[1]
  <2> SUFFICES ASSUME n > 0 PROVE e # <<>> /\ e[1] = frames[1]
    OBVIOUS
  <2>1. 1 \in 1..Len(e) /\ 1 <= n
    BY <1>2, <1>3
  <2> QED BY <1>1, <1>3, <1>5, <2>1
<1>8. ASSUME n = 0, e # <<>>
      PROVE  e[1].left = 2
  <2>1. 1 \in 1..Len(e) /\ ~(1 <= n)
    BY <1>2, <1>5, <1>8
  <2> QED BY <1>1, <2>1
<1>9. n = 0 \/ n > 0
  BY <1>2
<1> QED BY <1>4, <1>5, <1>6, <1>7, <1>8, <1>9 DEF Continues, e, n

\* The chunk that is written fits, and what waits after it continues.
LEMMA ContinuesDrained ==
  ASSUME NEW frames \in Seq(Frame), frames # <<>>, NEW s \in Seq(Chunk), Continues(frames, s)
  PROVE  LET c == [message |-> Head(frames).message, part |-> 3 - Head(frames).left]
         IN /\ c \in Chunk /\ Fits(c, s)
            /\ Continues(Drained(frames), Append(s, c))
<1> DEFINE f == Head(frames)
           c == [message |-> f.message, part |-> 3 - f.left]
           d == Drained(frames)
           a == Append(s, c)
           n == Len(frames)
<1>1. f \in Frame /\ f = frames[1] /\ n \in Nat /\ n > 0
  <2>1. f \in Frame /\ f = frames[1] /\ n \in Nat
    BY HeadTailProperties, LenProperties
  <2> QED BY <2>1, EmptySeq
<1>2. f.message \in Message /\ f.left \in {1, 2}
  BY <1>1 DEF Frame
<1>3. c \in Chunk
  BY <1>2 DEF Chunk
<1>4. Len(a) = Len(s) + 1 /\ a[Len(s) + 1] = c /\ Len(s) \in Nat
  BY <1>3, ChunksGrow
<1>5. (Len(s) + 1) % 2 = 0 <=> Len(s) % 2 # 0
  BY <1>4, NextParity
<1>6. \A i \in 2..n : frames[i].left = 2
  BY DEF Continues
<1>7. CASE Len(s) % 2 = 0
  <2>1. f.left = 2
    BY <1>1, <1>7 DEF Continues
  <2>2. /\ Len(d) = n /\ d[1] = [message |-> f.message, left |-> 1]
        /\ \A i \in 2..n : d[i] = frames[i]
        /\ d \in Seq(Frame)
    BY <2>1, DrainedIs
  <2>3. Fits(c, s)
    BY <1>7, <2>1 DEF Fits
  <2>4. d # <<>>
    BY <1>1, <2>2, EmptySeq
  <2>5. Len(a) % 2 # 0 /\ a[Len(a)].message = f.message
    BY <1>4, <1>5, <1>7
  <2>6. \A i \in 2..Len(d) : d[i].left = 2
    BY <1>6, <2>2
  <2> HIDE DEF d, a, c, f, n
  <2>7. Continues(d, a)
    BY <2>2, <2>4, <2>5, <2>6 DEF Continues
  <2> QED BY <1>3, <2>3, <2>7 DEF d, a, c, f
<1>8. CASE Len(s) % 2 # 0
  <2>1. f = [message |-> s[Len(s)].message, left |-> 1]
    BY <1>1, <1>8 DEF Continues
  <2>2. f.left = 1 /\ f.message = s[Len(s)].message
    BY <2>1
  <2>3. d = Tail(frames)
    BY <2>2, DrainedIs
  <2>4. Fits(c, s)
    BY <1>8, <2>2 DEF Fits
  <2>5. Len(d) = n - 1 /\ \A i \in 1..n - 1 : d[i] = frames[i + 1]
    BY <2>3, HeadTailProperties
  <2>6. ASSUME NEW i \in 1..n - 1
        PROVE  d[i].left = 2
    <3>1. i + 1 \in 2..n
      BY <1>1
    <3> QED BY <1>6, <2>5, <3>1
  <2>7. Len(a) % 2 = 0
    BY <1>4, <1>5, <1>8
  <2>8. d # <<>> => d[1].left = 2
    <3>1. d \in Seq(Frame)
      BY <2>3, HeadTailProperties
    <3>2. d # <<>> => 1 \in 1..n - 1
      BY <1>1, <2>5, <3>1, EmptySeq
    <3> QED BY <2>6, <3>2
  <2>9. \A i \in 2..Len(d) : d[i].left = 2
    BY <1>1, <2>5, <2>6
  <2> HIDE DEF d, a, c, f, n
  <2>10. Continues(d, a)
    BY <2>7, <2>8, <2>9 DEF Continues
  <2> QED BY <1>3, <2>4, <2>10 DEF d, a, c, f
<1> QED BY <1>7, <1>8

\* Facts about a served link that survive a change of the queue.
LEMMA ServedTail ==
  ASSUME NEW c, NEW busy, NEW frames, NEW w \in Seq(Work), w # <<>>, NEW fl, NEW s,
         ServedInv(c, busy, frames, w, fl, s)
  PROVE  ServedInv(c, busy, frames, Tail(w), fl, s)
  BY TailItem DEF ServedInv, Free

LEMMA ServedAppend ==
  ASSUME NEW c, NEW busy, NEW frames, NEW w \in Seq(Work), NEW item \in Work,
         ~IsKind(item, "WriteDone", c), NEW fl, NEW s, ServedInv(c, busy, frames, w, fl, s)
  PROVE  ServedInv(c, busy, frames, Append(w, item), fl, s)
<1> DEFINE a == Append(w, item)
<1>1. /\ Places(a) = Places(w) \cup {Len(w) + 1} /\ a[Len(w) + 1] = item
      /\ \A i \in Places(w) : a[i] = w[i]
  BY AppendItem
<1> HIDE DEF a
<1>2. ServedInv(c, busy, frames, a, fl, s)
  BY <1>1 DEF ServedInv, Free
<1> QED BY <1>2 DEF a

LEMMA ServedEnqueue ==
  ASSUME NEW c, NEW busy, NEW frames \in Seq(Frame), NEW w, NEW fl, NEW s,
         NEW ms \in Seq(Message), ServedInv(c, busy, frames, w, fl, s)
  PROVE  ServedInv(c, busy, Enqueue(frames, ms), w, fl, s)
<1> DEFINE e == Enqueue(frames, ms)
<1>1. \A t : Continues(frames, t) => Continues(e, t)
  BY ContinuesEnqueue
<1> HIDE DEF e
<1>2. ServedInv(c, busy, e, w, fl, s)
  BY <1>1 DEF ServedInv
<1> QED BY <1>2 DEF e

LEMMA OneWriteTail ==
  ASSUME NEW w \in Seq(Work), w # <<>>, NEW fl, OneWrite(w, fl)
  PROVE  OneWrite(Tail(w), fl)
<1> DEFINE t == Tail(w)
<1>1. \A i \in Places(t) : t[i] = w[i + 1] /\ i + 1 \in Places(w) /\ i \in Nat
  BY TailItem
<1> HIDE DEF t
<1>2. ASSUME NEW i \in Places(t), NEW j \in Places(t), t[i].kind = "WriteDone",
             IsKind(t[j], "WriteDone", t[i].handle)
      PROVE  i = j
  <2>1. i + 1 = j + 1
    BY <1>1, <1>2 DEF OneWrite
  <2> QED BY <1>1, <2>1
<1>3. OneWrite(t, fl)
  BY <1>1, <1>2 DEF OneWrite
<1> QED BY <1>3 DEF t

LEMMA OneWriteAppend ==
  ASSUME NEW w \in Seq(Work), NEW item \in Work, NEW fl, OneWrite(w, fl),
         item.kind = "WriteDone" => Free(item.handle, w, fl)
  PROVE  OneWrite(Append(w, item), fl)
<1> DEFINE a == Append(w, item)
<1>1. /\ Places(a) = Places(w) \cup {Len(w) + 1} /\ a[Len(w) + 1] = item
      /\ \A i \in Places(w) : a[i] = w[i]
  BY AppendItem
<1> HIDE DEF a
<1>2. ASSUME NEW i \in Places(a), NEW j \in Places(a), a[i].kind = "WriteDone",
             IsKind(a[j], "WriteDone", a[i].handle)
      PROVE  i = j
  BY <1>1, <1>2 DEF OneWrite, Free, IsKind
<1>3. OneWrite(a, fl)
  BY <1>1, <1>2 DEF OneWrite, Free
<1> QED BY <1>3 DEF a

\* The part of FramesInv about the links, not about the connection.
LinksInv(w, fl, hd) ==
  /\ \A h \in Handle : Whole(hd[h])
  /\ \A i \in Places(fl) : Fits(fl[i].chunk, hd[fl[i].handle])
  /\ OneWrite(w, fl)
  /\ \A i, j \in Places(w) :
       w[i].kind = "Connected" => ~IsKind(w[j], "WriteDone", w[i].handle)

LEMMA FramesParts ==
  FramesInv <=> /\ LinksInv(work, flying, heard)
                /\ connection # 0 => ServedInv(connection, writePending, pending, work, flying,
                                               heard[connection])
  BY DEF FramesInv, LinksInv

LEMMA LinksTail ==
  ASSUME NEW w \in Seq(Work), w # <<>>, NEW fl, NEW hd, LinksInv(w, fl, hd)
  PROVE  LinksInv(Tail(w), fl, hd)
<1>1. OneWrite(Tail(w), fl)
  BY OneWriteTail DEF LinksInv
<1> DEFINE t == Tail(w)
<1>2. \A i \in Places(t) : t[i] = w[i + 1] /\ i + 1 \in Places(w)
  BY TailItem
<1> HIDE DEF t
<1>3. \A i, j \in Places(t) :
       t[i].kind = "Connected" => ~IsKind(t[j], "WriteDone", t[i].handle)
  BY <1>2 DEF LinksInv
<1>4. OneWrite(t, fl)
  BY <1>1 DEF t
<1>5. LinksInv(t, fl, hd)
  BY <1>3, <1>4 DEF LinksInv
<1> QED BY <1>5 DEF t

\* An item that is neither a completed write nor a Connected with completed writes.
LEMMA LinksAppend ==
  ASSUME NEW w \in Seq(Work), NEW item \in Work, item.kind # "WriteDone", NEW fl, NEW hd,
         LinksInv(w, fl, hd),
         item.kind = "Connected" => \A i \in Places(w) : ~IsKind(w[i], "WriteDone", item.handle)
  PROVE  LinksInv(Append(w, item), fl, hd)
<1> DEFINE a == Append(w, item)
<1>1. /\ Places(a) = Places(w) \cup {Len(w) + 1} /\ a[Len(w) + 1] = item
      /\ \A i \in Places(w) : a[i] = w[i]
  BY AppendItem
<1>2. OneWrite(a, fl)
  BY OneWriteAppend DEF LinksInv
<1> HIDE DEF a
<1>3. \A i, j \in Places(a) :
       a[i].kind = "Connected" => ~IsKind(a[j], "WriteDone", a[i].handle)
  BY <1>1 DEF LinksInv, IsKind
<1> QED BY <1>2, <1>3 DEF LinksInv, a

\* A step that queues such an item, or loses it, and leaves the worker and the writes alone.
LEMMA FramesQueued ==
  ASSUME TypeOK, FramesInv, NEW item \in Work, item.kind # "WriteDone",
         item.kind = "Connected" => \A i \in Places(work) : ~IsKind(work[i], "WriteDone", item.handle),
         work' = work \/ work' = Append(work, item),
         UNCHANGED <<connection, writePending, pending, flying, heard>>
  PROVE  FramesInv'
<1>0. work \in Seq(Work)
  BY TypeFacts
<1>1. LinksInv(work', flying', heard')
  BY <1>0, LinksAppend, FramesParts
<1>2. ASSUME connection' # 0
      PROVE  ServedInv(connection', writePending', pending', work', flying', heard'[connection'])
  <2>1. ServedInv(connection, writePending, pending, work, flying, heard[connection])
    BY <1>2, FramesParts
  <2>2. ~IsKind(item, "WriteDone", connection)
    BY DEF IsKind
  <2>3. ServedInv(connection, writePending, pending, Append(work, item), flying, heard[connection])
    BY <1>0, <2>1, <2>2, ServedAppend
  <2> QED BY <2>1, <2>3
<1> QED BY <1>1, <1>2 DEF FramesInv, LinksInv

LEMMA FramesCompletes ==
  ASSUME TypeOK, OrderInv, FramesInv, WriteCompletes
  PROVE  FramesInv'
<1> DEFINE w == Head(flying)
           h == w.handle
           k == w.chunk
<1>1. /\ flying # <<>> /\ flying' = Tail(flying) /\ w \in FlyingWrite /\ h \in Handle
      /\ UNCHANGED <<connection, writePending, pending>>
      /\ \/ /\ heard' = [heard EXCEPT ![h] = Append(@, k)]
            /\ \E b \in BOOLEAN : Callback(WriteDone(h, TRUE, b))
         \/ heard' = heard /\ Callback(WriteDone(h, FALSE, FALSE))
         \/ heard' = heard /\ UNCHANGED queueVars
  BY CompletesShape DEF StackFrame
<1>2. /\ flying \in Seq(FlyingWrite) /\ heard \in [Handle -> Seq(Chunk)] /\ work \in Seq(Work)
      /\ k \in Chunk
  BY <1>1, TypeFacts DEF FlyingWrite
<1>3. /\ 1 \in Places(flying) /\ flying[1] = w
      /\ \A i \in Places(flying') :
           flying'[i] = flying[i + 1] /\ i + 1 \in Places(flying) /\ i \in Nat /\ i + 1 # 1
  <2>1. /\ 1 \in Places(flying) /\ flying[1] = w
        /\ \A i \in Places(Tail(flying)) :
             Tail(flying)[i] = flying[i + 1] /\ i + 1 \in Places(flying) /\ i \in Nat
    BY <1>1, <1>2, TailPlaces
  <2>2. ASSUME NEW i \in Places(flying')
        PROVE  i + 1 # 1
    <3>1. i \in Nat /\ i >= 1
      BY <1>1, <2>1 DEF Places
    <3> QED BY <3>1
  <2> HIDE DEF w
  <2> QED BY <1>1, <2>1, <2>2
<1>4. LinksInv(work, flying, heard)
  BY FramesParts
<1> HIDE DEF w
<1>5. Fits(k, heard[h]) /\ Whole(heard[h])
  BY <1>1, <1>3, <1>4 DEF LinksInv
\* No other write of the link is in flight or completed.
<1>6. Free(h, work, flying')
  <2>1. \A i \in Places(flying') : flying'[i].handle # h
    BY <1>3, <1>4 DEF LinksInv, OneWrite
  <2>2. \A i \in Places(work) : ~IsKind(work[i], "WriteDone", h)
    BY <1>3, <1>4 DEF LinksInv, OneWrite, IsKind
  <2> QED BY <2>1, <2>2 DEF Free
<1>7. \A g \in Handle : g # h => heard'[g] = heard[g]
  BY <1>1, <1>2
<1>8. \A g \in Handle : Whole(heard'[g])
  <2>1. Whole(Append(heard[h], k))
    BY <1>1, <1>2, <1>5, WholeAppend
  <2>2. heard'[h] \in {heard[h], Append(heard[h], k)}
    BY <1>1, <1>2
  <2> QED BY <1>4, <1>5, <1>7, <2>1, <2>2 DEF LinksInv
<1>9. \A i \in Places(flying') : Fits(flying'[i].chunk, heard'[flying'[i].handle])
  <2> TAKE i \in Places(flying')
  <2>1. flying'[i].handle # h /\ flying'[i] = flying[i + 1] /\ i + 1 \in Places(flying)
    BY <1>3, <1>6 DEF Free
  <2>2. flying[i + 1] \in FlyingWrite
    BY <1>2, <2>1, ElementOfSeq DEF Places
  <2>3. flying'[i].handle \in Handle
    BY <2>1, <2>2 DEF FlyingWrite
  <2>4. Fits(flying[i + 1].chunk, heard[flying[i + 1].handle])
    BY <1>4, <2>1 DEF LinksInv
  <2>5. heard'[flying'[i].handle] = heard[flying[i + 1].handle]
    BY <1>7, <2>1, <2>3
  <2> QED BY <2>1, <2>4, <2>5
<1>10. OneWrite(work, flying')
  <2>1. \A i, j \in Places(flying') : flying'[i].handle = flying'[j].handle => i = j
    <3> TAKE i, j \in Places(flying')
    <3>1. flying'[i].handle = flying'[j].handle => i + 1 = j + 1
      BY <1>3, <1>4 DEF LinksInv, OneWrite
    <3> QED BY <1>3, <3>1
  <2> QED BY <1>3, <1>4, <2>1 DEF LinksInv, OneWrite
<1>11. ~Unserved(h)
  BY <1>1, <1>3 DEF OrderInv
<1>12. ASSUME connection = h
       PROVE  /\ writePending
              /\ Continues(pending, Append(heard[h], k))
  <2>1. h # 0
    BY <1>1, ConnectionIs
  <2>2. ServedInv(h, writePending, pending, work, flying, heard[h])
    BY <1>12, <2>1, FramesParts
  <2> QED BY <1>3, <2>2 DEF ServedInv, Free
\* What follows when the completion is queued, or not.
<1>13. ASSUME NEW done, done \in Work /\ IsKind(done, "WriteDone", h),
              work' = Append(work, done), done.ok => heard' = [heard EXCEPT ![h] = Append(@, k)]
       PROVE  FramesInv'
  <2>1. /\ Places(work') = Places(work) \cup {Len(work) + 1} /\ work'[Len(work) + 1] = done
        /\ \A i \in Places(work) : work'[i] = work[i]
    BY <1>2, <1>13, AppendItem
  <2>2. OneWrite(work', flying')
    BY <1>2, <1>6, <1>10, <1>13, OneWriteAppend DEF IsKind
  <2>3. \A i, j \in Places(work') :
          work'[i].kind = "Connected" => ~IsKind(work'[j], "WriteDone", work'[i].handle)
    <3> TAKE i, j \in Places(work')
    <3> SUFFICES ASSUME work'[i].kind = "Connected", IsKind(work'[j], "WriteDone", work'[i].handle)
                 PROVE  FALSE
      OBVIOUS
    <3>1. \A l \in Places(work) : ~IsKind(work[l], "Connected", h)
      BY <1>11 DEF Unserved, Opens
    <3>2. done.kind = "WriteDone" /\ done.handle = h
      BY <1>13 DEF IsKind
    <3>3. i \in Places(work) /\ work'[i] = work[i]
      <4>1. i # Len(work) + 1
        BY <2>1, <3>2
      <4> QED BY <2>1, <4>1
    <3>4. CASE j \in Places(work)
      BY <1>4, <2>1, <3>3, <3>4 DEF LinksInv
    <3>5. CASE j = Len(work) + 1
      <4>1. work[i].handle = h
        BY <2>1, <3>2, <3>3, <3>5 DEF IsKind
      <4> QED BY <3>1, <3>3, <4>1 DEF IsKind
    <3> QED BY <2>1, <3>4, <3>5
  <2>4. ASSUME connection' # 0
        PROVE  ServedInv(connection', writePending', pending', work', flying', heard'[connection'])
    <3>1. CASE connection = h
      <4>1. heard' = [heard EXCEPT ![h] = Append(@, k)] => heard'[h] = Append(heard[h], k)
        BY <1>1, <1>2
      <4>2. writePending' /\ \A i \in Places(flying') : flying'[i].handle # h
        BY <1>1, <1>6, <1>12, <3>1 DEF Free
      <4>3. \A i \in Places(work') : IsKind(work'[i], "WriteDone", h) /\ work'[i].ok =>
              Continues(pending, heard'[h])
        BY <1>6, <1>12, <1>13, <2>1, <3>1, <4>1 DEF Free
      <4> QED BY <1>1, <3>1, <4>2, <4>3 DEF ServedInv
    <3>2. CASE connection # h
      <4>1. ServedInv(connection, writePending, pending, work, flying, heard[connection])
        BY <1>1, <2>4, FramesParts
      <4>2. heard'[connection] = heard[connection]
        BY <1>1, <1>7, <2>4, <3>2, ConnectionIs
      <4>3. ServedInv(connection, writePending, pending, work, flying', heard[connection])
        BY <1>3, <4>1 DEF ServedInv, Free
      <4>4. ServedInv(connection, writePending, pending, work', flying', heard[connection])
        BY <1>2, <1>13, <3>2, <4>3, ServedAppend DEF IsKind
      <4> QED BY <1>1, <4>2, <4>4
    <3> QED BY <3>1, <3>2
  <2> QED BY <1>8, <1>9, <2>2, <2>3, <2>4 DEF FramesInv
<1>14. ASSUME work' = work
       PROVE  FramesInv'
  <2>1. ASSUME connection' # 0
        PROVE  ServedInv(connection', writePending', pending', work', flying', heard'[connection'])
    <3>1. CASE connection = h
      <4>1. writePending' /\ \A i \in Places(flying') : flying'[i].handle # h
        BY <1>1, <1>6, <1>12, <3>1 DEF Free
      <4>2. \A i \in Places(work') : ~IsKind(work'[i], "WriteDone", h)
        BY <1>6, <1>14 DEF Free
      <4> QED BY <1>1, <3>1, <4>1, <4>2 DEF ServedInv
    <3>2. CASE connection # h
      <4>1. ServedInv(connection, writePending, pending, work, flying, heard[connection])
        BY <1>1, <2>1, FramesParts
      <4>2. heard'[connection] = heard[connection]
        BY <1>1, <1>7, <2>1, <3>2, ConnectionIs
      <4>3. ServedInv(connection, writePending, pending, work, flying', heard[connection])
        BY <1>3, <4>1 DEF ServedInv, Free
      <4> QED BY <1>1, <1>14, <4>2, <4>3
    <3> QED BY <3>1, <3>2
  <2>2. \A i, j \in Places(work') :
          work'[i].kind = "Connected" => ~IsKind(work'[j], "WriteDone", work'[i].handle)
    BY <1>4, <1>14 DEF LinksInv
  <2>3. OneWrite(work', flying')
    BY <1>10, <1>14
  <2> QED BY <1>8, <1>9, <2>1, <2>2, <2>3 DEF FramesInv
<1>15. ASSUME NEW b \in BOOLEAN, Callback(WriteDone(h, TRUE, b)),
              heard' = [heard EXCEPT ![h] = Append(@, k)]
       PROVE  FramesInv'
  <2> DEFINE done == WriteDone(h, TRUE, b)
  <2>1. done \in Work /\ IsKind(done, "WriteDone", h) /\ done.kind # "Message"
    BY <1>1, DoneIs DEF IsKind
  <2> HIDE DEF done, h, k
  <2>2. Callback(done)
    BY <1>15 DEF done
  <2>3. work' = work \/ work' = Append(work, done)
    BY <2>1, <2>2, CallbackIs
  <2> QED BY <1>13, <1>14, <1>15, <2>1, <2>3
<1>16. ASSUME Callback(WriteDone(h, FALSE, FALSE))
       PROVE  FramesInv'
  <2> DEFINE done == WriteDone(h, FALSE, FALSE)
  <2>1. done \in Work /\ IsKind(done, "WriteDone", h) /\ done.kind # "Message" /\ done.ok = FALSE
    BY <1>1, DoneIs DEF IsKind
  <2> HIDE DEF done, h, k
  <2>2. Callback(done)
    BY <1>16 DEF done
  <2>3. work' = work \/ work' = Append(work, done)
    BY <2>1, <2>2, CallbackIs
  <2> QED BY <1>13, <1>14, <2>1, <2>3
<1> QED BY <1>1, <1>14, <1>15, <1>16 DEF queueVars

LEMMA FramesStack ==
  ASSUME TypeOK, OrderInv, FramesInv, Stack
  PROVE  FramesInv'
<1> USE DEF StackFrame
<1>0. radio \subseteq 1..opened /\ opened \in Nat /\ work \in Seq(Work)
  BY OpenedIs, TypeFacts DEF OrderInv
<1>1. CASE LinkOpens
  <2> DEFINE n == opened + 1
             item == Connected(n)
  <2>1. Callback(item) /\ n \in Handle
        /\ UNCHANGED <<connection, writePending, pending, flying, heard>>
    <3>1. opened \in 0..MaxLinks /\ opened < MaxLinks /\ MaxLinks \in Nat
      BY <1>1, TypeFacts, Bounds DEF LinkOpens
    <3>2. n \in Handle
      BY <3>1 DEF Handle
    <3> QED BY <1>1, <3>2 DEF LinkOpens, writeVars
  <2>2. item \in Work /\ item.kind = "Connected" /\ item.handle = n
    BY <2>1 DEF Connected, Work
  <2> HIDE DEF item
  <2>3. ASSUME NEW i \in Places(work), IsKind(work[i], "WriteDone", n)
        PROVE  FALSE
    <3>1. work[i].handle = n /\ work[i].kind # "Message" /\ Ordered(work, opened)
      BY <2>3 DEF IsKind, OrderInv
    <3>2. n <= opened
      BY <3>1 DEF Ordered
    <3> QED BY <1>0, <3>2
  <2>4. work' = work \/ work' = Append(work, item)
    BY <2>1, <2>2, CallbackIs
  <2> HIDE DEF n
  <2> QED BY <2>1, <2>2, <2>3, <2>4, FramesQueued
<1>2. ASSUME NEW item \in Work, item.kind \in {"Closed", "TooLong", "Congestion", "Data"},
             Callback(item), StackFrame, UNCHANGED <<flying, heard>>
      PROVE  FramesInv'
  <2>1. work' = work \/ work' = Append(work, item)
    BY <1>2, CallbackIs
  <2> QED BY <1>2, <2>1, FramesQueued
<1>3. ASSUME NEW h \in radio, NEW to \in {said[h] + 1, said[h] + 2},
             Callback(Data(h, said[h] + 1, to)), StackFrame, UNCHANGED <<flying, heard>>
      PROVE  FramesInv'
  <2>1. Data(h, said[h] + 1, to) \in Work /\ Data(h, said[h] + 1, to).kind = "Data"
    BY OpenLink, DataIs
  <2> QED BY <1>2, <1>3, <2>1
<1>4. ASSUME NEW h \in radio, NEW item \in {Closed(h), TooLong(h), Congestion(h, TRUE),
                                            Congestion(h, FALSE)},
             Callback(item), StackFrame, UNCHANGED <<flying, heard>>
      PROVE  FramesInv'
  <2>1. item \in Work /\ item.kind \in {"Closed", "TooLong", "Congestion"}
    BY OpenLink, StackItems
  <2> QED BY <1>2, <1>4, <2>1
<1> QED BY <1>0, <1>1, <1>3, <1>4, StackShape, FramesCompletes

LEMMA FlyingAppend ==
  ASSUME NEW fl \in Seq(FlyingWrite), NEW x \in FlyingWrite
  PROVE  /\ Places(Append(fl, x)) = Places(fl) \cup {Len(fl) + 1}
         /\ Append(fl, x)[Len(fl) + 1] = x
         /\ \A i \in Places(fl) : Append(fl, x)[i] = fl[i]
<1> DEFINE a == Append(fl, x)
<1>1. Len(a) = Len(fl) + 1 /\ a[Len(fl) + 1] = x /\ \A i \in 1..Len(fl) : a[i] = fl[i]
  BY AppendProperties
<1>2. Len(fl) \in Nat
  BY LenProperties
<1> HIDE DEF a
<1>3. 1..Len(a) = 1..Len(fl) \cup {Len(fl) + 1}
  BY <1>1, <1>2
<1> QED BY <1>1, <1>3 DEF Places, a

\* The foot of the loop, reached with link c, keeps the invariant: it writes only when
\* no write of the link is in flight, and what is written continues what was heard.
LEMMA FramesWrite ==
  ASSUME TypeOK, LinksInv(work', flying, heard), heard' = heard,
         NEW c \in 0..MaxLinks, NEW busy, NEW cong, NEW frames \in Seq(Frame), NEW hungUp,
         Write(c, busy, cong, frames, hungUp),
         c # 0 => ServedInv(c, busy, frames, work', flying, heard[c])
  PROVE  FramesInv'
<1>1. ASSUME flying' = flying,
             connection' # 0 =>
               /\ connection' = c /\ writePending' = busy /\ pending' = frames
      PROVE  FramesInv'
  <2>1. connection' # 0 =>
          ServedInv(connection', writePending', pending', work', flying', heard'[connection'])
    BY <1>1
  <2>2. LinksInv(work', flying', heard')
    BY <1>1
  <2> QED BY <2>1, <2>2 DEF FramesInv, LinksInv
<1>2. ASSUME MayWrite(c, busy, cong, frames),
             flying' = Append(flying, [handle |-> c,
               chunk |-> [message |-> Head(frames).message, part |-> 3 - Head(frames).left]]),
             pending' = Drained(frames), connection' = c, writePending' = TRUE
      PROVE  FramesInv'
  <2> DEFINE k == [message |-> Head(frames).message, part |-> 3 - Head(frames).left]
             x == [handle |-> c, chunk |-> k]
             d == Drained(frames)
  <2>1. c # 0 /\ ~busy /\ frames # <<>> /\ c \in Handle
    BY <1>2, Bounds DEF MayWrite, Handle
  <2>2. Free(c, work', flying) /\ Continues(frames, heard[c])
    BY <2>1 DEF ServedInv
  <2>3. heard[c] \in Seq(Chunk) /\ flying \in Seq(FlyingWrite)
    BY <2>1, TypeFacts
  <2>4. k \in Chunk /\ Fits(k, heard[c]) /\ Continues(d, Append(heard[c], k))
    BY <2>1, <2>2, <2>3, ContinuesDrained
  <2> HIDE DEF k, d
  <2>5. x \in FlyingWrite /\ x.handle = c /\ x.chunk = k
    BY <2>1, <2>4 DEF FlyingWrite
  <2>6. flying' = Append(flying, x)
    BY <1>2 DEF k
  <2> HIDE DEF x
  <2>7. /\ Places(flying') = Places(flying) \cup {Len(flying) + 1}
        /\ flying'[Len(flying) + 1] = x
        /\ \A i \in Places(flying) : flying'[i] = flying[i]
    BY <2>3, <2>5, <2>6, FlyingAppend
  <2>8. \A i \in Places(flying') : Fits(flying'[i].chunk, heard'[flying'[i].handle])
    BY <2>4, <2>5, <2>7 DEF LinksInv
  <2>9. OneWrite(work', flying')
    <3>1. \A i, j \in Places(flying') : flying'[i].handle = flying'[j].handle => i = j
      BY <2>2, <2>5, <2>7 DEF LinksInv, OneWrite, Free
    <3>2. ASSUME NEW i \in Places(work'), NEW j \in Places(flying'), work'[i].kind = "WriteDone"
          PROVE  work'[i].handle # flying'[j].handle
      <4>1. CASE j \in Places(flying)
        BY <2>7, <3>2, <4>1 DEF LinksInv, OneWrite
      <4>2. CASE j = Len(flying) + 1
        <5>1. ~IsKind(work'[i], "WriteDone", c)
          BY <2>2 DEF Free
        <5> QED BY <2>5, <2>7, <3>2, <4>2, <5>1 DEF IsKind
      <4> QED BY <2>7, <4>1, <4>2
    <3> QED BY <3>1, <3>2 DEF LinksInv, OneWrite
  <2>10. ServedInv(c, TRUE, d, work', flying', heard[c])
    <3>1. ASSUME NEW i \in Places(flying'), flying'[i].handle = c
          PROVE  Continues(d, Append(heard[c], flying'[i].chunk))
      BY <2>2, <2>4, <2>5, <2>7, <3>1 DEF Free
    <3>2. \A i \in Places(work') : ~IsKind(work'[i], "WriteDone", c)
      BY <2>2 DEF Free
    <3> QED BY <3>1, <3>2 DEF ServedInv
  <2>11. ServedInv(connection', writePending', pending', work', flying', heard'[connection'])
    BY <1>2, <2>10 DEF d
  <2> QED BY <2>8, <2>9, <2>11 DEF FramesInv, LinksInv
<1> QED BY <1>1, <1>2, WriteDoes

\* The facts about the links after an item was taken.
LEMMA FramesTaken ==
  ASSUME TypeOK, FramesInv, NEW kind, Take(kind)
  PROVE  /\ work \in Seq(Work) /\ work # <<>> /\ work' = Tail(work)
         /\ Head(work) \in Work /\ Head(work).kind = kind
         /\ LinksInv(work', flying, heard)
         /\ connection # 0 =>
              ServedInv(connection, writePending, pending, work', flying, heard[connection])
<1>1. /\ work \in Seq(Work) /\ work # <<>> /\ work' = Tail(work)
      /\ Head(work) \in Work /\ Head(work).kind = kind
  BY TakeTypes, TypeFacts
<1>2. LinksInv(Tail(work), flying, heard)
  BY <1>1, LinksTail, FramesParts
<1>3. connection # 0 =>
        ServedInv(connection, writePending, pending, Tail(work), flying, heard[connection])
  BY <1>1, ServedTail, FramesParts
<1> QED BY <1>1, <1>2, <1>3

\* A handler that leaves the frames and the flag of its connection alone, or none.
LEMMA FramesHandler ==
  ASSUME TypeOK, FramesInv, NEW kind, Take(kind), heard' = heard, NEW cong, NEW hungUp,
         \/ \E ms \in Seq(Message) :
              Write(connection, writePending, cong, Enqueue(pending, ms), hungUp)
         \/ Write(connection, writePending, cong, pending, hungUp)
         \/ \E busy : Write(0, busy, cong, <<>>, hungUp)
  PROVE  FramesInv'
<1>1. /\ LinksInv(work', flying, heard)
      /\ connection # 0 =>
           ServedInv(connection, writePending, pending, work', flying, heard[connection])
  BY FramesTaken
<1>2. pending \in Seq(Frame) /\ connection \in 0..MaxLinks /\ 0 \in 0..MaxLinks
      /\ <<>> \in Seq(Frame)
  BY TypeFacts, ConnectionIs, EmptyFrames
<1>3. ASSUME NEW ms \in Seq(Message),
             Write(connection, writePending, cong, Enqueue(pending, ms), hungUp)
      PROVE  FramesInv'
  <2>1. Enqueue(pending, ms) \in Seq(Frame)
    BY <1>2, EnqueueType
  <2>2. connection # 0 => ServedInv(connection, writePending, Enqueue(pending, ms), work', flying,
                                    heard[connection])
    BY <1>1, <1>2, ServedEnqueue
  <2> QED BY <1>1, <1>2, <1>3, <2>1, <2>2, FramesWrite
<1>4. CASE Write(connection, writePending, cong, pending, hungUp)
  BY <1>1, <1>2, <1>4, FramesWrite
<1>5. ASSUME NEW busy, Write(0, busy, cong, <<>>, hungUp)
      PROVE  FramesInv'
  BY <1>1, <1>2, <1>5, FramesWrite
<1> QED BY <1>3, <1>4, <1>5

\* A new connection: nothing of the link is in flight, nothing has arrived at its
\* desktop, and what waits is the replay.
LEMMA FramesConnected ==
  ASSUME TypeOK, OrderInv, FramesInv, OnConnected
  PROVE  FramesInv'
<1> DEFINE h == Head(work).handle
           e == Enqueue(<<>>, Replay)
<1>1. Take("Connected") /\ heard' = heard /\ Write(h, FALSE, FALSE, e, {})
  BY DEF OnConnected, NotBusy
<1>2. /\ work \in Seq(Work) /\ work # <<>> /\ work' = Tail(work) /\ Head(work) \in Work
      /\ Head(work).kind = "Connected" /\ LinksInv(work', flying, heard)
  BY <1>1, FramesTaken
<1>3. h \in Handle /\ h \in 0..MaxLinks
  BY <1>2, ItemFields, ConnectionIs
<1>4. e \in Seq(Frame)
  BY EmptyFrames, EnqueueType, ReplayType
<1>5. 1 \in Places(work) /\ work[1] = Head(work)
  BY <1>2, TailItem
<1>6. Continues(e, <<>>)
  <2>1. Len(<<>>) = 0
    BY EmptySeq
  <2>2. Continues(<<>>, <<>>)
    BY <2>1 DEF Continues
  <2> QED BY <2>2, EmptyFrames, ReplayType, ContinuesEnqueue
<1> HIDE DEF h, e
<1>7. heard[h] = <<>> /\ \A i \in Places(flying) : flying[i].handle # h
  <2>1. Unserved(h)
    BY <1>2, <1>5 DEF Unserved, Opens, IsKind, h
  <2> QED BY <1>3, <2>1 DEF OrderInv
<1>8. \A i \in Places(work') : ~IsKind(work'[i], "WriteDone", h)
  <2>1. \A j \in Places(work) : ~IsKind(work[j], "WriteDone", h)
    BY <1>2, <1>5 DEF FramesInv, h
  <2> QED BY <1>2, <2>1, TailItem
<1>9. ServedInv(h, FALSE, e, work', flying, heard[h])
  BY <1>6, <1>7, <1>8 DEF ServedInv, Free
<1> QED BY <1>1, <1>2, <1>3, <1>4, <1>9, FramesWrite

\* The write of the connection is done, so none is in flight: what waits continues what
\* has arrived.
LEMMA FramesDone ==
  ASSUME TypeOK, FramesInv, Take("WriteDone"), Ours, Head(work).ok, heard' = heard,
         NEW cong, Write(connection, FALSE, cong, pending, {})
  PROVE  FramesInv'
<1> DEFINE c == connection
<1>1. /\ work \in Seq(Work) /\ work # <<>> /\ work' = Tail(work) /\ Head(work) \in Work
      /\ Head(work).kind = "WriteDone" /\ LinksInv(work', flying, heard)
  BY FramesTaken
<1>2. 1 \in Places(work) /\ work[1] = Head(work) /\ IsKind(work[1], "WriteDone", c) /\ work[1].ok
  BY <1>1, TailItem DEF IsKind, Ours
<1>3. c # 0 /\ c \in 0..MaxLinks /\ pending \in Seq(Frame)
  BY <1>1, ItemFields, ConnectionIs, TypeFacts DEF Ours
<1>4. OneWrite(work, flying) /\ ServedInv(c, writePending, pending, work, flying, heard[c])
  BY <1>3 DEF FramesInv
<1>5. Continues(pending, heard[c])
  BY <1>2, <1>4 DEF ServedInv
<1>6. \A j \in Places(flying) : flying[j].handle # c
  BY <1>2, <1>4 DEF OneWrite, IsKind
<1>7. ASSUME NEW i \in Places(work'), IsKind(work'[i], "WriteDone", c)
      PROVE  FALSE
  <2>1. work'[i] = work[i + 1] /\ i + 1 \in Places(work) /\ i \in Nat /\ i > 0
    BY <1>1, TailItem
  <2>2. i + 1 = 1
    BY <1>2, <1>4, <1>7, <2>1 DEF OneWrite, IsKind
  <2> QED BY <2>1, <2>2
<1>8. ServedInv(c, FALSE, pending, work', flying, heard[c])
  BY <1>5, <1>6, <1>7 DEF ServedInv, Free
<1> QED BY <1>1, <1>3, <1>8, FramesWrite

LEMMA FramesWorker ==
  ASSUME TypeOK, OrderInv, FramesInv, Worker
  PROVE  FramesInv'
<1>1. CASE WorkerCheck
  <2>1. UNCHANGED <<work, flying, heard, writePending>>
        /\ (connection' = 0 \/ (UNCHANGED <<connection, pending>>))
    BY <1>1 DEF WorkerCheck, Resynced
  <2>2. LinksInv(work', flying', heard')
    BY <2>1, FramesParts
  <2>3. connection' # 0 =>
          ServedInv(connection', writePending', pending', work', flying', heard'[connection'])
    BY <2>1, FramesParts
  <2> QED BY <2>2, <2>3 DEF FramesInv, LinksInv
\* An item that the worker takes without a write.
<1>2. ASSUME NEW kind, Take(kind), UNCHANGED <<connection, writePending, pending, flying, heard>>
      PROVE  FramesInv'
  <2>1. LinksInv(work', flying', heard')
    BY <1>2, FramesTaken
  <2>2. connection' # 0 =>
          ServedInv(connection', writePending', pending', work', flying', heard'[connection'])
    BY <1>2, FramesTaken
  <2> QED BY <2>1, <2>2 DEF FramesInv, LinksInv
<1>3. CASE OnConnectedTwice
  BY <1>2, <1>3 DEF OnConnectedTwice, writeVars
<1>4. CASE OnClosed
  <2>1. Take("Closed") /\ heard' = heard /\ Write(0, FALSE, FALSE, <<>>, {})
    BY <1>4 DEF OnClosed
  <2> QED BY <2>1, FramesHandler
<1>5. CASE OnTooLong
  <2>1. Take("TooLong") /\ heard' = heard
        /\ Write(0, writePending, congested, <<>>, {connection})
    BY <1>5 DEF OnTooLong
  <2> QED BY <2>1, FramesHandler
<1>6. CASE OnData
  <2>1. Take("Data") /\ heard' = heard
    BY <1>6 DEF OnData
  <2>2. \E ms \in Seq(Message) :
          Write(connection, writePending, congested, Enqueue(pending, ms), {})
    BY <1>6, OnDataIs, AnswersType
  <2> QED BY <2>1, <2>2, FramesHandler
<1>7. CASE OnWriteDone
  <2>1. Take("WriteDone") /\ Ours /\ heard' = heard
    BY <1>7 DEF OnWriteDone
  <2>2. CASE Head(work).ok
    <3>1. Write(connection, FALSE, Head(work).cong, pending, {})
      BY <1>7, <2>2 DEF OnWriteDone
    <3> QED BY <2>1, <2>2, <3>1, FramesDone
  <2>3. CASE ~Head(work).ok
    <3>1. Write(0, writePending, congested, <<>>, {connection})
      BY <1>7, <2>3 DEF OnWriteDone
    <3> QED BY <2>1, <3>1, FramesHandler
  <2> QED BY <2>2, <2>3
<1>8. CASE OnCongestion
  <2>1. Take("Congestion") /\ heard' = heard
        /\ Write(connection, writePending, Head(work).cong, pending, {})
    BY <1>8 DEF OnCongestion
  <2> QED BY <2>1, FramesHandler
<1>9. CASE OnMessage
  <2> DEFINE m == Head(work).message
  <2>1. Take("Message") /\ heard' = heard
    BY <1>9 DEF OnMessage
  <2>2. <<m>> \in Seq(Message)
    <3>1. m \in Message
      BY <2>1, TakeTypes, ItemFields
    <3> HIDE DEF m
    <3> QED BY <3>1
  <2>3. \/ Write(connection, writePending, congested, Enqueue(pending, <<m>>), {})
        \/ UNCHANGED writeVars
    BY <1>9 DEF OnMessage
  <2>4. CASE UNCHANGED writeVars
    BY <1>2, <2>1, <2>4 DEF writeVars
  <2> HIDE DEF m
  <2> QED BY <2>1, <2>2, <2>3, <2>4, FramesHandler
<1>10. CASE OnStale
  <2>1. PICK kind : Take(kind)
    BY <1>10 DEF OnStale
  <2>2. heard' = heard /\ Write(connection, writePending, congested, pending, {})
    BY <1>10 DEF OnStale
  <2> QED BY <2>1, <2>2, FramesHandler
<1> QED BY <1>1, <1>3, <1>4, <1>5, <1>6, <1>7, <1>8, <1>9, <1>10, FramesConnected DEF Worker

LEMMA FramesNext ==
  ASSUME TypeOK, OrderInv, FramesInv, [Next]_vars
  PROVE  FramesInv'
<1>1. CASE UNCHANGED vars
  <2>1. UNCHANGED <<work, flying, heard, connection, writePending, pending>>
    BY <1>1 DEF vars, linkVars, queueVars, writeVars
  <2>2. LinksInv(work', flying', heard')
    BY <2>1, FramesParts
  <2>3. connection' # 0 =>
          ServedInv(connection', writePending', pending', work', flying', heard'[connection'])
    BY <2>1, FramesParts
  <2> QED BY <2>2, <2>3 DEF FramesInv, LinksInv
<1>2. ASSUME NEW about \in Subject, SenderSends(about)
      PROVE  FramesInv'
  <2> DEFINE item == Outbound([about |-> about, n |-> created + 1])
  <2>1. item \in Work /\ item.kind = "Message"
    <3>1. created \in Nat
      BY TypeFacts
    <3> QED BY <3>1 DEF Message, Outbound, Work
  <2>2. /\ work' = Append(work, item)
        /\ UNCHANGED <<connection, writePending, pending, flying, heard>>
    BY <1>2 DEF SenderSends, linkVars, writeVars
  <2> HIDE DEF item
  <2> QED BY <2>1, <2>2, FramesQueued
<1> QED BY <1>1, <1>2, FramesStack, FramesWorker DEF Next

LEMMA FramesInit == Init => FramesInv
<1> SUFFICES ASSUME Init PROVE FramesInv
  OBVIOUS
<1>1. work = <<>> /\ flying = <<>> /\ connection = 0 /\ \A h \in Handle : heard[h] = <<>>
  BY DEF Init
<1>2. Places(work) = {} /\ Places(flying) = {}
  BY <1>1 DEF Places
<1>3. Len(<<>>) = 0
  BY EmptySeq
<1> QED BY <1>1, <1>2, <1>3 DEF FramesInv, OneWrite, Whole

\* What FramesAreWhole rests on: at most one write of a link is in flight or completed
\* and not yet seen, and what waits continues what will have arrived when it is seen
\* (bluetooth.rs:376-389, 398-421).
THEOREM WorkerFramesInv == Spec => [](OrderInv /\ FramesInv)
<1>1. Init => OrderInv /\ FramesInv
  BY OrderInit, FramesInit
<1>2. TypeOK /\ OrderInv /\ FramesInv /\ [Next]_vars => (OrderInv /\ FramesInv)'
  BY OrderNext, FramesNext
<1> QED BY <1>1, <1>2, WorkerTypesHold, PTL DEF Spec

\* What arrives on a link is whole frames, one after the other (bluetooth.rs:398-421).
THEOREM WorkerFramesAreWhole == Spec => []FramesAreWhole
<1>1. OrderInv /\ FramesInv => FramesAreWhole
  BY FramesAre
<1> QED BY <1>1, WorkerFramesInv, PTL

-----------------------------------------------------------------------------
(* What a served desktop has been or will be told of each cached subject. *)

Silent(way, h, about) == \A j \in 1..Len(way) : ~Begins(way[j], h, about)

LEMMA WaysJoin ==
  ASSUME NEW s \in Seq(FlyingWrite), NEW t \in Seq(FlyingWrite), NEW h, NEW m
  PROVE  /\ s \o t \in Seq(FlyingWrite)
         /\ EndsWith(s \o t, h, m) <=>
              EndsWith(t, h, m) \/ (EndsWith(s, h, m) /\ Silent(t, h, m.about))
         /\ Silent(s \o t, h, m.about) <=> Silent(s, h, m.about) /\ Silent(t, h, m.about)
<1> DEFINE n == Len(s)
           k == Len(t)
           w == s \o t
<1>1. /\ w \in Seq(FlyingWrite) /\ Len(w) = n + k /\ n \in Nat /\ k \in Nat
      /\ \A i \in 1..n + k : w[i] = IF i <= n THEN s[i] ELSE t[i - n]
  BY ConcatProperties, LenProperties
<1> HIDE DEF n, k, w
<1>2. \A i \in 1..n : i \in 1..Len(w) /\ i \in Nat /\ i <= n /\ w[i] = s[i]
  BY <1>1
<1>3. ASSUME NEW i \in 1..k
      PROVE  n + i \in 1..Len(w) /\ n + i > n /\ w[n + i] = t[i] /\ i \in Nat
  <2>1. n + i \in 1..n + k /\ ~(n + i <= n) /\ (n + i) - n = i /\ i \in Nat /\ n + i > n
    BY <1>1
  <2> QED BY <1>1, <2>1
<1>4. ASSUME NEW i \in 1..Len(w)
      PROVE  i \in 1..n \/ (i - n \in 1..k /\ n + (i - n) = i)
  BY <1>1
<1>5. Silent(w, h, m.about) <=> Silent(s, h, m.about) /\ Silent(t, h, m.about)
  <2>1. ASSUME Silent(w, h, m.about) PROVE Silent(s, h, m.about) /\ Silent(t, h, m.about)
    BY <1>2, <1>3, <2>1 DEF Silent, n, k
  <2>2. ASSUME Silent(s, h, m.about), Silent(t, h, m.about) PROVE Silent(w, h, m.about)
    <3> SUFFICES ASSUME NEW i \in 1..Len(w) PROVE ~Begins(w[i], h, m.about)
      BY DEF Silent
    <3>1. CASE i \in 1..n
      BY <1>2, <2>2, <3>1 DEF Silent, n
    <3>2. CASE i - n \in 1..k /\ n + (i - n) = i
      <4>1. w[i] = t[i - n]
        BY <1>3, <3>2
      <4> QED BY <2>2, <3>2, <4>1 DEF Silent, k
    <3> QED BY <1>4, <3>1, <3>2
  <2> QED BY <2>1, <2>2
<1>6. ASSUME EndsWith(t, h, m) PROVE EndsWith(w, h, m)
  <2>1. PICK i \in 1..k : /\ Begins(t[i], h, m.about) /\ t[i].chunk.message = m
                          /\ \A j \in 1..k : j > i => ~Begins(t[j], h, m.about)
    BY <1>6 DEF EndsWith, k
  <2>2. ASSUME NEW j \in 1..Len(w), j > n + i PROVE ~Begins(w[j], h, m.about)
    <3>1. j - n \in 1..k /\ j - n > i /\ n + (j - n) = j
      BY <1>1, <2>2
    <3>2. w[j] = t[j - n]
      BY <1>3, <3>1
    <3> QED BY <2>1, <3>1, <3>2
  <2> QED BY <1>3, <2>1, <2>2 DEF EndsWith
<1>7. ASSUME EndsWith(s, h, m), Silent(t, h, m.about) PROVE EndsWith(w, h, m)
  <2>1. PICK i \in 1..n : /\ Begins(s[i], h, m.about) /\ s[i].chunk.message = m
                          /\ \A j \in 1..n : j > i => ~Begins(s[j], h, m.about)
    BY <1>7 DEF EndsWith, n
  <2>2. ASSUME NEW j \in 1..Len(w), j > i PROVE ~Begins(w[j], h, m.about)
    <3>1. CASE j \in 1..n
      BY <1>2, <2>1, <2>2, <3>1
    <3>2. CASE j - n \in 1..k /\ n + (j - n) = j
      <4>1. w[j] = t[j - n]
        BY <1>3, <3>2
      <4> QED BY <1>7, <3>2, <4>1 DEF Silent, k
    <3> QED BY <1>4, <3>1, <3>2
  <2> QED BY <1>2, <2>1, <2>2 DEF EndsWith
<1>8. ASSUME EndsWith(w, h, m) PROVE EndsWith(t, h, m) \/ (EndsWith(s, h, m) /\ Silent(t, h, m.about))
  <2>1. PICK i \in 1..Len(w) : /\ Begins(w[i], h, m.about) /\ w[i].chunk.message = m
                               /\ \A j \in 1..Len(w) : j > i => ~Begins(w[j], h, m.about)
    BY <1>8 DEF EndsWith
  <2>2. CASE i \in 1..n
    <3>1. \A j \in 1..n : j > i => ~Begins(s[j], h, m.about)
      BY <1>2, <2>1
    <3>2. ASSUME NEW j \in 1..k PROVE ~Begins(t[j], h, m.about)
      <4>1. n + j > i
        BY <1>1, <2>2
      <4> QED BY <1>3, <2>1, <4>1
    <3>3. Begins(s[i], h, m.about) /\ s[i].chunk.message = m
      BY <1>2, <2>1, <2>2
    <3> QED BY <2>2, <3>1, <3>2, <3>3 DEF EndsWith, Silent, n, k
  <2>3. CASE i - n \in 1..k /\ n + (i - n) = i
    <3>1. Begins(t[i - n], h, m.about) /\ t[i - n].chunk.message = m
      BY <1>3, <2>1, <2>3
    <3>2. ASSUME NEW j \in 1..k, j > i - n PROVE ~Begins(t[j], h, m.about)
      <4>1. n + j > i
        BY <1>1, <2>3, <3>2
      <4> QED BY <1>3, <2>1, <4>1
    <3> QED BY <2>3, <3>1, <3>2 DEF EndsWith, k
  <2> QED BY <1>4, <2>2, <2>3
<1> QED BY <1>1, <1>5, <1>6, <1>7, <1>8 DEF w

LEMMA WayOfOne ==
  ASSUME NEW x \in FlyingWrite, NEW h, NEW m
  PROVE  /\ <<x>> \in Seq(FlyingWrite)
         /\ EndsWith(<<x>>, h, m) <=> Begins(x, h, m.about) /\ x.chunk.message = m
         /\ Silent(<<x>>, h, m.about) <=> ~Begins(x, h, m.about)
<1> DEFINE w == <<x>>
<1>1. w \in Seq(FlyingWrite) /\ Len(w) = 1 /\ w[1] = x /\ 1..Len(w) = {1}
  OBVIOUS
<1> HIDE DEF w
<1>2. \A j \in 1..Len(w) : j = 1
  BY <1>1
<1>3. ~(1 > 1)
  OBVIOUS
<1>4. /\ EndsWith(w, h, m) <=> Begins(x, h, m.about) /\ x.chunk.message = m
      /\ Silent(w, h, m.about) <=> ~Begins(x, h, m.about)
  BY <1>1, <1>2, <1>3 DEF EndsWith, Silent
<1> QED BY <1>1, <1>4 DEF w

\* The frames that wait, by themselves.
FramesEnd(frames, m) ==
  \E i \in 1..Len(frames) :
    /\ frames[i].left = 2 /\ frames[i].message = m
    /\ \A j \in 1..Len(frames) : j > i => ~(frames[j].left = 2 /\ frames[j].message.about = m.about)
FramesSilent(frames, about) ==
  \A j \in 1..Len(frames) : ~(frames[j].left = 2 /\ frames[j].message.about = about)

Arr(s, h) == [i \in 1..Len(s) |-> [handle |-> h, chunk |-> s[i]]]
Wait(frames, h) ==
  [i \in 1..Len(frames) |->
     [handle |-> h, chunk |-> [message |-> frames[i].message, part |-> 3 - frames[i].left]]]

LEMMA ArrIs ==
  ASSUME NEW s \in Seq(Chunk), NEW h \in Handle
  PROVE  Arr(s, h) \in Seq(FlyingWrite) /\ Len(Arr(s, h)) = Len(s)
<1>1. \A i \in 1..Len(s) : [handle |-> h, chunk |-> s[i]] \in FlyingWrite
  BY ElementOfSeq DEF FlyingWrite
<1> QED BY <1>1, LenProperties DEF Arr

LEMMA WaitIs ==
  ASSUME NEW frames \in Seq(Frame), NEW h \in Handle, NEW m
  PROVE  /\ Wait(frames, h) \in Seq(FlyingWrite)
         /\ EndsWith(Wait(frames, h), h, m) <=> FramesEnd(frames, m)
         /\ Silent(Wait(frames, h), h, m.about) <=> FramesSilent(frames, m.about)
<1> DEFINE w == Wait(frames, h)
<1>1. ASSUME NEW i \in 1..Len(frames)
      PROVE  /\ [handle |-> h, chunk |-> [message |-> frames[i].message, part |-> 3 - frames[i].left]]
                  \in FlyingWrite
             /\ 3 - frames[i].left = 1 <=> frames[i].left = 2
  <2>1. frames[i] \in Frame
    BY ElementOfSeq
  <2>2. frames[i].message \in Message /\ frames[i].left \in 1..2
    BY <2>1 DEF Frame
  <2>3. 3 - frames[i].left \in 1..2
    BY <2>2
  <2> QED BY <2>2, <2>3 DEF FlyingWrite, Chunk
<1>2. w \in Seq(FlyingWrite) /\ Len(w) = Len(frames)
  BY <1>1, LenProperties DEF Wait
<1>3. ASSUME NEW i \in 1..Len(frames)
      PROVE  /\ w[i].chunk.message = frames[i].message
             /\ \A a : Begins(w[i], h, a) <=> frames[i].left = 2 /\ frames[i].message.about = a
  <2>1. w[i] = [handle |-> h, chunk |-> [message |-> frames[i].message, part |-> 3 - frames[i].left]]
    BY DEF Wait
  <2> HIDE DEF w
  <2>2. w[i].handle = h /\ w[i].chunk = [message |-> frames[i].message, part |-> 3 - frames[i].left]
    BY <2>1
  <2>3. w[i].chunk.message = frames[i].message /\ w[i].chunk.part = 3 - frames[i].left
    BY <2>2
  <2>4. w[i].chunk.part = 1 <=> frames[i].left = 2
    BY <1>1, <2>3
  <2>5. ASSUME NEW a
        PROVE  Begins(w[i], h, a) <=> frames[i].left = 2 /\ frames[i].message.about = a
    <3>1. Begins(w[i], h, a)
            <=> w[i].handle = h /\ w[i].chunk.part = 1 /\ w[i].chunk.message.about = a
      BY DEF Begins
    <3> QED BY <2>2, <2>3, <2>4, <3>1
  <2> QED BY <2>3, <2>5
<1> HIDE DEF w
<1>4. EndsWith(w, h, m) <=> FramesEnd(frames, m)
  <2>1. \A i \in 1..Len(frames) :
          Begins(w[i], h, m.about) <=> frames[i].left = 2 /\ frames[i].message.about = m.about
    BY <1>3
  <2>2. \A i \in 1..Len(frames) : w[i].chunk.message = frames[i].message
    BY <1>3
  <2>3. ASSUME EndsWith(w, h, m) PROVE FramesEnd(frames, m)
    <3>1. PICK i \in 1..Len(frames) :
            /\ Begins(w[i], h, m.about) /\ w[i].chunk.message = m
            /\ \A j \in 1..Len(frames) : j > i => ~Begins(w[j], h, m.about)
      BY <1>2, <2>3 DEF EndsWith
    <3> QED BY <2>1, <2>2, <3>1 DEF FramesEnd
  <2>4. ASSUME FramesEnd(frames, m) PROVE EndsWith(w, h, m)
    <3>1. PICK i \in 1..Len(frames) :
            /\ frames[i].left = 2 /\ frames[i].message = m
            /\ \A j \in 1..Len(frames) :
                 j > i => ~(frames[j].left = 2 /\ frames[j].message.about = m.about)
      BY <2>4 DEF FramesEnd
    <3> QED BY <1>2, <2>1, <2>2, <3>1 DEF EndsWith
  <2> QED BY <2>3, <2>4
<1>5. Silent(w, h, m.about) <=> FramesSilent(frames, m.about)
  BY <1>2, <1>3 DEF Silent, FramesSilent
<1> QED BY <1>2, <1>4, <1>5 DEF w

\* What link h has been told of the subject of m in the end is m, when it has heard s.
Reaches(s, fl, frames, h, m) ==
  \/ FramesEnd(frames, m)
  \/ FramesSilent(frames, m.about) /\ EndsWith(Arr(s, h) \o fl, h, m)

LEMMA ReachesIs ==
  ASSUME NEW s \in Seq(Chunk), NEW fl \in Seq(FlyingWrite), NEW frames \in Seq(Frame),
         NEW h \in Handle, NEW m
  PROVE  EndsWith(Arr(s, h) \o fl \o Wait(frames, h), h, m) <=> Reaches(s, fl, frames, h, m)
<1> DEFINE a == Arr(s, h) \o fl
           w == Wait(frames, h)
<1>1. a \in Seq(FlyingWrite)
  BY ArrIs, WaysJoin
<1>2. /\ w \in Seq(FlyingWrite)
      /\ EndsWith(w, h, m) <=> FramesEnd(frames, m)
      /\ Silent(w, h, m.about) <=> FramesSilent(frames, m.about)
  BY WaitIs
<1>3. Reaches(s, fl, frames, h, m)
        <=> FramesEnd(frames, m) \/ (FramesSilent(frames, m.about) /\ EndsWith(a, h, m))
  BY DEF Reaches
<1> HIDE DEF a, w
<1>4. EndsWith(a \o w, h, m) <=> EndsWith(w, h, m) \/ (EndsWith(a, h, m) /\ Silent(w, h, m.about))
  BY <1>1, <1>2, WaysJoin
<1> QED BY <1>2, <1>3, <1>4 DEF a, w

\* The frames before and after a chunk of the first was written.
LEMMA FramesDrained ==
  ASSUME NEW frames \in Seq(Frame), frames # <<>>, NEW m
  PROVE  LET begun == Head(frames).left = 2
             d == Drained(frames)
         IN /\ FramesEnd(frames, m) <=>
                 FramesEnd(d, m) \/ (begun /\ Head(frames).message = m /\ FramesSilent(d, m.about))
            /\ FramesSilent(frames, m.about) <=>
                 FramesSilent(d, m.about) /\ ~(begun /\ Head(frames).message.about = m.about)
<1> DEFINE f == Head(frames)
           d == Drained(frames)
           n == Len(frames)
<1>1. /\ f \in Frame /\ f = frames[1] /\ n \in Nat /\ n > 0 /\ 1 \in 1..n
      /\ Len(Tail(frames)) = n - 1 /\ \A i \in 1..n - 1 : Tail(frames)[i] = frames[i + 1]
  <2>1. /\ f \in Frame /\ f = frames[1] /\ n \in Nat
        /\ Len(Tail(frames)) = n - 1 /\ \A i \in 1..n - 1 : Tail(frames)[i] = frames[i + 1]
    BY HeadTailProperties, LenProperties
  <2>2. n > 0
    BY <2>1, EmptySeq
  <2> QED BY <2>1, <2>2
<1>2. f.left \in {1, 2}
  BY <1>1 DEF Frame
<1>3. CASE f.left = 1
  <2>0. d = Tail(frames)
    BY <1>3, DrainedIs
  <2> HIDE DEF d, f
  <2>1. Len(d) = n - 1 /\ \A i \in 1..n - 1 : d[i] = frames[i + 1]
    BY <1>1, <2>0
  <2>2. frames[1].left # 2 /\ f.left # 2
    BY <1>1, <1>3
  <2> HIDE DEF d, f
  <2>3. ASSUME NEW i \in 1..n, i # 1
        PROVE  i - 1 \in 1..n - 1 /\ d[i - 1] = frames[i] /\ (i - 1) + 1 = i
    <3>1. i - 1 \in 1..n - 1 /\ (i - 1) + 1 = i
      BY <1>1, <2>3
    <3> QED BY <2>1, <3>1
  <2>4. ASSUME NEW i \in 1..n - 1
        PROVE  i + 1 \in 1..n /\ frames[i + 1] = d[i] /\ i + 1 # 1
    BY <1>1, <2>1
  <2>5. FramesSilent(frames, m.about) <=> FramesSilent(d, m.about)
    <3>1. ASSUME FramesSilent(frames, m.about) PROVE FramesSilent(d, m.about)
      BY <2>1, <2>4, <3>1 DEF FramesSilent
    <3>2. ASSUME FramesSilent(d, m.about) PROVE FramesSilent(frames, m.about)
      BY <2>1, <2>2, <2>3, <3>2 DEF FramesSilent, n
    <3> QED BY <3>1, <3>2
  <2>6. ASSUME FramesEnd(frames, m) PROVE FramesEnd(d, m)
    <3>1. PICK i \in 1..n :
            /\ frames[i].left = 2 /\ frames[i].message = m
            /\ \A j \in 1..n : j > i => ~(frames[j].left = 2 /\ frames[j].message.about = m.about)
      BY <2>6 DEF FramesEnd, n
    <3>2. i # 1
      BY <2>2, <3>1
    <3>3. i - 1 \in 1..Len(d) /\ d[i - 1].left = 2 /\ d[i - 1].message = m
      BY <2>1, <2>3, <3>1, <3>2
    <3>4. ASSUME NEW j \in 1..Len(d), j > i - 1
          PROVE  ~(d[j].left = 2 /\ d[j].message.about = m.about)
      <4>1. j + 1 \in 1..n /\ frames[j + 1] = d[j] /\ j + 1 > i
        BY <2>1, <2>4, <3>4
      <4> QED BY <3>1, <4>1
    <3> QED BY <3>3, <3>4 DEF FramesEnd
  <2>7. ASSUME FramesEnd(d, m) PROVE FramesEnd(frames, m)
    <3>1. PICK i \in 1..n - 1 :
            /\ d[i].left = 2 /\ d[i].message = m
            /\ \A j \in 1..n - 1 : j > i => ~(d[j].left = 2 /\ d[j].message.about = m.about)
      BY <2>1, <2>7 DEF FramesEnd
    <3>2. i + 1 \in 1..n /\ frames[i + 1].left = 2 /\ frames[i + 1].message = m
      BY <2>4, <3>1
    <3>3. ASSUME NEW j \in 1..n, j > i + 1
          PROVE  ~(frames[j].left = 2 /\ frames[j].message.about = m.about)
      <4>1. j # 1 /\ j - 1 > i
        BY <3>3
      <4>2. j - 1 \in 1..n - 1 /\ d[j - 1] = frames[j]
        BY <2>3, <4>1
      <4> QED BY <3>1, <4>1, <4>2
    <3> QED BY <3>2, <3>3 DEF FramesEnd, n
  <2> QED BY <2>2, <2>5, <2>6, <2>7 DEF d, f
<1>4. CASE f.left = 2
  <2>1. /\ Len(d) = n /\ d[1] = [message |-> f.message, left |-> 1]
        /\ \A i \in 2..n : d[i] = frames[i]
    BY <1>4, DrainedIs
  <2>2. d[1].left # 2
    BY <2>1
  <2>3. \A i \in 1..n : i = 1 \/ i \in 2..n
    BY <1>1
  <2>4. \A i \in 2..n : i \in 1..n /\ i > 1 /\ d[i] = frames[i]
    BY <2>1
  <2> HIDE DEF d, f
  <2>5. FramesSilent(frames, m.about) <=> FramesSilent(d, m.about) /\ f.message.about # m.about
    <3>1. ASSUME FramesSilent(frames, m.about)
          PROVE  FramesSilent(d, m.about) /\ f.message.about # m.about
      BY <1>1, <1>4, <2>1, <2>2, <2>3, <2>4, <3>1 DEF FramesSilent, n
    <3>2. ASSUME FramesSilent(d, m.about), f.message.about # m.about
          PROVE  FramesSilent(frames, m.about)
      BY <1>1, <2>1, <2>3, <2>4, <3>2 DEF FramesSilent, n
    <3> QED BY <3>1, <3>2
  <2>6. ASSUME FramesEnd(frames, m)
        PROVE  FramesEnd(d, m) \/ (f.message = m /\ FramesSilent(d, m.about))
    <3>1. PICK i \in 1..n :
            /\ frames[i].left = 2 /\ frames[i].message = m
            /\ \A j \in 1..n : j > i => ~(frames[j].left = 2 /\ frames[j].message.about = m.about)
      BY <2>6 DEF FramesEnd, n
    <3>2. CASE i = 1
      <4>1. f.message = m
        BY <1>1, <3>1, <3>2
      <4>2. FramesSilent(d, m.about)
        BY <2>1, <2>2, <2>3, <2>4, <3>1, <3>2 DEF FramesSilent
      <4> QED BY <4>1, <4>2
    <3>3. CASE i \in 2..n
      <4>1. ASSUME NEW j \in 1..n, j > i
            PROVE  ~(d[j].left = 2 /\ d[j].message.about = m.about)
        <5>1. j \in 2..n
          BY <3>3, <4>1
        <5> QED BY <2>4, <3>1, <4>1, <5>1
      <4>2. d[i].left = 2 /\ d[i].message = m
        BY <2>4, <3>1, <3>3
      <4> QED BY <2>1, <4>1, <4>2 DEF FramesEnd
    <3> QED BY <2>3, <3>2, <3>3
  <2>7. ASSUME FramesEnd(d, m) PROVE FramesEnd(frames, m)
    <3>1. PICK i \in 1..n :
            /\ d[i].left = 2 /\ d[i].message = m
            /\ \A j \in 1..n : j > i => ~(d[j].left = 2 /\ d[j].message.about = m.about)
      BY <2>1, <2>7 DEF FramesEnd
    <3>2. i \in 2..n
      BY <2>2, <2>3, <3>1
    <3>3. ASSUME NEW j \in 1..n, j > i
          PROVE  ~(frames[j].left = 2 /\ frames[j].message.about = m.about)
      <4>1. j \in 2..n
        BY <3>2, <3>3
      <4> QED BY <2>4, <3>1, <3>3, <4>1
    <3>4. frames[i].left = 2 /\ frames[i].message = m
      BY <2>4, <3>1, <3>2
    <3> QED BY <3>3, <3>4 DEF FramesEnd, n
  <2>8. ASSUME f.message = m, FramesSilent(d, m.about) PROVE FramesEnd(frames, m)
    <3>1. ASSUME NEW j \in 1..n, j > 1
          PROVE  ~(frames[j].left = 2 /\ frames[j].message.about = m.about)
      <4>1. j \in 2..n
        BY <3>1
      <4> QED BY <2>1, <2>4, <2>8, <4>1 DEF FramesSilent
    <3>2. frames[1].left = 2 /\ frames[1].message = m
      BY <1>1, <1>4, <2>8
    <3> QED BY <1>1, <3>1, <3>2 DEF FramesEnd, n
  <2> QED BY <1>4, <2>5, <2>6, <2>7, <2>8 DEF d, f
<1> QED BY <1>2, <1>3, <1>4

\* m is in ms, and nothing later there is of its subject.
LastIn(ms, m) ==
  \E i \in 1..Len(ms) : ms[i] = m /\ \A j \in 1..Len(ms) : j > i => ms[j].about # m.about

\* The frames after messages were queued and none was dropped.
LEMMA FramesEnqueued ==
  ASSUME NEW frames \in Seq(Frame), NEW ms \in Seq(Message), Dropped(frames, ms) = 0, NEW m
  PROVE  LET e == Enqueue(frames, ms)
         IN /\ e \in Seq(Frame)
            /\ (\A i \in 1..Len(ms) : ms[i].about # m.about) =>
                 /\ FramesEnd(frames, m) => FramesEnd(e, m)
                 /\ FramesSilent(frames, m.about) => FramesSilent(e, m.about)
            /\ LastIn(ms, m) => FramesEnd(e, m)
<1> DEFINE e == Enqueue(frames, ms)
           n == Len(frames)
           k == Len(ms)
<1>1. n \in Nat /\ k \in Nat /\ PendingCap \in Nat
  BY LenProperties, Bounds
<1>2. n + k <= PendingCap
  <2>1. Dropped(frames, ms) = IF n + k > PendingCap THEN n + k - PendingCap ELSE 0
    BY DEF Dropped
  <2> HIDE DEF n, k
  <2> QED BY <1>1, <2>1
<1>3. /\ e \in Seq(Frame) /\ Len(e) = Least(n + k, PendingCap)
      /\ \A i \in 1..Len(e) :
           e[i] = IF i <= n THEN frames[i] ELSE [message |-> ms[i - n], left |-> 2]
  BY EnqueueIs
<1> HIDE DEF n, k, e
<1>4. Len(e) = n + k
  BY <1>1, <1>2, <1>3 DEF Least
<1>5. ASSUME NEW i \in 1..n
      PROVE  i \in 1..Len(e) /\ e[i] = frames[i] /\ i <= n /\ i \in Nat
  <2>1. i \in 1..Len(e) /\ i <= n /\ i \in Nat
    BY <1>1, <1>4
  <2> QED BY <1>3, <2>1
<1>6. ASSUME NEW i \in 1..k
      PROVE  /\ n + i \in 1..Len(e) /\ n + i > n /\ i \in Nat
             /\ e[n + i].message = ms[i] /\ e[n + i].left = 2
  <2>1. n + i \in 1..Len(e) /\ ~(n + i <= n) /\ (n + i) - n = i /\ i \in Nat
    BY <1>1, <1>4
  <2>2. e[n + i] = [message |-> ms[i], left |-> 2]
    BY <1>3, <2>1
  <2> QED BY <1>1, <2>1, <2>2
<1>7. ASSUME NEW i \in 1..Len(e)
      PROVE  i \in 1..n \/ (i - n \in 1..k /\ n + (i - n) = i)
  BY <1>1, <1>4
<1>8. ASSUME \A i \in 1..k : ms[i].about # m.about, FramesEnd(frames, m)
      PROVE  FramesEnd(e, m)
  <2>1. PICK i \in 1..n :
          /\ frames[i].left = 2 /\ frames[i].message = m
          /\ \A j \in 1..n : j > i => ~(frames[j].left = 2 /\ frames[j].message.about = m.about)
    BY <1>8 DEF FramesEnd, n
  <2>2. ASSUME NEW j \in 1..Len(e), j > i
        PROVE  ~(e[j].left = 2 /\ e[j].message.about = m.about)
    <3>1. CASE j \in 1..n
      BY <1>5, <2>1, <2>2, <3>1
    <3>2. CASE j - n \in 1..k /\ n + (j - n) = j
      <4>1. e[j].message = ms[j - n]
        BY <1>6, <3>2
      <4> QED BY <1>8, <3>2, <4>1
    <3> QED BY <1>7, <3>1, <3>2
  <2> QED BY <1>5, <2>1, <2>2 DEF FramesEnd
<1>9. ASSUME \A i \in 1..k : ms[i].about # m.about, FramesSilent(frames, m.about)
      PROVE  FramesSilent(e, m.about)
  <2>2. ASSUME NEW j \in 1..Len(e)
        PROVE  ~(e[j].left = 2 /\ e[j].message.about = m.about)
    <3>1. CASE j \in 1..n
      BY <1>5, <1>9, <3>1 DEF FramesSilent, n
    <3>2. CASE j - n \in 1..k /\ n + (j - n) = j
      <4>1. e[j].message = ms[j - n]
        BY <1>6, <3>2
      <4> QED BY <1>9, <3>2, <4>1
    <3> QED BY <1>7, <3>1, <3>2
  <2> QED BY <2>2 DEF FramesSilent
<1>10. ASSUME NEW i \in 1..k, ms[i] = m, \A j \in 1..k : j > i => ms[j].about # m.about
       PROVE  FramesEnd(e, m)
  <2>1. n + i \in 1..Len(e) /\ e[n + i].left = 2 /\ e[n + i].message = m /\ i \in Nat
    BY <1>6, <1>10
  <2>2. ASSUME NEW j \in 1..Len(e), j > n + i
        PROVE  ~(e[j].left = 2 /\ e[j].message.about = m.about)
    <3>1. j - n \in 1..k /\ j - n > i /\ n + (j - n) = j
      BY <1>1, <1>4, <2>2
    <3>2. e[j].message = ms[j - n]
      BY <1>6, <3>1
    <3> QED BY <1>10, <3>1, <3>2
  <2> QED BY <2>1, <2>2 DEF FramesEnd
<1>11. LastIn(ms, m) => FramesEnd(e, m)
  BY <1>10 DEF LastIn, k
<1> QED BY <1>3, <1>8, <1>9, <1>11 DEF e, k

LEMMA FramesSaid ==
  ASSUME NEW frames \in Seq(Frame), NEW ms \in Seq(Message), Dropped(frames, ms) = 0, NEW m,
         LastIn(ms, m)
  PROVE  FramesEnd(Enqueue(frames, ms), m)
  BY FramesEnqueued

\* The foot of the loop takes a chunk from the first frame that waits to the end of the
\* writes, so what a link is told in the end stays.
LEMMA WriteReaches ==
  ASSUME flying \in Seq(FlyingWrite), NEW c \in Handle, NEW busy, NEW cong,
         NEW frames \in Seq(Frame), NEW hungUp, Write(c, busy, cong, frames, hungUp),
         connection' # 0, NEW s \in Seq(Chunk), NEW m, Reaches(s, flying, frames, c, m)
  PROVE  connection' = c /\ Reaches(s, flying', pending', c, m)
<1>1. CASE connection' = c /\ pending' = frames /\ flying' = flying
  BY <1>1
<1>2. ASSUME frames # <<>>, connection' = c, pending' = Drained(frames),
             flying' = Append(flying, [handle |-> c,
                 chunk |-> [message |-> Head(frames).message, part |-> 3 - Head(frames).left]])
      PROVE  Reaches(s, flying', pending', c, m)
  <2> DEFINE f == Head(frames)
             x == [handle |-> c, chunk |-> [message |-> f.message, part |-> 3 - f.left]]
             a == Arr(s, c)
             d == Drained(frames)
  <2>1. f \in Frame
    BY <1>2, HeadTailProperties
  <2>2. f.message \in Message /\ f.left \in {1, 2}
    BY <2>1 DEF Frame
  <2> HIDE DEF f
  <2>3. 3 - f.left \in 1..2 /\ (3 - f.left = 1 <=> f.left = 2)
    BY <2>2
  <2>4. x \in FlyingWrite
    BY <2>2, <2>3 DEF FlyingWrite, Chunk
  <2>5. x.handle = c /\ x.chunk.message = f.message /\ x.chunk.part = 3 - f.left
    OBVIOUS
  <2>6. flying' = Append(flying, x)
    BY <1>2 DEF f
  <2> HIDE DEF x, a, d
  <2>7. flying' = flying \o <<x>>
    BY <2>4, <2>6, AppendIsConcat
  <2>8. Begins(x, c, m.about) <=> f.left = 2 /\ f.message.about = m.about
    BY <2>3, <2>5 DEF Begins
  <2>9. a \in Seq(FlyingWrite)
    BY ArrIs DEF a
  <2>10. /\ <<x>> \in Seq(FlyingWrite)
         /\ EndsWith(<<x>>, c, m) <=> Begins(x, c, m.about) /\ x.chunk.message = m
         /\ Silent(<<x>>, c, m.about) <=> ~Begins(x, c, m.about)
    BY <2>4, WayOfOne
  <2>11. /\ flying' \in Seq(FlyingWrite)
         /\ EndsWith(flying', c, m) <=>
              EndsWith(<<x>>, c, m) \/ (EndsWith(flying, c, m) /\ Silent(<<x>>, c, m.about))
         /\ Silent(flying', c, m.about) <=> Silent(flying, c, m.about) /\ Silent(<<x>>, c, m.about)
    BY <2>7, <2>10, WaysJoin
  <2>12. EndsWith(a \o flying, c, m) <=>
           EndsWith(flying, c, m) \/ (EndsWith(a, c, m) /\ Silent(flying, c, m.about))
    BY <2>9, WaysJoin
  <2>13. EndsWith(a \o flying', c, m) <=>
           EndsWith(flying', c, m) \/ (EndsWith(a, c, m) /\ Silent(flying', c, m.about))
    BY <2>9, <2>11, WaysJoin
  <2>14. EndsWith(a \o flying', c, m) <=>
           (Begins(x, c, m.about) /\ x.chunk.message = m)
             \/ (EndsWith(a \o flying, c, m) /\ ~Begins(x, c, m.about))
    BY <2>10, <2>11, <2>12, <2>13
  <2>15. /\ FramesEnd(frames, m) <=>
              FramesEnd(d, m) \/ (f.left = 2 /\ f.message = m /\ FramesSilent(d, m.about))
         /\ FramesSilent(frames, m.about) <=>
              FramesSilent(d, m.about) /\ ~(f.left = 2 /\ f.message.about = m.about)
    BY <1>2, FramesDrained DEF f, d
  <2>16. FramesEnd(frames, m) \/ (FramesSilent(frames, m.about) /\ EndsWith(a \o flying, c, m))
    BY DEF Reaches, a
  <2>17. FramesEnd(d, m) \/ (FramesSilent(d, m.about) /\ EndsWith(a \o flying', c, m))
    BY <2>5, <2>8, <2>14, <2>15, <2>16
  <2>18. pending' = d
    BY <1>2 DEF d
  <2> QED BY <2>17, <2>18 DEF Reaches, a
<1> QED BY <1>1, <1>2, WriteDoes DEF MayWrite

-----------------------------------------------------------------------------
(* The replay cache. *)

Holds(known, m) == \E i \in 1..Len(known) : known[i] = m
Cached(m) == Holds(system, m) \/ Holds(registrations, m)

\* The cache has one message of each subject.
CacheInv ==
  /\ Len(system) <= 1
  /\ \A i \in 1..Len(system) : system[i].about = System
  /\ \A i \in 1..Len(registrations) : registrations[i].about \in Module
  /\ \A i, j \in 1..Len(registrations) : registrations[i].about = registrations[j].about => i = j

LEMMA CachedSubjects ==
  ASSUME CacheInv, NEW m, Cached(m)
  PROVE  /\ m.about # Event
         /\ Holds(system, m) => m.about = System
         /\ Holds(registrations, m) => m.about \in Module
  BY Subjects DEF CacheInv, Cached, Holds

\* remember keeps it so; what is cached then is the message or of another subject.
LEMMA RememberKeeps ==
  ASSUME TypeOK, CacheInv, NEW m \in Message, Remember(m)
  PROVE  /\ CacheInv'
         /\ \A x : Cached(x)' => x = m \/ (Cached(x) /\ x.about # m.about)
         /\ \A x : Cached(x)' => x.about # Event
<1>1. CASE m.about = System
  <2>1. system' = <<m>> /\ registrations' = registrations
    BY <1>1 DEF Remember
  <2>2. Len(system') = 1 /\ system'[1] = m
    BY <2>1
  <2>3. \A i \in 1..Len(system') : i = 1
    BY <2>2
  <2>4. CacheInv'
    BY <1>1, <2>1, <2>2, <2>3 DEF CacheInv
  <2>5. ASSUME NEW x, Cached(x)'
        PROVE  (x = m \/ (Cached(x) /\ x.about # m.about)) /\ x.about # Event
    <3>1. CASE Holds(system', x)
      <4>1. x = m
        BY <2>2, <2>3, <3>1 DEF Holds
      <4> QED BY <1>1, <4>1, Subjects
    <3>2. CASE Holds(registrations, x)
      <4>1. Cached(x) /\ x.about \in Module
        BY <3>2, CachedSubjects DEF Cached
      <4> QED BY <1>1, <4>1, Subjects
    <3> QED BY <2>1, <2>5, <3>1, <3>2 DEF Cached
  <2> QED BY <2>4, <2>5
<1>2. CASE m.about = Event
  <2>1. system' = system /\ registrations' = registrations
    BY <1>2, Subjects DEF Remember, cacheVars
  <2>2. CacheInv'
    BY <2>1 DEF CacheInv
  <2>3. ASSUME NEW x, Cached(x)' PROVE Cached(x) /\ x.about # Event
    <3>1. Cached(x)
      BY <2>1, <2>3 DEF Cached
    <3> QED BY <3>1, CachedSubjects
  <2> QED BY <1>2, <2>2, <2>3
<1>3. CASE m.about # System /\ m.about # Event
  <2> DEFINE n == Len(registrations)
  <2>1. m.about \in Module
    BY <1>3 DEF Message, Subject
  <2>2. n \in Nat /\ registrations \in Seq(Message)
    BY TypeFacts, LenProperties
  <2>3. system' = system
    BY <1>3 DEF Remember
  <2>4. \A i \in 1..n : registrations[i].about \in Module
    BY DEF CacheInv
  <2>5. \A i, j \in 1..n : registrations[i].about = registrations[j].about => i = j
    BY DEF CacheInv
  <2> HIDE DEF n
\* The new list, as far as it matters.
  <2>6. \E k \in Nat :
          /\ Len(registrations') = k
          /\ \A i \in 1..k : registrations'[i] = m
               \/ (i \in 1..n /\ registrations'[i] = registrations[i] /\ registrations[i].about # m.about)
          /\ \A i, j \in 1..k : registrations'[i] = m /\ registrations'[j] = m => i = j
    <3>1. CASE \E i \in 1..n : registrations[i].about = m.about
      <4> DEFINE r == [i \in 1..n |-> IF registrations[i].about = m.about THEN m ELSE registrations[i]]
      <4>1. registrations' = r
        BY <1>3, <3>1 DEF Remember, n
      <4>2. Len(r) = n
        BY <2>2
      <4>3. \A i \in 1..n : r[i] = IF registrations[i].about = m.about THEN m ELSE registrations[i]
        OBVIOUS
      <4> HIDE DEF r
      <4>4. \A i \in 1..n : r[i] = m
               \/ (r[i] = registrations[i] /\ registrations[i].about # m.about)
        BY <4>3
      <4>5. ASSUME NEW i \in 1..n, NEW j \in 1..n, r[i] = m, r[j] = m PROVE i = j
        <5>1. registrations[i].about = m.about /\ registrations[j].about = m.about
          BY <4>3, <4>5
        <5> QED BY <2>5, <5>1
      <4> QED BY <2>2, <4>1, <4>2, <4>4, <4>5
    <3>2. CASE ~\E i \in 1..n : registrations[i].about = m.about
      <4> DEFINE r == Append(registrations, m)
      <4>1. registrations' = r
        BY <1>3, <3>2 DEF Remember, n
      <4>2. Len(r) = n + 1 /\ r[n + 1] = m /\ \A i \in 1..n : r[i] = registrations[i]
        BY <2>2, AppendProperties DEF n
      <4> HIDE DEF r
      <4>3. \A i \in 1..n + 1 : i \in 1..n \/ i = n + 1
        BY <2>2
      <4>4. \A i \in 1..n : r[i].about # m.about
        BY <3>2, <4>2
      <4>5. \A i \in 1..n + 1 : r[i] = m
               \/ (i \in 1..n /\ r[i] = registrations[i] /\ registrations[i].about # m.about)
        BY <4>2, <4>3, <4>4
      <4>6. \A i, j \in 1..n + 1 : r[i] = m /\ r[j] = m => i = j
        BY <4>3, <4>4
      <4>7. n + 1 \in Nat
        BY <2>2
      <4> QED BY <4>1, <4>2, <4>5, <4>6, <4>7
    <3> QED BY <3>1, <3>2
  <2>7. PICK k \in Nat :
          /\ Len(registrations') = k
          /\ \A i \in 1..k : registrations'[i] = m
               \/ (i \in 1..n /\ registrations'[i] = registrations[i] /\ registrations[i].about # m.about)
          /\ \A i, j \in 1..k : registrations'[i] = m /\ registrations'[j] = m => i = j
    BY <2>6
  <2>8. \A i \in 1..k : registrations'[i].about \in Module
    BY <2>1, <2>4, <2>7
  <2>9. ASSUME NEW i \in 1..k, NEW j \in 1..k, registrations'[i].about = registrations'[j].about
        PROVE  i = j
    <3>1. CASE registrations'[i] = m
      <4>1. registrations'[j] = m
        BY <2>7, <2>9, <3>1
      <4> QED BY <2>7, <3>1, <4>1
    <3>2. CASE i \in 1..n /\ registrations'[i] = registrations[i] /\ registrations[i].about # m.about
      <4>1. j \in 1..n /\ registrations'[j] = registrations[j]
        BY <2>7, <2>9, <3>2
      <4> QED BY <2>5, <2>9, <3>2, <4>1
    <3> QED BY <2>7, <3>1, <3>2
  <2>10. CacheInv'
    BY <2>3, <2>7, <2>8, <2>9 DEF CacheInv
  <2>11. ASSUME NEW x, Cached(x)'
         PROVE  (x = m \/ (Cached(x) /\ x.about # m.about)) /\ x.about # Event
    <3>1. CASE Holds(system, x)
      <4>1. Cached(x) /\ x.about = System
        BY <3>1, CachedSubjects DEF Cached
      <4> QED BY <1>3, <4>1, Subjects
    <3>2. CASE Holds(registrations', x)
      <4>1. PICK i \in 1..k : registrations'[i] = x
        BY <2>7, <3>2 DEF Holds
      <4>2. CASE x = m
        BY <1>3, <4>2
      <4>3. CASE i \in 1..n /\ x = registrations[i] /\ registrations[i].about # m.about
        <5>1. Cached(x)
          BY <4>3 DEF Cached, Holds, n
        <5> QED BY <4>3, <5>1, CachedSubjects
      <4> QED BY <2>7, <4>1, <4>2, <4>3
    <3> QED BY <2>3, <2>11, <3>1, <3>2 DEF Cached
  <2> QED BY <2>10, <2>11
<1> QED BY <1>1, <1>2, <1>3

\* The replay says each cached message once, and nothing else of its subject.
LEMMA ReplayOnce ==
  ASSUME TypeOK, CacheInv, NEW m, Cached(m)
  PROVE  LastIn(Replay, m)
<1> DEFINE n == Len(system)
           k == Len(registrations)
           r == Replay
<1>1. system \in Seq(Message) /\ registrations \in Seq(Message) /\ n \in Nat /\ k \in Nat
  BY TypeFacts, LenProperties
<1>2. Len(r) = n + k /\ \A i \in 1..n + k : r[i] = IF i <= n THEN system[i] ELSE registrations[i - n]
  BY <1>1, ConcatProperties DEF Replay
<1> HIDE DEF n, k, r
<1>3. n <= 1 /\ \A i \in 1..n : system[i].about = System
  BY DEF CacheInv, n
<1>4. \A i \in 1..k : registrations[i].about \in Module
  BY DEF CacheInv, k
<1>5. \A i, j \in 1..k : registrations[i].about = registrations[j].about => i = j
  BY DEF CacheInv, k
<1>6. ASSUME NEW i \in 1..k PROVE n + i \in 1..Len(r) /\ r[n + i] = registrations[i] /\ i \in Nat
  <2>1. n + i \in 1..n + k /\ ~(n + i <= n) /\ (n + i) - n = i /\ i \in Nat
    BY <1>1
  <2> QED BY <1>2, <2>1
<1>7. ASSUME NEW j \in 1..Len(r), j > n PROVE j - n \in 1..k /\ r[j] = registrations[j - n]
  <2>1. j \in 1..n + k /\ ~(j <= n) /\ j - n \in 1..k
    BY <1>1, <1>2, <1>7
  <2> QED BY <1>2, <2>1
<1>8. CASE Holds(system, m)
  <2>1. PICK i \in 1..n : system[i] = m
    BY <1>8 DEF Holds, n
  <2>2. i = 1 /\ n = 1 /\ i \in 1..Len(r) /\ i <= n
    BY <1>1, <1>2, <1>3
  <2>3. r[i] = m
    BY <1>2, <2>1, <2>2
  <2>4. ASSUME NEW j \in 1..Len(r), j > i PROVE r[j].about # m.about
    <3>1. j - n \in 1..k /\ r[j] = registrations[j - n]
      BY <1>7, <2>2, <2>4
    <3>2. r[j].about \in Module
      BY <1>4, <3>1
    <3>3. m.about = System
      BY <1>3, <2>1
    <3> QED BY <3>2, <3>3, Subjects
  <2> QED BY <2>2, <2>3, <2>4 DEF LastIn, r
<1>9. CASE Holds(registrations, m)
  <2>1. PICK i \in 1..k : registrations[i] = m
    BY <1>9 DEF Holds, k
  <2>2. n + i \in 1..Len(r) /\ r[n + i] = m /\ i \in Nat
    BY <1>6, <2>1
  <2>3. ASSUME NEW j \in 1..Len(r), j > n + i PROVE r[j].about # m.about
    <3>1. j > n /\ j - n # i
      BY <1>1, <2>2, <2>3
    <3>2. j - n \in 1..k /\ r[j] = registrations[j - n]
      BY <1>7, <3>1
    <3> QED BY <1>5, <2>1, <3>1, <3>2
  <2> QED BY <2>2, <2>3 DEF LastIn, r
<1> QED BY <1>8, <1>9 DEF Cached

-----------------------------------------------------------------------------
(* A served desktop is up to date. *)

Serving == connection \in radio /\ linkDrops = 0 /\ ~LossIsReported

LEMMA ToldIs ==
  ASSUME TypeOK, DesktopIsUpToDate, Serving, NEW m, Cached(m)
  PROVE  connection \in Handle /\ Reaches(heard[connection], flying, pending, connection, m)
<1> DEFINE c == connection
<1>1. c \in Handle /\ heard[c] \in Seq(Chunk) /\ flying \in Seq(FlyingWrite) /\ pending \in Seq(Frame)
  BY TypeFacts DEF Serving
<1>2. EndsWith(Way(c), c, m)
  BY DEF DesktopIsUpToDate, Serving, Cached, Holds
<1>3. Way(c) = Arr(heard[c], c) \o flying \o Wait(pending, c)
  BY DEF Way, Arrived, Waiting, Arr, Wait
<1>4. EndsWith(Arr(heard[c], c) \o flying \o Wait(pending, c), c, m)
        <=> Reaches(heard[c], flying, pending, c, m)
  BY <1>1, ReachesIs
<1> QED BY <1>1, <1>2, <1>3, <1>4

LEMMA NextToldIs ==
  ASSUME TypeOK',
         Serving' => \A m : Cached(m)' => Reaches(heard'[connection'], flying', pending', connection', m)
  PROVE  DesktopIsUpToDate'
<1> DEFINE c == connection'
           s == heard'[c]
           fl == flying'
           frames == pending'
<1> SUFFICES ASSUME Serving'
             PROVE  /\ \A i \in 1..Len(system') : EndsWith(Way(connection)', c, system'[i])
                    /\ \A i \in 1..Len(registrations') : EndsWith(Way(connection)', c, registrations'[i])
  BY DEF DesktopIsUpToDate, Serving
<1>1. c \in Handle /\ s \in Seq(Chunk) /\ fl \in Seq(FlyingWrite) /\ frames \in Seq(Frame)
  <2>1. /\ radio' \in SUBSET Handle /\ heard' \in [Handle -> Seq(Chunk)]
        /\ flying' \in Seq(FlyingWrite) /\ pending' \in Seq(Frame)
    BY DEF TypeOK, FlyingWrite
  <2> QED BY <2>1 DEF Serving
<1>2. Way(connection)' = Arr(s, c) \o fl \o Wait(frames, c)
  BY DEF Way, Arrived, Waiting, Arr, Wait
<1> HIDE DEF c, s, fl, frames
<1>3. ASSUME NEW m, Cached(m)' PROVE EndsWith(Way(connection)', c, m)
  <2>1. Reaches(s, fl, frames, c, m)
    BY <1>3 DEF c, s, fl, frames
  <2>2. EndsWith(Arr(s, c) \o fl \o Wait(frames, c), c, m)
    BY <1>1, <2>1, ReachesIs
  <2> QED BY <1>2, <2>2
<1> QED BY <1>3 DEF Cached, Holds

BadWrite(item, c) == item.kind = "WriteDone" /\ item.handle = c /\ ~item.ok

LEMMA LossIs ==
  /\ LossIsReported <=> overflow \/ \E i \in 1..Len(work) : BadWrite(work[i], connection)
  /\ LossIsReported' <=> overflow' \/ \E i \in 1..Len(work') : BadWrite(work'[i], connection')
  BY DEF LossIsReported, BadWrite

\* A loss that is reported stays so while items are added, and until it is taken.
LEMMA LossStays ==
  ASSUME TypeOK, ~LossIsReported', connection' = connection, overflow' = overflow,
         \/ work' = work
         \/ \E item \in Work : work' = Append(work, item)
         \/ work # <<>> /\ work' = Tail(work) /\ ~BadWrite(Head(work), connection)
  PROVE  ~LossIsReported
<1>1. work \in Seq(Work)
  BY TypeFacts
<1>2. ~overflow /\ \A i \in 1..Len(work') : ~BadWrite(work'[i], connection)
  BY LossIs
<1>3. ASSUME NEW i \in 1..Len(work) PROVE ~BadWrite(work[i], connection)
  <2>1. CASE work' = work
    BY <1>2, <2>1
  <2>2. ASSUME NEW item \in Work, work' = Append(work, item)
        PROVE  ~BadWrite(work[i], connection)
    <3>1. Len(work') = Len(work) + 1 /\ work'[i] = work[i] /\ Len(work) \in Nat
      BY <1>1, <2>2, AppendProperties, LenProperties
    <3>2. i \in 1..Len(work')
      BY <3>1
    <3> QED BY <1>2, <3>1, <3>2
  <2>3. CASE work # <<>> /\ work' = Tail(work) /\ ~BadWrite(Head(work), connection)
    <3>1. /\ Len(work') = Len(work) - 1 /\ work[1] = Head(work) /\ Len(work) \in Nat
          /\ \A j \in 1..Len(work) - 1 : work'[j] = work[j + 1]
      <4> DEFINE t == Tail(work)
      <4>1. /\ Len(t) = Len(work) - 1 /\ work[1] = Head(work) /\ Len(work) \in Nat
            /\ \A j \in 1..Len(work) - 1 : t[j] = work[j + 1]
        BY <1>1, <2>3, HeadItem
      <4>2. work' = t
        BY <2>3
      <4> HIDE DEF t
      <4> QED BY <4>1, <4>2
    <3>2. CASE i = 1
      BY <2>3, <3>1, <3>2
    <3>3. CASE i # 1
      <4>1. i - 1 \in 1..Len(work) - 1 /\ (i - 1) + 1 = i
        BY <3>1, <3>3
      <4>2. work'[i - 1] = work[i] /\ i - 1 \in 1..Len(work')
        BY <3>1, <4>1
      <4> QED BY <1>2, <4>2
    <3> QED BY <3>2, <3>3
  <2> QED BY <2>1, <2>2, <2>3
<1> QED BY <1>2, <1>3, LossIs

\* A step that touches nothing of what a served desktop is told.
LEMMA ToldStays ==
  ASSUME TypeOK, TypeOK', DesktopIsUpToDate, Serving' => Serving,
         UNCHANGED <<connection, flying, pending, heard, system, registrations>>
  PROVE  DesktopIsUpToDate'
<1> SUFFICES ASSUME Serving', NEW m, Cached(m)'
             PROVE  Reaches(heard'[connection'], flying', pending', connection', m)
  BY NextToldIs
<1>1. Cached(m)
  BY DEF Cached
<1>2. Reaches(heard[connection], flying, pending, connection, m)
  BY <1>1, ToldIs
<1> QED BY <1>2

LEMMA CallbackServing ==
  ASSUME TypeOK, NEW item \in Work, item.kind # "Message", Callback(item), Serving',
         connection \in radio, UNCHANGED <<connection, linkDrops>>
  PROVE  Serving /\ work' = Append(work, item)
<1>1. ~overflow' /\ ~LossIsReported'
  BY LossIs DEF Serving
<1>2. work' = Append(work, item) /\ overflow' = overflow
  BY <1>1, CallbackIs
<1>3. ~LossIsReported
  BY <1>1, <1>2, LossStays
<1> QED BY <1>2, <1>3 DEF Serving

LEMMA WriteArrives ==
  ASSUME NEW fl \in Seq(FlyingWrite), fl # <<>>, NEW s \in Seq(Chunk), NEW frames, NEW c \in Handle,
         NEW m, Reaches(s, fl, frames, c, m)
  PROVE  /\ Head(fl).handle = c => Reaches(Append(s, Head(fl).chunk), Tail(fl), frames, c, m)
         /\ Head(fl).handle # c => Reaches(s, Tail(fl), frames, c, m)
<1> DEFINE x == Head(fl)
           t == Tail(fl)
           a == Arr(s, c)
           b == Arr(Append(s, x.chunk), c)
<1>1. x \in FlyingWrite /\ t \in Seq(FlyingWrite)
  BY HeadTailProperties
<1>2. fl = <<x>> \o t
  BY HeadTailProperties
<1>3. a \in Seq(FlyingWrite)
  BY ArrIs
<1>4. /\ <<x>> \in Seq(FlyingWrite)
      /\ EndsWith(<<x>>, c, m) <=> Begins(x, c, m.about) /\ x.chunk.message = m
      /\ Silent(<<x>>, c, m.about) <=> ~Begins(x, c, m.about)
  BY <1>1, WayOfOne
<1>5. x.handle # c => ~Begins(x, c, m.about)
  BY DEF Begins
<1>6. x.handle = c => b = a \o <<x>>
  <2> SUFFICES ASSUME x.handle = c PROVE b = a \o <<x>>
    OBVIOUS
  <2>1. x.chunk \in Chunk /\ x = [handle |-> c, chunk |-> x.chunk]
    BY <1>1 DEF FlyingWrite
  <2> DEFINE k == x.chunk
             e == Append(s, k)
             n == Len(s)
  <2>2. /\ e \in Seq(Chunk) /\ Len(e) = n + 1 /\ e[n + 1] = k /\ n \in Nat
        /\ \A i \in 1..n : e[i] = s[i]
    BY <2>1, AppendProperties, LenProperties
  <2>3. b = [i \in 1..n + 1 |-> [handle |-> c, chunk |-> e[i]]]
    BY <2>2 DEF Arr
  <2>4. a = [i \in 1..n |-> [handle |-> c, chunk |-> s[i]]] /\ Len(a) = n
    BY ArrIs DEF Arr
  <2> HIDE DEF k, n, e, x, a, b
  <2>5. a \o <<x>> = Append(a, x)
    BY <1>1, <1>3, AppendIsConcat
  <2>6. Append(a, x) = [i \in 1..n + 1 |-> IF i <= n THEN a[i] ELSE x]
    <3>1. /\ Append(a, x) \in Seq(FlyingWrite) /\ Len(Append(a, x)) = n + 1
          /\ \A i \in 1..n : Append(a, x)[i] = a[i]
          /\ Append(a, x)[n + 1] = x
      <4>1. Len(a) = n
        BY <2>4
      <4> QED BY <1>1, <1>3, <4>1, AppendProperties
    <3>2. DOMAIN Append(a, x) = 1..n + 1 /\ Append(a, x) = [i \in 1..n + 1 |-> Append(a, x)[i]]
      BY <3>1, LenProperties
    <3>3. ASSUME NEW i \in 1..n + 1
          PROVE  Append(a, x)[i] = IF i <= n THEN a[i] ELSE x
      <4>1. n \in Nat
        BY <2>2
      <4>2. (i \in 1..n /\ i <= n) \/ (i = n + 1 /\ ~(i <= n))
        BY <4>1
      <4> QED BY <3>1, <4>2
    <3> QED BY <3>2, <3>3
  <2>7. \A i \in 1..n + 1 : [handle |-> c, chunk |-> e[i]] = IF i <= n THEN a[i] ELSE x
    <3> TAKE i \in 1..n + 1
    <3>1. CASE i \in 1..n
      <4>1. i <= n /\ e[i] = s[i]
        BY <2>2, <3>1
      <4> QED BY <2>4, <3>1, <4>1
    <3>2. CASE i = n + 1
      <4>1. ~(i <= n)
        BY <2>2, <3>2
      <4> QED BY <2>1, <2>2, <3>2, <4>1 DEF k
    <3> QED BY <2>2, <3>1, <3>2
  <2> QED BY <2>3, <2>5, <2>6, <2>7
<1>7. FramesEnd(frames, m) \/ (FramesSilent(frames, m.about) /\ EndsWith(a \o fl, c, m))
  BY DEF Reaches
<1> HIDE DEF x, t, a, b
<1>8. EndsWith(a \o fl, c, m) <=>
        EndsWith(fl, c, m) \/ (EndsWith(a, c, m) /\ Silent(fl, c, m.about))
  BY <1>3, WaysJoin
<1>9. /\ EndsWith(fl, c, m) <=> EndsWith(t, c, m) \/ (EndsWith(<<x>>, c, m) /\ Silent(t, c, m.about))
      /\ Silent(fl, c, m.about) <=> Silent(<<x>>, c, m.about) /\ Silent(t, c, m.about)
  BY <1>1, <1>2, <1>4, WaysJoin
<1>10. EndsWith(a \o t, c, m) <=> EndsWith(t, c, m) \/ (EndsWith(a, c, m) /\ Silent(t, c, m.about))
  BY <1>1, <1>3, WaysJoin
<1>11. ASSUME x.handle # c PROVE EndsWith(a \o t, c, m) <=> EndsWith(a \o fl, c, m)
  BY <1>4, <1>5, <1>8, <1>9, <1>10, <1>11
<1>12. ASSUME x.handle = c PROVE EndsWith(b \o t, c, m) <=> EndsWith(a \o fl, c, m)
  <2>1. (a \o <<x>>) \o t = a \o fl
    BY <1>1, <1>2, <1>3, <1>4, ConcatAssociative
  <2> QED BY <1>6, <1>12, <2>1
<1> QED BY <1>7, <1>11, <1>12 DEF Reaches, x, t, a, b

LEMMA ToldCompletes ==
  ASSUME TypeOK, TypeOK', DesktopIsUpToDate, WriteCompletes
  PROVE  DesktopIsUpToDate'
<1> DEFINE x == Head(flying)
           h == x.handle
           c == connection
<1>1. /\ flying # <<>> /\ flying' = Tail(flying) /\ x \in FlyingWrite /\ h \in Handle
      /\ UNCHANGED <<radio, connection, pending, system, registrations, linkDrops>>
      /\ \/ /\ heard' = [heard EXCEPT ![h] = Append(@, x.chunk)] /\ h \in radio
            /\ \E b \in BOOLEAN : Callback(WriteDone(h, TRUE, b))
         \/ heard' = heard /\ Callback(WriteDone(h, FALSE, FALSE))
         \/ heard' = heard /\ UNCHANGED queueVars /\ h \notin radio
  BY CompletesShape DEF StackFrame
<1> SUFFICES ASSUME Serving', NEW m, Cached(m)'
             PROVE  Reaches(heard'[connection'], flying', pending', connection', m)
  BY NextToldIs
<1>2. Cached(m) /\ c \in radio /\ c \in Handle
  BY <1>1, TypeFacts DEF Cached, Serving
<1>3. heard[c] \in Seq(Chunk) /\ flying \in Seq(FlyingWrite) /\ heard \in [Handle -> Seq(Chunk)]
  BY <1>2, TypeFacts
<1>4. ASSUME Serving
      PROVE  /\ h = c => Reaches(Append(heard[c], x.chunk), Tail(flying), pending, c, m)
             /\ h # c => Reaches(heard[c], Tail(flying), pending, c, m)
  <2>1. Reaches(heard[c], flying, pending, c, m)
    BY <1>2, <1>4, ToldIs
  <2> QED BY <1>1, <1>2, <1>3, <2>1, WriteArrives
<1>5. ASSUME heard' = [heard EXCEPT ![h] = Append(@, x.chunk)],
             NEW b \in BOOLEAN, Callback(WriteDone(h, TRUE, b))
      PROVE  Reaches(heard'[connection'], flying', pending', connection', m)
  <2> DEFINE item == WriteDone(h, TRUE, b)
  <2>1. item \in Work /\ item.kind # "Message"
    BY <1>1, DoneIs
  <2>2. Serving
    <3> HIDE DEF item
    <3>1. Callback(item)
      BY <1>5 DEF item
    <3> QED BY <1>1, <1>2, <2>1, <3>1, CallbackServing
  <2> HIDE DEF x
  <2>3. heard'[c] = IF h = c THEN Append(heard[c], x.chunk) ELSE heard[c]
    BY <1>2, <1>3, <1>5
  <2> QED BY <1>1, <1>4, <2>2, <2>3
<1>6. ASSUME heard' = heard, Callback(WriteDone(h, FALSE, FALSE))
      PROVE  Reaches(heard'[connection'], flying', pending', connection', m)
  <2> DEFINE item == WriteDone(h, FALSE, FALSE)
  <2>1. item \in Work /\ item.kind = "WriteDone" /\ item.handle = h /\ item.ok = FALSE
    BY <1>1, DoneIs
  <2> HIDE DEF item
  <2>2. Serving /\ work' = Append(work, item)
    <3>1. Callback(item)
      BY <1>6 DEF item
    <3> QED BY <1>1, <1>2, <2>1, <3>1, CallbackServing
  <2>3. h # c
    <3>1. Len(work') = Len(work) + 1 /\ work'[Len(work) + 1] = item /\ Len(work) \in Nat
      BY <2>1, <2>2, TypeFacts, AppendProperties, LenProperties
    <3>2. Len(work) + 1 \in 1..Len(work')
      BY <3>1
    <3>3. ~BadWrite(item, connection')
      BY <3>1, <3>2, LossIs DEF Serving
    <3> QED BY <1>1, <2>1, <3>3 DEF BadWrite
  <2> QED BY <1>1, <1>4, <1>6, <2>2, <2>3
<1>7. ASSUME heard' = heard, UNCHANGED queueVars, h \notin radio
      PROVE  Reaches(heard'[connection'], flying', pending', connection', m)
  <2>1. work' = work /\ overflow' = overflow
    BY <1>7 DEF queueVars
  <2>2. ~LossIsReported
    BY <1>1, <2>1, LossStays DEF Serving
  <2>3. Serving
    BY <1>1, <1>2, <2>2 DEF Serving
  <2> QED BY <1>1, <1>2, <1>4, <1>7, <2>3
<1> QED BY <1>1, <1>5, <1>6, <1>7

LEMMA ToldStack ==
  ASSUME TypeOK, TypeOK', OrderInv, DesktopIsUpToDate, Stack
  PROVE  DesktopIsUpToDate'
<1> USE DEF StackFrame
<1>0. radio \subseteq 1..opened
  BY DEF OrderInv
<1>1. CASE LinkOpens
  <2> DEFINE h == opened + 1
  <2>1. /\ Callback(Connected(h)) /\ radio' = radio \cup {h} /\ opened < MaxLinks
        /\ UNCHANGED <<connection, flying, pending, heard, system, registrations, linkDrops>>
    BY <1>1 DEF LinkOpens, writeVars, cacheVars
  <2>2. h \in Handle /\ h > opened
    BY <2>1, OpenedIs, Bounds DEF Handle
  <2>3. connection # h
    BY <2>2 DEF OrderInv, Unserved
  <2>4. Connected(h) \in Work /\ Connected(h).kind # "Message"
    BY <2>2 DEF Connected, Work
  <2> HIDE DEF h
  <2>5. Serving' => Serving
    <3> SUFFICES ASSUME Serving' PROVE Serving
      OBVIOUS
    <3>1. connection \in radio
      BY <2>1, <2>3 DEF Serving
    <3> QED BY <2>1, <2>4, <3>1, CallbackServing
  <2> QED BY <2>1, <2>5, ToldStays
<1>2. ASSUME NEW item \in Work, item.kind # "Message", Callback(item), radio' \subseteq radio,
             UNCHANGED <<connection, flying, pending, heard, system, registrations, linkDrops>>
      PROVE  DesktopIsUpToDate'
  <2>1. Serving' => Serving
    <3> SUFFICES ASSUME Serving' PROVE Serving
      OBVIOUS
    <3>1. connection \in radio
      BY <1>2 DEF Serving
    <3> QED BY <1>2, <3>1, CallbackServing
  <2> QED BY <1>2, <2>1, ToldStays
<1>3. ASSUME NEW h \in radio, NEW to \in {said[h] + 1, said[h] + 2},
             Callback(Data(h, said[h] + 1, to)), StackFrame, UNCHANGED <<radio, flying, heard>>
      PROVE  DesktopIsUpToDate'
  <2> DEFINE item == Data(h, said[h] + 1, to)
  <2>1. item \in Work /\ item.kind # "Message"
    <3>1. h \in Handle
      BY OpenLink
    <3> QED BY <3>1, DataIs
  <2>2. Callback(item)
    BY <1>3
  <2> HIDE DEF item
  <2> QED BY <1>2, <1>3, <2>1, <2>2
<1>4. ASSUME NEW h \in radio, NEW item \in {Closed(h), TooLong(h), Congestion(h, TRUE),
                                            Congestion(h, FALSE)},
             Callback(item), radio' \subseteq radio, StackFrame, UNCHANGED <<flying, heard>>
      PROVE  DesktopIsUpToDate'
  <2>1. item \in Work /\ item.kind # "Message"
    <3>1. h \in Handle
      BY OpenLink
    <3> QED BY <3>1, StackItems
  <2> QED BY <1>2, <1>4, <2>1
<1> QED BY <1>0, <1>1, <1>3, <1>4, ToldCompletes, StackShape

\* The foot of the loop, when the frames it finds say what is cached.
LEMMA ToldWrite ==
  ASSUME TypeOK, TypeOK', NEW c \in 0..MaxLinks, NEW busy, NEW cong, NEW frames \in Seq(Frame),
         NEW hungUp, Write(c, busy, cong, frames, hungUp), heard' = heard,
         (c \in Handle /\ connection' = c /\ Serving') =>
            \A m : Cached(m)' => Reaches(heard[c], flying, frames, c, m)
  PROVE  DesktopIsUpToDate'
<1> SUFFICES ASSUME Serving', NEW m, Cached(m)'
             PROVE  Reaches(heard'[connection'], flying', pending', connection', m)
  BY NextToldIs
<1>1. connection' \in Handle /\ connection' # 0
  <2>1. radio' \in SUBSET Handle
    BY DEF TypeOK
  <2> QED BY <2>1 DEF Serving, Handle
<1>2. c \in Handle /\ connection' = c
  BY <1>1, WriteDoes
<1>3. flying \in Seq(FlyingWrite) /\ heard[c] \in Seq(Chunk)
  BY <1>2, TypeFacts
<1>4. Reaches(heard[c], flying, frames, c, m)
  BY <1>2
<1>5. Reaches(heard[c], flying', pending', c, m)
  BY <1>1, <1>2, <1>3, <1>4, WriteReaches
<1> QED BY <1>2, <1>5

\* A handler that ends the connection.
LEMMA ToldEnds ==
  ASSUME TypeOK, TypeOK', NEW busy, NEW cong, NEW hungUp, Write(0, busy, cong, <<>>, hungUp),
         heard' = heard
  PROVE  DesktopIsUpToDate'
<1>1. 0 \in 0..MaxLinks /\ 0 \notin Handle
  BY Bounds DEF Handle
<1> QED BY <1>1, EmptyFrames, ToldWrite

\* A handler that leaves the cache alone and does not touch what the frames say.
LEMMA ToldHandler ==
  ASSUME TypeOK, TypeOK', CacheInv, DesktopIsUpToDate, NEW kind, Take(kind),
         UNCHANGED <<radio, heard, system, registrations>>,
         NEW busy, NEW cong, NEW frames \in Seq(Frame), NEW hungUp,
         Write(connection, busy, cong, frames, hungUp),
         ~BadWrite(Head(work), connection),
         linkDrops' = 0 =>
           /\ linkDrops = 0
           /\ \A m : m.about # Event /\ Reaches(heard[connection], flying, pending, connection, m)
                       => Reaches(heard[connection], flying, frames, connection, m)
  PROVE  DesktopIsUpToDate'
<1> DEFINE c == connection
<1>1. c \in 0..MaxLinks
  BY ConnectionIs
<1>2. ASSUME c \in Handle, connection' = c, Serving', NEW m, Cached(m)'
      PROVE  Reaches(heard[c], flying, frames, c, m)
  <2>1. linkDrops' = 0
    BY <1>2 DEF Serving
  <2>2. work # <<>> /\ work' = Tail(work) /\ overflow' = overflow
    BY DEF Take
  <2>3. ~LossIsReported
    BY <1>2, <2>2, LossStays DEF Serving
  <2>4. Serving
    BY <1>2, <2>1, <2>3 DEF Serving
  <2>5. Cached(m)
    BY <1>2 DEF Cached
  <2>6. Reaches(heard[c], flying, pending, c, m) /\ m.about # Event
    BY <2>4, <2>5, ToldIs, CachedSubjects
  <2> QED BY <2>1, <2>6
<1> QED BY <1>1, <1>2, ToldWrite

\* Nothing was dropped before, and nothing is dropped now.
LEMMA NoneDropped ==
  ASSUME TypeOK, NEW frames \in Seq(Frame), NEW ms \in Seq(Message),
         linkDrops' = linkDrops + Dropped(frames, ms), linkDrops' = 0
  PROVE  linkDrops = 0 /\ Dropped(frames, ms) = 0
<1> DEFINE d == Dropped(frames, ms)
<1>1. d \in Nat /\ linkDrops \in Nat
  BY DroppedType, TypeFacts
<1>2. linkDrops + d = 0
  OBVIOUS
<1> HIDE DEF d
<1>3. linkDrops = 0 /\ d = 0
  BY <1>1, <1>2
<1> QED BY <1>3 DEF d

\* The replay says everything that is cached.
LEMMA ToldConnected ==
  ASSUME TypeOK, TypeOK', CacheInv, OnConnected
  PROVE  DesktopIsUpToDate'
<1> DEFINE h == Head(work).handle
           frames == Enqueue(<<>>, Replay)
<1>1. /\ Take("Connected") /\ Write(h, NotBusy, FALSE, frames, {})
      /\ linkDrops' = linkDrops + Dropped(<<>>, Replay)
      /\ UNCHANGED <<heard, system, registrations>>
  BY DEF OnConnected, cacheVars
<1>2. h \in Handle /\ h \in 0..MaxLinks
  BY <1>1, TakeTypes, ItemFields, ConnectionIs
<1>3. Replay \in Seq(Message) /\ <<>> \in Seq(Frame)
  BY ReplayType, EmptyFrames
<1>4. frames \in Seq(Frame)
  BY <1>3, EnqueueType
<1> HIDE DEF h, frames
<1>5. ASSUME Serving', NEW m, Cached(m)'
      PROVE  Reaches(heard[h], flying, frames, h, m)
  <2>1. Dropped(<<>>, Replay) = 0
    <3>1. linkDrops' = 0
      BY <1>5 DEF Serving
    <3> QED BY <1>1, <1>3, <3>1, NoneDropped
  <2>2. Cached(m)
    BY <1>1, <1>5 DEF Cached
  <2>3. LastIn(Replay, m)
    BY <2>2, ReplayOnce
  <2>4. FramesEnd(frames, m)
    <3> DEFINE none == <<>>
    <3>1. none \in Seq(Frame) /\ Dropped(none, Replay) = 0 /\ Replay \in Seq(Message)
      BY <1>3, <2>1
    <3>2. frames = Enqueue(none, Replay)
      BY DEF frames
    <3> HIDE DEF none
    <3> QED BY <2>3, <3>1, <3>2, FramesSaid
  <2> QED BY <2>4 DEF Reaches
<1> QED BY <1>1, <1>2, <1>4, <1>5, ToldWrite

LEMMA OnDataLeaves ==
  ASSUME OnData
  PROVE  Take("Data") /\ UNCHANGED <<radio, heard, system, registrations>>
<1>1. Take("Data") /\ Ours /\ UNCHANGED <<radio, opened, said, jammed, heard, cacheVars, created>>
  BY Zenon DEF OnData
<1> QED BY <1>1 DEF cacheVars

\* The answer to a line is no cached message.
LEMMA ToldData ==
  ASSUME TypeOK, TypeOK', CacheInv, DesktopIsUpToDate, OnData
  PROVE  DesktopIsUpToDate'
<1>1. Take("Data") /\ UNCHANGED <<radio, heard, system, registrations>>
  BY OnDataLeaves
<1>2. PICK n : \E reply \in Answers(n) :
                 /\ Write(connection, writePending, congested, Enqueue(pending, reply), {})
                 /\ linkDrops' = linkDrops + Dropped(pending, reply)
  BY OnDataIs
<1>3. PICK reply \in Answers(n) :
         /\ Write(connection, writePending, congested, Enqueue(pending, reply), {})
         /\ linkDrops' = linkDrops + Dropped(pending, reply)
  BY <1>2
<1>4. reply \in Seq(Message) /\ pending \in Seq(Frame)
  BY AnswersType, TypeFacts
<1>5. \A i \in 1..Len(reply) : reply[i].about = Event
  <2>1. reply \in {<<>>, <<Answer>>}
    BY DEF Answers
  <2>2. CASE reply = <<>>
    BY <2>2
  <2>3. CASE reply = <<Answer>>
    <3>1. Len(reply) = 1 /\ reply[1] = Answer
      BY <2>3
    <3>2. Answer.about = Event
      BY DEF Answer
    <3>3. \A i \in 1..Len(reply) : i = 1
      BY <3>1
    <3> QED BY <3>1, <3>2, <3>3
  <2> QED BY <2>1, <2>2, <2>3
<1> DEFINE frames == Enqueue(pending, reply)
<1>6. frames \in Seq(Frame)
  BY <1>4, EnqueueType
<1>7. ~BadWrite(Head(work), connection)
  BY <1>1 DEF Take, BadWrite
<1> HIDE DEF frames
<1>8. ASSUME linkDrops' = 0
      PROVE  /\ linkDrops = 0
             /\ \A m : m.about # Event /\ Reaches(heard[connection], flying, pending, connection, m)
                         => Reaches(heard[connection], flying, frames, connection, m)
  <2>1. linkDrops = 0 /\ Dropped(pending, reply) = 0
    BY <1>3, <1>4, <1>8, NoneDropped
  <2>2. ASSUME NEW m, m.about # Event, Reaches(heard[connection], flying, pending, connection, m)
        PROVE  Reaches(heard[connection], flying, frames, connection, m)
    <3>1. \A i \in 1..Len(reply) : reply[i].about # m.about
      BY <1>5, <2>2
    <3>2. /\ FramesEnd(pending, m) => FramesEnd(frames, m)
          /\ FramesSilent(pending, m.about) => FramesSilent(frames, m.about)
      BY <1>4, <2>1, <3>1, FramesEnqueued DEF frames
    <3> QED BY <2>2, <3>2 DEF Reaches
  <2> QED BY <2>1, <2>2
<1>9. Write(connection, writePending, congested, frames, {})
  BY <1>3 DEF frames
<1> QED BY <1>1, <1>6, <1>7, <1>8, <1>9, ToldHandler

\* A message is remembered and queued for the connection there is.
LEMMA ToldMessage ==
  ASSUME TypeOK, TypeOK', CacheInv, DesktopIsUpToDate, OnMessage
  PROVE  DesktopIsUpToDate'
<1> DEFINE m == Head(work).message
           c == connection
           ms == <<m>>
           frames == Enqueue(pending, ms)
<1>1. Take("Message") /\ Remember(m) /\ UNCHANGED <<radio, heard>>
  BY DEF OnMessage
<1>2. m \in Message
  BY <1>1, TakeTypes, ItemFields
<1>3. \A x : Cached(x)' => x = m \/ (Cached(x) /\ x.about # m.about)
  <2> HIDE DEF m
  <2> QED BY <1>1, <1>2, RememberKeeps
<1>4. CASE c = 0
  <2>1. connection' = 0
    BY <1>4 DEF OnMessage, writeVars
  <2>2. ~Serving'
    <3>1. radio' \in SUBSET Handle
      BY DEF TypeOK
    <3> QED BY <2>1, <3>1 DEF Serving, Handle
  <2> QED BY <2>2, NextToldIs
<1>5. CASE c # 0
  <2>1. Write(c, writePending, congested, frames, {}) /\ linkDrops' = linkDrops + Dropped(pending, ms)
    BY <1>5 DEF OnMessage
  <2>2. ~BadWrite(Head(work), c)
    BY <1>1 DEF Take, BadWrite
  <2>3. work # <<>> /\ work' = Tail(work) /\ overflow' = overflow
    BY <1>1 DEF Take
  <2> HIDE DEF m
  <2>4. ms \in Seq(Message) /\ Len(ms) = 1 /\ ms[1] = m /\ \A i \in 1..Len(ms) : i = 1
    BY <1>2
  <2> HIDE DEF ms
  <2>5. pending \in Seq(Frame) /\ frames \in Seq(Frame) /\ c \in 0..MaxLinks
    BY <2>4, TypeFacts, EnqueueType
  <2> HIDE DEF frames
  <2>6. ASSUME connection' = c, Serving', NEW x, Cached(x)'
        PROVE  Reaches(heard[c], flying, frames, c, x)
    <3>1. linkDrops = 0 /\ Dropped(pending, ms) = 0
      <4>1. linkDrops' = 0
        BY <2>6 DEF Serving
      <4> QED BY <2>1, <2>4, <2>5, <4>1, NoneDropped
    <3>2. CASE x = m
      <4>1. LastIn(ms, x)
        BY <2>4, <3>2 DEF LastIn
      <4>2. FramesEnd(frames, x)
        BY <2>4, <2>5, <3>1, <4>1, FramesSaid DEF frames
      <4> QED BY <4>2 DEF Reaches
    <3>3. CASE Cached(x) /\ x.about # m.about
      <4>1. ~LossIsReported
        BY <2>2, <2>3, <2>6, LossStays DEF Serving
      <4>2. Serving
        BY <1>1, <2>6, <3>1, <4>1 DEF Serving
      <4>3. Reaches(heard[c], flying, pending, c, x)
        BY <3>3, <4>2, ToldIs
      <4>4. \A i \in 1..Len(ms) : ms[i].about # x.about
        BY <2>4, <3>3
      <4>5. /\ FramesEnd(pending, x) => FramesEnd(frames, x)
            /\ FramesSilent(pending, x.about) => FramesSilent(frames, x.about)
        BY <2>4, <2>5, <3>1, <4>4, FramesEnqueued DEF frames
      <4> QED BY <4>3, <4>5 DEF Reaches
    <3> QED BY <1>3, <2>6, <3>2, <3>3
  <2> QED BY <1>1, <2>1, <2>5, <2>6, ToldWrite
<1> QED BY <1>4, <1>5

\* A handler that leaves the frames alone too.
LEMMA ToldSame ==
  ASSUME TypeOK, TypeOK', CacheInv, DesktopIsUpToDate, NEW kind, Take(kind),
         UNCHANGED <<radio, heard, system, registrations, linkDrops>>,
         NEW busy, NEW cong, NEW hungUp, Write(connection, busy, cong, pending, hungUp),
         ~BadWrite(Head(work), connection)
  PROVE  DesktopIsUpToDate'
<1>1. pending \in Seq(Frame)
  BY TypeFacts
<1>2. linkDrops' = 0 =>
        /\ linkDrops = 0
        /\ \A m : m.about # Event /\ Reaches(heard[connection], flying, pending, connection, m)
                    => Reaches(heard[connection], flying, pending, connection, m)
  OBVIOUS
<1> QED BY <1>1, <1>2, ToldHandler

LEMMA ToldCheck ==
  ASSUME TypeOK, TypeOK', DesktopIsUpToDate, WorkerCheck
  PROVE  DesktopIsUpToDate'
<1>1. /\ overflow' = FALSE
      /\ UNCHANGED <<radio, heard, work, flying, linkDrops, system, registrations>>
      /\ overflow => connection' = 0
      /\ ~overflow => UNCHANGED <<connection, pending>>
  BY DEF WorkerCheck, Resynced, cacheVars
<1>2. CASE overflow
  <2>1. ~Serving'
    <3>1. radio' \in SUBSET Handle
      BY DEF TypeOK
    <3> QED BY <1>1, <1>2, <3>1 DEF Serving, Handle
  <2> QED BY <2>1, NextToldIs
<1>3. CASE ~overflow
  <2>1. connection' = connection /\ pending' = pending /\ overflow' = overflow
    <3>1. overflow \in BOOLEAN
      BY DEF TypeOK
    <3> QED BY <1>1, <1>3, <3>1
  <2>2. Serving' => Serving
    <3> SUFFICES ASSUME Serving' PROVE Serving
      OBVIOUS
    <3>1. ~LossIsReported
      BY <1>1, <2>1, LossStays DEF Serving
    <3> QED BY <1>1, <2>1, <3>1 DEF Serving
  <2> QED BY <1>1, <2>1, <2>2, ToldStays
<1> QED BY <1>2, <1>3

LEMMA ToldTwice ==
  ASSUME TypeOK, TypeOK', DesktopIsUpToDate, OnConnectedTwice
  PROVE  DesktopIsUpToDate'
<1>1. /\ Take("Connected")
      /\ UNCHANGED <<radio, connection, flying, pending, heard, system, registrations, linkDrops>>
  BY DEF OnConnectedTwice, writeVars, cacheVars
<1>2. work # <<>> /\ work' = Tail(work) /\ overflow' = overflow /\ ~BadWrite(Head(work), connection)
  BY <1>1 DEF Take, BadWrite
<1>3. Serving' => Serving
  <2> SUFFICES ASSUME Serving' PROVE Serving
    OBVIOUS
  <2>1. ~LossIsReported
    BY <1>1, <1>2, LossStays DEF Serving
  <2> QED BY <1>1, <2>1 DEF Serving
<1> QED BY <1>1, <1>3, ToldStays

LEMMA ToldWorker ==
  ASSUME TypeOK, TypeOK', CacheInv, DesktopIsUpToDate, Worker
  PROVE  DesktopIsUpToDate'
<1>1. CASE OnClosed
  <2>1. Write(0, FALSE, FALSE, <<>>, {}) /\ heard' = heard
    BY <1>1 DEF OnClosed
  <2> QED BY <2>1, ToldEnds
<1>2. CASE OnTooLong
  <2>1. Write(0, writePending, congested, <<>>, {connection}) /\ heard' = heard
    BY <1>2 DEF OnTooLong
  <2> QED BY <2>1, ToldEnds
<1>3. CASE OnWriteDone
  <2>1. Take("WriteDone") /\ UNCHANGED <<radio, heard, system, registrations, linkDrops>>
    BY <1>3 DEF OnWriteDone, cacheVars
  <2>2. CASE Head(work).ok
    <3>1. Write(connection, FALSE, Head(work).cong, pending, {})
      BY <1>3, <2>2 DEF OnWriteDone
    <3>2. ~BadWrite(Head(work), connection)
      BY <2>2 DEF BadWrite
    <3> QED BY <2>1, <3>1, <3>2, ToldSame
  <2>3. CASE ~Head(work).ok
    <3>1. Write(0, writePending, congested, <<>>, {connection})
      BY <1>3, <2>3 DEF OnWriteDone
    <3> QED BY <2>1, <3>1, ToldEnds
  <2> QED BY <2>2, <2>3
<1>4. CASE OnCongestion
  <2>1. Take("Congestion") /\ UNCHANGED <<radio, heard, system, registrations, linkDrops>>
        /\ Write(connection, writePending, Head(work).cong, pending, {})
    BY <1>4 DEF OnCongestion, cacheVars
  <2>2. ~BadWrite(Head(work), connection)
    BY <2>1 DEF Take, BadWrite
  <2> QED BY <2>1, <2>2, ToldSame
<1>5. CASE OnStale
  <2>1. PICK kind : Take(kind)
    BY <1>5 DEF OnStale
  <2>2. UNCHANGED <<radio, heard, system, registrations, linkDrops>> /\ ~Ours
        /\ Write(connection, writePending, congested, pending, {})
    BY <1>5 DEF OnStale, cacheVars
  <2>3. ~BadWrite(Head(work), connection)
    BY <2>2 DEF Ours, BadWrite
  <2> QED BY <2>1, <2>2, <2>3, ToldSame
<1> QED BY <1>1, <1>2, <1>3, <1>4, <1>5, ToldCheck, ToldTwice, ToldConnected, ToldData,
           ToldMessage DEF Worker

\* Only OnMessage writes the cache.
LEMMA CacheStays ==
  ASSUME Stack \/ WorkerCheck \/ OnConnectedTwice \/ OnConnected \/ OnClosed \/ OnData
           \/ OnTooLong \/ OnWriteDone \/ OnCongestion \/ OnStale
           \/ (\E about \in Subject : SenderSends(about)) \/ UNCHANGED vars
  PROVE  UNCHANGED <<system, registrations>>
<1>1. CASE Stack
  <2>1. UNCHANGED cacheVars
    BY <1>1, Zenon DEF Stack, LinkOpens, WriteCompletes, LinkCloses, PeerSends, PeerSendsTooLong,
       CongestionBegins, CongestionEnds
  <2> QED BY <2>1 DEF cacheVars
<1>2. CASE OnData
  BY <1>2, OnDataLeaves
<1>3. CASE UNCHANGED vars
  BY <1>3 DEF vars, cacheVars
<1>4. CASE \E about \in Subject : SenderSends(about)
  BY <1>4 DEF SenderSends, cacheVars
<1>5. CASE WorkerCheck
  BY <1>5 DEF WorkerCheck, cacheVars
<1>6. CASE OnConnectedTwice
  BY <1>6 DEF OnConnectedTwice, cacheVars
<1>7. CASE OnConnected
  BY <1>7 DEF OnConnected, cacheVars
<1>8. CASE OnClosed
  BY <1>8 DEF OnClosed, cacheVars
<1>9. CASE OnTooLong
  BY <1>9 DEF OnTooLong, cacheVars
<1>10. CASE OnWriteDone
  BY <1>10 DEF OnWriteDone, cacheVars
<1>11. CASE OnCongestion
  BY <1>11 DEF OnCongestion, cacheVars
<1>12. CASE OnStale
  BY <1>12 DEF OnStale, cacheVars
<1> QED BY <1>1, <1>2, <1>3, <1>4, <1>5, <1>6, <1>7, <1>8, <1>9, <1>10, <1>11, <1>12

LEMMA CacheNext ==
  ASSUME TypeOK, CacheInv, [Next]_vars
  PROVE  CacheInv'
<1>1. CASE OnMessage
  <2> DEFINE m == Head(work).message
  <2>1. Take("Message") /\ Remember(m)
    BY <1>1 DEF OnMessage
  <2>2. m \in Message
    BY <2>1, TakeTypes, ItemFields
  <2> HIDE DEF m
  <2> QED BY <2>1, <2>2, RememberKeeps
<1>2. CASE ~OnMessage
  <2>1. UNCHANGED <<system, registrations>>
    BY <1>2, CacheStays DEF Next, Worker
  <2> QED BY <2>1 DEF CacheInv
<1> QED BY <1>1, <1>2

LEMMA ToldNext ==
  ASSUME TypeOK, OrderInv, CacheInv, DesktopIsUpToDate, [Next]_vars
  PROVE  DesktopIsUpToDate'
<1>1. TypeOK'
  BY NextTypes
<1>2. CASE UNCHANGED vars
  <2>1. UNCHANGED <<radio, work, overflow, connection, flying, pending, heard, system,
                    registrations, linkDrops>>
    BY <1>2 DEF vars, linkVars, queueVars, writeVars, cacheVars
  <2>2. Serving' => Serving
    <3> SUFFICES ASSUME Serving' PROVE Serving
      OBVIOUS
    <3>1. ~LossIsReported
      BY <2>1, LossStays DEF Serving
    <3> QED BY <2>1, <3>1 DEF Serving
  <2> QED BY <1>1, <2>1, <2>2, ToldStays
<1>3. ASSUME NEW about \in Subject, SenderSends(about)
      PROVE  DesktopIsUpToDate'
  <2> DEFINE item == Outbound([about |-> about, n |-> created + 1])
  <2>1. item \in Work
    <3>1. created \in Nat
      BY TypeFacts
    <3> QED BY <3>1 DEF Message, Outbound, Work
  <2>2. /\ work' = Append(work, item)
        /\ UNCHANGED <<radio, overflow, connection, flying, pending, heard, system,
                       registrations, linkDrops>>
    BY <1>3 DEF SenderSends, linkVars, writeVars, cacheVars
  <2> HIDE DEF item
  <2>3. Serving' => Serving
    <3> SUFFICES ASSUME Serving' PROVE Serving
      OBVIOUS
    <3>1. ~LossIsReported
      BY <2>1, <2>2, LossStays DEF Serving
    <3> QED BY <2>2, <3>1 DEF Serving
  <2> QED BY <1>1, <2>2, <2>3, ToldStays
<1> QED BY <1>1, <1>2, <1>3, ToldStack, ToldWorker DEF Next

\* What the replay rests on: the cache holds one message of each subject, the snapshot
\* apart from the registrations (discovery_cache.rs:12-31).
THEOREM WorkerCacheInv == Spec => []CacheInv
<1>1. Init => CacheInv
  <2> SUFFICES ASSUME Init PROVE CacheInv
    OBVIOUS
  <2>1. Len(system) = 0 /\ Len(registrations) = 0
    BY EmptySeq DEF Init
  <2> QED BY <2>1 DEF CacheInv
<1>2. TypeOK /\ CacheInv /\ [Next]_vars => CacheInv'
  BY CacheNext
<1> QED BY <1>1, <1>2, WorkerTypesHold, PTL DEF Spec

\* A served desktop gets the latest snapshot and the latest registration of every
\* module, by replay or live, and nothing older after it (bluetooth.rs:325-328, 386-391,
\* discovery_cache.rs:12-31).
THEOREM WorkerDesktopIsUpToDate == Spec => []DesktopIsUpToDate
<1>1. Init => DesktopIsUpToDate
  <2> SUFFICES ASSUME Init PROVE DesktopIsUpToDate
    OBVIOUS
  <2>1. connection \notin radio
    BY DEF Init
  <2> QED BY <2>1 DEF DesktopIsUpToDate
<1>2. TypeOK /\ OrderInv /\ CacheInv /\ DesktopIsUpToDate /\ [Next]_vars => DesktopIsUpToDate'
  BY ToldNext
<1> QED BY <1>1, <1>2, WorkerTypesHold, WorkerLinesInv, WorkerCacheInv, PTL DEF Spec
=============================================================================
