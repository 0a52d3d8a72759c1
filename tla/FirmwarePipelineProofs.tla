----------------------- MODULE FirmwarePipelineProofs -----------------------
(***************************************************************************)
(* Proofs about FirmwarePipeline, for queues of any capacity, any number   *)
(* of modules and any bounds: the discovery messages, the telemetry and    *)
(* the commands on their way through the threads.                          *)
(*                                                                         *)
(* The properties look at what lies in several queues at once, so most     *)
(* steps come down to what Only and WorkNumbers do to a sequence that      *)
(* grows, shrinks or moves between queues.  Both are built from            *)
(* FlattenSeq.  Its facts are proved by induction over the length of a     *)
(* sequence, stated with a set instead of a predicate: the least natural   *)
(* outside a set exists because < is well-founded on Nat (SetInduction,    *)
(* SeqInduction).                                                          *)
(***************************************************************************)
EXTENDS FirmwarePipeline, SequenceTheorems, FiniteSetTheorems, WellFoundedInduction, TLAPS

-----------------------------------------------------------------------------
(* Induction over numbers and over sequences. *)

LEMMA LeastNat ==
  ASSUME NEW T, T \subseteq Nat, T # {}
  PROVE  \E n \in T : \A m \in T : n <= m
<1>1. IsWellFoundedOn(OpToRel(<, Nat), Nat)
  BY NatLessThanWellFounded
<1>2. PICK n \in T : \A m \in T : ~ (<<m, n>> \in OpToRel(<, Nat))
  BY <1>1, WFMin
<1>3. \A m \in T : n <= m
  <2> TAKE m \in T
  <2>1. ~(m < n)
    BY <1>2 DEF OpToRel
  <2> QED BY <2>1
<1> QED BY <1>3

LEMMA SetInduction ==
  ASSUME NEW S, 0 \in S, \A n \in Nat : n \in S => n + 1 \in S
  PROVE  Nat \subseteq S
<1> SUFFICES ASSUME Nat \ S # {} PROVE FALSE
  OBVIOUS
<1>1. PICK n \in Nat \ S : \A m \in Nat \ S : n <= m
  <2> HIDE DEF OpToRel
  <2> QED BY LeastNat
<1>2. n # 0 
  BY <1>1
<1>3. n - 1 \in Nat /\ n - 1 < n
  BY <1>1, <1>2
<1>4. n - 1 \in S
  BY <1>1, <1>3
<1>5. (n - 1) + 1 \in S
  BY <1>3, <1>4
<1>6. (n - 1) + 1 = n
  BY <1>1
<1> QED BY <1>1, <1>5, <1>6

\* g holds the flattened prefixes of ss up to the n-th.
IsFlat(g, ss, n) == g = [i \in 1..n |-> IF i = 1 THEN ss[i] ELSE g[i - 1] \o ss[i]]

LEMMA FlatExists ==
  ASSUME NEW ss, NEW n \in Nat, n > 0
  PROVE  \E g : IsFlat(g, ss, n)
<1> DEFINE S == {k \in Nat : \E g : IsFlat(g, ss, k)}
<1>1. 0 \in S
  <2> DEFINE e == [i \in 1..0 |-> ss[i]]
  <2>1. IsFlat(e, ss, 0)
    BY DEF IsFlat
  <2> QED BY <2>1
<1>2. ASSUME NEW k \in Nat, k \in S
      PROVE  k + 1 \in S
  <2>1. PICK g : IsFlat(g, ss, k)
    BY <1>2
  <2> DEFINE h == [i \in 1..(k + 1) |-> IF i = k + 1
                     THEN IF i = 1 THEN ss[i] ELSE g[k] \o ss[i] ELSE g[i]]
  <2>2. \A i \in 1..(k + 1) : h[i] = IF i = 1 THEN ss[i] ELSE h[i - 1] \o ss[i]
    <3> TAKE i \in 1..(k + 1)
    <3>1. CASE i = k + 1
      BY <3>1
    <3>2. CASE i # k + 1
      <4>1. i \in 1..k /\ (i # 1 => i - 1 \in 1..k)
        BY <3>2
      <4>2. g[i] = IF i = 1 THEN ss[i] ELSE g[i - 1] \o ss[i]
        BY <2>1, <4>1 DEF IsFlat
      <4> QED BY <4>1, <4>2
    <3> QED BY <3>1, <3>2
  <2>3. IsFlat(h, ss, k + 1)
    BY <2>2 DEF IsFlat
  <2> QED BY <2>3
<1> HIDE DEF S
<1>3. Nat \subseteq S
  BY <1>1, <1>2, SetInduction
<1> QED BY <1>3 DEF S

LEMMA FlatPrefix ==
  ASSUME NEW T, NEW ss, NEW tt, NEW n \in Nat, n > 0,
         \A i \in 1..n : ss[i] \in Seq(T) /\ ss[i] = tt[i]
  PROVE  \A g, h : IsFlat(g, ss, n) /\ IsFlat(h, tt, n + 1) => g[n] = h[n] /\ g[n] \in Seq(T)
<1> SUFFICES ASSUME NEW g, NEW h, IsFlat(g, ss, n), IsFlat(h, tt, n + 1)
             PROVE  g[n] = h[n] /\ g[n] \in Seq(T)
  OBVIOUS
<1> DEFINE S == {k \in Nat : k \in 1..n => g[k] = h[k] /\ g[k] \in Seq(T)}
<1>1. 0 \in S
  OBVIOUS
<1>2. ASSUME NEW k \in Nat, k \in S
      PROVE  k + 1 \in S
  <2> SUFFICES ASSUME k + 1 <= n PROVE g[k + 1] = h[k + 1] /\ g[k + 1] \in Seq(T)
    OBVIOUS
  <2>1. k + 1 \in 1..n /\ k + 1 \in 1..(n + 1)
    OBVIOUS
  <2>2. g[k + 1] = IF k + 1 = 1 THEN ss[k + 1] ELSE g[(k + 1) - 1] \o ss[k + 1]
    BY <2>1 DEF IsFlat
  <2>3. h[k + 1] = IF k + 1 = 1 THEN tt[k + 1] ELSE h[(k + 1) - 1] \o tt[k + 1]
    BY <2>1 DEF IsFlat
  <2>4. (k + 1) - 1 = k /\ ss[k + 1] = tt[k + 1] /\ ss[k + 1] \in Seq(T)
    OBVIOUS
  <2>5. CASE k = 0
    BY <2>2, <2>3, <2>4, <2>5
  <2>6. CASE k # 0
    <3>1. g[k] = h[k] /\ g[k] \in Seq(T)
      BY <1>2, <2>6
    <3> QED BY <3>1, <2>2, <2>3, <2>4, <2>6, ConcatProperties
  <2> QED BY <2>5, <2>6
<1> HIDE DEF S
<1>3. n \in S
  BY <1>1, <1>2, SetInduction
<1> QED BY <1>3 DEF S

LEMMA FlatEmpty == FlattenSeq(<<>>) = <<>>
  BY DEF FlattenSeq

LEMMA FlatLast ==
  ASSUME NEW ss, Len(ss) \in Nat, Len(ss) # 0
  PROVE  \E g : IsFlat(g, ss, Len(ss)) /\ FlattenSeq(ss) = g[Len(ss)]
<1>1. \E g : IsFlat(g, ss, Len(ss))
  <2>1. Len(ss) > 0
    OBVIOUS
  <2> QED BY <2>1, FlatExists
<1> DEFINE f == CHOOSE g : IsFlat(g, ss, Len(ss))
<1>2. IsFlat(f, ss, Len(ss))
  BY <1>1
<1>3. FlattenSeq(ss) = f[Len(ss)]
  BY DEF FlattenSeq, IsFlat
<1> HIDE DEF f
<1> QED BY <1>2, <1>3

\* Named, so that the provers need not look for sequences to put together.
Regrouped(a, b, c) == (a \o b) \o c = a \o (b \o c)

LEMMA Regroup ==
  ASSUME NEW T, NEW a \in Seq(T), NEW b \in Seq(T), NEW c \in Seq(T)
  PROVE  Regrouped(a, b, c) /\ a \o b \in Seq(T) /\ b \o c \in Seq(T)
  BY ConcatAssociative, ConcatProperties DEF Regrouped

LEMMA FlatAppend ==
  ASSUME NEW T, NEW ss \in Seq(Seq(T)), NEW x \in Seq(T)
  PROVE  /\ FlattenSeq(ss) \in Seq(T)
         /\ FlattenSeq(Append(ss, x)) = FlattenSeq(ss) \o x
<1> DEFINE n == Len(ss)
           u == Append(ss, x)
<1>1. n \in Nat /\ Len(u) = n + 1 /\ u[n + 1] = x /\ \A i \in 1..n : u[i] = ss[i] /\ ss[i] \in Seq(T)
  BY AppendProperties
<1> HIDE DEF u
<1>2. PICK h : IsFlat(h, u, n + 1) /\ FlattenSeq(u) = h[n + 1]
  <2>1. Len(u) \in Nat /\ Len(u) # 0
    BY <1>1
  <2>2. \E g : IsFlat(g, u, Len(u)) /\ FlattenSeq(u) = g[Len(u)]
    BY <2>1, FlatLast
  <2> QED BY <1>1, <2>2
<1>3. h[n + 1] = IF n + 1 = 1 THEN x ELSE h[n] \o x
  <2>1. n + 1 \in 1..(n + 1) /\ (n + 1) - 1 = n
    BY <1>1
  <2> QED BY <2>1, <1>1, <1>2 DEF IsFlat
<1>4. CASE n = 0
  <2>1. ss = <<>>
    BY <1>4
  <2>2. FlattenSeq(ss) = <<>>
    BY <2>1, FlatEmpty
  <2> QED BY <2>2, <1>2, <1>3, <1>4, ConcatEmptySeq DEF u
<1>5. CASE n # 0
  <2>1. PICK g : IsFlat(g, ss, n) /\ FlattenSeq(ss) = g[n]
    BY <1>1, <1>5, FlatLast
  <2>2. g[n] = h[n] /\ g[n] \in Seq(T)
    <3>1. n > 0
      BY <1>1, <1>5
    <3>2. \A i \in 1..n : ss[i] \in Seq(T) /\ ss[i] = u[i]
      BY <1>1
    <3>3. IsFlat(g, ss, n) /\ IsFlat(h, u, n + 1) /\ n \in Nat
      BY <1>1, <1>2, <2>1
    <3> HIDE DEF n
    <3> QED BY ONLY <3>1, <3>2, <3>3, FlatPrefix
  <2> QED BY <2>1, <2>2, <1>1, <1>2, <1>3, <1>5 DEF u
<1> QED BY <1>4, <1>5

LEMMA SeqInduction ==
  ASSUME NEW T, NEW S, <<>> \in S,
         \A s \in Seq(T), x \in T : s \in S => Append(s, x) \in S
  PROVE  Seq(T) \subseteq S
<1> DEFINE N == {n \in Nat : \A s \in Seq(T) : Len(s) = n => s \in S}
<1>1. 0 \in N
  BY EmptySeq
<1>2. ASSUME NEW n \in Nat, n \in N
      PROVE  n + 1 \in N
  <2> SUFFICES ASSUME NEW s \in Seq(T), Len(s) = n + 1 PROVE s \in S
    OBVIOUS
  <2>1. s # <<>>
    BY EmptySeq
  <2>2. PICK r \in Seq(T), x \in T : s = Append(r, x)
    BY <2>1, SequenceEmptyOrAppend
  <2>3. Len(r) = n
    BY <2>2, AppendProperties
  <2>4. r \in S
    BY <1>2, <2>3
  <2> QED BY <2>2, <2>4
<1> HIDE DEF N
<1>3. Nat \subseteq N
  BY <1>1, <1>2, SetInduction
<1>4. ASSUME NEW s \in Seq(T) PROVE s \in S
  BY <1>3, LenProperties DEF N
<1> QED BY <1>4

LEMMA FlatType ==
  ASSUME NEW T, NEW ss \in Seq(Seq(T))
  PROVE  FlattenSeq(ss) \in Seq(T)
  BY FlatAppend, EmptySeq

LEMMA FlatConcat ==
  ASSUME NEW T, NEW ss \in Seq(Seq(T)), NEW tt \in Seq(Seq(T))
  PROVE  FlattenSeq(ss \o tt) = FlattenSeq(ss) \o FlattenSeq(tt)
<1> DEFINE S == {r \in Seq(Seq(T)) : FlattenSeq(ss \o r) = FlattenSeq(ss) \o FlattenSeq(r)}
<1>1. <<>> \in S
  <2>1. ss \o <<>> = ss /\ FlattenSeq(ss) \o <<>> = FlattenSeq(ss)
    BY FlatType, ConcatEmptySeq
  <2> QED BY <2>1, FlatEmpty, EmptySeq
<1>2. ASSUME NEW r \in Seq(Seq(T)), NEW x \in Seq(T), r \in S
      PROVE  Append(r, x) \in S
  <2>1. ss \o Append(r, x) = Append(ss \o r, x) /\ Append(r, x) \in Seq(Seq(T))
    OBVIOUS
  <2>2. ss \o r \in Seq(Seq(T))
    BY ConcatProperties
  <2>3. FlattenSeq(Append(ss \o r, x)) = FlattenSeq(ss \o r) \o x
    BY <2>2, FlatAppend
  <2>4. FlattenSeq(Append(r, x)) = FlattenSeq(r) \o x
    BY FlatAppend
  <2>5. (FlattenSeq(ss) \o FlattenSeq(r)) \o x = FlattenSeq(ss) \o (FlattenSeq(r) \o x)
    <3>1. FlattenSeq(ss) \in Seq(T) /\ FlattenSeq(r) \in Seq(T)
      BY FlatType
    <3>2. Regrouped(FlattenSeq(ss), FlattenSeq(r), x)
      BY <3>1, Regroup
    <3> QED BY <3>2 DEF Regrouped
  <2> QED BY <1>2, <2>1, <2>3, <2>4, <2>5
<1> HIDE DEF S
<1>3. Seq(Seq(T)) \subseteq S
  BY <1>1, <1>2, SeqInduction
<1> QED BY <1>3 DEF S

LEMMA FlatOne ==
  ASSUME NEW T, NEW x \in Seq(T)
  PROVE  FlattenSeq(<<x>>) = x
<1>1. <<x>> = Append(<<>>, x) /\ <<>> \in Seq(Seq(T))
  OBVIOUS
<1>2. FlattenSeq(Append(<<>>, x)) = <<>> \o x
  BY <1>1, FlatAppend, FlatEmpty
<1> QED BY <1>1, <1>2, ConcatEmptySeq

-----------------------------------------------------------------------------
LEMMA OneSeq ==
  ASSUME NEW T, NEW x \in T
  PROVE  <<x>> \in Seq(T)
  OBVIOUS

\* What Only flattens.
Picked(s, S) == [i \in 1..Len(s) |-> IF s[i] \in S THEN <<s[i]>> ELSE <<>>]

LEMMA OnlyIs == \A s, S : Only(s, S) = FlattenSeq(Picked(s, S))
  BY DEF Only, Picked

LEMMA PickedType ==
  ASSUME NEW T, NEW S, NEW s \in Seq(T)
  PROVE  Picked(s, S) \in Seq(Seq(T \cap S)) /\ Len(Picked(s, S)) = Len(s)
<1>1. ASSUME NEW i \in 1..Len(s)
      PROVE  (IF s[i] \in S THEN <<s[i]>> ELSE <<>>) \in Seq(T \cap S)
  <2>1. s[i] \in T /\ <<>> \in Seq(T \cap S)
    BY ElementOfSeq
  <2>2. s[i] \in S => <<s[i]>> \in Seq(T \cap S)
    BY <2>1, OneSeq
  <2> QED BY <2>1, <2>2
<1> QED BY <1>1 DEF Picked

LEMMA PickedConcat ==
  ASSUME NEW T, NEW S, NEW s \in Seq(T), NEW t \in Seq(T)
  PROVE  Picked(s \o t, S) = Picked(s, S) \o Picked(t, S)
<1> DEFINE a == Picked(s \o t, S)
           b == Picked(s, S) \o Picked(t, S)
           U == Seq(T \cap S)
<1>1. s \o t \in Seq(T) /\ Len(s \o t) = Len(s) + Len(t)
  BY ConcatProperties
<1>2. \A i \in 1..(Len(s) + Len(t)) : (s \o t)[i] = IF i <= Len(s) THEN s[i] ELSE t[i - Len(s)]
  BY ConcatProperties
<1>3. /\ a \in Seq(U) /\ Len(a) = Len(s) + Len(t)
      /\ Picked(s, S) \in Seq(U) /\ Len(Picked(s, S)) = Len(s)
      /\ Picked(t, S) \in Seq(U) /\ Len(Picked(t, S)) = Len(t)
  <2>1. a \in Seq(U) /\ Len(a) = Len(s \o t)
    <3> DEFINE w == s \o t
    <3>1. w \in Seq(T)
      BY <1>1
    <3> HIDE DEF w
    <3>2. Picked(w, S) \in Seq(U) /\ Len(Picked(w, S)) = Len(w)
      BY <3>1, PickedType
    <3> QED BY <3>2 DEF w
  <2>2. /\ Picked(s, S) \in Seq(U) /\ Len(Picked(s, S)) = Len(s)
        /\ Picked(t, S) \in Seq(U) /\ Len(Picked(t, S)) = Len(t)
    BY PickedType
  <2> HIDE DEF U, a
  <2> QED BY <1>1, <2>1, <2>2
<1> HIDE DEF U
<1>4. b \in Seq(U) /\ Len(b) = Len(s) + Len(t)
  <2> DEFINE p == Picked(s, S)
             q == Picked(t, S)
  <2>1. p \in Seq(U) /\ Len(p) = Len(s) /\ q \in Seq(U) /\ Len(q) = Len(t)
    BY <1>3
  <2> HIDE DEF p, q
  <2>2. p \o q \in Seq(U) /\ Len(p \o q) = Len(p) + Len(q)
    BY <2>1, ConcatProperties
  <2> QED BY <2>1, <2>2 DEF p, q
<1>5. ASSUME NEW i \in 1..(Len(s) + Len(t))
      PROVE  a[i] = b[i]
  <2>1. b[i] = IF i <= Len(s) THEN Picked(s, S)[i] ELSE Picked(t, S)[i - Len(s)]
    <3> DEFINE p == Picked(s, S)
               q == Picked(t, S)
    <3>1. p \in Seq(U) /\ q \in Seq(U) /\ Len(p) = Len(s) /\ Len(q) = Len(t)
      BY <1>3
    <3> HIDE DEF p, q
    <3>2. \A j \in 1..(Len(p) + Len(q)) : (p \o q)[j] = IF j <= Len(p) THEN p[j] ELSE q[j - Len(p)]
      BY <3>1, ConcatProperties
    <3> QED BY <3>1, <3>2 DEF p, q
  <2>2. CASE i <= Len(s)
    BY <1>1, <1>2, <2>1, <2>2 DEF Picked
  <2>3. CASE ~(i <= Len(s))
    BY <1>1, <1>2, <2>1, <2>3 DEF Picked
  <2> QED BY <2>2, <2>3
<1> HIDE DEF a, b
<1>6. a = b
  BY <1>3, <1>4, <1>5, SeqEqual
<1> QED BY <1>6 DEF a, b

LEMMA OnlyType ==
  ASSUME NEW T, NEW S, NEW s \in Seq(T)
  PROVE  Only(s, S) \in Seq(T \cap S)
<1>1. FlattenSeq(Picked(s, S)) \in Seq(T \cap S)
  BY PickedType, FlatType
<1> QED BY <1>1, OnlyIs

LEMMA OnlyConcat ==
  ASSUME NEW T, NEW S, NEW s \in Seq(T), NEW t \in Seq(T)
  PROVE  Only(s \o t, S) = Only(s, S) \o Only(t, S)
<1>1. Picked(s, S) \in Seq(Seq(T \cap S)) /\ Picked(t, S) \in Seq(Seq(T \cap S))
  BY PickedType
<1>2. FlattenSeq(Picked(s, S) \o Picked(t, S)) = FlattenSeq(Picked(s, S)) \o FlattenSeq(Picked(t, S))
  BY <1>1, FlatConcat
<1>3. Only(s \o t, S) = FlattenSeq(Picked(s, S) \o Picked(t, S))
  BY PickedConcat, OnlyIs
<1> QED BY <1>2, <1>3, OnlyIs

OnlyOf(s, t, S) == Only(s \o t, S) = Only(s, S) \o Only(t, S)

LEMMA OnlyJoins ==
  ASSUME NEW T, NEW S, NEW s \in Seq(T), NEW t \in Seq(T)
  PROVE  OnlyOf(s, t, S)
  BY OnlyConcat DEF OnlyOf

LEMMA OnlyOne ==
  ASSUME NEW S, NEW x
  PROVE  Only(<<x>>, S) = IF x \in S THEN <<x>> ELSE <<>>
<1> DEFINE y == IF x \in S THEN <<x>> ELSE <<>>
<1>1. [i \in 1..Len(<<x>>) |-> IF <<x>>[i] \in S THEN <<(<<x>>)[i]>> ELSE <<>>] = <<y>>
  OBVIOUS
<1>2. y \in Seq({x})
  <2>1. <<x>> \in Seq({x}) /\ <<>> \in Seq({x})
    BY OneSeq
  <2> QED BY <2>1
<1> HIDE DEF y
<1>3. FlattenSeq(<<y>>) = y
  BY <1>2, FlatOne
<1> QED BY <1>1, <1>3 DEF Only, y

LEMMA OnlyEmpty == \A S : Only(<<>>, S) = <<>>
  BY FlatEmpty DEF Only

LEMMA OnlyAppend ==
  ASSUME NEW T, NEW S, NEW s \in Seq(T), NEW x \in T
  PROVE  Only(Append(s, x), S) = IF x \in S THEN Append(Only(s, S), x) ELSE Only(s, S)
<1>1. Append(s, x) = s \o <<x>> /\ <<x>> \in Seq(T)
  OBVIOUS
<1>2. Only(s \o <<x>>, S) = Only(s, S) \o Only(<<x>>, S) /\ Only(s, S) \in Seq(T \cap S)
  <2> DEFINE o == <<x>>
  <2>1. o \in Seq(T)
    BY <1>1
  <2> HIDE DEF o
  <2>2. Only(s \o o, S) = Only(s, S) \o Only(o, S) /\ Only(s, S) \in Seq(T \cap S)
    BY <2>1, OnlyType, OnlyConcat
  <2> QED BY <2>2 DEF o
<1>3. x \in S => Only(s, S) \o <<x>> = Append(Only(s, S), x)
  BY <1>2
<1>4. Only(s, S) \o <<>> = Only(s, S)
  BY <1>2, ConcatEmptySeq
<1> QED BY <1>1, <1>2, <1>3, <1>4, OnlyOne
-----------------------------------------------------------------------------
(* Types. *)

LEMMA Capacities ==
  /\ Modules \in Nat /\ Budget \in Nat /\ EmitterCap \in Nat /\ WorkCap \in Nat
  /\ IncomingCap \in Nat /\ MaxCount \in Nat /\ MaxBatch \in Nat
  /\ Modules > 0 /\ WorkCap > 0 /\ MaxCount > 0
<1>1. \A x : x \in {Modules, Budget, EmitterCap, WorkCap, IncomingCap, MaxCount, MaxBatch} =>
        x \in Nat /\ x # 0
  BY CapacitiesAssumption
<1> QED BY <1>1

LEMMA Counters ==
  ASSUME TypeOK
  PROVE  /\ announced \in Nat /\ learned \in Nat /\ arrived \in Nat /\ sent \in Nat
         /\ taken \in Nat /\ dropped \in Nat /\ telemetry \in Nat /\ reports \in Nat
         /\ rediscovers \in Nat
<1>1. /\ \A x \in {announced, learned, arrived, sent, taken, dropped} : x \in Nat
      /\ \A x \in {rediscovers, telemetry, reports} : x \in Nat
  BY DEF TypeOK
<1> QED BY <1>1

LEMMA MessageTypes ==
  /\ Telemetry \in Message
  /\ \A n \in Nat : Discovery(n) \in Message /\ Report(n) \in Message
  BY DEF Telemetry, Discovery, Report, Message

LEMMA AnnouncementType ==
  ASSUME NEW a \in Nat
  PROVE  Announcement(a) \in Seq(Message)
<1>1. Modules \in Nat
  BY Capacities
<1>2. ASSUME NEW i \in 1..(2 * Modules + 1)
      PROVE  (IF i = 1 THEN Discovery(a + 1)
              ELSE IF i % 2 = 0 THEN Discovery(a + 1 + i \div 2) ELSE Telemetry) \in Message
  <2>1. a + 1 \in Nat /\ a + 1 + i \div 2 \in Nat
    BY <1>1
  <2> QED BY <2>1, MessageTypes
<1> QED BY <1>1, <1>2 DEF Announcement

LEMMA RecordType ==
  ASSUME TypeOK, NEW stage \in {"emitter", "transport"}, Record(stage)
  PROVE  drops' \in [{"emitter", "transport"} -> 0..MaxCount] /\ dropped' \in Nat
<1>1. MaxCount \in Nat /\ dropped \in Nat /\ drops \in [{"emitter", "transport"} -> 0..MaxCount]
  BY Capacities, Counters DEF TypeOK
<1>2. drops[stage] # MaxCount => drops[stage] + 1 \in 0..MaxCount
  BY <1>1
<1>3. drops' \in [{"emitter", "transport"} -> 0..MaxCount]
  BY <1>1, <1>2 DEF Record
<1> QED BY <1>1, <1>3 DEF Record

LEMMA TryEmitType ==
  ASSUME TypeOK, NEW m \in Message, TryEmit(m)
  PROVE  /\ emitQ' \in Seq(Message) /\ Len(emitQ') <= EmitterCap
         /\ drops' \in [{"emitter", "transport"} -> 0..MaxCount] /\ dropped' \in Nat
<1>1. EmitterCap \in Nat /\ emitQ \in Seq(Message) /\ Len(emitQ) <= EmitterCap
  BY Capacities, Counters DEF TypeOK
<1>2. CASE Len(emitQ) < EmitterCap
  <2>1. emitQ' = Append(emitQ, m) /\ drops' = drops /\ dropped' = dropped
    BY <1>2 DEF TryEmit
  <2>2. Append(emitQ, m) \in Seq(Message) /\ Len(Append(emitQ, m)) <= EmitterCap
    BY <1>1, <1>2, AppendProperties
  <2> QED BY <2>1, <2>2, Counters DEF TypeOK
<1>3. CASE ~(Len(emitQ) < EmitterCap)
  <2>1. Record("emitter") /\ emitQ' = emitQ
    BY <1>3 DEF TryEmit
  <2> QED BY <1>1, <2>1, RecordType
<1> QED BY <1>2, <1>3

LEMMA MaybeTelemetryType ==
  ASSUME TypeOK, MaybeTelemetry
  PROVE  /\ emitQ' \in Seq(Message) /\ Len(emitQ') <= EmitterCap /\ telemetry' \in Nat
         /\ drops' \in [{"emitter", "transport"} -> 0..MaxCount] /\ dropped' \in Nat
<1>1. CASE UNCHANGED <<emitQ, drops, dropped, telemetry>>
  BY <1>1 DEF TypeOK
<1>2. CASE telemetry' = telemetry + 1 /\ TryEmit(Telemetry)
  <2>1. telemetry' \in Nat
    BY <1>2, Counters
  <2> QED BY <1>2, <2>1, TryEmitType, MessageTypes
<1> QED BY <1>1, <1>2 DEF MaybeTelemetry

LEMMA HandleType ==
  ASSUME TypeOK, NEW cmd \in NumberedCommand, Handle(cmd)
  PROVE  /\ emitQ' \in Seq(Message) /\ Len(emitQ') <= EmitterCap /\ telemetry' \in Nat
         /\ drops' \in [{"emitter", "transport"} -> 0..MaxCount] /\ dropped' \in Nat
         /\ handled' \in Seq(Nat) /\ todo' \in Seq(Message) /\ announced' \in Nat
<1>1. handled' \in Seq(Nat)
  <2>1. cmd.n \in Nat /\ handled \in Seq(Nat)
    BY DEF TypeOK, NumberedCommand
  <2> QED BY <2>1, AppendProperties DEF Handle
<1>2. CASE cmd.op = "Rediscover"
  <2>1. announced \in Nat /\ Modules \in Nat
    BY Capacities, Counters DEF TypeOK
  <2>2. todo' \in Seq(Message) /\ announced' \in Nat
    BY <1>2, <2>1, AnnouncementType DEF Handle
  <2> QED BY <1>1, <1>2, <2>2 DEF Handle, TypeOK
<1>3. CASE cmd.op # "Rediscover"
  BY <1>1, <1>3, MaybeTelemetryType DEF Handle, TypeOK
<1> QED BY <1>2, <1>3

LEMMA MainTypes ==
  ASSUME TypeOK, MainStep \/ DeadlinePasses
  PROVE  TypeOK'
<1> USE Capacities
<1>1. CASE Emit
  <2>1. Head(todo) \in Message /\ Tail(todo) \in Seq(Message)
    BY <1>1, HeadTailProperties DEF TypeOK, Emit
  <2>2. todo' \in Seq(Message)
    BY <1>1, <2>1 DEF Emit
  <2>3. /\ emitQ' \in Seq(Message) /\ Len(emitQ') <= EmitterCap
        /\ drops' \in [{"emitter", "transport"} -> 0..MaxCount] /\ dropped' \in Nat
    <3>1. CASE Reliable(Head(todo))
      <4>1. EmitReliable(Head(todo))
        BY <1>1, <3>1 DEF Emit
      <4>2. emitQ \in Seq(Message) /\ EmitterCap \in Nat
        BY DEF TypeOK
      <4>3. emitQ' = Append(emitQ, Head(todo)) /\ Len(emitQ) < EmitterCap
            /\ drops' = drops /\ dropped' = dropped
        BY <4>1 DEF EmitReliable
      <4>4. emitQ' \in Seq(Message) /\ Len(emitQ') <= EmitterCap
        BY <4>2, <4>3, <2>1, AppendProperties
      <4> QED BY <4>3, <4>4, Counters DEF TypeOK
    <3>2. CASE ~Reliable(Head(todo))
      BY <1>1, <2>1, <3>2, TryEmitType DEF Emit
    <3> QED BY <3>1, <3>2
  <2> QED BY <1>1, <2>2, <2>3 DEF TypeOK, Emit, mainVars, workerVars
<1>2. CASE Tick
  <2>1. /\ emitQ' \in Seq(Message) /\ Len(emitQ') <= EmitterCap /\ telemetry' \in Nat
        /\ drops' \in [{"emitter", "transport"} -> 0..MaxCount] /\ dropped' \in Nat
    BY <1>2, MaybeTelemetryType DEF Tick
  <2> QED BY <1>2, <2>1 DEF TypeOK, Tick, workerVars
<1>3. CASE DrainCommand
  <2>1. Head(incoming) \in NumberedCommand /\ Tail(incoming) \in Seq(NumberedCommand)
        /\ Len(Tail(incoming)) = Len(incoming) - 1 /\ Len(incoming) \in Nat
    BY <1>3, HeadTailProperties DEF TypeOK, DrainCommand
  <2>2. Handle(Head(incoming))
    BY <1>3 DEF DrainCommand
  <2>3. incoming' \in Seq(NumberedCommand) /\ Len(incoming') <= IncomingCap
    BY <1>3, <2>1, Capacities DEF DrainCommand, TypeOK
  <2>4. left' \in 0..Budget
    <3>1. left \in 0..Budget /\ left > 0 /\ left' = left - 1
      BY <1>3 DEF DrainCommand, TypeOK, Spend
    <3> QED BY <3>1, Capacities
  <2> QED BY <1>3, <2>1, <2>2, <2>3, <2>4, HandleType DEF TypeOK, DrainCommand, workerVars
<1>4. CASE DrainDone
  BY <1>4 DEF TypeOK, DrainDone, workerVars, counterVars
<1>5. CASE WaitCommand
  <2>1. Head(incoming) \in NumberedCommand /\ Tail(incoming) \in Seq(NumberedCommand)
        /\ Len(Tail(incoming)) = Len(incoming) - 1 /\ Len(incoming) \in Nat
    BY <1>5, HeadTailProperties DEF TypeOK, WaitCommand
  <2>2. Handle(Head(incoming))
    BY <1>5 DEF WaitCommand
  <2>3. incoming' \in Seq(NumberedCommand) /\ Len(incoming') <= IncomingCap
    BY <1>5, <2>1, Capacities DEF WaitCommand, TypeOK
  <2> QED BY <1>5, <2>1, <2>2, <2>3, HandleType DEF TypeOK, WaitCommand, mainVars, workerVars
<1>6. CASE WaitOver
  BY <1>6 DEF TypeOK, WaitOver, workerVars, counterVars
<1>7. CASE DeadlinePasses
  BY <1>7 DEF TypeOK, DeadlinePasses, workerVars, counterVars
<1> QED BY <1>1, <1>2, <1>3, <1>4, <1>5, <1>6, <1>7 DEF MainStep

LEMMA SenderTypes ==
  ASSUME TypeOK, SenderStep
  PROVE  TypeOK'
<1> USE Capacities
<1>1. CASE SenderTake
  <2>1. Head(emitQ) \in Message /\ Tail(emitQ) \in Seq(Message)
        /\ Len(Tail(emitQ)) = Len(emitQ) - 1 /\ Len(emitQ) \in Nat
    BY <1>1, HeadTailProperties DEF TypeOK, SenderTake
  <2>2. emitQ' \in Seq(Message) /\ Len(emitQ') <= EmitterCap
    BY <1>1, <2>1 DEF SenderTake, TypeOK
  <2>3. held' \in Seq(Message) /\ Len(held') <= 1
    BY <1>1, <2>1, OneSeq DEF SenderTake
  <2> QED BY <1>1, <2>2, <2>3 DEF TypeOK, SenderTake, mainVars, workerVars, counterVars
<1>2. CASE ReportDrops
  <2>1. drops.emitter \in Nat /\ drops.transport \in Nat /\ taken \in Nat /\ reports \in Nat
    BY DEF TypeOK
  <2>2. drops.emitter + drops.transport \in Nat /\ taken' \in Nat /\ reports' \in Nat
    BY <1>2, <2>1 DEF ReportDrops
  <2>3. held' \in Seq(Message) /\ Len(held') <= 1
    BY <1>2, <2>2, MessageTypes, OneSeq DEF ReportDrops
  <2>4. drops' \in [{"emitter", "transport"} -> 0..MaxCount]
    BY <1>2 DEF ReportDrops
  <2> QED BY <1>2, <2>2, <2>3, <2>4 DEF TypeOK, ReportDrops, mainVars, workerVars
<1>3. CASE SenderPut
  <2>1. held[1] \in Message
    <3>1. held \in Seq(Message) /\ held # <<>>
      BY <1>3 DEF TypeOK, SenderPut
    <3>2. 1 \in 1..Len(held)
      BY <3>1, EmptySeq
    <3> QED BY <3>1, <3>2, ElementOfSeq
  <2>2. work \in Seq(Work) /\ held[1] \in Work /\ Len(work) <= WorkCap /\ WorkCap \in Nat
    BY <2>1 DEF TypeOK, Work
  <2>3. /\ work' \in Seq(Work) /\ Len(work') <= WorkCap
        /\ drops' \in [{"emitter", "transport"} -> 0..MaxCount] /\ dropped' \in Nat
    <3>1. CASE Len(work) < WorkCap /\ work' = Append(work, held[1]) /\ UNCHANGED <<drops, dropped>>
      <4>1. work' \in Seq(Work) /\ Len(work') <= WorkCap
        BY <2>2, <3>1, AppendProperties
      <4> QED BY <3>1, <4>1, Counters DEF TypeOK
    <3>2. CASE Record("transport") /\ UNCHANGED work
      BY <2>2, <3>2, RecordType
    <3> QED BY <1>3, <3>1, <3>2 DEF SenderPut, HandOn
  <2>4. held' \in Seq(Message) /\ Len(held') <= 1
    BY <1>3, EmptySeq DEF SenderPut
  <2> QED BY <1>3, <2>3, <2>4 DEF TypeOK, SenderPut, mainVars, workerVars
<1> QED BY <1>1, <1>2, <1>3 DEF SenderStep

LEMMA WorkerTypes ==
  ASSUME TypeOK, WorkerStep
  PROVE  TypeOK'
<1> USE Capacities
<1>1. CASE WorkerCheck
  <2>1. {checked', overflow', linked'} \subseteq BOOLEAN
    BY <1>1 DEF WorkerCheck, Resynced
  <2> QED BY <1>1, <2>1 DEF TypeOK, WorkerCheck, mainVars, counterVars
<1>2. CASE WorkerIdle
  BY <1>2 DEF TypeOK, WorkerIdle, Receive, mainVars, counterVars
<1>3. ASSUME work # <<>>
      PROVE  /\ Head(work) \in Work /\ Tail(work) \in Seq(Work) /\ Len(Tail(work)) <= WorkCap
  <2>1. work \in Seq(Work) /\ Len(work) <= WorkCap
    BY DEF TypeOK
  <2>2. Len(Tail(work)) = Len(work) - 1 /\ Len(work) \in Nat
    BY <1>3, <2>1, HeadTailProperties
  <2> QED BY <1>3, <2>1, <2>2, HeadTailProperties
<1>4. CASE WorkerMessage
  <2>1. Head(work).kind # "Data" => Head(work) \in Message
    BY <1>3, <1>4 DEF WorkerMessage, Work
  <2>2. Head(work).n \in Nat
    BY <1>4, <2>1 DEF WorkerMessage, Message
  <2>3. {learned', arrived'} \subseteq Nat
    BY <1>4, <2>2, Counters DEF WorkerMessage
  <2> QED BY <1>3, <1>4, <2>3 DEF TypeOK, WorkerMessage, Receive, mainVars, counterVars
<1>5. CASE WorkerData
  <2>1. Head(work).kind = "Data" => Head(work).cmds \in Seq(NumberedCommand)
    BY <1>3, <1>5 DEF WorkerData, Work, Message
  <2>2. batch' \in Seq(NumberedCommand)
    BY <1>5, <2>1, EmptySeq DEF WorkerData
  <2> QED BY <1>3, <1>5, <2>2 DEF TypeOK, WorkerData, Receive, mainVars, counterVars
<1>6. CASE WorkerDeliver
  <2>1. Head(batch) \in NumberedCommand /\ Tail(batch) \in Seq(NumberedCommand)
    BY <1>6, HeadTailProperties DEF TypeOK, WorkerDeliver
  <2>2. incoming \in Seq(NumberedCommand) /\ IncomingCap \in Nat /\ Len(incoming) < IncomingCap
    BY <1>6 DEF TypeOK, WorkerDeliver
  <2>3. incoming' \in Seq(NumberedCommand) /\ Len(incoming') <= IncomingCap
    BY <1>6, <2>1, <2>2, AppendProperties DEF WorkerDeliver
  <2>4. batch' \in Seq(NumberedCommand)
    BY <1>6, <2>1 DEF WorkerDeliver, Remaining
  <2> QED BY <1>6, <2>3, <2>4 DEF TypeOK, WorkerDeliver, mainVars, counterVars
<1> QED BY <1>1, <1>2, <1>4, <1>5, <1>6 DEF WorkerStep

LEMMA QueueType ==
  ASSUME TypeOK, NEW cmds \in Seq(NumberedCommand), Queue(cmds)
  PROVE  work' \in Seq(Work) /\ Len(work') <= WorkCap /\ overflow' \in BOOLEAN
<1>1. Data(cmds) \in Work
  BY DEF Data, Work
<1>2. WorkCap \in Nat /\ work \in Seq(Work) /\ Len(work) <= WorkCap /\ overflow \in BOOLEAN
  BY Capacities, Counters DEF TypeOK
<1>3. CASE Len(work) < WorkCap
  BY <1>1, <1>2, <1>3, AppendProperties DEF Queue
<1>4. CASE ~(Len(work) < WorkCap)
  BY <1>2, <1>4 DEF Queue
<1> QED BY <1>3, <1>4

\* The commands of one data callback.
Batch(n, ops) == [i \in 1..n |-> Command(ops[i], sent + i)]

LEMMA DataCallbackQueues ==
  ASSUME TypeOK, DataCallback
  PROVE  \E n \in Nat : \E ops \in [1..n -> Op] :
           /\ Batch(n, ops) \in Seq(NumberedCommand)
           /\ Queue(Batch(n, ops)) /\ sent' = sent + n /\ rediscovers' \in Nat
<1>1. PICK n \in 1..MaxBatch : \E ops \in [1..n -> Op] :
        /\ Queue([i \in 1..n |-> Command(ops[i], sent + i)])
        /\ sent' = sent + n
        /\ rediscovers' = rediscovers + CountRediscover(ops)
  BY DEF DataCallback
<1>2. PICK ops \in [1..n -> Op] :
        /\ Queue([i \in 1..n |-> Command(ops[i], sent + i)])
        /\ sent' = sent + n
        /\ rediscovers' = rediscovers + CountRediscover(ops)
  BY <1>1
<1>3. n \in Nat /\ sent \in Nat /\ rediscovers \in Nat
  <2>1. n \in Nat
    BY Capacities
  <2> QED BY <2>1, Counters
<1>4. Batch(n, ops) \in Seq(NumberedCommand)
  <2>1. \A i \in 1..n : Command(ops[i], sent + i) \in NumberedCommand
    BY <1>3 DEF Command, NumberedCommand
  <2> QED BY <1>3, <2>1 DEF Batch
<1>5. CountRediscover(ops) \in Nat
  <2>1. IsFiniteSet(1..n)
    BY <1>3, FS_Interval
  <2>2. {i \in DOMAIN ops : ops[i] = "Rediscover"} \subseteq 1..n
    OBVIOUS
  <2> QED BY <2>1, <2>2, FS_Subset, FS_CardinalityType DEF CountRediscover
<1>6. rediscovers' \in Nat
  BY <1>2, <1>3, <1>5
<1> QED BY <1>2, <1>3, <1>4, <1>6 DEF Batch

LEMMA CallbackTypes ==
  ASSUME TypeOK, DataCallback \/ FloodCallback
  PROVE  TypeOK'
<1>1. CASE DataCallback
  <2>1. PICK n \in Nat : \E ops \in [1..n -> Op] :
           /\ Batch(n, ops) \in Seq(NumberedCommand)
           /\ Queue(Batch(n, ops)) /\ sent' = sent + n /\ rediscovers' \in Nat
    BY <1>1, DataCallbackQueues
  <2>2. PICK ops \in [1..n -> Op] :
           /\ Batch(n, ops) \in Seq(NumberedCommand)
           /\ Queue(Batch(n, ops)) /\ sent' = sent + n /\ rediscovers' \in Nat
    BY <2>1
  <2>3. work' \in Seq(Work) /\ Len(work') <= WorkCap /\ overflow' \in BOOLEAN
    BY <2>2, QueueType
  <2>4. sent' \in Nat /\ rediscovers' \in Nat
    BY <2>2, Counters
  <2> QED BY <1>1, <2>3, <2>4 DEF TypeOK, DataCallback, mainVars, counterVars
<1>2. CASE FloodCallback
  <2>1. <<Command("Module", 0)>> \in Seq(NumberedCommand)
    <3>1. Command("Module", 0) \in NumberedCommand
      BY DEF Command, NumberedCommand, Op
    <3> QED BY <3>1, OneSeq
  <2>2. work' \in Seq(Work) /\ Len(work') <= WorkCap /\ overflow' \in BOOLEAN
    BY <1>2, <2>1, QueueType DEF FloodCallback
  <2> QED BY <1>2, <2>2 DEF TypeOK, FloodCallback, mainVars, counterVars
<1> QED BY <1>1, <1>2

LEMMA TypesHold == TypeOK /\ [Next]_vars => TypeOK'
<1> SUFFICES ASSUME TypeOK, [Next]_vars PROVE TypeOK'
  OBVIOUS
<1>1. CASE UNCHANGED vars
  BY <1>1 DEF TypeOK, vars, mainVars, workerVars, counterVars
<1> QED BY <1>1, MainTypes, SenderTypes, WorkerTypes, CallbackTypes DEF Next

LEMMA InitTypes == Init => TypeOK
<1> SUFFICES ASSUME Init PROVE TypeOK
  OBVIOUS
<1> USE Capacities
<1>1. todo \in Seq(Message) /\ announced \in Nat
  <2>1. 0 \in Nat /\ Announcement(0) \in Seq(Message)
    BY AnnouncementType
  <2> QED BY <2>1 DEF Init
<1>2. drops \in [{"emitter", "transport"} -> 0..MaxCount]
  BY DEF Init
<1>3. /\ emitQ \in Seq(Message) /\ Len(emitQ) <= EmitterCap
      /\ work \in Seq(Work) /\ Len(work) <= WorkCap
      /\ incoming \in Seq(NumberedCommand) /\ Len(incoming) <= IncomingCap
      /\ held \in Seq(Message) /\ Len(held) <= 1
      /\ batch \in Seq(NumberedCommand) /\ handled \in Seq(Nat)
  BY EmptySeq, Capacities DEF Init
<1>4. main \in {"Tick", "Drain", "Wait"} /\ left \in 0..Budget /\ late \in BOOLEAN
  <2>1. main \in {"Tick", "Drain", "Wait"} /\ left = 0 /\ late \in BOOLEAN
    BY DEF Init
  <2> QED BY <2>1, Capacities
<1>5. {checked, overflow, linked} \subseteq BOOLEAN
  BY DEF Init
<1>6. {announced, learned, arrived, sent, taken, dropped} \subseteq Nat
  BY <1>1 DEF Init
<1>7. {rediscovers, telemetry, reports} \subseteq Nat
  BY DEF Init
<1> QED BY <1>1, <1>2, <1>3, <1>4, <1>5, <1>6, <1>7 DEF TypeOK

\* No queue of the firmware holds more than its capacity, and what it holds is what
\* its channel type allows (manager.rs, bluetooth.rs, runtime/mod.rs).
THEOREM PipelineTypes == Spec => []TypeOK
  BY InitTypes, TypesHold, PTL DEF Spec

-----------------------------------------------------------------------------
(* What is on the way, and how the steps move it. *)

LEMMA MessagesAreWork == Message \subseteq Work
  BY DEF Work

LEMMA QueueTypes ==
  ASSUME TypeOK
  PROVE  work \in Seq(Work) /\ held \in Seq(Work) /\ emitQ \in Seq(Work) /\ todo \in Seq(Work)
<1>1. work \in Seq(Work) /\ held \in Seq(Message) /\ emitQ \in Seq(Message) /\ todo \in Seq(Message)
  BY DEF TypeOK
<1> QED BY <1>1, MessagesAreWork, SeqMonotonic

LEMMA NextQueueTypes ==
  ASSUME TypeOK'
  PROVE  work' \in Seq(Work) /\ held' \in Seq(Work) /\ emitQ' \in Seq(Work) /\ todo' \in Seq(Work)
<1>1. /\ work' \in Seq(Work) /\ held' \in Seq(Message) /\ emitQ' \in Seq(Message)
      /\ todo' \in Seq(Message)
  BY DEF TypeOK
<1> QED BY <1>1, MessagesAreWork, SeqMonotonic

\* The parts of OnTheWay that are in S.
Parts(w, h, e, t, S) == ((Only(w, S) \o Only(h, S)) \o Only(e, S)) \o Only(t, S)

LEMMA OnlyParts ==
  ASSUME NEW w \in Seq(Work), NEW h \in Seq(Work), NEW e \in Seq(Work), NEW t \in Seq(Work),
         NEW S
  PROVE  Only(((w \o h) \o e) \o t, S) = Parts(w, h, e, t, S)
<1>1. w \o h \in Seq(Work)
  BY ConcatProperties
<1>2. (w \o h) \o e \in Seq(Work)
  BY <1>1, ConcatProperties
<1>3. Only(w \o h, S) = Only(w, S) \o Only(h, S)
  BY OnlyConcat
<1>4. Only((w \o h) \o e, S) = Only(w \o h, S) \o Only(e, S)
  <2>1. OnlyOf(w \o h, e, S)
    BY <1>1, OnlyJoins
  <2> QED BY <2>1 DEF OnlyOf
<1>5. Only(((w \o h) \o e) \o t, S) = Only((w \o h) \o e, S) \o Only(t, S)
  <2>1. OnlyOf((w \o h) \o e, t, S)
    BY <1>2, OnlyJoins
  <2> QED BY <2>1 DEF OnlyOf
<1> QED BY <1>3, <1>4, <1>5 DEF Parts

LEMMA OnlyHeadTail ==
  ASSUME NEW T, NEW S, NEW s \in Seq(T), s # <<>>
  PROVE  /\ Head(s) \in T /\ Tail(s) \in Seq(T)
         /\ Only(s, S) = (IF Head(s) \in S THEN <<Head(s)>> ELSE <<>>) \o Only(Tail(s), S)
<1>1. Head(s) \in T /\ Tail(s) \in Seq(T)
  BY HeadTailProperties
<1>2. s = <<Head(s)>> \o Tail(s)
  BY HeadTailProperties
<1> DEFINE h == <<Head(s)>>
<1>3. h \in Seq(T)
  BY <1>1, OneSeq
<1>4. Only(h, S) = IF Head(s) \in S THEN <<Head(s)>> ELSE <<>>
  BY OnlyOne
<1> HIDE DEF h
<1>5. Only(h \o Tail(s), S) = Only(h, S) \o Only(Tail(s), S)
  BY <1>1, <1>3, OnlyConcat
<1>6. s = h \o Tail(s)
  BY <1>2 DEF h
<1> QED BY <1>1, <1>4, <1>5, <1>6

LEMMA OnlySkip ==
  ASSUME NEW T, NEW S, NEW s \in Seq(T), s # <<>>, Head(s) \notin S
  PROVE  Only(s, S) = Only(Tail(s), S)
<1>1. Tail(s) \in Seq(T) /\ Only(s, S) = <<>> \o Only(Tail(s), S)
  BY OnlyHeadTail
<1>2. Only(Tail(s), S) \in Seq(T \cap S)
  BY <1>1, OnlyType
<1> QED BY <1>1, <1>2, ConcatEmptySeq

LEMMA OnlyKeep ==
  ASSUME NEW T, NEW S, NEW s \in Seq(T), s # <<>>, Head(s) \in S
  PROVE  Only(s, S) = <<Head(s)>> \o Only(Tail(s), S)
<1> DEFINE h == IF Head(s) \in S THEN <<Head(s)>> ELSE <<>>
<1>1. Only(s, S) = h \o Only(Tail(s), S)
  BY OnlyHeadTail
<1>2. h = <<Head(s)>>
  OBVIOUS
<1> QED BY <1>1, <1>2

\* A message that moves from the head of one queue to the end of the queue before it.
LEMMA Shift ==
  ASSUME NEW T, NEW a \in Seq(T), NEW b \in Seq(T), b # <<>>
  PROVE  Append(a, Head(b)) \o Tail(b) = a \o b
<1>1. Head(b) \in T /\ Tail(b) \in Seq(T) /\ <<Head(b)>> \o Tail(b) = b
  BY HeadTailProperties
<1>2. Append(a, Head(b)) = a \o <<Head(b)>> /\ <<Head(b)>> \in Seq(T)
  BY <1>1, AppendIsConcat, OneSeq
<1> DEFINE h == <<Head(b)>>
<1>3. h \in Seq(T) /\ Append(a, Head(b)) = a \o h /\ h \o Tail(b) = b
  BY <1>1, <1>2
<1> HIDE DEF h
<1>4. (a \o h) \o Tail(b) = a \o (h \o Tail(b))
  <2> DEFINE l == Tail(b)
  <2>1. l \in Seq(T)
    BY <1>1
  <2> HIDE DEF l
  <2>2. Regrouped(a, h, l)
    BY <1>3, <2>1, Regroup
  <2> QED BY <2>2 DEF Regrouped, l
<1> QED BY <1>3, <1>4

\* emit_reliable and a successful try_emit.
LEMMA EmitMoves ==
  ASSUME TypeOK, todo # <<>>, todo' = Tail(todo), emitQ' = Append(emitQ, Head(todo)),
         work' = work, held' = held
  PROVE  OnTheWay' = OnTheWay
<1>1. work \in Seq(Work) /\ held \in Seq(Work) /\ emitQ \in Seq(Work) /\ todo \in Seq(Work)
  BY QueueTypes
<1> DEFINE a == work \o held
<1>2. a \in Seq(Work)
  BY <1>1, ConcatProperties
<1> HIDE DEF a
<1>3. a \o Append(emitQ, Head(todo)) = Append(a \o emitQ, Head(todo)) /\ a \o emitQ \in Seq(Work)
  BY <1>1, <1>2, ConcatProperties, HeadTailProperties
<1>4. Append(a \o emitQ, Head(todo)) \o Tail(todo) = (a \o emitQ) \o todo
  BY <1>1, <1>3, Shift
<1>5. OnTheWay' = (a \o Append(emitQ, Head(todo))) \o Tail(todo)
  BY DEF OnTheWay, a
<1> QED BY <1>3, <1>4, <1>5 DEF OnTheWay, a

LEMMA SenderTakeMoves ==
  ASSUME TypeOK, SenderTake
  PROVE  OnTheWay' = OnTheWay
<1>1. work \in Seq(Work) /\ emitQ \in Seq(Work) /\ emitQ # <<>>
  BY QueueTypes DEF SenderTake
<1>2. held = <<>> /\ held' = <<Head(emitQ)>> /\ emitQ' = Tail(emitQ) /\ work' = work /\ todo' = todo
  BY DEF SenderTake
<1>3. work \o held = work
  BY <1>1, <1>2, ConcatEmptySeq
<1>4. work \o <<Head(emitQ)>> = Append(work, Head(emitQ))
  BY <1>1, HeadTailProperties, AppendIsConcat
<1>5. Append(work, Head(emitQ)) \o Tail(emitQ) = work \o emitQ
  BY <1>1, Shift
<1> QED BY <1>2, <1>3, <1>4, <1>5 DEF OnTheWay

LEMMA HeldIsOne ==
  ASSUME TypeOK, held # <<>>
  PROVE  held = <<held[1]>> /\ held[1] \in Message
<1>1. held \in Seq(Message) /\ Len(held) <= 1
  BY DEF TypeOK
<1>2. Len(held) = 1
  <2> DEFINE n == Len(held)
  <2>1. n \in Nat /\ n # 0
    BY <1>1, EmptySeq
  <2>2. n <= 1
    BY <1>1
  <2> HIDE DEF n
  <2>3. n = 1
    BY <2>1, <2>2
  <2> QED BY <2>3 DEF n
<1>3. held[1] \in Message
  BY <1>1, <1>2, ElementOfSeq
<1> QED BY <1>1, <1>2, <1>3

LEMMA SenderPutMoves ==
  ASSUME TypeOK, SenderPut, work' = Append(work, held[1])
  PROVE  OnTheWay' = OnTheWay
<1>1. held = <<held[1]>> /\ held[1] \in Work
  BY HeldIsOne, MessagesAreWork DEF SenderPut
<1>2. work \in Seq(Work)
  BY QueueTypes
<1>3. Append(work, held[1]) = work \o held /\ work \o held \in Seq(Work)
  <2>1. Append(work, held[1]) = work \o <<held[1]>>
    BY <1>1, <1>2, AppendIsConcat
  <2> QED BY <1>1, <1>2, <2>1, QueueTypes, ConcatProperties
<1>4. (work \o held) \o <<>> = work \o held
  BY <1>3, ConcatEmptySeq
<1>5. held' = <<>> /\ emitQ' = emitQ /\ todo' = todo
  BY DEF SenderPut
<1> QED BY <1>3, <1>4, <1>5 DEF OnTheWay

LEMMA OnTheWayParts ==
  ASSUME TypeOK, NEW S
  PROVE  Only(OnTheWay, S) = Parts(work, held, emitQ, todo, S)
  BY QueueTypes, OnlyParts DEF OnTheWay

LEMMA NextOnTheWayParts ==
  ASSUME TypeOK', NEW S
  PROVE  Only(OnTheWay', S) = Parts(work', held', emitQ', todo', S)
  BY NextQueueTypes, OnlyParts DEF OnTheWay

-----------------------------------------------------------------------------
(* The announcement: its discovery messages in order, and one event per module. *)

LEMMA Kinds ==
  /\ \A n \in Nat : Discovery(n) \in Discoveries /\ Discovery(n) \notin Telemetries
  /\ \A n \in Nat : Report(n) \in Telemetries /\ Report(n) \notin Discoveries
  /\ Telemetry \in Telemetries /\ Telemetry \notin Discoveries
  /\ \A m \in Message : Reliable(m) <=> m \in Discoveries
  /\ \A m \in Message : ~Reliable(m) <=> m \in Telemetries
  /\ \A c : Data(c) \notin Discoveries \cup Telemetries
<1>1. /\ \A n \in Nat : Discovery(n) \in Discoveries /\ Discovery(n) \notin Telemetries
      /\ \A n \in Nat : Report(n) \in Telemetries /\ Report(n) \notin Discoveries
      /\ Telemetry \in Telemetries /\ Telemetry \notin Discoveries
  BY DEF Discovery, Report, Telemetry, Discoveries, Telemetries
<1>2. ASSUME NEW m \in Message
      PROVE  (Reliable(m) <=> m \in Discoveries) /\ (~Reliable(m) <=> m \in Telemetries)
  BY DEF Message, Reliable, Discoveries, Telemetries
<1>3. \A c : Data(c) \notin Discoveries \cup Telemetries
  BY DEF Data, Discoveries, Telemetries
<1> QED BY <1>1, <1>2, <1>3

\* The announcement of the first k modules.
Announced(a, k) ==
  [i \in 1..(2 * k + 1) |->
     IF i = 1 THEN Discovery(a + 1)
     ELSE IF i % 2 = 0 THEN Discovery(a + 1 + i \div 2) ELSE Telemetry]
Numbered(a, n) == [i \in 1..n |-> Discovery(a + i)]

LEMMA AnnouncedType ==
  ASSUME NEW a \in Nat, NEW k \in Nat
  PROVE  Announced(a, k) \in Seq(Message) /\ Len(Announced(a, k)) = 2 * k + 1
<1>1. ASSUME NEW i \in 1..(2 * k + 1)
      PROVE  (IF i = 1 THEN Discovery(a + 1)
              ELSE IF i % 2 = 0 THEN Discovery(a + 1 + i \div 2) ELSE Telemetry) \in Message
  <2>1. a + 1 \in Nat /\ a + 1 + i \div 2 \in Nat
    OBVIOUS
  <2> QED BY <2>1, MessageTypes
<1> QED BY <1>1 DEF Announced

LEMMA AnnouncedNext ==
  ASSUME NEW a \in Nat, NEW k \in Nat
  PROVE  Announced(a, k + 1) = Append(Append(Announced(a, k), Discovery(a + (k + 2))), Telemetry)
<1> DEFINE p == Announced(a, k)
           d == Discovery(a + (k + 2))
           q == Append(p, d)
           r == Append(q, Telemetry)
           n == Announced(a, k + 1)
<1>1. p \in Seq(Message) /\ Len(p) = 2 * k + 1
  BY AnnouncedType
<1>2. d \in Message /\ Telemetry \in Message
  BY MessageTypes
<1> HIDE DEF p, d
<1>3. /\ q \in Seq(Message) /\ Len(q) = 2 * k + 2 /\ q[2 * k + 2] = d
      /\ \A i \in 1..(2 * k + 1) : q[i] = p[i]
  BY <1>1, <1>2, AppendProperties
<1> HIDE DEF q
<1>4. /\ r \in Seq(Message) /\ Len(r) = 2 * k + 3 /\ r[2 * k + 3] = Telemetry
      /\ \A i \in 1..(2 * k + 2) : r[i] = q[i]
  BY <1>2, <1>3, AppendProperties
<1>5. n \in Seq(Message) /\ Len(n) = 2 * k + 3
  BY AnnouncedType
<1> HIDE DEF r
<1>6. ASSUME NEW i \in 1..(2 * k + 3)
      PROVE  n[i] = r[i]
  <2>0. n[i] = IF i = 1 THEN Discovery(a + 1)
               ELSE IF i % 2 = 0 THEN Discovery(a + 1 + i \div 2) ELSE Telemetry
    BY DEF Announced
  <2>1. CASE i = 2 * k + 3
    <3>1. i # 1 /\ i % 2 # 0
      BY <2>1
    <3> QED BY <2>0, <2>1, <3>1, <1>4
  <2>2. CASE i = 2 * k + 2
    <3>1. i # 1 /\ i % 2 = 0 /\ a + 1 + i \div 2 = a + (k + 2)
      BY <2>2
    <3>2. r[i] = d
      BY <2>2, <1>3, <1>4
    <3> QED BY <2>0, <3>1, <3>2 DEF d
  <2>3. CASE i \in 1..(2 * k + 1)
    <3>1. r[i] = p[i]
      BY <2>3, <1>3, <1>4
    <3>2. p[i] = IF i = 1 THEN Discovery(a + 1)
                 ELSE IF i % 2 = 0 THEN Discovery(a + 1 + i \div 2) ELSE Telemetry
      BY <2>3 DEF p, Announced
    <3> QED BY <2>0, <3>1, <3>2
  <2> QED BY <2>1, <2>2, <2>3
<1> HIDE DEF n
<1>7. n = r
  BY <1>4, <1>5, <1>6, SeqEqual
<1> QED BY <1>7 DEF n, r, q, p, d

LEMMA NumberedNext ==
  ASSUME NEW a \in Nat, NEW n \in Nat
  PROVE  Append(Numbered(a, n), Discovery(a + (n + 1))) = Numbered(a, n + 1)
<1>1. \A m \in Nat : Numbered(a, m) \in Seq(Message) /\ Len(Numbered(a, m)) = m
  <2> TAKE m \in Nat
  <2>1. \A i \in 1..m : Discovery(a + i) \in Message
    BY MessageTypes
  <2> QED BY <2>1 DEF Numbered
<1> DEFINE p == Numbered(a, n)
           q == Numbered(a, n + 1)
           d == Discovery(a + (n + 1))
<1>2. p \in Seq(Message) /\ Len(p) = n /\ q \in Seq(Message) /\ Len(q) = n + 1 /\ d \in Message
  BY <1>1, MessageTypes
<1>3. (\A i \in 1..n : q[i] = p[i]) /\ q[n + 1] = d
  BY DEF Numbered
<1> HIDE DEF p, q, d
<1>4. /\ Append(p, d) \in Seq(Message) /\ Len(Append(p, d)) = n + 1
      /\ Append(p, d)[n + 1] = d /\ \A i \in 1..n : Append(p, d)[i] = p[i]
  BY <1>2, AppendProperties
<1>5. \A i \in 1..(n + 1) : Append(p, d)[i] = q[i]
  BY <1>3, <1>4
<1>6. Append(p, d) = q
  BY <1>2, <1>4, <1>5, SeqEqual
<1> QED BY <1>6 DEF p, q, d

LEMMA AnnouncedHolds ==
  ASSUME NEW a \in Nat
  PROVE  \A k \in Nat : /\ Only(Announced(a, k), Discoveries) = Numbered(a, k + 1)
                        /\ Len(Only(Announced(a, k), Telemetries)) = k
<1> DEFINE S == {k \in Nat : /\ Only(Announced(a, k), Discoveries) = Numbered(a, k + 1)
                             /\ Len(Only(Announced(a, k), Telemetries)) = k}
<1>1. 0 \in S
  <2>1. Announced(a, 0) = <<Discovery(a + 1)>>
    BY DEF Announced
  <2>2. Discovery(a + 1) \in Discoveries /\ Discovery(a + 1) \notin Telemetries
    BY Kinds
  <2>3. Only(Announced(a, 0), Discoveries) = <<Discovery(a + 1)>>
    BY <2>1, <2>2, OnlyOne
  <2>4. Only(Announced(a, 0), Telemetries) = <<>>
    BY <2>1, <2>2, OnlyOne
  <2>5. Numbered(a, 0 + 1) = <<Discovery(a + 1)>>
    BY DEF Numbered
  <2> QED BY <2>3, <2>4, <2>5
<1>2. ASSUME NEW k \in Nat, k \in S
      PROVE  k + 1 \in S
  <2> DEFINE p == Announced(a, k)
             d == Discovery(a + (k + 2))
             q == Append(p, d)
  <2>1. p \in Seq(Message) /\ d \in Message /\ Telemetry \in Message
    BY AnnouncedType, MessageTypes
  <2>2. d \in Discoveries /\ d \notin Telemetries /\ Telemetry \in Telemetries /\ Telemetry \notin Discoveries
    BY Kinds
  <2> HIDE DEF d, p
  <2>3. q \in Seq(Message)
    BY <2>1, AppendProperties
  <2>4. /\ Only(q, Discoveries) = Append(Only(p, Discoveries), d)
        /\ Only(q, Telemetries) = Only(p, Telemetries)
    BY <2>1, <2>2, OnlyAppend
  <2> HIDE DEF q
  <2>5. /\ Only(Append(q, Telemetry), Discoveries) = Only(q, Discoveries)
        /\ Only(Append(q, Telemetry), Telemetries) = Append(Only(q, Telemetries), Telemetry)
    BY <2>1, <2>2, <2>3, OnlyAppend
  <2>6. Announced(a, k + 1) = Append(q, Telemetry)
    BY AnnouncedNext DEF q, p, d
  <2>7. Only(p, Discoveries) = Numbered(a, k + 1) /\ Len(Only(p, Telemetries)) = k
    BY <1>2 DEF p
  <2>8. Only(Announced(a, k + 1), Discoveries) = Numbered(a, (k + 1) + 1)
    <3>1. (k + 1) + 1 = k + 2 /\ k + 1 \in Nat
      OBVIOUS
    <3>2. Append(Numbered(a, k + 1), d) = Numbered(a, (k + 1) + 1)
      BY <3>1, NumberedNext DEF d
    <3> QED BY <2>4, <2>5, <2>6, <2>7, <3>2
  <2>9. Len(Only(Announced(a, k + 1), Telemetries)) = k + 1
    <3>1. Only(p, Telemetries) \in Seq(Message \cap Telemetries) /\ Telemetry \in Message \cap Telemetries
      BY <2>1, <2>2, OnlyType
    <3>2. Len(Append(Only(p, Telemetries), Telemetry)) = Len(Only(p, Telemetries)) + 1
      BY <3>1, AppendProperties
    <3> QED BY <2>4, <2>5, <2>6, <2>7, <3>2
  <2> QED BY <2>8, <2>9
<1> HIDE DEF S
<1>3. Nat \subseteq S
  BY <1>1, <1>2, SetInduction
<1> QED BY <1>3 DEF S

LEMMA AnnouncementHolds ==
  ASSUME NEW a \in Nat
  PROVE  /\ Only(Announcement(a), Discoveries) = Numbered(a, Modules + 1)
         /\ Len(Only(Announcement(a), Telemetries)) = Modules
<1>1. Announcement(a) = Announced(a, Modules)
  BY DEF Announcement, Announced
<1> QED BY <1>1, Capacities, AnnouncedHolds

-----------------------------------------------------------------------------
(* What the steps do to the discovery messages on the way. *)

Flight == Only(OnTheWay, Discoveries)

LEMMA FlightType ==
  ASSUME TypeOK
  PROVE  Flight \in Seq(Discoveries)
<1>1. OnTheWay \in Seq(Work)
  BY QueueTypes, ConcatProperties DEF OnTheWay
<1>2. Flight \in Seq(Work \cap Discoveries)
  BY <1>1, OnlyType DEF Flight
<1> QED BY <1>2, SeqMonotonic

\* The parts of Flight.
LEMMA FlightParts ==
  ASSUME TypeOK
  PROVE  /\ Only(work, Discoveries) \in Seq(Discoveries)
         /\ Only(held, Discoveries) \in Seq(Discoveries)
         /\ Only(emitQ, Discoveries) \in Seq(Discoveries)
         /\ Only(todo, Discoveries) \in Seq(Discoveries)
         /\ Flight = Parts(work, held, emitQ, todo, Discoveries)
<1>1. ASSUME NEW s \in Seq(Work)
      PROVE  Only(s, Discoveries) \in Seq(Discoveries)
  <2>1. Only(s, Discoveries) \in Seq(Work \cap Discoveries)
    BY OnlyType
  <2> QED BY <2>1, SeqMonotonic
<1> QED BY <1>1, QueueTypes, OnTheWayParts DEF Flight

\* A step that leaves each queue's discovery messages alone.
LEMMA SameParts ==
  ASSUME TypeOK, TypeOK',
         Only(work', Discoveries) = Only(work, Discoveries),
         Only(held', Discoveries) = Only(held, Discoveries),
         Only(emitQ', Discoveries) = Only(emitQ, Discoveries),
         Only(todo', Discoveries) = Only(todo, Discoveries)
  PROVE  Flight' = Flight
<1>1. Flight' = Parts(work', held', emitQ', todo', Discoveries)
  BY NextOnTheWayParts DEF Flight
<1> QED BY <1>1, FlightParts DEF Parts

LEMMA TryEmitKeeps ==
  ASSUME TypeOK, TryEmit(Telemetry)
  PROVE  Only(emitQ', Discoveries) = Only(emitQ, Discoveries)
<1>1. emitQ \in Seq(Work) /\ Telemetry \in Work /\ Telemetry \notin Discoveries
  BY QueueTypes, MessageTypes, MessagesAreWork, Kinds
<1>2. Only(Append(emitQ, Telemetry), Discoveries) = Only(emitQ, Discoveries)
  BY <1>1, OnlyAppend
<1> QED BY <1>2 DEF TryEmit

LEMMA MaybeTelemetryKeeps ==
  ASSUME TypeOK, MaybeTelemetry
  PROVE  Only(emitQ', Discoveries) = Only(emitQ, Discoveries)
  BY TryEmitKeeps DEF MaybeTelemetry

LEMMA EmitKeeps ==
  ASSUME TypeOK, TypeOK', Emit
  PROVE  Flight' = Flight
<1>1. todo # <<>> /\ todo' = Tail(todo) /\ work' = work /\ held' = held
  BY DEF Emit
<1>2. CASE emitQ' = Append(emitQ, Head(todo))
  BY <1>1, <1>2, EmitMoves DEF Flight
<1>3. CASE ~Reliable(Head(todo)) /\ emitQ' = emitQ
  <2>1. todo \in Seq(Message) /\ Head(todo) \in Message
    BY <1>1, HeadTailProperties DEF TypeOK
  <2>2. Head(todo) \notin Discoveries
    BY <1>3, <2>1, Kinds
  <2>3. Only(todo, Discoveries) = Only(Tail(todo), Discoveries)
    BY <1>1, <2>1, <2>2, OnlySkip
  <2> QED BY <1>1, <1>3, <2>3, SameParts
<1>4. emitQ' = Append(emitQ, Head(todo)) \/ (~Reliable(Head(todo)) /\ emitQ' = emitQ)
  BY DEF Emit, EmitReliable, TryEmit
<1> QED BY <1>2, <1>3, <1>4

\* A command that is not Rediscover.
LEMMA PlainHandleKeeps ==
  ASSUME TypeOK, NEW cmd, Handle(cmd), cmd.op # "Rediscover"
  PROVE  /\ Only(emitQ', Discoveries) = Only(emitQ, Discoveries)
         /\ todo' = todo /\ announced' = announced
  BY MaybeTelemetryKeeps DEF Handle

\* Rediscover appends what it announces.
LEMMA RediscoverAppends ==
  ASSUME TypeOK, TypeOK', NEW cmd, Handle(cmd), cmd.op = "Rediscover", todo = <<>>,
         work' = work, held' = held
  PROVE  /\ Flight' = Flight \o Numbered(announced, Modules + 1)
         /\ announced' = announced + Modules + 1
<1> DEFINE p == (Only(work, Discoveries) \o Only(held, Discoveries)) \o Only(emitQ, Discoveries)
<1>1. p \in Seq(Discoveries)
  BY FlightParts, ConcatProperties
<1>2. todo' = Announcement(announced) /\ emitQ' = emitQ /\ announced' = announced + Modules + 1
  BY DEF Handle
<1>3. Only(todo', Discoveries) = Numbered(announced, Modules + 1)
  BY <1>2, Counters, AnnouncementHolds
<1>4. Flight = p \o Only(todo, Discoveries)
  BY FlightParts DEF Parts
<1>5. Flight' = p \o Only(todo', Discoveries)
  <2>1. Flight' = Parts(work', held', emitQ', todo', Discoveries)
    BY NextOnTheWayParts DEF Flight
  <2> QED BY <2>1, <1>2 DEF Parts
<1>6. Only(todo, Discoveries) = <<>>
  BY OnlyEmpty
<1> HIDE DEF p
<1>7. p \o <<>> = p
  BY <1>1, ConcatEmptySeq
<1> QED BY <1>2, <1>3, <1>4, <1>5, <1>6, <1>7

LEMMA ReportKeeps ==
  ASSUME TypeOK, TypeOK', ReportDrops
  PROVE  Flight' = Flight
<1>1. drops.emitter + drops.transport \in Nat
  <2>1. drops \in [{"emitter", "transport"} -> 0..MaxCount] /\ MaxCount \in Nat
    BY Capacities DEF TypeOK
  <2>2. drops.emitter \in 0..MaxCount /\ drops.transport \in 0..MaxCount
    BY <2>1
  <2> QED BY <2>1, <2>2
<1> DEFINE r == Report(drops.emitter + drops.transport)
<1>2. r \notin Discoveries
  BY <1>1, Kinds
<1>3. held = <<>> /\ held' = <<r>>
  BY DEF ReportDrops
<1> HIDE DEF r
<1>4. Only(held, Discoveries) = <<>> /\ Only(held', Discoveries) = <<>>
  BY <1>2, <1>3, OnlyEmpty, OnlyOne
<1>5. work' = work /\ emitQ' = emitQ /\ todo' = todo
  BY DEF ReportDrops
<1> QED BY <1>4, <1>5, SameParts

LEMMA SenderPutKeeps ==
  ASSUME TypeOK, TypeOK', SenderPut
  PROVE  Flight' = Flight
<1>1. CASE work' = Append(work, held[1])
  BY <1>1, SenderPutMoves DEF Flight
<1>2. CASE ~Reliable(held[1]) /\ work' = work
  <2>1. held = <<held[1]>> /\ held[1] \in Message /\ held' = <<>>
    BY HeldIsOne DEF SenderPut
  <2>2. held[1] \notin Discoveries
    BY <1>2, <2>1, Kinds
  <2>3. Only(<<held[1]>>, Discoveries) = <<>> /\ Only(held', Discoveries) = <<>>
    BY <2>1, <2>2, OnlyOne, OnlyEmpty
  <2>4. emitQ' = emitQ /\ todo' = todo
    BY DEF SenderPut
  <2> QED BY <1>2, <2>1, <2>3, <2>4, SameParts
<1> QED BY <1>1, <1>2 DEF SenderPut, HandOn

LEMMA WorkerDataKeeps ==
  ASSUME TypeOK, TypeOK', WorkerData
  PROVE  Flight' = Flight
<1>1. work \in Seq(Work) /\ work # <<>> /\ work' = Tail(work)
  BY DEF TypeOK, WorkerData
<1>2. Head(work) \notin Discoveries
  BY DEF WorkerData, Discoveries
<1>3. Only(work, Discoveries) = Only(Tail(work), Discoveries)
  BY <1>1, <1>2, OnlySkip
<1>4. held' = held /\ emitQ' = emitQ /\ todo' = todo
  BY DEF WorkerData
<1> QED BY <1>1, <1>3, <1>4, SameParts

LEMMA QueueKeeps ==
  ASSUME TypeOK, TypeOK', NEW cmds \in Seq(NumberedCommand), Queue(cmds),
         held' = held, emitQ' = emitQ, todo' = todo
  PROVE  Flight' = Flight
<1>1. work \in Seq(Work) /\ Data(cmds) \in Work /\ Data(cmds) \notin Discoveries
  BY Kinds DEF TypeOK, Data, Work
<1>2. Only(Append(work, Data(cmds)), Discoveries) = Only(work, Discoveries)
  BY <1>1, OnlyAppend
<1>3. work' = work \/ work' = Append(work, Data(cmds))
  BY DEF Queue
<1> QED BY <1>2, <1>3, SameParts

\* The worker remembers the first discovery message, or takes telemetry.
LEMMA WorkerMessageTakes ==
  ASSUME TypeOK, TypeOK', WorkerMessage
  PROVE  \/ Flight' = Flight /\ learned' = learned
         \/ /\ Head(work) \in Discoveries /\ learned' = Head(work).n
            /\ Flight = <<Head(work)>> \o Flight'
<1>1. work \in Seq(Work) /\ work # <<>> /\ work' = Tail(work)
  BY DEF TypeOK, WorkerMessage
<1>2. held' = held /\ emitQ' = emitQ /\ todo' = todo
  BY DEF WorkerMessage
<1>3. Head(work) \in Message
  <2>1. Head(work) \in Work /\ Head(work).kind # "Data"
    BY <1>1, HeadTailProperties DEF WorkerMessage
  <2> QED BY <2>1 DEF Work
<1>4. CASE ~Reliable(Head(work))
  <2>1. Head(work) \notin Discoveries
    BY <1>3, <1>4, Kinds
  <2>2. Only(work, Discoveries) = Only(Tail(work), Discoveries)
    BY <1>1, <2>1, OnlySkip
  <2>3. Flight' = Flight
    BY <1>1, <1>2, <2>2, SameParts
  <2>4. learned' = learned
    BY <1>4 DEF WorkerMessage
  <2> QED BY <2>3, <2>4
<1>5. CASE Reliable(Head(work))
  <2>1. Head(work) \in Discoveries
    BY <1>3, <1>5, Kinds
  <2>2. Only(work, Discoveries) = <<Head(work)>> \o Only(Tail(work), Discoveries)
    BY <1>1, <2>1, OnlyKeep
  <2>3. learned' = Head(work).n
    BY <1>5 DEF WorkerMessage
  <2> DEFINE x == <<Head(work)>>
             a == Only(Tail(work), Discoveries)
             b == Only(held, Discoveries)
             c == Only(emitQ, Discoveries)
             d == Only(todo, Discoveries)
  <2>4. /\ x \in Seq(Discoveries) /\ b \in Seq(Discoveries) /\ c \in Seq(Discoveries)
        /\ d \in Seq(Discoveries)
    BY <2>1, OneSeq, FlightParts
  <2>5. a \in Seq(Discoveries)
    <3>1. Tail(work) \in Seq(Work)
      BY <1>1, HeadTailProperties
    <3>2. a \in Seq(Work \cap Discoveries)
      BY <3>1, OnlyType
    <3> QED BY <3>2, SeqMonotonic
  <2>6. Flight = (((x \o a) \o b) \o c) \o d
    BY <2>2, FlightParts DEF Parts
  <2>7. Flight' = ((a \o b) \o c) \o d
    <3>1. Flight' = Parts(work', held', emitQ', todo', Discoveries)
      BY NextOnTheWayParts DEF Flight
    <3> QED BY <3>1, <1>1, <1>2 DEF Parts
  <2> HIDE DEF x, a, b, c, d
  <2> DEFINE ab == a \o b
             abc == ab \o c
  <2>8. ab \in Seq(Discoveries) /\ (x \o a) \o b = x \o ab
    <3>1. Regrouped(x, a, b) /\ a \o b \in Seq(Discoveries)
      BY <2>4, <2>5, Regroup
    <3> QED BY <3>1 DEF Regrouped
  <2> HIDE DEF ab
  <2>9. abc \in Seq(Discoveries) /\ (x \o ab) \o c = x \o abc
    <3>1. Regrouped(x, ab, c) /\ ab \o c \in Seq(Discoveries)
      BY <2>4, <2>8, Regroup
    <3> QED BY <3>1 DEF Regrouped
  <2> HIDE DEF abc
  <2>10. (x \o abc) \o d = x \o (abc \o d)
    <3>1. Regrouped(x, abc, d)
      BY <2>4, <2>9, Regroup
    <3> QED BY <3>1 DEF Regrouped
  <2>11. Flight' = abc \o d
    BY <2>7 DEF abc, ab
  <2>12. Flight = ((x \o ab) \o c) \o d
    BY <2>6, <2>8
  <2>13. Flight = x \o Flight'
    BY <2>9, <2>10, <2>11, <2>12
  <2> QED BY <2>1, <2>3, <2>13 DEF x
<1> QED BY <1>4, <1>5

-----------------------------------------------------------------------------
(* DiscoveryInOrder is inductive, given the types. *)

LEMMA DiscoveryInOrderIs ==
  DiscoveryInOrder <=> /\ Len(Flight) = announced - learned
                       /\ \A i \in 1..Len(Flight) : Flight[i].n = learned + i
  BY DEF DiscoveryInOrder, Flight

LEMMA NextDiscoveryInOrderIs ==
  DiscoveryInOrder' <=> /\ Len(Flight') = announced' - learned'
                        /\ \A i \in 1..Len(Flight') : Flight'[i].n = learned' + i
  BY DEF DiscoveryInOrder, Flight

LEMMA SameFlight ==
  ASSUME DiscoveryInOrder, Flight' = Flight, announced' = announced, learned' = learned
  PROVE  DiscoveryInOrder'
  BY DiscoveryInOrderIs, NextDiscoveryInOrderIs

LEMMA DiscoveryHandle ==
  ASSUME TypeOK, TypeOK', DiscoveryInOrder, NEW cmd, Handle(cmd), todo = <<>>,
         work' = work, held' = held, learned' = learned
  PROVE  DiscoveryInOrder'
<1>1. CASE cmd.op # "Rediscover"
  <2>1. Flight' = Flight
    <3>1. Only(emitQ', Discoveries) = Only(emitQ, Discoveries) /\ todo' = todo
      BY <1>1, PlainHandleKeeps
    <3> QED BY <3>1, SameParts
  <2>2. announced' = announced
    BY <1>1, PlainHandleKeeps
  <2> QED BY <2>1, <2>2, SameFlight
<1>2. CASE cmd.op = "Rediscover"
  <2> DEFINE n == Numbered(announced, Modules + 1)
             f == Flight
  <2>1. Flight' = f \o n /\ announced' = announced + Modules + 1
    BY <1>2, RediscoverAppends
  <2>2. announced \in Nat /\ learned \in Nat /\ Modules \in Nat
    BY Counters, Capacities
  <2>3. /\ n \in Seq(Discoveries) /\ Len(n) = Modules + 1
        /\ \A i \in 1..(Modules + 1) : n[i].n = announced + i
    <3>1. \A i \in 1..(Modules + 1) : Discovery(announced + i) \in Discoveries
      BY <2>2, Kinds
    <3>2. \A i \in 1..(Modules + 1) : Discovery(announced + i).n = announced + i
      BY DEF Discovery
    <3> QED BY <2>2, <3>1, <3>2 DEF Numbered
  <2>4. f \in Seq(Discoveries)
    BY FlightType
  <2>5. /\ Len(f) = announced - learned
        /\ \A i \in 1..Len(f) : f[i].n = learned + i
    BY DiscoveryInOrderIs
  <2> HIDE DEF n, f
  <2>6. /\ Len(f \o n) = Len(f) + Len(n)
        /\ \A i \in 1..Len(f) + Len(n) : (f \o n)[i] = IF i <= Len(f) THEN f[i] ELSE n[i - Len(f)]
    BY <2>3, <2>4, ConcatProperties
  <2>7. Len(f) \in Nat
    BY <2>4, LenProperties
  <2>8. Len(f \o n) = announced' - learned'
    BY <2>1, <2>2, <2>3, <2>5, <2>6
  <2>9. ASSUME NEW i \in 1..Len(f \o n)
        PROVE  (f \o n)[i].n = learned' + i
    <3>1. CASE i <= Len(f)
      BY <2>5, <2>6, <2>7, <2>3, <2>2, <3>1
    <3>2. CASE ~(i <= Len(f))
      <4>1. i - Len(f) \in 1..(Modules + 1) /\ (f \o n)[i] = n[i - Len(f)]
        BY <2>2, <2>3, <2>6, <2>7, <3>2
      <4>2. n[i - Len(f)].n = announced + (i - Len(f))
        BY <2>3, <4>1
      <4>3. announced + (i - Len(f)) = learned + i
        BY <2>2, <2>5, <2>7
      <4> QED BY <4>1, <4>2, <4>3
    <3> QED BY <3>1, <3>2
  <2> QED BY <2>1, <2>8, <2>9, NextDiscoveryInOrderIs
<1> QED BY <1>1, <1>2

LEMMA DiscoveryMessage ==
  ASSUME TypeOK, TypeOK', DiscoveryInOrder, WorkerMessage
  PROVE  DiscoveryInOrder'
<1>1. announced' = announced
  BY DEF WorkerMessage
<1>2. CASE Flight' = Flight /\ learned' = learned
  BY <1>1, <1>2, SameFlight
<1>3. CASE /\ Head(work) \in Discoveries /\ learned' = Head(work).n
           /\ Flight = <<Head(work)>> \o Flight'
  <2> DEFINE x == Head(work)
             h == <<x>>
             f == Flight
             g == Flight'
  <2>1. h \in Seq(Discoveries) /\ Len(h) = 1 /\ h[1] = x
    BY <1>3, OneSeq
  <2>2. g \in Seq(Discoveries)
    <3>1. OnTheWay' \in Seq(Work)
      BY NextQueueTypes, ConcatProperties DEF OnTheWay
    <3>2. g \in Seq(Work \cap Discoveries)
      BY <3>1, OnlyType DEF Flight
    <3> QED BY <3>2, SeqMonotonic
  <2>3. f = h \o g /\ learned' = x.n
    BY <1>3
  <2>4. Len(f) = announced - learned /\ \A i \in 1..Len(f) : f[i].n = learned + i
    BY DiscoveryInOrderIs
  <2>5. announced \in Nat /\ learned \in Nat
    BY Counters
  <2> HIDE DEF x, h, f, g
  <2>6. /\ Len(f) = Len(h) + Len(g)
        /\ \A i \in 1..Len(h) + Len(g) : f[i] = IF i <= Len(h) THEN h[i] ELSE g[i - Len(h)]
    BY <2>1, <2>2, <2>3, ConcatProperties
  <2>7. Len(g) \in Nat
    BY <2>2, LenProperties
  <2>8. 1 \in 1..Len(f) /\ f[1] = x
    BY <2>1, <2>6, <2>7
  <2>9. learned' = learned + 1
    BY <2>3, <2>4, <2>8
  <2>10. Len(g) = announced' - learned'
    <3>1. 1 + Len(g) = announced - learned
      BY <2>1, <2>4, <2>6
    <3> QED BY <1>1, <2>5, <2>7, <2>9, <3>1
  <2>11. ASSUME NEW i \in 1..Len(g)
         PROVE  g[i].n = learned' + i
    <3>1. i + 1 \in 1..Len(f) /\ f[i + 1] = g[i]
      BY <2>1, <2>6, <2>7
    <3>2. f[i + 1].n = learned + (i + 1)
      BY <2>4, <3>1
    <3> QED BY <2>5, <2>9, <3>1, <3>2
  <2> QED BY <2>10, <2>11, NextDiscoveryInOrderIs DEF g
<1> QED BY <1>2, <1>3, WorkerMessageTakes

LEMMA DiscoveryHolds ==
  ASSUME TypeOK, TypeOK', DiscoveryInOrder, [Next]_vars
  PROVE  DiscoveryInOrder'
<1>1. CASE UNCHANGED vars
  <2>1. UNCHANGED <<work, held, emitQ, todo, announced, learned>>
    BY <1>1 DEF vars
  <2> QED BY <2>1, SameFlight DEF Flight, OnTheWay
<1>2. CASE Emit
  BY <1>2, EmitKeeps, SameFlight DEF Emit
<1>3. CASE Tick
  <2>1. Only(emitQ', Discoveries) = Only(emitQ, Discoveries)
    BY <1>3, MaybeTelemetryKeeps DEF Tick
  <2>2. UNCHANGED <<work, held, todo, announced, learned>>
    BY <1>3 DEF Tick
  <2>3. Flight' = Flight
    BY <2>1, <2>2, SameParts
  <2> QED BY <2>2, <2>3, SameFlight
<1>4. CASE DrainCommand
  BY <1>4, DiscoveryHandle DEF DrainCommand
<1>5. CASE WaitCommand
  BY <1>5, DiscoveryHandle DEF WaitCommand
<1>6. CASE DrainDone \/ WaitOver \/ DeadlinePasses \/ WorkerCheck \/ WorkerIdle \/ WorkerDeliver
  <2>1. UNCHANGED <<work, held, emitQ, todo, announced, learned>>
    BY <1>6 DEF DrainDone, WaitOver, DeadlinePasses, WorkerCheck, WorkerIdle, WorkerDeliver
  <2> QED BY <2>1, SameFlight DEF Flight, OnTheWay
<1>7. CASE SenderTake
  <2>1. Flight' = Flight
    BY <1>7, SenderTakeMoves DEF Flight
  <2> QED BY <1>7, <2>1, SameFlight DEF SenderTake
<1>8. CASE ReportDrops
  BY <1>8, ReportKeeps, SameFlight DEF ReportDrops
<1>9. CASE SenderPut
  BY <1>9, SenderPutKeeps, SameFlight DEF SenderPut
<1>10. CASE WorkerMessage
  BY <1>10, DiscoveryMessage
<1>11. CASE WorkerData
  BY <1>11, WorkerDataKeeps, SameFlight DEF WorkerData
<1>12. CASE DataCallback
  <2>1. PICK n \in Nat : \E ops \in [1..n -> Op] :
           /\ Batch(n, ops) \in Seq(NumberedCommand)
           /\ Queue(Batch(n, ops)) /\ sent' = sent + n /\ rediscovers' \in Nat
    BY <1>12, DataCallbackQueues
  <2>2. PICK cmds \in Seq(NumberedCommand) : Queue(cmds)
    BY <2>1
  <2> QED BY <1>12, <2>2, QueueKeeps, SameFlight DEF DataCallback
<1>13. CASE FloodCallback
  <2>1. <<Command("Module", 0)>> \in Seq(NumberedCommand)
    <3>1. Command("Module", 0) \in NumberedCommand
      BY DEF Command, NumberedCommand, Op
    <3> QED BY <3>1, OneSeq
  <2>2. Queue(<<Command("Module", 0)>>)
    BY <1>13 DEF FloodCallback
  <2> QED BY <1>13, <2>1, <2>2, QueueKeeps, SameFlight DEF FloodCallback
<1> QED BY <1>1, <1>2, <1>3, <1>4, <1>5, <1>6, <1>7, <1>8, <1>9, <1>10, <1>11, <1>12, <1>13
        DEF Next, MainStep, SenderStep, WorkerStep

LEMMA InitDiscovery ==
  ASSUME Init
  PROVE  DiscoveryInOrder
<1>1. TypeOK
  BY InitTypes
<1>2. work = <<>> /\ held = <<>> /\ emitQ = <<>> /\ todo = Announcement(0)
      /\ announced = Modules + 1 /\ learned = 0
  BY DEF Init
<1> DEFINE n == Numbered(0, Modules + 1)
<1>3. Flight = ((<<>> \o <<>>) \o <<>>) \o n
  BY <1>1, <1>2, FlightParts, OnlyEmpty, AnnouncementHolds DEF Parts
<1>4. /\ n \in Seq(Discoveries) /\ Len(n) = Modules + 1
      /\ \A i \in 1..(Modules + 1) : n[i].n = i
  <2>1. \A i \in 1..(Modules + 1) : Discovery(0 + i) \in Discoveries
    BY Capacities, Kinds
  <2>2. \A i \in 1..(Modules + 1) : Discovery(0 + i).n = i
    BY Capacities DEF Discovery
  <2> QED BY <2>1, <2>2, Capacities DEF Numbered
<1> HIDE DEF n
<1>5. Flight = n
  BY <1>3, <1>4, ConcatEmptySeq, EmptySeq
<1> QED BY <1>2, <1>4, <1>5, Capacities, DiscoveryInOrderIs

\* Whatever the queues, the number of modules and the telemetry: no discovery message
\* is lost, repeated or overtaken between the main loop and the worker's replay cache
\* (emitter.rs:4-5, manager.rs:5-7, bluetooth.rs:231-239).
THEOREM PipelineDiscoveryInOrder == Spec => []DiscoveryInOrder
<1>1. Init => DiscoveryInOrder
  BY InitDiscovery
<1>2. TypeOK /\ TypeOK' /\ DiscoveryInOrder /\ [Next]_vars => DiscoveryInOrder'
  BY DiscoveryHolds
<1> QED BY <1>1, <1>2, PipelineTypes, PTL DEF Spec

-----------------------------------------------------------------------------
(* Telemetry: every message waits, has arrived or was dropped, and every drop is *)
(* counted.                                                                      *)

Count(s) == Len(Only(s, Telemetries))

\* The first_emit events of the announcements so far.
Made(a) == Modules * (a \div (Modules + 1))

AllAccounted == telemetry + reports + Made(announced) = arrived + dropped + Count(OnTheWay)
DropsAccounted ==
  /\ taken + drops.emitter + drops.transport <= dropped
  /\ dropped < MaxCount => taken + drops.emitter + drops.transport = dropped

LEMMA TelemetryAccountedIs ==
  /\ TelemetryAccounted <=> AllAccounted /\ DropsAccounted
  /\ AllAccounted' <=> telemetry' + reports' + Made(announced')
                         = arrived' + dropped' + Count(OnTheWay')
  /\ DropsAccounted' <=>
       /\ taken' + drops'.emitter + drops'.transport <= dropped'
       /\ dropped' < MaxCount => taken' + drops'.emitter + drops'.transport = dropped'
  BY DEF TelemetryAccounted, AllAccounted, DropsAccounted, Made, Count

LEMMA CountNat ==
  ASSUME NEW s \in Seq(Work)
  PROVE  Count(s) \in Nat
<1>1. Only(s, Telemetries) \in Seq(Work \cap Telemetries)
  BY OnlyType
<1> QED BY <1>1, LenProperties DEF Count

LEMMA CountEmpty == Count(<<>>) = 0
  BY OnlyEmpty DEF Count

LEMMA CountOne ==
  ASSUME NEW x
  PROVE  Count(<<x>>) = IF x \in Telemetries THEN 1 ELSE 0
<1>1. CASE x \in Telemetries
  BY <1>1, OnlyOne DEF Count
<1>2. CASE x \notin Telemetries
  BY <1>2, OnlyOne DEF Count
<1> QED BY <1>1, <1>2

LEMMA CountConcat ==
  ASSUME NEW s \in Seq(Work), NEW t \in Seq(Work)
  PROVE  Count(s \o t) = Count(s) + Count(t)
<1> DEFINE a == Only(s, Telemetries)
           b == Only(t, Telemetries)
           U == Work \cap Telemetries
<1>1. a \in Seq(U) /\ b \in Seq(U)
  BY OnlyType
<1>2. Only(s \o t, Telemetries) = a \o b
  BY OnlyConcat
<1> HIDE DEF a, b, U
<1>3. Len(a \o b) = Len(a) + Len(b)
  BY <1>1, ConcatProperties
<1> QED BY <1>2, <1>3 DEF Count, a, b

LEMMA CountAppend ==
  ASSUME NEW s \in Seq(Work), NEW x \in Work
  PROVE  Count(Append(s, x)) = Count(s) + IF x \in Telemetries THEN 1 ELSE 0
<1> DEFINE h == <<x>>
<1>1. h \in Seq(Work) /\ Append(s, x) = s \o h
  BY OneSeq, AppendIsConcat
<1>2. Count(h) = IF x \in Telemetries THEN 1 ELSE 0
  BY CountOne
<1> HIDE DEF h
<1>3. Count(s \o h) = Count(s) + Count(h)
  BY <1>1, CountConcat
<1> QED BY <1>1, <1>2, <1>3

LEMMA CountTail ==
  ASSUME NEW s \in Seq(Work), s # <<>>
  PROVE  /\ Count(s) = (IF Head(s) \in Telemetries THEN 1 ELSE 0) + Count(Tail(s))
         /\ Count(Tail(s)) \in Nat
<1> DEFINE h == <<Head(s)>>
<1>1. h \in Seq(Work) /\ Tail(s) \in Seq(Work) /\ s = h \o Tail(s)
  BY HeadTailProperties, OneSeq
<1>2. Count(h) = IF Head(s) \in Telemetries THEN 1 ELSE 0
  BY CountOne
<1> HIDE DEF h
<1>3. Count(h \o Tail(s)) = Count(h) + Count(Tail(s))
  BY <1>1, CountConcat
<1> QED BY <1>1, <1>2, <1>3, CountNat

LEMMA CountParts ==
  ASSUME NEW w \in Seq(Work), NEW h \in Seq(Work), NEW e \in Seq(Work), NEW t \in Seq(Work)
  PROVE  /\ Count(((w \o h) \o e) \o t) = Count(w) + Count(h) + Count(e) + Count(t)
         /\ Count(w) \in Nat /\ Count(h) \in Nat /\ Count(e) \in Nat /\ Count(t) \in Nat
<1> DEFINE wh == w \o h
           whe == wh \o e
<1>1. wh \in Seq(Work) /\ Count(wh) = Count(w) + Count(h)
  BY ConcatProperties, CountConcat
<1> HIDE DEF wh
<1>2. whe \in Seq(Work) /\ Count(whe) = Count(wh) + Count(e)
  <2>1. wh \o e \in Seq(Work)
    BY <1>1, ConcatProperties
  <2>2. Count(wh \o e) = Count(wh) + Count(e)
    BY <1>1, CountConcat
  <2> QED BY <2>1, <2>2
<1> HIDE DEF whe
<1>3. Count(whe \o t) = Count(whe) + Count(t)
  BY <1>2, CountConcat
<1> QED BY <1>1, <1>2, <1>3, CountNat DEF wh, whe

LEMMA WaitingParts ==
  ASSUME TypeOK, TypeOK'
  PROVE  /\ Count(OnTheWay) = Count(work) + Count(held) + Count(emitQ) + Count(todo)
         /\ Count(OnTheWay') = Count(work') + Count(held') + Count(emitQ') + Count(todo')
         /\ Count(work) \in Nat /\ Count(held) \in Nat /\ Count(emitQ) \in Nat /\ Count(todo) \in Nat
         /\ Count(work') \in Nat /\ Count(held') \in Nat /\ Count(emitQ') \in Nat
         /\ Count(todo') \in Nat
  BY QueueTypes, NextQueueTypes, CountParts DEF OnTheWay

LEMMA MadeNext ==
  ASSUME NEW a \in Nat
  PROVE  Made(a) \in Nat /\ Made(a + Modules + 1) = Made(a) + Modules
<1> DEFINE m == Modules + 1
           q == a \div m
           p == (a + m) \div m
<1>1. Modules \in Nat /\ m \in Nat /\ m > 0 /\ a + Modules + 1 = a + m
  BY Capacities
<1>2. q \in Nat /\ p = q + 1
  <2> HIDE DEF m
  <2> QED BY <1>1
<1>3. Made(a) = Modules * q /\ Made(a + Modules + 1) = Modules * p
  BY <1>1 DEF Made
<1> HIDE DEF q, p
<1>4. Modules * (q + 1) = Modules * q + Modules /\ Modules * q \in Nat
  BY <1>1, <1>2
<1> QED BY <1>2, <1>3, <1>4

LEMMA CounterTypes ==
  ASSUME TypeOK
  PROVE  /\ drops.emitter \in 0..MaxCount /\ drops.transport \in 0..MaxCount /\ MaxCount \in Nat
         /\ MaxCount > 0
         /\ taken \in Nat /\ dropped \in Nat
<1>1. drops \in [{"emitter", "transport"} -> 0..MaxCount]
  BY DEF TypeOK
<1>2. drops.emitter \in 0..MaxCount /\ drops.transport \in 0..MaxCount
  BY <1>1
<1> QED BY <1>2, Counters, Capacities

\* A drop is counted, or its counter is full.
LEMMA RecordAccounts ==
  ASSUME TypeOK, DropsAccounted, NEW stage \in {"emitter", "transport"}, Record(stage),
         taken' = taken
  PROVE  DropsAccounted' /\ dropped' = dropped + 1
<1> DEFINE e == drops.emitter
           t == drops.transport
           f == drops'.emitter
           u == drops'.transport
<1>1. /\ e \in 0..MaxCount /\ t \in 0..MaxCount /\ MaxCount \in Nat /\ taken \in Nat
      /\ dropped \in Nat
  BY CounterTypes
<1>2. /\ taken + e + t <= dropped
      /\ dropped < MaxCount => taken + e + t = dropped
  BY DEF DropsAccounted
<1>3. dropped' = dropped + 1
  BY DEF Record
<1>4. drops \in [{"emitter", "transport"} -> 0..MaxCount]
  BY DEF TypeOK
<1>5. CASE stage = "emitter"
  <2>1. u = t /\ f = IF e = MaxCount THEN e ELSE e + 1
    BY <1>4, <1>5 DEF Record
  <2> HIDE DEF e, t, f, u
  <2>2. /\ taken' + f + u <= dropped'
        /\ dropped' < MaxCount => taken' + f + u = dropped'
    BY <1>1, <1>2, <1>3, <2>1
  <2> QED BY <1>3, <2>2, TelemetryAccountedIs DEF f, u
<1>6. CASE stage = "transport"
  <2>1. f = e /\ u = IF t = MaxCount THEN t ELSE t + 1
    BY <1>4, <1>6 DEF Record
  <2> HIDE DEF e, t, f, u
  <2>2. /\ taken' + f + u <= dropped'
        /\ dropped' < MaxCount => taken' + f + u = dropped'
    BY <1>1, <1>2, <1>3, <2>1
  <2> QED BY <1>3, <2>2, TelemetryAccountedIs DEF f, u
<1> QED BY <1>5, <1>6

LEMMA SameDrops ==
  ASSUME DropsAccounted, drops' = drops, taken' = taken, dropped' = dropped
  PROVE  DropsAccounted'
  BY TelemetryAccountedIs DEF DropsAccounted

\* A try_emit queues its message or drops it.
LEMMA TryEmitAccounts ==
  ASSUME TypeOK, DropsAccounted, NEW m \in Message, TryEmit(m), taken' = taken
  PROVE  /\ DropsAccounted'
         /\ \/ emitQ' = Append(emitQ, m) /\ dropped' = dropped
            \/ emitQ' = emitQ /\ dropped' = dropped + 1
<1>1. CASE emitQ' = Append(emitQ, m) /\ drops' = drops /\ dropped' = dropped
  BY <1>1, SameDrops
<1>2. CASE Record("emitter") /\ emitQ' = emitQ
  BY <1>2, RecordAccounts
<1> QED BY <1>1, <1>2 DEF TryEmit

LEMMA MaybeTelemetryAccounts ==
  ASSUME TypeOK, DropsAccounted, MaybeTelemetry, taken' = taken
  PROVE  /\ DropsAccounted'
         /\ Count(emitQ') + dropped' + telemetry = Count(emitQ) + dropped + telemetry'
<1>1. CASE UNCHANGED <<emitQ, drops, dropped, telemetry>>
  BY <1>1, SameDrops
<1>2. CASE telemetry' = telemetry + 1 /\ TryEmit(Telemetry)
  <2>1. Telemetry \in Message /\ Telemetry \in Telemetries /\ Telemetry \in Work
    BY MessageTypes, Kinds, MessagesAreWork
  <2>2. /\ DropsAccounted'
        /\ \/ emitQ' = Append(emitQ, Telemetry) /\ dropped' = dropped
           \/ emitQ' = emitQ /\ dropped' = dropped + 1
    BY <1>2, <2>1, TryEmitAccounts
  <2>3. Count(Append(emitQ, Telemetry)) = Count(emitQ) + 1 /\ Count(emitQ) \in Nat
    BY <2>1, QueueTypes, CountAppend, CountNat
  <2> DEFINE c == Count(emitQ)
  <2>4. c \in Nat /\ dropped \in Nat /\ telemetry \in Nat
    BY <2>3, Counters
  <2>5. CASE emitQ' = Append(emitQ, Telemetry) /\ dropped' = dropped
    <3>1. Count(emitQ') = c + 1 /\ dropped' = dropped /\ telemetry' = telemetry + 1
      BY <1>2, <2>3, <2>5
    <3> HIDE DEF c
    <3>2. Count(emitQ') + dropped' + telemetry = c + dropped + telemetry'
      BY <2>4, <3>1
    <3> QED BY <2>2, <3>2 DEF c
  <2>6. CASE emitQ' = emitQ /\ dropped' = dropped + 1
    <3>1. Count(emitQ') = c /\ dropped' = dropped + 1 /\ telemetry' = telemetry + 1
      BY <1>2, <2>6
    <3> HIDE DEF c
    <3>2. Count(emitQ') + dropped' + telemetry = c + dropped + telemetry'
      BY <2>4, <3>1
    <3> QED BY <2>2, <3>2 DEF c
  <2> QED BY <2>2, <2>5, <2>6
<1> QED BY <1>1, <1>2 DEF MaybeTelemetry

LEMMA Sum3 == \A a, b, c \in Nat : a + b + c \in Nat
  OBVIOUS

\* A step that changes nothing TelemetryAccounted speaks of.
LEMMA SameAccounts ==
  ASSUME TelemetryAccounted, Count(OnTheWay') = Count(OnTheWay),
         UNCHANGED <<drops, taken, dropped, telemetry, reports, announced, arrived>>
  PROVE  TelemetryAccounted'
<1>1. AllAccounted /\ DropsAccounted
  BY TelemetryAccountedIs
<1>2. DropsAccounted'
  BY <1>1, SameDrops
<1>3. AllAccounted'
  BY <1>1, TelemetryAccountedIs DEF AllAccounted
<1> QED BY <1>2, <1>3 DEF TelemetryAccounted, AllAccounted, DropsAccounted, Made, Count

LEMMA SameMade ==
  ASSUME TypeOK, telemetry' = telemetry, reports' = reports, announced' = announced
  PROVE  telemetry' + reports' + Made(announced') = telemetry + reports + Made(announced) + 0
<1> DEFINE k == Made(announced)
<1>1. k \in Nat /\ Made(announced') = k /\ telemetry \in Nat /\ reports \in Nat
  BY Counters, MadeNext
<1> HIDE DEF k
<1>2. telemetry' + reports' + k = telemetry + reports + k + 0
  BY <1>1
<1> QED BY <1>1, <1>2 DEF k

\* AllAccounted in the next state, from what each side gained.
LEMMA Gained ==
  ASSUME TypeOK, TypeOK', AllAccounted, DropsAccounted', NEW n \in Nat,
         telemetry' + reports' + Made(announced') = telemetry + reports + Made(announced) + n,
         arrived' + dropped' + Count(OnTheWay') = arrived + dropped + Count(OnTheWay) + n
  PROVE  TelemetryAccounted'
<1> DEFINE c == Count(OnTheWay)
           d == Count(OnTheWay')
           k == Made(announced)
           l == Made(announced')
<1>1. /\ telemetry \in Nat /\ reports \in Nat /\ arrived \in Nat /\ dropped \in Nat
      /\ announced \in Nat
  BY Counters
<1>2. /\ telemetry' \in Nat /\ reports' \in Nat /\ arrived' \in Nat /\ dropped' \in Nat
      /\ announced' \in Nat
  <2>1. /\ \A x \in {announced', learned', arrived', sent', taken', dropped'} : x \in Nat
        /\ \A x \in {rediscovers', telemetry', reports'} : x \in Nat
    BY DEF TypeOK
  <2> QED BY <2>1
<1>3. c \in Nat /\ d \in Nat /\ k \in Nat /\ l \in Nat
  BY <1>1, <1>2, WaitingParts, MadeNext
<1>4. telemetry + reports + k = arrived + dropped + c
  BY DEF AllAccounted
<1>5. /\ telemetry' + reports' + l = telemetry + reports + k + n
      /\ arrived' + dropped' + d = arrived + dropped + c + n
  OBVIOUS
<1> HIDE DEF c, d, k, l
<1>6. telemetry' + reports' + l = arrived' + dropped' + d
  <2> DEFINE x == telemetry + reports + k
             y == arrived + dropped + c
             p == telemetry' + reports' + l
             q == arrived' + dropped' + d
  <2>1. x \in Nat /\ y \in Nat /\ p \in Nat /\ q \in Nat
    BY <1>1, <1>2, <1>3, Sum3
  <2>2. x = y /\ p = x + n /\ q = y + n
    BY <1>4, <1>5
  <2> HIDE DEF x, y, p, q
  <2>3. p = q
    BY <2>1, <2>2
  <2> QED BY <2>3 DEF p, q
<1>7. AllAccounted'
  BY <1>6, TelemetryAccountedIs DEF d, l
<1> QED BY <1>7 DEF TelemetryAccounted, AllAccounted, DropsAccounted, Made, Count

LEMMA EmitAccounts ==
  ASSUME TypeOK, TypeOK', TelemetryAccounted, Emit
  PROVE  TelemetryAccounted'
<1>1. AllAccounted /\ DropsAccounted
  BY TelemetryAccountedIs
<1>2. /\ todo # <<>> /\ todo' = Tail(todo) /\ work' = work /\ held' = held
      /\ UNCHANGED <<taken, telemetry, reports, announced, arrived>>
  BY DEF Emit
<1>3. CASE emitQ' = Append(emitQ, Head(todo)) /\ drops' = drops /\ dropped' = dropped
  <2>1. OnTheWay' = OnTheWay
    BY <1>2, <1>3, EmitMoves
  <2> QED BY <1>2, <1>3, <2>1, SameAccounts
<1>4. CASE ~Reliable(Head(todo)) /\ emitQ' = emitQ /\ Record("emitter")
  <2>1. todo \in Seq(Message) /\ todo \in Seq(Work) /\ Head(todo) \in Message
    BY <1>2, QueueTypes, HeadTailProperties DEF TypeOK
  <2>2. Count(todo) = 1 + Count(todo')
    BY <1>2, <1>4, <2>1, Kinds, CountTail
  <2>3. DropsAccounted' /\ dropped' = dropped + 1
    BY <1>1, <1>2, <1>4, RecordAccounts
  <2>4. Count(OnTheWay) = Count(OnTheWay') + 1 /\ Count(OnTheWay') \in Nat
    BY <1>2, <1>4, <2>2, WaitingParts
  <2>5. arrived' + dropped' + Count(OnTheWay') = arrived + dropped + Count(OnTheWay) + 0
    <3>1. arrived \in Nat /\ dropped \in Nat
      BY Counters
    <3> QED BY ONLY <1>2, <2>3, <2>4, <3>1
  <2>6. telemetry' + reports' + Made(announced') = telemetry + reports + Made(announced) + 0
    BY <1>2, SameMade
  <2> QED BY <1>1, <2>3, <2>5, <2>6, Gained
<1>5. \/ emitQ' = Append(emitQ, Head(todo)) /\ drops' = drops /\ dropped' = dropped
      \/ ~Reliable(Head(todo)) /\ emitQ' = emitQ /\ Record("emitter")
  BY DEF Emit, EmitReliable, TryEmit
<1> QED BY <1>3, <1>4, <1>5

Balanced(a, b, c, r, e, f, t, n) ==
  f + c + t = e + b + (t + n) => a + c + (r + f) = a + b + (r + e) + n

LEMMA Balances == \A a, b, c, r, e, f, t, n \in Nat : Balanced(a, b, c, r, e, f, t, n)
  BY DEF Balanced

LEMMA MaybeTelemetryGains ==
  ASSUME TypeOK, TypeOK', TelemetryAccounted, MaybeTelemetry,
         UNCHANGED <<work, held, todo, taken, reports, announced, arrived>>
  PROVE  TelemetryAccounted'
<1>1. AllAccounted /\ DropsAccounted
  BY TelemetryAccountedIs
<1>2. /\ DropsAccounted'
      /\ Count(emitQ') + dropped' + telemetry = Count(emitQ) + dropped + telemetry'
  BY <1>1, MaybeTelemetryAccounts
<1>3. telemetry' = telemetry \/ telemetry' = telemetry + 1
  BY DEF MaybeTelemetry
<1> DEFINE e == Count(emitQ)
           f == Count(emitQ')
           r == Count(work) + Count(held) + Count(todo)
           c == Count(OnTheWay)
           d == Count(OnTheWay')
           k == Made(announced)
<1>4. /\ e \in Nat /\ f \in Nat /\ r \in Nat /\ c = r + e /\ d = r + f
      /\ dropped \in Nat /\ dropped' \in Nat /\ telemetry \in Nat /\ arrived \in Nat
      /\ reports \in Nat /\ arrived' = arrived /\ reports' = reports
  <2>1. dropped' \in Nat /\ arrived' = arrived /\ reports' = reports
    BY DEF TypeOK
  <2>2. r \in Nat /\ e \in Nat /\ f \in Nat /\ c = r + e /\ d = r + f
    BY WaitingParts
  <2> HIDE DEF r, e, f, c, d
  <2> QED BY <2>1, <2>2, Counters
<1>5. k \in Nat /\ Made(announced') = k
  BY Counters, MadeNext
<1>6. f + dropped' + telemetry = e + dropped + telemetry'
  BY <1>2
<1> HIDE DEF e, f, r, c, d, k
<1>7. CASE telemetry' = telemetry
  <2>1. arrived' + dropped' + d = arrived + dropped + c + 0
    <3>1. f + dropped' + telemetry = e + dropped + (telemetry + 0)
      <4>1. telemetry' = telemetry + 0
        BY <1>4, <1>7
      <4> QED BY <1>6, <4>1
    <3>2. arrived + dropped' + (r + f) = arrived + dropped + (r + e) + 0
      <4>1. Balanced(arrived, dropped, dropped', r, e, f, telemetry, 0)
        BY <1>4, Balances
      <4> QED BY <3>1, <4>1 DEF Balanced
    <3> QED BY <1>4, <3>2
  <2>2. telemetry' + reports' + k = telemetry + reports + k + 0
    BY <1>4, <1>5, <1>7
  <2> QED BY <1>1, <1>2, <1>5, <2>1, <2>2, Gained DEF c, d, k
<1>8. CASE telemetry' = telemetry + 1
  <2>1. arrived' + dropped' + d = arrived + dropped + c + 1
    <3>1. f + dropped' + telemetry = e + dropped + (telemetry + 1)
      BY <1>4, <1>6, <1>8
    <3>2. arrived + dropped' + (r + f) = arrived + dropped + (r + e) + 1
      <4>1. Balanced(arrived, dropped, dropped', r, e, f, telemetry, 1)
        BY <1>4, Balances
      <4> QED BY <3>1, <4>1 DEF Balanced
    <3> QED BY <1>4, <3>2
  <2>2. telemetry' + reports' + k = telemetry + reports + k + 1
    BY <1>4, <1>5, <1>8
  <2> QED BY <1>1, <1>2, <1>5, <2>1, <2>2, Gained DEF c, d, k
<1> QED BY <1>3, <1>7, <1>8

LEMMA HandleAccounts ==
  ASSUME TypeOK, TypeOK', TelemetryAccounted, NEW cmd, Handle(cmd), todo = <<>>,
         UNCHANGED <<work, held, taken, reports, arrived>>
  PROVE  TelemetryAccounted'
<1>1. CASE cmd.op # "Rediscover"
  BY <1>1, MaybeTelemetryGains DEF Handle
<1>2. CASE cmd.op = "Rediscover"
  <2>1. /\ todo' = Announcement(announced) /\ announced' = announced + Modules + 1
        /\ UNCHANGED <<emitQ, drops, dropped, telemetry>>
    BY <1>2 DEF Handle
  <2>2. announced \in Nat /\ telemetry \in Nat /\ reports \in Nat /\ arrived \in Nat
        /\ dropped \in Nat /\ Modules \in Nat
    BY Counters, Capacities
  <2>3. Count(todo') = Modules /\ Count(todo) = 0
    BY <2>1, <2>2, AnnouncementHolds, CountEmpty DEF Count
  <2>4. Made(announced') = Made(announced) + Modules /\ Made(announced) \in Nat
    BY <2>1, <2>2, MadeNext
  <2>5. Count(OnTheWay') = Count(OnTheWay) + Modules /\ Count(OnTheWay) \in Nat
    BY <2>1, <2>2, <2>3, WaitingParts
  <2>6. arrived' + dropped' + Count(OnTheWay')
          = arrived + dropped + Count(OnTheWay) + Modules
    BY <2>1, <2>2, <2>5
  <2>7. telemetry' + reports' + Made(announced') = telemetry + reports + Made(announced) + Modules
    BY <2>1, <2>2, <2>4
  <2>8. AllAccounted /\ DropsAccounted'
    BY <2>1, SameDrops, TelemetryAccountedIs
  <2> QED BY <2>2, <2>6, <2>7, <2>8, Gained
<1> QED BY <1>1, <1>2

LEMMA ReportAccounts ==
  ASSUME TypeOK, TypeOK', TelemetryAccounted, ReportDrops
  PROVE  TelemetryAccounted'
<1> DEFINE e == drops.emitter
           t == drops.transport
<1>1. /\ held = <<>> /\ held' = <<Report(e + t)>> /\ taken' = taken + e + t
      /\ drops'.emitter = 0 /\ drops'.transport = 0 /\ reports' = reports + 1
      /\ UNCHANGED <<work, emitQ, todo, dropped, telemetry, announced, arrived>>
  BY DEF ReportDrops
<1>2. e \in Nat /\ t \in Nat /\ taken \in Nat /\ dropped \in Nat
  BY CounterTypes
<1>3. e + t \in Nat /\ Report(e + t) \in Telemetries
  BY <1>2, Kinds
<1>4. Count(held) = 0 /\ Count(held') = 1
  BY <1>1, <1>3, CountEmpty, CountOne
<1>5. DropsAccounted'
  <2>1. /\ taken + e + t <= dropped
        /\ dropped < MaxCount => taken + e + t = dropped
    BY DEF TelemetryAccounted
  <2>2. taken' + drops'.emitter + drops'.transport = taken + e + t
    BY <1>1, <1>2
  <2> HIDE DEF e, t
  <2> QED BY <1>1, <2>1, <2>2, TelemetryAccountedIs
<1>6. Count(OnTheWay') = Count(OnTheWay) + 1 /\ Count(OnTheWay) \in Nat
  BY <1>1, <1>4, WaitingParts
<1>7. arrived' + dropped' + Count(OnTheWay') = arrived + dropped + Count(OnTheWay) + 1
  BY <1>1, <1>6, Counters
<1>8. telemetry' + reports' + Made(announced') = telemetry + reports + Made(announced) + 1
  <2> DEFINE k == Made(announced)
  <2>1. k \in Nat /\ Made(announced') = k /\ telemetry \in Nat /\ reports \in Nat
    BY <1>1, Counters, MadeNext
  <2> HIDE DEF k
  <2>2. telemetry' + reports' + k = telemetry + reports + k + 1
    BY <1>1, <2>1
  <2> QED BY <2>1, <2>2 DEF k
<1>9. AllAccounted
  BY TelemetryAccountedIs
<1> QED BY <1>5, <1>7, <1>8, <1>9, Gained

LEMMA SenderPutAccounts ==
  ASSUME TypeOK, TypeOK', TelemetryAccounted, SenderPut
  PROVE  TelemetryAccounted'
<1>1. AllAccounted /\ DropsAccounted
  BY TelemetryAccountedIs
<1>2. UNCHANGED <<emitQ, todo, taken, telemetry, reports, announced, arrived>> /\ held' = <<>>
  BY DEF SenderPut
<1>3. CASE work' = Append(work, held[1]) /\ drops' = drops /\ dropped' = dropped
  <2>1. OnTheWay' = OnTheWay
    BY <1>3, SenderPutMoves
  <2> QED BY <1>2, <1>3, <2>1, SameAccounts
<1>4. CASE ~Reliable(held[1]) /\ work' = work /\ Record("transport")
  <2>1. held = <<held[1]>> /\ held[1] \in Telemetries
    BY <1>4, HeldIsOne, Kinds DEF SenderPut
  <2>2. Count(held) = 1 /\ Count(held') = 0
    BY <1>2, <2>1, CountOne, CountEmpty
  <2>3. DropsAccounted' /\ dropped' = dropped + 1
    BY <1>1, <1>2, <1>4, RecordAccounts
  <2>4. Count(OnTheWay) = Count(OnTheWay') + 1 /\ Count(OnTheWay') \in Nat
    BY <1>2, <1>4, <2>2, WaitingParts
  <2>5. arrived' + dropped' + Count(OnTheWay') = arrived + dropped + Count(OnTheWay) + 0
    <3>1. arrived \in Nat /\ dropped \in Nat
      BY Counters
    <3> QED BY ONLY <1>2, <2>3, <2>4, <3>1
  <2>6. telemetry' + reports' + Made(announced') = telemetry + reports + Made(announced) + 0
    BY <1>2, SameMade
  <2> QED BY <1>1, <2>3, <2>5, <2>6, Gained
<1> QED BY <1>3, <1>4 DEF SenderPut, HandOn

LEMMA WorkerMessageAccounts ==
  ASSUME TypeOK, TypeOK', TelemetryAccounted, WorkerMessage
  PROVE  TelemetryAccounted'
<1>1. /\ work # <<>> /\ work \in Seq(Work) /\ work' = Tail(work) /\ Head(work).kind # "Data"
      /\ UNCHANGED <<held, emitQ, todo, drops, taken, dropped, reports, telemetry, announced>>
  BY DEF WorkerMessage, TypeOK, counterVars
<1>2. Head(work) \in Message
  BY <1>1, HeadTailProperties DEF Work
<1>3. CASE Reliable(Head(work))
  <2>1. arrived' = arrived
    BY <1>3 DEF WorkerMessage
  <2>2. Head(work) \notin Telemetries
    BY <1>2, <1>3, Kinds
  <2>3. Count(work') = Count(work)
    BY <1>1, <2>2, CountTail
  <2>4. Count(OnTheWay') = Count(OnTheWay)
    BY <1>1, <2>3, WaitingParts
  <2> QED BY <1>1, <2>1, <2>4, SameAccounts
<1>4. CASE ~Reliable(Head(work))
  <2>1. arrived' = arrived + 1
    BY <1>4 DEF WorkerMessage
  <2>2. Head(work) \in Telemetries
    BY <1>2, <1>4, Kinds
  <2>3. Count(work) = 1 + Count(work')
    BY <1>1, <2>2, CountTail
  <2>4. Count(OnTheWay) = Count(OnTheWay') + 1 /\ Count(OnTheWay') \in Nat
    <3>1. /\ Count(OnTheWay) = Count(work) + Count(held) + Count(emitQ) + Count(todo)
          /\ Count(OnTheWay') = Count(work') + Count(held') + Count(emitQ') + Count(todo')
          /\ Count(work') \in Nat /\ Count(held') \in Nat /\ Count(emitQ') \in Nat
          /\ Count(todo') \in Nat
      BY WaitingParts
    <3>2. Count(held') = Count(held) /\ Count(emitQ') = Count(emitQ) /\ Count(todo') = Count(todo)
      BY <1>1
    <3> QED BY ONLY <2>3, <3>1, <3>2
  <2>5. arrived' + dropped' + Count(OnTheWay') = arrived + dropped + Count(OnTheWay) + 0
    <3>1. arrived \in Nat /\ dropped \in Nat
      BY Counters
    <3> QED BY ONLY <1>1, <2>1, <2>4, <3>1
  <2>6. telemetry' + reports' + Made(announced') = telemetry + reports + Made(announced) + 0
    BY <1>1, SameMade
  <2>7. AllAccounted /\ DropsAccounted'
    BY <1>1, SameDrops, TelemetryAccountedIs
  <2> QED BY <2>5, <2>6, <2>7, Gained
<1> QED BY <1>3, <1>4

LEMMA WorkerDataAccounts ==
  ASSUME TypeOK, TypeOK', TelemetryAccounted, WorkerData
  PROVE  TelemetryAccounted'
<1>1. /\ work # <<>> /\ work \in Seq(Work) /\ work' = Tail(work) /\ Head(work).kind = "Data"
      /\ UNCHANGED <<held, emitQ, todo, drops, taken, dropped, reports, telemetry, announced,
                     arrived>>
  BY DEF WorkerData, TypeOK, counterVars
<1>2. Head(work) \notin Telemetries
  BY <1>1 DEF Telemetries
<1>3. Count(work') = Count(work)
  BY <1>1, <1>2, CountTail
<1>4. Count(OnTheWay') = Count(OnTheWay)
  BY <1>1, <1>3, WaitingParts
<1> QED BY <1>1, <1>4, SameAccounts

LEMMA QueueAccounts ==
  ASSUME TypeOK, TypeOK', TelemetryAccounted, NEW cmds \in Seq(NumberedCommand), Queue(cmds),
         UNCHANGED <<held, emitQ, todo, drops, taken, dropped, reports, telemetry, announced,
                     arrived>>
  PROVE  TelemetryAccounted'
<1>1. work \in Seq(Work) /\ Data(cmds) \in Work /\ Data(cmds) \notin Telemetries
  BY Kinds DEF TypeOK, Data, Work
<1>2. Count(Append(work, Data(cmds))) = Count(work)
  BY <1>1, CountAppend, CountNat
<1>3. work' = work \/ work' = Append(work, Data(cmds))
  BY DEF Queue
<1>4. Count(work') = Count(work)
  BY <1>2, <1>3
<1>5. Count(OnTheWay') = Count(OnTheWay)
  BY <1>4, WaitingParts
<1> QED BY <1>5, SameAccounts

LEMMA TelemetryHolds ==
  ASSUME TypeOK, TypeOK', TelemetryAccounted, [Next]_vars
  PROVE  TelemetryAccounted'
<1>1. CASE UNCHANGED vars
  BY <1>1, SameAccounts DEF vars, counterVars, OnTheWay
<1>2. CASE Emit
  BY <1>2, EmitAccounts
<1>3. CASE Tick
  BY <1>3, MaybeTelemetryGains DEF Tick
<1>4. CASE DrainCommand
  BY <1>4, HandleAccounts DEF DrainCommand
<1>5. CASE WaitCommand
  BY <1>5, HandleAccounts DEF WaitCommand
<1>6. CASE DrainDone \/ WaitOver \/ DeadlinePasses \/ WorkerCheck \/ WorkerIdle \/ WorkerDeliver
  <2>1. UNCHANGED <<work, held, emitQ, todo, drops, taken, dropped, reports, telemetry,
                    announced, arrived>>
    BY <1>6 DEF DrainDone, WaitOver, DeadlinePasses, WorkerCheck, WorkerIdle, WorkerDeliver,
                counterVars
  <2> QED BY <2>1, SameAccounts DEF OnTheWay
<1>7. CASE SenderTake
  BY <1>7, SenderTakeMoves, SameAccounts DEF SenderTake, counterVars
<1>8. CASE ReportDrops
  BY <1>8, ReportAccounts
<1>9. CASE SenderPut
  BY <1>9, SenderPutAccounts
<1>10. CASE WorkerMessage
  BY <1>10, WorkerMessageAccounts
<1>11. CASE WorkerData
  BY <1>11, WorkerDataAccounts
<1>12. CASE DataCallback
  <2>1. PICK n \in Nat : \E ops \in [1..n -> Op] :
           /\ Batch(n, ops) \in Seq(NumberedCommand)
           /\ Queue(Batch(n, ops)) /\ sent' = sent + n /\ rediscovers' \in Nat
    BY <1>12, DataCallbackQueues
  <2>2. PICK cmds \in Seq(NumberedCommand) : Queue(cmds)
    BY <2>1
  <2> QED BY <1>12, <2>2, QueueAccounts DEF DataCallback, counterVars
<1>13. CASE FloodCallback
  <2>1. <<Command("Module", 0)>> \in Seq(NumberedCommand)
    <3>1. Command("Module", 0) \in NumberedCommand
      BY DEF Command, NumberedCommand, Op
    <3> QED BY <3>1, OneSeq
  <2>2. Queue(<<Command("Module", 0)>>)
    BY <1>13 DEF FloodCallback
  <2> QED BY <1>13, <2>1, <2>2, QueueAccounts DEF FloodCallback, counterVars
<1> QED BY <1>1, <1>2, <1>3, <1>4, <1>5, <1>6, <1>7, <1>8, <1>9, <1>10, <1>11, <1>12, <1>13
        DEF Next, MainStep, SenderStep, WorkerStep

LEMMA InitTelemetry ==
  ASSUME Init
  PROVE  TelemetryAccounted
<1>1. /\ work = <<>> /\ held = <<>> /\ emitQ = <<>> /\ todo = Announcement(0)
      /\ announced = Modules + 1
      /\ drops.emitter = 0 /\ drops.transport = 0 /\ taken = 0 /\ dropped = 0
      /\ arrived = 0 /\ telemetry = 0 /\ reports = 0
  BY DEF Init
<1>2. work \in Seq(Work) /\ held \in Seq(Work) /\ emitQ \in Seq(Work) /\ todo \in Seq(Work)
  BY InitTypes, QueueTypes
<1>3. Count(work) = 0 /\ Count(held) = 0 /\ Count(emitQ) = 0 /\ Count(todo) = Modules
  BY <1>1, CountEmpty, AnnouncementHolds DEF Count
<1>4. Count(OnTheWay) = Modules
  BY <1>2, <1>3, Capacities, CountParts DEF OnTheWay
<1>5. Made(announced) = Modules
  <2>1. Made(0) = 0 /\ Made(0 + Modules + 1) = Made(0) + Modules
    <3>1. 0 \div (Modules + 1) = 0 /\ Modules * 0 = 0
      BY Capacities
    <3> QED BY <3>1, MadeNext DEF Made
  <2> QED BY <1>1, <2>1, Capacities
<1>6. AllAccounted
  BY <1>1, <1>4, <1>5, Capacities DEF AllAccounted
<1>7. DropsAccounted
  BY <1>1 DEF DropsAccounted
<1> QED BY <1>6, <1>7, TelemetryAccountedIs

\* Whatever the queues and however much telemetry: every event and every drop report is
\* waiting, has arrived or was dropped, and the counters and the reports together say
\* how many were dropped, until a counter is full (drop_stats.rs:45-76).
THEOREM PipelineTelemetryAccounted == Spec => []TelemetryAccounted
<1>1. Init => TelemetryAccounted
  BY InitTelemetry
<1>2. TypeOK /\ TypeOK' /\ TelemetryAccounted /\ [Next]_vars => TelemetryAccounted'
  BY TelemetryHolds
<1> QED BY <1>1, <1>2, PipelineTypes, PTL DEF Spec

-----------------------------------------------------------------------------
(* The commands: their numbers on the way from the callbacks to the main loop. *)

Positive == Nat \ {0}
ItemNumbers(item) == IF item.kind = "Data" THEN CommandNumbers(item.cmds) ELSE <<>>

\* The numbers that have reached the worker, those that are queued for it, and those
\* of the item it takes next.
Reached == Only(handled \o CommandNumbers(incoming \o batch), Positive)
Queued == Only(WorkNumbers(work), Positive)
NextNumbers == Only(ItemNumbers(Head(work)), Positive)
UpTo(n) == [i \in 1..n |-> i]
InOrder(s) == s = UpTo(Len(s))

\* CommandsInOrder, and what the worker may still deliver after a callback was lost:
\* the item it receives next, when it looked at the flag before the loss.
CommandsInv ==
  /\ InOrder(Reached)
  /\ (linked /\ ~overflow) => Reached \o Queued = UpTo(sent)
  /\ (linked /\ overflow /\ checked) => work # <<>> /\ InOrder(Reached \o NextNumbers)

LEMMA CommandsInOrderIs == CommandsInv => CommandsInOrder
  BY DEF CommandsInv, CommandsInOrder, InOrder, UpTo, Reached, Queued, Positive

LEMMA NumbersType ==
  ASSUME NEW s \in Seq(NumberedCommand)
  PROVE  CommandNumbers(s) \in Seq(Nat) /\ Len(CommandNumbers(s)) = Len(s)
<1>1. ASSUME NEW i \in 1..Len(s)
      PROVE  s[i].n \in Nat
  <2>1. s[i] \in NumberedCommand
    BY ElementOfSeq
  <2> QED BY <2>1 DEF NumberedCommand
<1> QED BY <1>1 DEF CommandNumbers

LEMMA NumbersConcat ==
  ASSUME NEW s \in Seq(NumberedCommand), NEW t \in Seq(NumberedCommand)
  PROVE  CommandNumbers(s \o t) = CommandNumbers(s) \o CommandNumbers(t)
<1> DEFINE st == s \o t
           a == CommandNumbers(s)
           b == CommandNumbers(t)
           c == CommandNumbers(st)
<1>1. /\ st \in Seq(NumberedCommand) /\ Len(st) = Len(s) + Len(t)
      /\ \A i \in 1..Len(s) + Len(t) : st[i] = IF i <= Len(s) THEN s[i] ELSE t[i - Len(s)]
  BY ConcatProperties
<1> HIDE DEF st
<1>2. /\ a \in Seq(Nat) /\ Len(a) = Len(s) /\ b \in Seq(Nat) /\ Len(b) = Len(t)
      /\ c \in Seq(Nat) /\ Len(c) = Len(st)
  BY <1>1, NumbersType
<1>3. /\ \A i \in 1..Len(s) : a[i] = s[i].n
      /\ \A i \in 1..Len(t) : b[i] = t[i].n
      /\ \A i \in 1..Len(st) : c[i] = st[i].n
  BY DEF CommandNumbers
<1> HIDE DEF a, b, c
<1>4. /\ a \o b \in Seq(Nat) /\ Len(a \o b) = Len(a) + Len(b)
      /\ \A i \in 1..Len(a) + Len(b) : (a \o b)[i] = IF i <= Len(a) THEN a[i] ELSE b[i - Len(a)]
  BY <1>2, ConcatProperties
<1>5. ASSUME NEW i \in 1..Len(c)
      PROVE  c[i] = (a \o b)[i]
  <2>0. i \in 1..Len(st) /\ c[i] = st[i].n /\ i \in 1..Len(s) + Len(t) /\ i \in 1..Len(a) + Len(b)
    BY <1>1, <1>2, <1>3
  <2>1. CASE i <= Len(s)
    <3>1. i \in 1..Len(s)
      BY <2>1
    <3>2. c[i] = a[i]
      BY <1>1, <1>3, <2>0, <2>1, <3>1
    <3>3. (a \o b)[i] = a[i]
      BY <1>2, <1>4, <2>0, <2>1
    <3> QED BY <3>2, <3>3
  <2>2. CASE ~(i <= Len(s))
    <3>1. i - Len(s) \in 1..Len(t)
      BY <1>1, <1>2, <2>2
    <3> QED BY <1>1, <1>2, <1>3, <1>4, <2>2, <3>1
  <2> QED BY <2>1, <2>2
<1>6. Len(c) = Len(a \o b)
  BY <1>1, <1>2, <1>4
<1>7. c = a \o b
  BY <1>2, <1>4, <1>5, <1>6, SeqEqual
<1> QED BY <1>7 DEF a, b, c, st

LEMMA NumbersOfOne ==
  ASSUME NEW c
  PROVE  CommandNumbers(<<c>>) = <<c.n>>
  BY DEF CommandNumbers

LEMMA NumbersOfNone == CommandNumbers(<<>>) = <<>>
  BY DEF CommandNumbers

LEMMA ItemNumbersType ==
  ASSUME NEW item \in Work
  PROVE  ItemNumbers(item) \in Seq(Nat)
<1>1. CASE item.kind = "Data"
  <2>1. item.cmds \in Seq(NumberedCommand)
    BY <1>1 DEF Work, Message
  <2> QED BY <1>1, <2>1, NumbersType DEF ItemNumbers
<1>2. CASE item.kind # "Data"
  BY <1>2, EmptySeq DEF ItemNumbers
<1> QED BY <1>1, <1>2

\* What WorkNumbers flattens.
Items(w) == [i \in 1..Len(w) |-> ItemNumbers(w[i])]

LEMMA WorkNumbersIs == \A w : WorkNumbers(w) = FlattenSeq(Items(w))
  BY DEF WorkNumbers, Items, ItemNumbers

LEMMA ItemsType ==
  ASSUME NEW w \in Seq(Work)
  PROVE  Items(w) \in Seq(Seq(Nat)) /\ Len(Items(w)) = Len(w)
<1>1. \A i \in 1..Len(w) : ItemNumbers(w[i]) \in Seq(Nat)
  BY ElementOfSeq, ItemNumbersType
<1> QED BY <1>1 DEF Items

LEMMA WorkNumbersType ==
  ASSUME NEW w \in Seq(Work)
  PROVE  WorkNumbers(w) \in Seq(Nat)
  BY ItemsType, WorkNumbersIs, FlatType

LEMMA WorkNumbersAppend ==
  ASSUME NEW w \in Seq(Work), NEW item \in Work
  PROVE  WorkNumbers(Append(w, item)) = WorkNumbers(w) \o ItemNumbers(item)
<1> DEFINE a == Append(w, item)
           x == ItemNumbers(item)
           b == Append(Items(w), x)
           U == Seq(Nat)
<1>1. /\ a \in Seq(Work) /\ Len(a) = Len(w) + 1 /\ a[Len(w) + 1] = item
      /\ \A i \in 1..Len(w) : a[i] = w[i]
  BY AppendProperties
<1>2. Items(w) \in Seq(U) /\ Len(Items(w)) = Len(w) /\ x \in U
  BY ItemsType, ItemNumbersType
<1>3. Items(a) \in Seq(U) /\ Len(Items(a)) = Len(w) + 1
  BY <1>1, ItemsType
<1>4. \A i \in 1..(Len(w) + 1) : Items(a)[i] = ItemNumbers(a[i])
  BY <1>1 DEF Items
<1>5. \A i \in 1..Len(w) : Items(w)[i] = ItemNumbers(w[i])
  BY DEF Items
<1> HIDE DEF a, U
<1>6. /\ b \in Seq(U) /\ Len(b) = Len(w) + 1 /\ b[Len(w) + 1] = x
      /\ \A i \in 1..Len(w) : b[i] = Items(w)[i]
  BY <1>2, AppendProperties
<1> HIDE DEF b
<1>7. ASSUME NEW i \in 1..(Len(w) + 1)
      PROVE  Items(a)[i] = b[i]
  <2>1. CASE i = Len(w) + 1
    BY <1>1, <1>4, <1>6, <2>1
  <2>2. CASE i \in 1..Len(w)
    BY <1>1, <1>4, <1>5, <1>6, <2>2
  <2> QED BY <2>1, <2>2
<1> DEFINE c == Items(a)
<1>8. c \in Seq(U) /\ Len(c) = Len(b) /\ \A i \in 1..Len(c) : c[i] = b[i]
  BY <1>3, <1>6, <1>7
<1> HIDE DEF c
<1>9. c = b
  BY <1>6, <1>8, SeqEqual
<1>10. FlattenSeq(Append(Items(w), x)) = FlattenSeq(Items(w)) \o x
  BY <1>2, FlatAppend DEF U
<1> QED BY <1>9, <1>10, WorkNumbersIs DEF a, b, c

LEMMA WorkNumbersEmpty == WorkNumbers(<<>>) = <<>>
<1>1. Items(<<>>) = <<>>
  BY DEF Items
<1> QED BY <1>1, FlatEmpty, WorkNumbersIs

LEMMA WorkNumbersConcat ==
  ASSUME NEW w \in Seq(Work), NEW v \in Seq(Work)
  PROVE  WorkNumbers(w \o v) = WorkNumbers(w) \o WorkNumbers(v)
<1> DEFINE S == {r \in Seq(Work) : WorkNumbers(w \o r) = WorkNumbers(w) \o WorkNumbers(r)}
<1>1. <<>> \in S
  <2>1. w \o <<>> = w /\ WorkNumbers(w) \o <<>> = WorkNumbers(w)
    BY WorkNumbersType, ConcatEmptySeq
  <2> QED BY <2>1, WorkNumbersEmpty, EmptySeq
<1>2. ASSUME NEW r \in Seq(Work), NEW x \in Work, r \in S
      PROVE  Append(r, x) \in S
  <2>1. w \o Append(r, x) = Append(w \o r, x) /\ Append(r, x) \in Seq(Work)
    OBVIOUS
  <2>2. w \o r \in Seq(Work)
    BY ConcatProperties
  <2>3. WorkNumbers(Append(w \o r, x)) = WorkNumbers(w \o r) \o ItemNumbers(x)
    BY <2>2, WorkNumbersAppend
  <2>4. WorkNumbers(Append(r, x)) = WorkNumbers(r) \o ItemNumbers(x)
    BY WorkNumbersAppend
  <2>5. (WorkNumbers(w) \o WorkNumbers(r)) \o ItemNumbers(x)
          = WorkNumbers(w) \o (WorkNumbers(r) \o ItemNumbers(x))
    <3> DEFINE p == WorkNumbers(w)
               q == WorkNumbers(r)
               y == ItemNumbers(x)
               N == Nat
    <3>1. p \in Seq(N) /\ q \in Seq(N) /\ y \in Seq(N)
      BY WorkNumbersType, ItemNumbersType
    <3> HIDE DEF p, q, y, N
    <3>2. (p \o q) \o y = p \o (q \o y)
      <4>1. Regrouped(p, q, y)
        BY <3>1, Regroup
      <4> QED BY <4>1 DEF Regrouped
    <3> QED BY <3>2 DEF p, q, y
  <2> QED BY <1>2, <2>1, <2>3, <2>4, <2>5
<1> HIDE DEF S
<1>3. Seq(Work) \subseteq S
  BY <1>1, <1>2, SeqInduction
<1> QED BY <1>3 DEF S

LEMMA WorkNumbersTail ==
  ASSUME NEW w \in Seq(Work), w # <<>>
  PROVE  WorkNumbers(w) = ItemNumbers(Head(w)) \o WorkNumbers(Tail(w))
<1> DEFINE h == <<Head(w)>>
<1>1. h \in Seq(Work) /\ Tail(w) \in Seq(Work) /\ w = h \o Tail(w) /\ Head(w) \in Work
  BY HeadTailProperties, OneSeq
<1>2. WorkNumbers(h) = ItemNumbers(Head(w))
  <2>1. Items(h) = <<ItemNumbers(Head(w))>>
    BY DEF Items
  <2>2. FlattenSeq(<<ItemNumbers(Head(w))>>) = ItemNumbers(Head(w))
    BY <1>1, ItemNumbersType, FlatOne
  <2> QED BY <2>1, <2>2, WorkNumbersIs
<1> HIDE DEF h
<1>3. WorkNumbers(h \o Tail(w)) = WorkNumbers(h) \o WorkNumbers(Tail(w))
  BY <1>1, WorkNumbersConcat
<1> QED BY <1>1, <1>2, <1>3

\* What the steps do to the numbers.

PositiveNat == Nat \cap Positive

LEMMA NumberTypes ==
  ASSUME TypeOK
  PROVE  /\ handled \in Seq(Nat) /\ incoming \in Seq(NumberedCommand)
         /\ batch \in Seq(NumberedCommand) /\ work \in Seq(Work)
         /\ Reached \in Seq(PositiveNat) /\ Queued \in Seq(PositiveNat)
<1>1. /\ handled \in Seq(Nat) /\ incoming \in Seq(NumberedCommand)
      /\ batch \in Seq(NumberedCommand) /\ work \in Seq(Work)
  BY DEF TypeOK
<1>2. Queued \in Seq(Nat \cap Positive)
  BY <1>1, WorkNumbersType, OnlyType DEF Queued
<1> DEFINE r == incoming \o batch
           n == CommandNumbers(r)
<1>3. r \in Seq(NumberedCommand)
  BY <1>1, ConcatProperties
<1> HIDE DEF r
<1>4. n \in Seq(Nat)
  BY <1>3, NumbersType
<1> HIDE DEF n
<1>5. handled \o n \in Seq(Nat)
  BY <1>1, <1>4, ConcatProperties
<1>6. Only(handled \o n, Positive) \in Seq(Nat \cap Positive)
  BY <1>5, OnlyType
<1> QED BY <1>1, <1>2, <1>6 DEF Reached, PositiveNat, n, r

LEMMA NextNumbersType ==
  ASSUME NEW item \in Work
  PROVE  Only(ItemNumbers(item), Positive) \in Seq(PositiveNat)
  BY ItemNumbersType, OnlyType DEF PositiveNat

\* A sequence that begins one in order is in order.
LEMMA PrefixInOrder ==
  ASSUME NEW s \in Seq(PositiveNat), NEW t \in Seq(PositiveNat), NEW n \in Nat, s \o t = UpTo(n)
  PROVE  InOrder(s)
<1>1. /\ Len(s \o t) = Len(s) + Len(t)
      /\ \A i \in 1..Len(s) + Len(t) : (s \o t)[i] = IF i <= Len(s) THEN s[i] ELSE t[i - Len(s)]
  BY ConcatProperties
<1>2. Len(s) \in Nat /\ Len(t) \in Nat
  BY LenProperties
<1>3. Len(s) + Len(t) = n
  BY <1>1 DEF UpTo
<1>4. ASSUME NEW i \in 1..Len(s)
      PROVE  s[i] = i
  <2>1. i \in 1..n /\ i \in 1..Len(s) + Len(t) /\ i <= Len(s)
    BY <1>2, <1>3
  <2>2. (s \o t)[i] = s[i]
    BY <1>1, <2>1
  <2>3. (s \o t)[i] = i
    BY <2>1 DEF UpTo
  <2> QED BY <2>2, <2>3
<1> QED BY <1>4, LenProperties DEF InOrder, UpTo

\* More numbers after those that are in order.
LEMMA UpToNext ==
  ASSUME NEW m \in Nat, NEW n \in Nat
  PROVE  UpTo(m) \o [i \in 1..n |-> m + i] = UpTo(m + n)
<1> DEFINE a == UpTo(m)
           b == [i \in 1..n |-> m + i]
           c == UpTo(m + n)
<1>1. /\ a \in Seq(Nat) /\ Len(a) = m /\ \A i \in 1..m : a[i] = i
      /\ b \in Seq(Nat) /\ Len(b) = n /\ \A i \in 1..n : b[i] = m + i
      /\ c \in Seq(Nat) /\ Len(c) = m + n /\ \A i \in 1..(m + n) : c[i] = i
  BY DEF UpTo
<1> HIDE DEF a, b, c
<1>2. /\ a \o b \in Seq(Nat) /\ Len(a \o b) = m + n
      /\ \A i \in 1..m + n : (a \o b)[i] = IF i <= m THEN a[i] ELSE b[i - m]
  BY <1>1, ConcatProperties
<1>3. ASSUME NEW i \in 1..(m + n)
      PROVE  (a \o b)[i] = c[i]
  <2>1. CASE i <= m
    BY <1>1, <1>2, <2>1
  <2>2. CASE ~(i <= m)
    <3>1. i - m \in 1..n
      BY <2>2
    <3> QED BY <1>1, <1>2, <2>2, <3>1
  <2> QED BY <2>1, <2>2
<1>4. a \o b = c
  BY <1>1, <1>2, <1>3, SeqEqual
<1> QED BY <1>4 DEF a, b, c

\* All the numbers of a batch are kept.
LEMMA OnlyAll ==
  ASSUME NEW T, NEW S, T \subseteq S
  PROVE  \A s \in Seq(T) : Only(s, S) = s
<1> DEFINE R == {s \in Seq(T) : Only(s, S) = s}
<1>1. <<>> \in R
  BY OnlyEmpty, EmptySeq
<1>2. ASSUME NEW s \in Seq(T), NEW x \in T, s \in R
      PROVE  Append(s, x) \in R
  <2>1. Only(Append(s, x), S) = Append(Only(s, S), x)
    BY OnlyAppend
  <2>2. Append(s, x) \in Seq(T)
    BY AppendProperties
  <2> QED BY <1>2, <2>1, <2>2
<1> HIDE DEF R
<1>3. Seq(T) \subseteq R
  BY <1>1, <1>2, SeqInduction
<1> QED BY <1>3 DEF R

\* The worker hands a command on.
LEMMA DeliverReaches ==
  ASSUME TypeOK, WorkerDeliver
  PROVE  Reached' = Reached
<1>1. /\ incoming \in Seq(NumberedCommand) /\ batch \in Seq(NumberedCommand) /\ batch # <<>>
      /\ incoming' = Append(incoming, Head(batch)) /\ batch' = Tail(batch) /\ handled' = handled
  BY NumberTypes DEF WorkerDeliver, Remaining
<1>2. incoming' \o batch' = incoming \o batch
  BY <1>1, Shift
<1> QED BY <1>1, <1>2 DEF Reached

\* The main loop handles one.
LEMMA HandleReaches ==
  ASSUME TypeOK, incoming # <<>>, Handle(Head(incoming)), incoming' = Tail(incoming),
         batch' = batch
  PROVE  Reached' = Reached
<1> DEFINE c == Head(incoming)
           t == Tail(incoming) \o batch
           N == CommandNumbers(t)
           x == <<c.n>>
<1>1. /\ handled \in Seq(Nat) /\ incoming \in Seq(NumberedCommand)
      /\ batch \in Seq(NumberedCommand)
  BY NumberTypes
<1>2. /\ c \in NumberedCommand /\ Tail(incoming) \in Seq(NumberedCommand)
      /\ <<c>> \in Seq(NumberedCommand) /\ incoming = <<c>> \o Tail(incoming)
  BY <1>1, HeadTailProperties, OneSeq
<1>3. t \in Seq(NumberedCommand)
  BY <1>1, <1>2, ConcatProperties
<1>4. incoming \o batch = <<c>> \o t
  <2> DEFINE h == <<c>>
             l == Tail(incoming)
  <2>1. h \in Seq(NumberedCommand) /\ l \in Seq(NumberedCommand)
        /\ batch \in Seq(NumberedCommand)
    BY <1>1, <1>2
  <2>2. incoming = h \o l
    BY <1>2
  <2> HIDE DEF h, l
  <2>3. (h \o l) \o batch = h \o (l \o batch)
    <3>1. Regrouped(h, l, batch)
      BY <2>1, Regroup
    <3> QED BY <3>1 DEF Regrouped
  <2> QED BY <2>2, <2>3 DEF h, l
<1>5. N \in Seq(Nat) /\ c.n \in Nat /\ x \in Seq(Nat)
  <2>1. c.n \in Nat
    BY <1>2 DEF NumberedCommand
  <2> QED BY <1>3, <2>1, NumbersType, OneSeq
<1>6. CommandNumbers(incoming \o batch) = x \o N
  <2> DEFINE h == <<c>>
  <2>1. h \in Seq(NumberedCommand) /\ incoming \o batch = h \o t /\ CommandNumbers(h) = x
    BY <1>2, <1>4, NumbersOfOne
  <2> HIDE DEF h, t, x
  <2>2. CommandNumbers(h \o t) = CommandNumbers(h) \o CommandNumbers(t)
    BY <1>3, <2>1, NumbersConcat
  <2> QED BY <2>1, <2>2
<1>7. incoming' \o batch' = t
  OBVIOUS
<1>8. handled' = IF c.n = 0 THEN handled ELSE Append(handled, c.n)
  BY DEF Handle
<1>9. Only(x, Positive) = IF c.n = 0 THEN <<>> ELSE x
  BY <1>5, OnlyOne DEF Positive
<1> HIDE DEF t, N
<1>10. Reached = Only(handled, Positive) \o (Only(x, Positive) \o Only(N, Positive))
  <2> HIDE DEF x
  <2>1. Only(x \o N, Positive) = Only(x, Positive) \o Only(N, Positive)
    BY <1>5, OnlyConcat
  <2>2. x \o N \in Seq(Nat)
    BY <1>5, ConcatProperties
  <2>3. Only(handled \o (x \o N), Positive) = Only(handled, Positive) \o Only(x \o N, Positive)
    <3>1. OnlyOf(handled, x \o N, Positive)
      BY <1>1, <2>2, OnlyJoins
    <3> QED BY <3>1 DEF OnlyOf
  <2> QED BY <1>6, <2>1, <2>3 DEF Reached, N
<1>11. Reached' = Only(handled', Positive) \o Only(N, Positive)
  <2>1. handled' \in Seq(Nat)
    BY <1>1, <1>5, <1>8, AppendProperties
  <2>2. Only(handled' \o N, Positive) = Only(handled', Positive) \o Only(N, Positive)
    BY <1>5, <2>1, OnlyConcat
  <2> QED BY <1>7, <2>2 DEF Reached, N
<1> DEFINE p == Only(handled, Positive)
           q == Only(N, Positive)
<1>12. p \in Seq(PositiveNat) /\ q \in Seq(PositiveNat)
  BY <1>1, <1>5, OnlyType DEF PositiveNat
<1>13. CASE c.n = 0
  <2>1. <<>> \o q = q
    BY <1>12, ConcatEmptySeq
  <2> QED BY <1>8, <1>9, <1>10, <1>11, <1>13, <2>1
<1>14. CASE c.n # 0
  <2>1. handled' = handled \o x
    BY <1>1, <1>5, <1>8, <1>14, AppendIsConcat
  <2>2. Only(handled', Positive) = p \o Only(x, Positive)
    <3> HIDE DEF x
    <3>1. Only(handled \o x, Positive) = Only(handled, Positive) \o Only(x, Positive)
      BY <1>1, <1>5, OnlyConcat
    <3> QED BY <2>1, <3>1
  <2> DEFINE y == Only(x, Positive)
  <2>3. y \in Seq(PositiveNat)
    <3> HIDE DEF x
    <3> QED BY <1>5, OnlyType DEF PositiveNat
  <2> HIDE DEF p, q, y
  <2>4. (p \o y) \o q = p \o (y \o q)
    <3>1. Regrouped(p, y, q)
      BY <1>12, <2>3, Regroup
    <3> QED BY <3>1 DEF Regrouped
  <2> QED BY <1>10, <1>11, <2>2, <2>4 DEF p, q, y
<1> QED BY <1>13, <1>14

\* The worker takes an item: its commands become the batch.
LEMMA DataReaches ==
  ASSUME TypeOK, WorkerData
  PROVE  /\ linked => Reached' = Reached \o NextNumbers
         /\ ~linked => Reached' = Reached
         /\ Queued = NextNumbers \o Queued'
         /\ Head(work) \in Work
<1>1. /\ handled \in Seq(Nat) /\ incoming \in Seq(NumberedCommand) /\ work \in Seq(Work)
      /\ work # <<>> /\ work' = Tail(work) /\ batch = <<>> /\ Head(work).kind = "Data"
      /\ handled' = handled /\ incoming' = incoming
      /\ batch' = IF linked THEN Head(work).cmds ELSE <<>>
  BY NumberTypes DEF WorkerData, Receive
<1>2. Head(work) \in Work /\ Tail(work) \in Seq(Work)
  BY <1>1, HeadTailProperties
<1>3. Queued = NextNumbers \o Queued'
  <2> DEFINE a == ItemNumbers(Head(work))
             b == WorkNumbers(Tail(work))
  <2>1. a \in Seq(Nat) /\ b \in Seq(Nat)
    BY <1>2, ItemNumbersType, WorkNumbersType
  <2>2. WorkNumbers(work) = a \o b
    BY <1>1, WorkNumbersTail
  <2> HIDE DEF a, b
  <2>3. Only(a \o b, Positive) = Only(a, Positive) \o Only(b, Positive)
    BY <2>1, OnlyConcat
  <2> QED BY <1>1, <2>2, <2>3 DEF Queued, NextNumbers, a, b
<1>4. CASE ~linked
  BY <1>1, <1>2, <1>3, <1>4 DEF Reached
<1>5. CASE linked
  <2> DEFINE c == Head(work).cmds
             a == CommandNumbers(incoming)
             b == CommandNumbers(c)
             N == Nat
  <2>1. c \in Seq(NumberedCommand)
    BY <1>1, <1>2 DEF Work, Message
  <2>2. batch' = c /\ incoming \o batch = incoming
    BY <1>1, <1>5, ConcatEmptySeq
  <2>3. a \in Seq(N) /\ b \in Seq(N) /\ handled \in Seq(N)
    BY <1>1, <2>1, NumbersType
  <2>4. ItemNumbers(Head(work)) = b
    BY <1>1 DEF ItemNumbers
  <2> HIDE DEF c
  <2>5. CommandNumbers(incoming \o c) = a \o b
    BY <1>1, <2>1, NumbersConcat
  <2>6. NextNumbers = Only(b, Positive)
    BY <2>4 DEF NextNumbers
  <2>7. Reached = Only(handled \o a, Positive)
    BY <2>2 DEF Reached
  <2>8. Reached' = Only(handled \o (a \o b), Positive)
    BY <1>1, <2>2, <2>5 DEF Reached
  <2> HIDE DEF a, b, N
  <2>9. (handled \o a) \o b = handled \o (a \o b) /\ handled \o a \in Seq(N)
    <3>1. Regrouped(handled, a, b) /\ handled \o a \in Seq(N)
      BY <2>3, Regroup
    <3> QED BY <3>1 DEF Regrouped
  <2>10. Only((handled \o a) \o b, Positive) = Only(handled \o a, Positive) \o Only(b, Positive)
    BY <2>3, <2>9, OnlyConcat
  <2> QED BY <1>2, <1>3, <1>5, <2>6, <2>7, <2>8, <2>9, <2>10
<1> QED BY <1>4, <1>5

\* The sender thread and the worker's messages carry no commands.
LEMMA MessageCarriesNone ==
  ASSUME NEW m \in Message
  PROVE  ItemNumbers(m) = <<>>
  BY DEF ItemNumbers, Message

LEMMA PutQueues ==
  ASSUME TypeOK, SenderPut
  PROVE  /\ Queued' = Queued
         /\ work # <<>> => work' # <<>> /\ Head(work') = Head(work)
<1>1. work \in Seq(Work) /\ held[1] \in Message /\ held[1] \in Work
  BY NumberTypes, HeldIsOne, MessagesAreWork DEF SenderPut
<1>2. CASE work' = work
  BY <1>2 DEF Queued
<1>3. CASE work' = Append(work, held[1])
  <2>1. WorkNumbers(work') = WorkNumbers(work) \o <<>>
    BY <1>1, <1>3, WorkNumbersAppend, MessageCarriesNone
  <2>2. WorkNumbers(work) \o <<>> = WorkNumbers(work)
    BY <1>1, WorkNumbersType, ConcatEmptySeq
  <2>3. Queued' = Queued
    BY <2>1, <2>2 DEF Queued
  <2>4. work # <<>> => work' # <<>> /\ Head(work') = Head(work)
    BY <1>1, <1>3, AppendProperties, HeadTailAppend
  <2> QED BY <2>3, <2>4
<1> QED BY <1>2, <1>3 DEF SenderPut, HandOn

LEMMA MessageQueues ==
  ASSUME TypeOK, WorkerMessage
  PROVE  Queued' = Queued
<1>1. /\ work \in Seq(Work) /\ work # <<>> /\ work' = Tail(work)
      /\ ItemNumbers(Head(work)) = <<>>
  BY NumberTypes DEF WorkerMessage, ItemNumbers
<1>2. Tail(work) \in Seq(Work)
  BY <1>1, HeadTailProperties
<1>3. WorkNumbers(work) = <<>> \o WorkNumbers(Tail(work))
  BY <1>1, WorkNumbersTail
<1>4. <<>> \o WorkNumbers(Tail(work)) = WorkNumbers(Tail(work))
  BY <1>2, WorkNumbersType, ConcatEmptySeq
<1> QED BY <1>1, <1>3, <1>4 DEF Queued

\* What a callback queues.
LEMMA QueueQueues ==
  ASSUME TypeOK, NEW cmds \in Seq(NumberedCommand), Queue(cmds)
  PROVE  LET new == Only(CommandNumbers(cmds), Positive)
         IN /\ work # <<>> => work' # <<>> /\ Head(work') = Head(work)
            /\ \/ Queued' = Queued \o new /\ overflow' = overflow
               \/ work' = work /\ overflow' = TRUE /\ work # <<>>
<1> DEFINE d == Data(cmds)
           n == CommandNumbers(cmds)
           new == Only(n, Positive)
<1>1. work \in Seq(Work) /\ d \in Work /\ WorkCap \in Nat /\ WorkCap > 0
  BY NumberTypes, Capacities DEF Data, Work
<1>2. ItemNumbers(d) = n /\ n \in Seq(Nat)
  BY NumbersType DEF ItemNumbers, Data
<1>3. CASE Len(work) < WorkCap
  <2> DEFINE w == WorkNumbers(work)
  <2>1. work' = Append(work, d) /\ overflow' = overflow
    BY <1>3 DEF Queue
  <2>2. WorkNumbers(work') = w \o n /\ w \in Seq(Nat)
    BY <1>1, <1>2, <2>1, WorkNumbersAppend, WorkNumbersType
  <2> HIDE DEF d
  <2>3. work # <<>> => work' # <<>> /\ Head(work') = Head(work)
    BY <1>1, <2>1, AppendProperties, HeadTailAppend
  <2> HIDE DEF w, n
  <2>4. Only(w \o n, Positive) = Only(w, Positive) \o Only(n, Positive)
    BY <1>2, <2>2, OnlyConcat
  <2>5. Queued' = Queued \o new
    BY <2>2, <2>4 DEF Queued, w
  <2> QED BY <2>1, <2>3, <2>5 DEF n
<1>4. CASE ~(Len(work) < WorkCap)
  <2>1. work' = work /\ overflow' = TRUE
    BY <1>4 DEF Queue
  <2>2. work # <<>>
    BY <1>1, <1>4, EmptySeq
  <2> QED BY <2>1, <2>2
<1> QED BY <1>3, <1>4


LEMMA LinkFlags ==
  ASSUME TypeOK
  PROVE  linked \in BOOLEAN /\ overflow \in BOOLEAN /\ checked \in BOOLEAN /\ sent \in Nat
  BY DEF TypeOK

\* When everything queued continues what has been reached, so does the first item.
LEMMA NextInOrder ==
  ASSUME TypeOK, work # <<>>, Reached \o Queued = UpTo(sent)
  PROVE  InOrder(Reached \o NextNumbers)
<1> DEFINE r == Reached
           x == NextNumbers
           a == ItemNumbers(Head(work))
           b == WorkNumbers(Tail(work))
           y == Only(b, Positive)
           P == PositiveNat
<1>1. work \in Seq(Work) /\ r \in Seq(P) /\ Head(work) \in Work /\ Tail(work) \in Seq(Work)
  BY NumberTypes, HeadTailProperties
<1>2. a \in Seq(Nat) /\ b \in Seq(Nat)
  BY <1>1, ItemNumbersType, WorkNumbersType
<1>3. WorkNumbers(work) = a \o b
  BY <1>1, WorkNumbersTail
<1>4. x = Only(a, Positive)
  BY DEF NextNumbers
<1>5. x \in Seq(P)
  BY <1>1, NextNumbersType DEF NextNumbers
<1> HIDE DEF a, b, x
<1>6. Queued = x \o y
  <2>1. OnlyOf(a, b, Positive)
    BY <1>2, OnlyJoins
  <2> QED BY <1>3, <1>4, <2>1 DEF Queued, OnlyOf
<1>7. y \in Seq(P)
  BY <1>2, OnlyType DEF PositiveNat
<1>8. r \o (x \o y) = UpTo(sent)
  BY <1>6
<1> HIDE DEF r, y, P
<1>9. (r \o x) \o y = r \o (x \o y) /\ r \o x \in Seq(P)
  <2>1. Regrouped(r, x, y) /\ r \o x \in Seq(P)
    BY <1>1, <1>5, <1>7, Regroup
  <2> QED BY <2>1 DEF Regrouped
<1>10. InOrder(r \o x)
  BY <1>7, <1>8, <1>9, LinkFlags, PrefixInOrder DEF P
<1> QED BY <1>10 DEF r, x

\* A step that leaves the numbers and the worker's flags alone.
LEMMA CommandsStay ==
  ASSUME CommandsInv, Reached' = Reached, Queued' = Queued,
         work # <<>> => work' # <<>> /\ Head(work') = Head(work),
         UNCHANGED <<linked, overflow, checked, sent>>
  PROVE  CommandsInv'
<1>1. InOrder(Reached)'
  BY DEF CommandsInv, InOrder
<1>2. ((linked /\ ~overflow) => Reached \o Queued = UpTo(sent))'
  BY DEF CommandsInv, UpTo
<1>3. ASSUME linked', overflow', checked'
      PROVE  (work # <<>> /\ InOrder(Reached \o NextNumbers))'
  <2>1. work # <<>> /\ InOrder(Reached \o NextNumbers)
    BY <1>3 DEF CommandsInv
  <2>2. NextNumbers' = NextNumbers
    BY <2>1 DEF NextNumbers
  <2> QED BY <2>1, <2>2 DEF InOrder
<1> QED BY <1>1, <1>2, <1>3 DEF CommandsInv

\* A callback that queues the next k numbers, or loses them.
LEMMA CallbackKeeps ==
  ASSUME TypeOK, CommandsInv, NEW cmds \in Seq(NumberedCommand), NEW k \in Nat, Queue(cmds),
         Only(CommandNumbers(cmds), Positive) = [i \in 1..k |-> sent + i], sent' = sent + k,
         UNCHANGED <<handled, incoming, batch, linked, checked>>
  PROVE  CommandsInv'
<1> DEFINE new == Only(CommandNumbers(cmds), Positive)
<1>1. Reached' = Reached
  BY DEF Reached
<1>2. InOrder(Reached)'
  BY <1>1 DEF CommandsInv, InOrder
<1>3. /\ work # <<>> => work' # <<>> /\ Head(work') = Head(work)
      /\ \/ Queued' = Queued \o new /\ overflow' = overflow
         \/ work' = work /\ overflow' = TRUE /\ work # <<>>
  BY QueueQueues
<1>4. Reached \in Seq(PositiveNat) /\ Queued \in Seq(PositiveNat) /\ new \in Seq(PositiveNat)
  BY NumberTypes, NumbersType, OnlyType DEF PositiveNat
<1>5. ASSUME linked', ~overflow'
      PROVE  Reached' \o Queued' = UpTo(sent')
  <2>1. linked /\ ~overflow /\ Queued' = Queued \o new
    BY <1>3, <1>5
  <2>2. Reached \o Queued = UpTo(sent)
    BY <2>1 DEF CommandsInv
  <2>3. UpTo(sent) \o new = UpTo(sent + k)
    BY LinkFlags, UpToNext
  <2> DEFINE r == Reached
             q == Queued
             P == PositiveNat
  <2>4. r \in Seq(P) /\ q \in Seq(P) /\ new \in Seq(P)
    BY <1>4
  <2> HIDE DEF r, q, new, P
  <2>5. (r \o q) \o new = r \o (q \o new)
    <3>1. Regrouped(r, q, new)
      BY <2>4, Regroup
    <3> QED BY <3>1 DEF Regrouped
  <2> QED BY <1>1, <2>1, <2>2, <2>3, <2>5 DEF r, q
<1>6. ASSUME linked', overflow', checked'
      PROVE  work' # <<>> /\ InOrder(Reached' \o NextNumbers')
  <2>1. CASE overflow
    <3>1. work # <<>> /\ InOrder(Reached \o NextNumbers)
      BY <1>6, <2>1 DEF CommandsInv
    <3>2. work' # <<>> /\ NextNumbers' = NextNumbers
      BY <1>3, <3>1 DEF NextNumbers
    <3> QED BY <1>1, <3>1, <3>2
  <2>2. CASE ~overflow
    <3>1. work' = work /\ work # <<>>
      BY <1>3, <1>6, <2>2
    <3>2. InOrder(Reached \o NextNumbers)
      BY <1>6, <2>2, <3>1, NextInOrder DEF CommandsInv
    <3>3. NextNumbers' = NextNumbers
      BY <3>1 DEF NextNumbers
    <3> QED BY <1>1, <3>1, <3>2, <3>3
  <2> QED BY <2>1, <2>2
<1> QED BY <1>2, <1>5, <1>6 DEF CommandsInv

LEMMA DataCommands ==
  ASSUME TypeOK, CommandsInv, DataCallback
  PROVE  CommandsInv'
<1>0. PICK n \in 1..MaxBatch : \E ops \in [1..n -> Op] :
        Queue([i \in 1..n |-> Command(ops[i], sent + i)]) /\ sent' = sent + n
  BY DEF DataCallback
<1>1. PICK ops \in [1..n -> Op] :
        Queue([i \in 1..n |-> Command(ops[i], sent + i)]) /\ sent' = sent + n
  BY <1>0
<1> DEFINE cmds == [i \in 1..n |-> Command(ops[i], sent + i)]
           new == [i \in 1..n |-> sent + i]
<1>2. n \in Nat /\ sent \in Nat
  BY Capacities, LinkFlags
<1>3. \A i \in 1..n : cmds[i] \in NumberedCommand /\ cmds[i].n = sent + i
  BY <1>2 DEF Command, NumberedCommand
<1>4. cmds \in Seq(NumberedCommand) /\ Len(cmds) = n
  BY <1>2, <1>3
<1>5. CommandNumbers(cmds) = new
  BY <1>3, <1>4 DEF CommandNumbers
<1>6. new \in Seq(Positive)
  <2>1. \A i \in 1..n : sent + i \in Positive
    BY <1>2 DEF Positive
  <2> QED BY <1>2, <2>1
<1>7. Only(new, Positive) = new
  BY <1>6, OnlyAll
<1> HIDE DEF cmds
<1>8. UNCHANGED <<handled, incoming, batch, linked, checked>>
  BY DEF DataCallback
<1> QED BY <1>1, <1>2, <1>4, <1>5, <1>7, <1>8, CallbackKeeps DEF cmds

LEMMA FloodCommands ==
  ASSUME TypeOK, CommandsInv, FloodCallback
  PROVE  CommandsInv'
<1> DEFINE c == Command("Module", 0)
<1>1. c \in NumberedCommand /\ c.n = 0
  BY DEF Command, NumberedCommand, Op
<1>2. Queue(<<c>>) /\ sent' = sent /\ UNCHANGED <<handled, incoming, batch, linked, checked>>
  BY DEF FloodCallback
<1> HIDE DEF c
<1>3. <<c>> \in Seq(NumberedCommand) /\ CommandNumbers(<<c>>) = <<0>>
  BY <1>1, OneSeq, NumbersOfOne
<1>4. Only(<<0>>, Positive) = <<>>
  BY OnlyOne DEF Positive
<1>5. [i \in 1..0 |-> sent + i] = <<>>
  OBVIOUS
<1>6. sent' = sent + 0
  BY <1>2, LinkFlags
<1> QED BY <1>2, <1>3, <1>4, <1>5, <1>6, CallbackKeeps

LEMMA DataItemCommands ==
  ASSUME TypeOK, TypeOK', CommandsInv, WorkerData
  PROVE  CommandsInv'
<1>1. /\ linked => Reached' = Reached \o NextNumbers
      /\ ~linked => Reached' = Reached
      /\ Queued = NextNumbers \o Queued'
      /\ Head(work) \in Work
  BY DataReaches
<1>2. /\ checked /\ checked' = FALSE /\ work # <<>> /\ sent' = sent
      /\ UNCHANGED <<overflow, linked>>
  BY DEF WorkerData, Receive
<1>3. NextNumbers \in Seq(PositiveNat)
  BY <1>1, NextNumbersType DEF NextNumbers
<1>4. Reached \in Seq(PositiveNat) /\ Queued' \in Seq(PositiveNat)
  <2>1. Queued' \in Seq(Nat \cap Positive)
    <3>1. work' \in Seq(Work)
      BY DEF TypeOK
    <3> QED BY <3>1, WorkNumbersType, OnlyType DEF Queued
  <2> QED BY <2>1, NumberTypes DEF PositiveNat
<1>5. InOrder(Reached')
  <2>1. CASE ~linked
    BY <1>1, <2>1 DEF CommandsInv
  <2>2. CASE linked /\ overflow
    BY <1>1, <1>2, <2>2 DEF CommandsInv
  <2>3. CASE linked /\ ~overflow
    BY <1>1, <1>2, <2>3, NextInOrder DEF CommandsInv
  <2> QED BY <2>1, <2>2, <2>3
<1>6. ASSUME linked', ~overflow'
      PROVE  Reached' \o Queued' = UpTo(sent')
  <2> DEFINE r == Reached
             x == NextNumbers
             q == Queued'
             P == PositiveNat
  <2>1. r \o (x \o q) = UpTo(sent) /\ Reached' = r \o x
    BY <1>1, <1>2, <1>6 DEF CommandsInv
  <2>2. r \in Seq(P) /\ x \in Seq(P) /\ q \in Seq(P)
    BY <1>3, <1>4
  <2> HIDE DEF r, x, P
  <2>3. sent' = sent
    BY <1>2
  <2>4. Reached' \o q = (r \o x) \o q
    BY <2>1
  <2> HIDE DEF q
  <2>5. (r \o x) \o q = r \o (x \o q)
    <3>1. Regrouped(r, x, q)
      BY <2>2, Regroup
    <3> QED BY <3>1 DEF Regrouped
  <2> QED BY <2>1, <2>3, <2>4, <2>5 DEF q
<1> QED BY <1>2, <1>5, <1>6 DEF CommandsInv

LEMMA CommandsHold ==
  ASSUME TypeOK, TypeOK', CommandsInv, [Next]_vars
  PROVE  CommandsInv'
<1>1. ASSUME UNCHANGED <<handled, incoming, batch, work, linked, overflow, checked, sent>>
      PROVE  CommandsInv'
  BY <1>1, CommandsStay DEF Reached, Queued
<1>2. CASE UNCHANGED vars
  BY <1>1, <1>2 DEF vars, mainVars, workerVars, counterVars
<1>3. CASE Emit \/ Tick \/ DrainDone \/ WaitOver \/ DeadlinePasses \/ SenderTake \/ ReportDrops
  BY <1>1, <1>3
     DEF Emit, Tick, DrainDone, WaitOver, DeadlinePasses, SenderTake, ReportDrops, workerVars
<1>4. CASE DrainCommand \/ WaitCommand
  <2>1. /\ incoming # <<>> /\ Handle(Head(incoming)) /\ incoming' = Tail(incoming)
        /\ UNCHANGED <<batch, work, linked, overflow, checked, sent>>
    BY <1>4 DEF DrainCommand, WaitCommand, workerVars
  <2>2. Reached' = Reached
    BY <2>1, HandleReaches
  <2> QED BY <2>1, <2>2, CommandsStay DEF Queued
<1>5. CASE SenderPut
  <2>1. UNCHANGED <<handled, incoming, batch, linked, overflow, checked, sent>>
    BY <1>5 DEF SenderPut, workerVars
  <2>2. /\ Queued' = Queued
        /\ work # <<>> => work' # <<>> /\ Head(work') = Head(work)
    BY <1>5, PutQueues
  <2>3. Reached' = Reached
    BY <2>1 DEF Reached
  <2> QED BY <2>1, <2>2, <2>3, CommandsStay
<1>6. CASE WorkerDeliver
  <2>1. UNCHANGED <<work, linked, overflow, checked, sent>>
    BY <1>6 DEF WorkerDeliver
  <2>2. Reached' = Reached
    BY <1>6, DeliverReaches
  <2> QED BY <2>1, <2>2, CommandsStay DEF Queued
<1>7. CASE WorkerCheck
  <2>1. /\ linked' = (linked /\ ~overflow) /\ overflow' = FALSE
        /\ UNCHANGED <<handled, incoming, batch, work, sent>>
    BY <1>7 DEF WorkerCheck, Resynced
  <2>2. Reached' = Reached /\ Queued' = Queued
    BY <2>1 DEF Reached, Queued
  <2> QED BY <2>1, <2>2 DEF CommandsInv, InOrder, UpTo
<1>8. CASE WorkerIdle
  <2>1. checked' = FALSE /\ UNCHANGED <<handled, incoming, batch, work, sent, linked, overflow>>
    BY <1>8 DEF WorkerIdle, Receive
  <2>2. Reached' = Reached /\ Queued' = Queued
    BY <2>1 DEF Reached, Queued
  <2> QED BY <2>1, <2>2 DEF CommandsInv, InOrder, UpTo
<1>9. CASE WorkerMessage
  <2>1. checked' = FALSE /\ UNCHANGED <<handled, incoming, batch, sent, linked, overflow>>
    BY <1>9 DEF WorkerMessage, Receive
  <2>2. Reached' = Reached /\ Queued' = Queued
    BY <1>9, <2>1, MessageQueues DEF Reached
  <2> QED BY <2>1, <2>2 DEF CommandsInv, InOrder, UpTo
<1>10. CASE WorkerData
  BY <1>10, DataItemCommands
<1>11. CASE DataCallback
  BY <1>11, DataCommands
<1>12. CASE FloodCallback
  BY <1>12, FloodCommands
<1> QED BY <1>2, <1>3, <1>4, <1>5, <1>6, <1>7, <1>8, <1>9, <1>10, <1>11, <1>12
        DEF Next, MainStep, SenderStep, WorkerStep

\* What CommandsInOrder rests on: while the worker keeps its connection, the numbers
\* it has handed on and those still queued are together all that were sent
\* (bluetooth.rs:286-294, 340-375).
THEOREM PipelineCommandsInv == Spec => []CommandsInv
<1>1. Init => CommandsInv
  <2> SUFFICES ASSUME Init PROVE CommandsInv
    OBVIOUS
  <2>1. /\ handled = <<>> /\ incoming = <<>> /\ batch = <<>> /\ work = <<>> /\ sent = 0
        /\ checked = FALSE
    BY DEF Init
  <2>2. incoming \o batch = <<>>
    BY <2>1
  <2>3. CommandNumbers(incoming \o batch) = <<>>
    BY <2>2, NumbersOfNone
  <2>4. handled \o <<>> = <<>>
    BY <2>1
  <2>5. Reached = <<>> /\ Queued = <<>>
    BY <2>1, <2>3, <2>4, OnlyEmpty, WorkNumbersEmpty DEF Reached, Queued
  <2>6. UpTo(0) = <<>> /\ <<>> \o <<>> = <<>> /\ Len(<<>>) = 0
    BY DEF UpTo
  <2> QED BY <2>1, <2>5, <2>6 DEF CommandsInv, InOrder
<1>2. TypeOK /\ TypeOK' /\ CommandsInv /\ [Next]_vars => CommandsInv'
  BY CommandsHold
<1> QED BY <1>1, <1>2, PipelineTypes, PTL DEF Spec

\* Commands reach their module in the order they arrived and each exactly once; after
\* the first one a full queue loses, none of the connection is handled
\* (bluetooth.rs:286-294, 340-375, runtime/mod.rs:89-119).
THEOREM PipelineCommandsInOrder == Spec => []CommandsInOrder
  BY PipelineCommandsInv, CommandsInOrderIs, PTL
=============================================================================
