---------------------------- MODULE ModulesProofs ----------------------------
(***************************************************************************)
(* Proofs about the parts that MCModules puts together: the stepper, the   *)
(* card reader, the pairing window, the line framer, the scanning          *)
(* rangefinder and the map the desktop shows of a scan, for any value of   *)
(* their constants.                                                        *)
(***************************************************************************)
EXTENDS StepperMotion, LidarScan, RfidCard, LidarView, PairingWindow, LineFramer,
        SequenceTheorems, FiniteSetTheorems, TLAPS

-----------------------------------------------------------------------------
(* StepperMotion, for any travel, any limits and any number of commands. *)

\* While no report is lost, what was reported is so: the limits always, the mode, and
\* the pivot point the motor rests on.
StepperReportInv ==
  /\ shown.pivot = pivot
  /\ "Report" \notin lost =>
       /\ shown.motion = motion
       /\ pivotPoint # "None" => shown.point = pivotPoint

\* The inductive invariant: the reports of a motion that is under way are what the
\* report of the idle motor completes.
StepperInv == StepperTypeOK /\ StaysInTravel /\ StepperReportInv /\ IdleIsAsReported

-----------------------------------------------------------------------------

LEMMA StepperInitial == StepperInit => StepperInv
<1> SUFFICES ASSUME StepperInit
             PROVE  StepperInv
  OBVIOUS
<1>1. DefaultPivot \in Int /\ -DefaultPivot \in Int /\ Travel \in Int
      /\ DefaultPivot \in Positions /\ -DefaultPivot \in Positions /\ -DefaultPivot <= DefaultPivot
      /\ 0 \in Positions /\ MaxMoves \in Nat
  BY StepperAssumption DEF Positions
<1>2. /\ pivot = [Min |-> -DefaultPivot, Max |-> DefaultPivot]
      /\ shown = [motion |-> "Idle", step |-> 0, pivot |-> pivot, point |-> "None"]
  BY DEF StepperInit
<1>3. /\ pivot \in [PivotPoints -> Int] /\ \A p \in PivotPoints : pivot[p] \in Positions
      /\ pivot.Min <= pivot.Max
  BY <1>1, <1>2 DEF PivotPoints
<1>4. StepperTypeOK
  <2>1. shown \in [motion : {"Idle", "Moving", "Homing", "Pivot"}, step : Int,
                    pivot : [PivotPoints -> Int], point : PivotPoints \cup {"None"}]
    BY <1>2, <1>3
  <2>2. 0 \in Int /\ 1 \in 1..(HomingCycles + 1) /\ 0 \in 0..MaxMoves
    BY <1>1 DEF HomingCycles
  <2> QED
    BY <1>3, <2>1, <2>2 DEF StepperInit, StepperTypeOK, PivotPoints
<1>5. StaysInTravel
  BY <1>1, <1>3 DEF StepperInit, StaysInTravel
<1>6. StepperReportInv /\ IdleIsAsReported
  BY <1>2 DEF StepperInit, StepperReportInv, IdleIsAsReported
<1> QED
  BY <1>4, <1>5, <1>6 DEF StepperInv

\* What a motor aims at is within its travel, and so is every half-step to it.
LEMMA AimInTravel ==
  ASSUME StepperTypeOK, StaysInTravel
  PROVE  Aim \in Positions /\ Nearer \in Positions
<1>1. Aim \in Positions
  BY DEF StepperTypeOK, StaysInTravel, Aim
<1>2. Aim \in Int /\ step \in Int /\ Travel \in Int
  BY <1>1, StepperAssumption DEF StepperTypeOK, Positions
<1>3. CASE step < Aim
  BY <1>1, <1>2, <1>3 DEF StaysInTravel, Positions, Nearer
<1>4. CASE step > Aim
  BY <1>1, <1>2, <1>4 DEF StaysInTravel, Positions, Nearer
<1>5. CASE step = Aim
  BY <1>1, <1>2, <1>5 DEF StaysInTravel, Positions, Nearer
<1> QED
  BY <1>1, <1>2, <1>3, <1>4, <1>5

\* A motor that becomes idle where it is allowed to be, on a pivot point or off it, is
\* idle as reported.
LEMMA BecomesIdle ==
  ASSUME StepperInv, NEW powered \in BOOLEAN, NEW point \in PivotPoints \cup {"None"},
         BecomeIdle(powered, point), step' \in Positions, pivot' = pivot,
         pivotPoint' \in PivotPoints \cup {"None"},
         "Report" \notin lost => (pivotPoint' # "None" => point = pivotPoint'),
         cycle' = cycle, toward' = toward, moves' \in 0..MaxMoves
  PROVE  StepperInv'
<1>1. step' \in Int
  BY StepperAssumption DEF Positions
<1>2. CASE /\ energised' = ReleaseCoils(powered)
           /\ shown' = [shown EXCEPT !.motion = "Idle", !.step = step', !.point = point]
           /\ lost' = lost \ {"Release"}
  <2>1. StepperTypeOK'
    BY <1>1, <1>2, StepperAssumption
    DEF StepperInv, StepperTypeOK, BecomeIdle, ReleaseCoils, PivotPoints, HomingCycles
  <2>2. StaysInTravel'
    BY DEF StepperInv, StaysInTravel, BecomeIdle, Positions, PivotPoints
  <2>3. shown'.motion = "Idle" /\ shown'.step = step' /\ shown'.point = point /\ shown'.pivot = pivot'
    BY <1>2 DEF StepperInv, StepperTypeOK, StepperReportInv
  <2>4. StepperReportInv' /\ IdleIsAsReported'
    BY <1>2, <2>3, StepperAssumption
    DEF BecomeIdle, ReleaseCoils, StepperReportInv, IdleIsAsReported
  <2> QED
    BY <2>1, <2>2, <2>4 DEF StepperInv
<1>3. CASE /\ ~HoldWhenIdle /\ energised' \in {powered, FALSE}
           /\ lost' = {"Release", "Report"} /\ UNCHANGED shown
  BY <1>1, <1>3
  DEF StepperInv, StepperTypeOK, StaysInTravel, StepperReportInv, IdleIsAsReported, BecomeIdle,
      Positions, PivotPoints, HomingCycles
<1> QED
  BY <1>2, <1>3 DEF BecomeIdle

\* A new motion is reported when it begins.
LEMMA MotionReported ==
  ASSUME StepperInv, NEW m \in {"Moving", "Homing", "Pivot"}, SetMotion(m), Command,
         step' = step, target' \in Positions, cycle' \in 1..(HomingCycles + 1),
         toward' \in PivotPoints, UNCHANGED <<pivotPoint, pivot, energised, lost>>
  PROVE  StepperInv'
<1>1. motion' = m /\ shown' = [shown EXCEPT !.motion = m]
  BY DEF SetMotion
<1>2. /\ shown'.motion = m /\ shown'.pivot = shown.pivot /\ shown'.point = shown.point
      /\ shown' \in [motion : {"Idle", "Moving", "Homing", "Pivot"}, step : Int,
                     pivot : [PivotPoints -> Int], point : PivotPoints \cup {"None"}]
  BY <1>1 DEF StepperInv, StepperTypeOK
<1>3. target' \in Int /\ moves' \in 0..MaxMoves
  BY StepperAssumption DEF StepperInv, StepperTypeOK, Command, Positions
<1>4. StepperTypeOK'
  BY <1>1, <1>2, <1>3 DEF StepperInv, StepperTypeOK
<1>5. StaysInTravel'
  BY DEF StepperInv, StaysInTravel, Positions
<1>6. StepperReportInv' /\ IdleIsAsReported'
  BY <1>1, <1>2 DEF StepperInv, StepperReportInv, IdleIsAsReported
<1> QED
  BY <1>4, <1>5, <1>6 DEF StepperInv

-----------------------------------------------------------------------------
(* One lemma per kind of step. *)

LEMMA CommandKeeps == StepperInv /\ StepperCommand => StepperInv'
<1> SUFFICES ASSUME StepperInv, StepperCommand
             PROVE  StepperInv'
  OBVIOUS
<1> USE DEF PivotPoints
<1>a. /\ target \in Positions /\ cycle \in 1..(HomingCycles + 1) /\ toward \in PivotPoints
      /\ 1 \in 1..(HomingCycles + 1)
  BY DEF StepperInv, StepperTypeOK, StaysInTravel, HomingCycles
<1>1. ASSUME NEW angle \in Positions, MoveToAngle(angle)
      PROVE  StepperInv'
  BY <1>1, <1>a, MotionReported DEF MoveToAngle
<1>2. ASSUME NEW point \in PivotPoints, MoveToPivot(point)
      PROVE  StepperInv'
  BY <1>2, <1>a, MotionReported DEF MoveToPivot
<1>3. ASSUME NEW point \in PivotPoints, NEW value \in Positions, SetPivot(point, value)
      PROVE  StepperInv'
  <2>1. value \in Int
    BY StepperAssumption DEF Positions
  <2>2. pivot' = [pivot EXCEPT ![point] = value] /\ pivot'.Min <= pivot'.Max
    BY <1>3 DEF SetPivot, InOrder
  <2>3. pivot' \in [PivotPoints -> Int] /\ \A p \in PivotPoints : pivot'[p] \in Positions
    BY <2>1, <2>2 DEF StepperInv, StepperTypeOK, StaysInTravel
  <2>4. shown' = [shown EXCEPT !.pivot = pivot']
    BY <1>3 DEF SetPivot
  <2>5. /\ shown'.pivot = pivot' /\ shown'.motion = shown.motion
        /\ shown'.step = shown.step /\ shown'.point = shown.point
        /\ shown' \in [motion : {"Idle", "Moving", "Homing", "Pivot"}, step : Int,
                       pivot : [PivotPoints -> Int], point : PivotPoints \cup {"None"}]
    BY <2>3, <2>4 DEF StepperInv, StepperTypeOK
  <2>6. moves' \in 0..MaxMoves
    BY <1>3, StepperAssumption DEF StepperInv, StepperTypeOK, SetPivot, Command
  <2>7. StepperTypeOK' /\ StaysInTravel'
    BY <1>3, <2>2, <2>3, <2>5, <2>6
    DEF StepperInv, StepperTypeOK, StaysInTravel, SetPivot, Positions
  <2>8. StepperReportInv' /\ IdleIsAsReported'
    BY <1>3, <2>5 DEF StepperInv, StepperReportInv, IdleIsAsReported, SetPivot
  <2> QED
    BY <2>7, <2>8 DEF StepperInv
<1>4. CASE SetModeHoming
  <2>1. FartherPivot \in PivotPoints
    BY DEF FartherPivot
  <2> QED
    BY <1>4, <1>a, <2>1, MotionReported DEF SetModeHoming
<1>5. CASE SetModeMoving
  BY <1>5, <1>a, MotionReported DEF SetModeMoving
<1>6. CASE SetModeIdle
  <2>1. /\ energised \in BOOLEAN /\ shown.point \in PivotPoints \cup {"None"}
        /\ pivotPoint \in PivotPoints \cup {"None"} /\ step \in Positions
    BY DEF StepperInv, StepperTypeOK, StaysInTravel
  <2>2. "Report" \notin lost => (pivotPoint' # "None" => shown.point = pivotPoint')
    BY <1>6 DEF StepperInv, StepperReportInv, SetModeIdle
  <2>3. moves' \in 0..MaxMoves
    BY <1>6, StepperAssumption DEF StepperInv, StepperTypeOK, SetModeIdle, Command
  <2> QED
    BY <1>6, <2>1, <2>2, <2>3, BecomesIdle DEF SetModeIdle
<1> QED
  BY <1>1, <1>2, <1>3, <1>4, <1>5, <1>6 DEF StepperCommand

LEMMA TickKeeps == StepperInv /\ (StepperTick \/ StepNotTaken) => StepperInv'
<1> SUFFICES ASSUME StepperInv, StepperTick \/ StepNotTaken
             PROVE  StepperInv'
  OBVIOUS
<1> USE DEF PivotPoints
<1>a. /\ energised \in BOOLEAN /\ Powered \in BOOLEAN /\ toward \in PivotPoints
      /\ shown.point \in PivotPoints \cup {"None"} /\ moves \in 0..MaxMoves
      /\ pivotPoint \in PivotPoints \cup {"None"} /\ step \in Positions
  BY DEF StepperInv, StepperTypeOK, StaysInTravel, Powered
<1>b. Aim \in Positions /\ Nearer \in Positions /\ Aim \in Int /\ Nearer \in Int
  BY AimInTravel, StepperAssumption DEF StepperInv, Positions
<1>1. CASE StepTaken
  <2>1. StepperTypeOK'
    BY <1>1, <1>b DEF StepperInv, StepperTypeOK, StaysInTravel, StepTaken, Sweeping
  <2>2. StaysInTravel'
    BY <1>1, <1>b DEF StepperInv, StepperTypeOK, StaysInTravel, StepTaken, Sweeping
  <2>3. StepperReportInv' /\ IdleIsAsReported'
    BY <1>1 DEF StepperInv, StepperReportInv, IdleIsAsReported, StepTaken, Sweeping
  <2> QED BY <2>1, <2>2, <2>3 DEF StepperInv
<1>2. CASE StepNotTaken
  <2>1. StepperTypeOK'
    BY <1>2, <1>b DEF StepperInv, StepperTypeOK, StaysInTravel, StepNotTaken, Sweeping
  <2>2. StaysInTravel'
    BY <1>2, <1>b DEF StepperInv, StepperTypeOK, StaysInTravel, StepNotTaken, Sweeping
  <2>3. StepperReportInv' /\ IdleIsAsReported'
    BY <1>2 DEF StepperInv, StepperReportInv, IdleIsAsReported, StepNotTaken, Sweeping
  <2> QED BY <2>1, <2>2, <2>3 DEF StepperInv
<1>3. CASE MoveDone
  <2>1. /\ BecomeIdle(Powered, shown.point) /\ step' \in Positions /\ pivot' = pivot
        /\ cycle' = cycle /\ toward' = toward /\ moves' \in 0..MaxMoves
        /\ pivotPoint' \in {pivotPoint, "None"}
    BY <1>3, <1>a, <1>b DEF MoveDone, Arrives
  <2>2. "Report" \notin lost => (pivotPoint' # "None" => shown.point = pivotPoint')
    BY <2>1 DEF StepperInv, StepperReportInv
  <2> QED
    BY <1>a, <2>1, <2>2, BecomesIdle
<1>4. CASE PivotDone
  <2>1. /\ BecomeIdle(Powered, toward) /\ step' \in Positions /\ pivot' = pivot
        /\ cycle' = cycle /\ toward' = toward /\ moves' \in 0..MaxMoves
        /\ pivotPoint' = toward
    BY <1>4, <1>a, <1>b DEF PivotDone, Arrives
  <2> QED
    BY <1>a, <2>1, BecomesIdle
<1>5. CASE SweepDone
  <2>1. /\ cycle' \in 1..(HomingCycles + 1) /\ toward' \in PivotPoints
        /\ motion = "Homing" /\ motion' = "Homing" /\ step' = Aim /\ target' = Aim
        /\ pivotPoint' = toward /\ energised' \in BOOLEAN
    BY <1>5, <1>a DEF SweepDone, Arrives, Sweeping, StepperInv, StepperTypeOK, HomingCycles, Other
  <2>2. shown' = [shown EXCEPT !.motion = "Homing", !.step = step', !.point = toward]
    BY <1>5 DEF SweepDone
  <2>3. /\ shown'.motion = "Homing" /\ shown'.point = toward /\ shown'.pivot = shown.pivot
        /\ shown' \in [motion : {"Idle", "Moving", "Homing", "Pivot"}, step : Int,
                       pivot : [PivotPoints -> Int], point : PivotPoints \cup {"None"}]
    BY <1>a, <1>b, <2>1, <2>2 DEF StepperInv, StepperTypeOK
  <2>4. StepperTypeOK'
    BY <1>5, <1>a, <1>b, <2>1, <2>3 DEF StepperInv, StepperTypeOK, SweepDone
  <2>5. StaysInTravel'
    BY <1>5, <1>b, <2>1 DEF StepperInv, StaysInTravel, SweepDone, Positions
  <2>6. StepperReportInv' /\ IdleIsAsReported'
    BY <1>5, <2>1, <2>3 DEF StepperInv, StepperReportInv, IdleIsAsReported, SweepDone
  <2> QED
    BY <2>4, <2>5, <2>6 DEF StepperInv
<1>6. CASE HomingDone
  <2>1. /\ BecomeIdle(energised, shown.point) /\ step' = step /\ pivot' = pivot
        /\ cycle' = cycle /\ toward' = toward /\ moves' = moves /\ pivotPoint' = pivotPoint
    BY <1>6 DEF HomingDone
  <2>2. "Report" \notin lost => (pivotPoint' # "None" => shown.point = pivotPoint')
    BY <2>1 DEF StepperInv, StepperReportInv
  <2> QED
    BY <1>a, <2>1, <2>2, BecomesIdle
<1> QED
  BY <1>1, <1>2, <1>3, <1>4, <1>5, <1>6 DEF StepperTick

LEMMA RediscoveryKeeps == StepperInv /\ StepperRediscover => StepperInv'
<1> SUFFICES ASSUME StepperInv, StepperRediscover
             PROVE  StepperInv'
  OBVIOUS
<1>1. shown' = [motion |-> motion, step |-> step, pivot |-> pivot,
                point |-> IF pivotPoint = "None" THEN shown.point ELSE pivotPoint]
  BY DEF StepperRediscover
<1>2. StepperTypeOK'
  BY <1>1 DEF StepperInv, StepperTypeOK, StepperRediscover
<1>3. StaysInTravel'
  BY DEF StepperInv, StaysInTravel, StepperRediscover, Positions
<1>4. StepperReportInv' /\ IdleIsAsReported'
  BY <1>1 DEF StepperInv, StepperReportInv, IdleIsAsReported, StepperRediscover
<1> QED
  BY <1>2, <1>3, <1>4 DEF StepperInv

-----------------------------------------------------------------------------

THEOREM StepperInvariant == StepperSpec => []StepperInv
<1>1. StepperInv /\ [StepperNext]_stepperVars => StepperInv'
  <2>1. StepperInv /\ UNCHANGED stepperVars => StepperInv'
    BY DEF StepperInv, StepperTypeOK, StaysInTravel, StepperReportInv, IdleIsAsReported, stepperVars,
           Positions
  <2> QED
    BY <2>1, CommandKeeps, TickKeeps, RediscoveryKeeps DEF StepperNext
<1> QED
  BY <1>1, StepperInitial, PTL DEF StepperSpec

\* Whatever is commanded, at whatever time, and however the coil driver fails, the motor
\* stays within its travel and its limits in order (stepper_motion.rs:9-12).
THEOREM StepperStaysInTravel == StepperSpec => []StaysInTravel
<1>1. StepperInv => StaysInTravel
  BY DEF StepperInv
<1> QED
  BY <1>1, StepperInvariant, PTL

\* An idle motor is released and reported, unless its release failed
\* (stepper_motion.rs:201-207, stepper.rs:112-120).
THEOREM StepperIdleIsAsReported == StepperSpec => []IdleIsAsReported
<1>1. StepperInv => IdleIsAsReported
  BY DEF StepperInv
<1> QED
  BY <1>1, StepperInvariant, PTL

-----------------------------------------------------------------------------
(* RfidCard, for any cards with any number of blocks, any parts and swaps. *)

AnyParts == [attempt : Nat, id : Nat]
AnyBlocks == [n : Int, part : AnyParts]

\* The first k blocks of card c are those of the record of payload p.
Written(c, p, k) == \A i \in 1..k : card[c][i] = Encode(p)[i]

Fits(p) == p \in Seq(AnyParts) /\ 0 < Len(p) /\ Len(p) <= Usable

CardReports == [state : {"None", "Good", "Bad"}, uid : Cards \cup {NoCard}, payload : Seq(AnyParts)]

BufferTypes ==
  /\ attempts \in Nat /\ parts \in Nat
  /\ writeBuffer \in Seq(AnyParts) /\ Len(writeBuffer) <= Usable

CardTypes ==
  /\ card \in [Cards -> [1..Usable -> AnyBlocks]] /\ field \in Cards \cup {NoCard}
  /\ writeState \in {"Good", "Bad"} /\ report \in CardReports
  /\ rfidMode \in {"Read", "Write"} /\ op \in {"None", "Writing", "Reading"}
  /\ op # "None" => uid \in Cards

\* A card that is being written has the blocks before the next one; no good report is
\* about it.
WritingInv ==
  op = "Writing" =>
    /\ rfidMode = "Write" /\ Fits(writeBuffer) /\ block \in 1..Len(writeBuffer)
    /\ Written(uid, writeBuffer, block - 1)
    /\ ~(report.state = "Good" /\ report.uid = uid)

\* A card that is read back after a write has all of them, unless the write failed.
ReadBackInv ==
  op = "Reading" /\ rfidMode = "Write" =>
    /\ Fits(writeBuffer)
    /\ writeState = "Good" => Written(uid, writeBuffer, Len(writeBuffer))

CardReportInv ==
  report.state = "Good" =>
    /\ report.uid \in Cards /\ Fits(report.payload)
    /\ Written(report.uid, report.payload, Len(report.payload))

CardInv == BufferTypes /\ CardTypes /\ NeverJoined /\ WritingInv /\ ReadBackInv /\ CardReportInv

-----------------------------------------------------------------------------
(* The record format. *)

LEMMA EncodedBlocks ==
  ASSUME NEW p, Fits(p)
  PROVE  /\ Len(p) \in Nat \ {0}
         /\ \A i \in 1..Len(p) : p[i] \in AnyParts /\ Encode(p)[i] \in AnyBlocks /\ Encode(p)[i].part = p[i]
         /\ Encode(p)[1].n = Len(p)
<1>1. Len(p) \in Nat \ {0} /\ \A i \in 1..Len(p) : p[i] \in AnyParts
  BY DEF Fits
<1>2. \A i \in 1..Len(p) : Encode(p)[i] = [n |-> IF i = 1 THEN Len(p) ELSE 0, part |-> p[i]]
  BY DEF Encode
<1>3. ASSUME NEW i \in 1..Len(p)
      PROVE  Encode(p)[i] \in AnyBlocks /\ Encode(p)[i].part = p[i]
  <2> DEFINE k == IF i = 1 THEN Len(p) ELSE 0
  <2>1. k \in Int /\ p[i] \in AnyParts /\ Encode(p)[i] = [n |-> k, part |-> p[i]]
    BY <1>1, <1>2
  <2> HIDE DEF k
  <2> QED
    BY <2>1 DEF AnyBlocks
<1>4. Encode(p)[1].n = Len(p)
  <2>1. Encode(p)[1] = [n |-> Len(p), part |-> p[1]]
    BY <1>1, <1>2
  <2> QED
    BY <2>1
<1> QED
  BY <1>1, <1>3, <1>4

\* What is written as a record is read as the payload it was made of.
LEMMA RecordIsRead ==
  ASSUME CardTypes, NEW c \in Cards, NEW p, Fits(p), Written(c, p, Len(p))
  PROVE  Holds(c, p)
<1> DEFINE n == Len(p)
           s == SubSeq(card[c], 1, n)
<1>1. n \in Nat \ {0} /\ n <= Usable /\ Usable \in Nat /\ p \in Seq(AnyParts) /\ 1 \in 1..n
  BY RfidAssumption, EncodedBlocks DEF Fits
<1>2. \A i \in 1..n : card[c][i] = Encode(p)[i] /\ card[c][i].part = p[i]
  BY EncodedBlocks DEF Written
<1>3. card[c][1].n = n
  BY <1>1, <1>2, EncodedBlocks
<1>4. BlocksToRead(card[c][1]) = n
  BY <1>1, <1>3 DEF BlocksToRead
<1>5. card[c] \in Seq(AnyBlocks) /\ Len(card[c]) = Usable
  BY <1>1 DEF CardTypes
<1>6. s \in Seq(AnyBlocks) /\ Len(s) = n /\ \A i \in 1..n : s[i] = card[c][i]
  <2>1. \A i \in 1..Len(card[c]) : card[c][i] \in AnyBlocks
    BY <1>5
  <2> QED
    BY <1>1, <1>5
<1> HIDE DEF s
<1>7. s[1] = card[c][1] /\ s[1].n = n /\ BlocksToRead(s[1]) = n /\ s # <<>>
  BY <1>1, <1>3, <1>4, <1>6
<1>8. ~(s = <<>> \/ s[1].n = Foreign \/ s[1].n > Len(s))
  BY <1>1, <1>6, <1>7 DEF Foreign
<1>9. Decode(s) = [i \in 1..n |-> s[i].part]
  BY <1>7, <1>8 DEF Decode
<1>10. [i \in 1..n |-> s[i].part] = [i \in 1..n |-> p[i]]
  BY <1>2, <1>6
<1>11. p = [i \in 1..n |-> p[i]]
  BY <1>1
<1> QED
  BY <1>4, <1>9, <1>10, <1>11 DEF Holds, s

-----------------------------------------------------------------------------
(* The steps. *)

LEMMA CardInitial == RfidInit => CardInv
<1> SUFFICES ASSUME RfidInit PROVE CardInv
  OBVIOUS
<1>1. NoPart \in AnyParts /\ BlankBlocks \subseteq AnyBlocks
  BY DEF NoPart, AnyParts, AnyBlocks, BlankBlocks, Foreign
<1>2. PICK b \in BlankBlocks : card = [c \in Cards |-> [i \in 1..Usable |-> b]]
  BY DEF RfidInit
<1>3. CardTypes
  <2>1. report \in CardReports
    BY DEF RfidInit, CardReports
  <2>2. card \in [Cards -> [1..Usable -> AnyBlocks]]
    BY <1>1, <1>2
  <2> QED
    BY <2>1, <2>2 DEF RfidInit, CardTypes
<1>4. BufferTypes /\ NeverJoined
  BY RfidAssumption DEF RfidInit, BufferTypes, NeverJoined
<1> QED
  BY <1>3, <1>4 DEF RfidInit, CardInv, WritingInv, ReadBackInv, CardReportInv

\* Between two ticks, a payload that fits is appended with the number of the attempt.
LEMMA PayloadKept ==
  ASSUME CardInv, NEW k \in 1..Usable, WritePayload(k)
  PROVE  CardInv'
<1> DEFINE new == [i \in 1..k |-> [attempt |-> attempts, id |-> parts + i]]
<1>1. /\ op = "None" /\ op' = "None" /\ Len(writeBuffer) + k <= Usable
      /\ writeBuffer' = writeBuffer \o new /\ parts' = parts + k /\ rfidMode' = "Write"
      /\ UNCHANGED <<attempts, card, field, uid, writeState, report>>
  BY DEF WritePayload
<1>2. attempts \in Nat /\ parts \in Nat /\ writeBuffer \in Seq(AnyParts) /\ k \in Nat /\ Len(writeBuffer) \in Nat
  BY DEF CardInv, BufferTypes
<1>3. new \in Seq(AnyParts) /\ Len(new) = k /\ \A i \in 1..k : new[i].attempt = attempts
  <2>1. \A i \in 1..k : [attempt |-> attempts, id |-> parts + i] \in AnyParts
    BY <1>2 DEF AnyParts
  <2>2. new \in [1..k -> AnyParts] /\ \A i \in 1..k : new[i].attempt = attempts
    BY ONLY <2>1
  <2> HIDE DEF new
  <2> QED BY ONLY <1>2, <2>2
<1> HIDE DEF new
<1>4. writeBuffer' \in Seq(AnyParts) /\ Len(writeBuffer') = Len(writeBuffer) + k
  BY <1>1, <1>2, <1>3, ConcatProperties
<1>5. BufferTypes'
  BY <1>1, <1>2, <1>4 DEF BufferTypes
<1>6. ASSUME NEW i \in 1..(Len(writeBuffer) + k) PROVE writeBuffer'[i].attempt = attempts
  <2>1. CASE i \in 1..Len(writeBuffer)
    BY <1>1, <1>2, <1>3, <2>1 DEF CardInv, NeverJoined
  <2>2. CASE i > Len(writeBuffer)
    <3>1. i - Len(writeBuffer) \in 1..k /\ writeBuffer'[i] = new[i - Len(writeBuffer)]
      BY <1>1, <1>2, <1>3, <2>2
    <3> QED
      BY <1>3, <3>1
  <2> QED
    BY <1>2, <2>1, <2>2
<1>7. NeverJoined'
  BY <1>1, <1>4, <1>6 DEF NeverJoined
<1>8. CardTypes' /\ WritingInv' /\ ReadBackInv' /\ CardReportInv'
  BY <1>1 DEF CardInv, CardTypes, WritingInv, ReadBackInv, CardReportInv, Written
<1> QED
  BY <1>5, <1>7, <1>8 DEF CardInv

\* Steps that touch neither card nor report: swaps, commands, and ticks without a card.
LEMMA IdleKept ==
  ASSUME CardInv, CardMoves \/ ReadMode \/ WriteMode \/ NothingFound \/ SelectFails \/ UNCHANGED rfidVars
  PROVE  CardInv'
<1>1. CASE ReadMode
  <2>1. /\ op' = "None" /\ rfidMode' = "Read" /\ writeBuffer' = <<>>
        /\ UNCHANGED <<card, field, uid, writeState, report, attempts, parts>>
    BY <1>1 DEF ReadMode
  <2>2. BufferTypes' /\ NeverJoined'
    BY <2>1, RfidAssumption DEF CardInv, BufferTypes, NeverJoined
  <2> QED
    BY <2>1, <2>2 DEF CardInv, CardTypes, WritingInv, ReadBackInv, CardReportInv, Written
<1>2. CASE CardMoves \/ NothingFound \/ SelectFails \/ UNCHANGED rfidVars
  <2>1. /\ UNCHANGED <<rfidMode, writeBuffer, writeState, card, op, uid, block, report, attempts, parts>>
        /\ field' \in Cards \cup {NoCard}
    BY <1>2 DEF CardMoves, NothingFound, SelectFails, rfidVars, CardInv, CardTypes
  <2> QED
    BY <2>1 DEF CardInv, BufferTypes, CardTypes, NeverJoined, WritingInv, ReadBackInv, CardReportInv, Written
<1>3. CASE WriteMode
  BY <1>3 DEF WriteMode, CardInv, BufferTypes, CardTypes, NeverJoined, WritingInv, ReadBackInv, CardReportInv, Written
<1> QED
  BY <1>1, <1>2, <1>3

\* A card that is selected for writing is no longer reported good.
LEMMA SelectKept ==
  ASSUME CardInv, Select
  PROVE  CardInv'
<1>1. /\ op = "None" /\ field \in Cards /\ uid' = field /\ block' = 1
      /\ UNCHANGED <<writeBuffer, card, field, attempts, parts>>
  BY DEF Select, CardInv, CardTypes
<1>2. BufferTypes' /\ NeverJoined'
  BY <1>1 DEF CardInv, BufferTypes, NeverJoined
<1>3. CASE rfidMode' = "Read" /\ op' \in {"None", "Reading"} /\ UNCHANGED <<report, writeState>>
  BY <1>1, <1>2, <1>3 DEF CardInv, CardTypes, WritingInv, ReadBackInv, CardReportInv, Written
<1>4. CASE /\ rfidMode = "Write" /\ rfidMode' = "Write" /\ writeBuffer # <<>> /\ op' = "Writing"
           /\ writeState' = "Good"
           /\ report' = [report EXCEPT !.state = IF report.uid = field THEN "None" ELSE @]
  <2>1. Fits(writeBuffer) /\ block' \in 1..Len(writeBuffer)
    BY <1>1, <1>4 DEF CardInv, BufferTypes, Fits
  <2>2. report \in CardReports /\ writeState' = "Good"
        /\ \/ report.uid = field /\ report' = [report EXCEPT !.state = "None"]
           \/ report.uid # field /\ report' = [report EXCEPT !.state = report.state]
    BY <1>4 DEF CardInv, CardTypes
  <2>3. report' \in CardReports /\ (report'.state = "Good" => report' = report /\ report.uid # field)
    <3> USE DEF CardReports
    <3>1. CASE report.uid = field
      BY <2>2, <3>1
    <3>2. CASE report.uid # field
      BY <2>2, <3>2
    <3> QED
      BY <3>1, <3>2
  <2> QED
    BY <1>1, <1>2, <1>4, <2>1, <2>3
    DEF CardInv, CardTypes, WritingInv, ReadBackInv, CardReportInv, Written, Fits
<1> QED
  BY <1>1, <1>3, <1>4 DEF Select

\* One block more is on the card; a good report about another card is not touched.
LEMMA BlockIsWritten ==
  ASSUME CardInv, op = "Writing", NEW b, b = Encode(writeBuffer)[block],
         card' = [card EXCEPT ![uid][block] = b], UNCHANGED <<uid, field, rfidMode, report>>,
         op' \in {"Writing", "Reading"}, writeState' \in {"Good", "Bad"}
  PROVE  /\ CardTypes' /\ CardReportInv'
         /\ \A i \in 1..block : card'[uid][i] = Encode(writeBuffer)[i]
<1>1. /\ Fits(writeBuffer) /\ block \in 1..Len(writeBuffer) /\ Written(uid, writeBuffer, block - 1)
      /\ ~(report.state = "Good" /\ report.uid = uid)
      /\ uid \in Cards /\ card \in [Cards -> [1..Usable -> AnyBlocks]]
  BY DEF CardInv, WritingInv, CardTypes
<1>2. Usable \in Nat /\ block \in 1..Usable /\ b \in AnyBlocks /\ Len(writeBuffer) \in Nat
  BY <1>1, RfidAssumption, EncodedBlocks DEF Fits
<1>3. /\ card' \in [Cards -> [1..Usable -> AnyBlocks]] /\ card'[uid][block] = b
      /\ \A i \in 1..Usable \ {block} : card'[uid][i] = card[uid][i]
      /\ \A d \in Cards \ {uid} : card'[d] = card[d]
  BY <1>1, <1>2
<1>4. CardTypes'
  BY <1>1, <1>3 DEF CardInv, CardTypes
<1>5. ASSUME NEW i \in 1..block PROVE card'[uid][i] = Encode(writeBuffer)[i]
  <2>1. CASE i = block
    BY <1>3, <2>1
  <2>2. CASE i # block
    <3>1. i \in 1..(block - 1) /\ i \in 1..Usable \ {block}
      BY <1>1, <1>2, <2>2
    <3> QED
      BY <1>1, <1>3, <3>1 DEF Written
  <2> QED
    BY <2>1, <2>2
<1>6. CardReportInv'
  BY <1>1, <1>3 DEF CardInv, CardReportInv, Written
<1> QED
  BY <1>4, <1>5, <1>6

LEMMA WriteKept ==
  ASSUME CardInv, WriteBlock
  PROVE  CardInv'
<1>1. /\ op = "Writing" /\ op' \in {"Writing", "Reading"}
      /\ card' = [card EXCEPT ![uid][block] = Encode(writeBuffer)[block]]
      /\ UNCHANGED <<rfidMode, writeBuffer, writeState, field, uid, report, attempts, parts>>
      /\ IF block >= Len(writeBuffer) THEN op' = "Reading" ELSE op' = "Writing" /\ block' = block + 1
  BY DEF WriteBlock, ReadBack
<1>2. CardTypes' /\ CardReportInv' /\ \A i \in 1..block : card'[uid][i] = Encode(writeBuffer)[i]
  <2>1. writeState' \in {"Good", "Bad"}
    BY <1>1 DEF CardInv, CardTypes
  <2> QED
    BY <1>1, <2>1, BlockIsWritten
<1>3. BufferTypes' /\ NeverJoined'
  BY <1>1 DEF CardInv, BufferTypes, NeverJoined
<1>4. /\ rfidMode = "Write" /\ Fits(writeBuffer) /\ block \in 1..Len(writeBuffer) /\ Len(writeBuffer) \in Nat
      /\ ~(report.state = "Good" /\ report.uid = uid)
  BY <1>1, EncodedBlocks DEF CardInv, WritingInv
<1>5. CASE block >= Len(writeBuffer)
  <2>1. block = Len(writeBuffer)
    BY <1>4, <1>5
  <2> QED
    BY <1>1, <1>2, <1>3, <1>4, <1>5, <2>1 DEF CardInv, WritingInv, ReadBackInv, Written, Fits
<1>6. CASE block < Len(writeBuffer)
  <2>1. op' = "Writing" /\ block' = block + 1 /\ block' - 1 = block /\ block' \in 1..Len(writeBuffer)
    BY <1>1, <1>4, <1>6
  <2> QED
    BY <1>1, <1>2, <1>3, <1>4, <2>1 DEF CardInv, WritingInv, ReadBackInv, Written, Fits
<1> QED
  BY <1>4, <1>5, <1>6

LEMMA FailureKept ==
  ASSUME CardInv, WriteFails
  PROVE  CardInv'
<1>1. /\ op = "Writing" /\ op' = "Reading" /\ writeState' = "Bad"
      /\ UNCHANGED <<rfidMode, writeBuffer, field, uid, report, attempts, parts>>
      /\ \/ card' = card
         \/ card' = [card EXCEPT ![uid][block] = Encode(writeBuffer)[block]]
  BY DEF WriteFails, BadWrite, ReadBack
<1>2. BufferTypes' /\ NeverJoined' /\ WritingInv' /\ ReadBackInv'
  BY <1>1 DEF CardInv, BufferTypes, NeverJoined, WritingInv, ReadBackInv, Fits
<1>3. CardTypes' /\ CardReportInv'
  <2>1. CASE card' = card
    BY <1>1, <2>1 DEF CardInv, CardTypes, CardReportInv, Written
  <2> QED
    BY <1>1, <2>1, BlockIsWritten
<1> QED
  BY <1>2, <1>3 DEF CardInv

\* The end of a tick reports the attempt and drops its data.
LEMMA EndKept ==
  ASSUME CardInv, op = "Reading", NEW readable \in BOOLEAN, EndTick(readable),
         UNCHANGED <<card, field, uid, parts>>
  PROVE  CardInv'
<1>1. op' = "None" /\ uid \in Cards
  BY DEF EndTick, CardInv, CardTypes
<1>2. WritingInv' /\ ReadBackInv'
  BY <1>1 DEF WritingInv, ReadBackInv
<1>3. CASE rfidMode = "Read" /\ UNCHANGED <<rfidMode, writeBuffer, writeState, report, attempts>>
  BY <1>1, <1>2, <1>3 DEF CardInv, BufferTypes, CardTypes, NeverJoined, CardReportInv, Written
<1>4. CASE /\ rfidMode = "Write" /\ rfidMode' = "Read"
           /\ writeState' = IF readable THEN writeState ELSE "Bad"
           /\ report' = [state |-> writeState', uid |-> uid, payload |-> writeBuffer]
           /\ writeBuffer' = <<>> /\ attempts' = attempts + 1
  <2>1. BufferTypes' /\ NeverJoined' /\ CardTypes'
    BY <1>1, <1>4, RfidAssumption DEF CardInv, BufferTypes, NeverJoined, CardTypes, CardReports
  <2>2. writeState' = "Good" => writeState = "Good"
    BY <1>4
  <2>3. CardReportInv'
    BY <1>1, <1>4, <2>2 DEF CardInv, ReadBackInv, CardReportInv, Written
  <2> QED
    BY <1>2, <2>1, <2>3 DEF CardInv
<1> QED
  BY <1>3, <1>4 DEF EndTick, DropData

LEMMA ReadKept ==
  ASSUME CardInv, ReadBlock \/ SkipBlock
  PROVE  CardInv'
<1>1. /\ op = "Reading"
      /\ UNCHANGED <<rfidMode, writeBuffer, writeState, card, field, op, uid, report, attempts, parts>>
  BY DEF ReadBlock, SkipBlock, Reading
<1> QED
  BY <1>1 DEF CardInv, BufferTypes, CardTypes, NeverJoined, WritingInv, ReadBackInv, CardReportInv, Written

LEMMA CardKept == CardInv /\ [RfidNext]_rfidVars => CardInv'
<1> SUFFICES ASSUME CardInv, [RfidNext]_rfidVars PROVE CardInv'
  OBVIOUS
<1>1. CASE ReadBlockFails
  <2>1. op = "Reading" /\ EndTick(FALSE) /\ UNCHANGED <<card, field, uid, parts>>
    BY <1>1 DEF ReadBlockFails, Reading
  <2> QED
    BY <2>1, EndKept
<1>2. CASE CardRead
  <2> DEFINE readable == Decode(got) # Unreadable
  <2>1. op = "Reading" /\ EndTick(readable) /\ UNCHANGED <<card, field, uid, parts>>
    BY <1>2 DEF CardRead
  <2>2. readable \in BOOLEAN
    OBVIOUS
  <2> HIDE DEF readable
  <2> QED
    BY <2>1, <2>2, EndKept
<1> QED
  BY <1>1, <1>2, PayloadKept, IdleKept, SelectKept, WriteKept, FailureKept, ReadKept DEF RfidNext

LEMMA CardInvariant == RfidSpec => []CardInv
  BY CardInitial, CardKept, PTL DEF RfidSpec

-----------------------------------------------------------------------------
\* A write that was reported good is on the card until the next attempt on that card,
\* whatever cards came and went, and whatever failed (rfid.rs:181-196, 299-362).
THEOREM CardGoodIsOnCard == RfidSpec => []GoodIsOnCard
<1>1. CardInv => GoodIsOnCard
  BY RecordIsRead DEF CardInv, CardReportInv, GoodIsOnCard
<1> QED
  BY <1>1, CardInvariant, PTL

\* The data of one attempt are never joined onto those of an earlier one, for payloads
\* of any number of parts (rfid.rs:206-212).
THEOREM CardNeverJoined == RfidSpec => []NeverJoined
<1>1. CardInv => NeverJoined
  BY DEF CardInv
<1> QED
  BY <1>1, CardInvariant, PTL

-----------------------------------------------------------------------------
(* PairingWindow, for a window of any length. *)

\* What the flag, the window and the worker's rounds have to do with each other: the
\* flag follows the window; an open window was not over when the worker last looked;
\* a worker that was not blocked looked less than a round ago.
RoundInv ==
  /\ pairingOpen => window = "Open"
  /\ openedAt <= clock /\ iterated <= clock
  /\ window = "Open" => iterated < openedAt + WindowLength
  /\ ~stalled => clock <= iterated + 1
  /\ place = "Blocked" => stalled
  /\ window = "NotStarted" => accepted = {}
WindowInv == WindowTypeOK /\ RoundInv /\ PairingKeepsToWindow

LEMMA WindowStarts == WindowInit => WindowInv
<1> SUFFICES ASSUME WindowInit PROVE WindowInv
  OBVIOUS
<1>1. pairingOpen \in BOOLEAN /\ discoverable \in BOOLEAN /\ stalled \in BOOLEAN
  BY Zenon DEF WindowInit
<1>2. WindowTypeOK
  BY <1>1, WindowAssumption DEF WindowInit, WindowTypeOK
<1>3. RoundInv /\ PairingKeepsToWindow
  BY WindowAssumption DEF WindowInit, RoundInv, PairingKeepsToWindow
<1>q. QED  BY <1>2, <1>3 DEF WindowInv

\* Time does not touch what was accepted, and an unblocked worker is in recv_timeout for
\* at most a round.
LEMMA TimeKeeps == WindowInv /\ TimePasses => WindowInv'
<1> SUFFICES ASSUME WindowInv, TimePasses PROVE WindowInv'
  OBVIOUS
<1>1. pairingOpen' \in BOOLEAN /\ discoverable' \in BOOLEAN /\ stalled' \in BOOLEAN
  BY Zenon DEF TimePasses, WindowInv, WindowTypeOK
<1>2. WindowTypeOK'
  BY <1>1, WindowAssumption DEF TimePasses, WindowInv, WindowTypeOK
<1>3. RoundInv'
  BY WindowAssumption DEF TimePasses, WindowInv, WindowTypeOK, RoundInv
<1>4. PairingKeepsToWindow'
  BY WindowAssumption
  DEF TimePasses, WindowInv, WindowTypeOK, RoundInv, PairingKeepsToWindow
<1>q. QED  BY <1>2, <1>3, <1>4 DEF WindowInv

LEMMA StartKeeps == WindowInv /\ ServiceStarts => WindowInv'
<1> SUFFICES ASSUME WindowInv, ServiceStarts PROVE WindowInv'
  OBVIOUS
<1>1. pairingOpen' \in BOOLEAN /\ discoverable' \in BOOLEAN /\ stalled' \in BOOLEAN
  BY Zenon DEF ServiceStarts, WindowInv, WindowTypeOK
<1>2. WindowTypeOK'
  BY <1>1, WindowAssumption DEF ServiceStarts, WindowInv, WindowTypeOK
<1>3. RoundInv'
  BY WindowAssumption DEF ServiceStarts, WindowInv, WindowTypeOK, RoundInv
<1>4. PairingKeepsToWindow'
  BY WindowAssumption
  DEF ServiceStarts, WindowInv, WindowTypeOK, RoundInv, PairingKeepsToWindow
<1>q. QED  BY <1>2, <1>3, <1>4 DEF WindowInv

LEMMA WorkKeeps == WindowInv /\ OtherWork => WindowInv'
<1> SUFFICES ASSUME WindowInv, OtherWork PROVE WindowInv'
  OBVIOUS
<1>1. pairingOpen' \in BOOLEAN /\ discoverable' \in BOOLEAN /\ stalled' \in BOOLEAN
  BY Zenon DEF OtherWork, WindowInv, WindowTypeOK
<1>2. WindowTypeOK'
  BY <1>1, WindowAssumption DEF OtherWork, WindowInv, WindowTypeOK
<1>3. RoundInv'
  BY WindowAssumption DEF OtherWork, WindowInv, WindowTypeOK, RoundInv
<1>4. PairingKeepsToWindow'
  BY WindowAssumption
  DEF OtherWork, WindowInv, WindowTypeOK, RoundInv, PairingKeepsToWindow
<1>q. QED  BY <1>2, <1>3, <1>4 DEF WindowInv

\* The head of the loop sees the end of the window.
LEMMA HeadKeeps == WindowInv /\ LoopHead => WindowInv'
<1> SUFFICES ASSUME WindowInv, LoopHead PROVE WindowInv'
  OBVIOUS
<1>1. pairingOpen' \in BOOLEAN /\ discoverable' \in BOOLEAN /\ stalled' \in BOOLEAN
  BY Zenon DEF LoopHead, Expired, CloseWindow, WindowInv, WindowTypeOK
<1>2. WindowTypeOK'
  BY <1>1, WindowAssumption DEF LoopHead, Expired, CloseWindow, WindowInv, WindowTypeOK
<1>3. RoundInv'
  <2>1. CASE Expired
    BY <2>1, WindowAssumption DEF LoopHead, CloseWindow, WindowInv, WindowTypeOK, RoundInv
  <2>2. CASE ~Expired
    <3>1. window' = "Open" => iterated' < openedAt' + WindowLength
      <4>1. window' = window /\ openedAt' = openedAt /\ iterated' = clock
        BY <2>2 DEF LoopHead
      <4>2. window = "Open" => ~(clock - openedAt >= WindowLength)
        BY <2>2 DEF Expired
      <4>3. clock \in Int /\ openedAt \in Int /\ WindowLength \in Int
        BY WindowAssumption DEF WindowInv, WindowTypeOK
      <4>q. QED  BY <4>1, <4>2, <4>3
    <3>2. pairingOpen' => window' = "Open"
      BY <2>2, Zenon DEF LoopHead, WindowInv, RoundInv
    <3>q. QED
      BY <2>2, <3>1, <3>2, WindowAssumption DEF LoopHead, WindowInv, WindowTypeOK, RoundInv
  <2>q. QED  BY <2>1, <2>2
<1>4. PairingKeepsToWindow'
  BY WindowAssumption
  DEF LoopHead, Expired, CloseWindow, WindowInv, WindowTypeOK, RoundInv, PairingKeepsToWindow
<1>q. QED  BY <1>2, <1>3, <1>4 DEF WindowInv

\* The window opens once only, so that no earlier pairing is judged by a new beginning.
LEMMA OpenKeeps == WindowInv /\ OnStarted => WindowInv'
<1> SUFFICES ASSUME WindowInv, OnStarted PROVE WindowInv'
  OBVIOUS
<1>1. pairingOpen' \in BOOLEAN /\ discoverable' \in BOOLEAN /\ stalled' \in BOOLEAN
  BY Zenon DEF OnStarted, WindowInv, WindowTypeOK
<1>2. WindowTypeOK'
  BY <1>1, WindowAssumption DEF OnStarted, WindowInv, WindowTypeOK
<1>3. RoundInv'
  BY WindowAssumption DEF OnStarted, WindowInv, WindowTypeOK, RoundInv
<1>4. PairingKeepsToWindow'
  BY WindowAssumption
  DEF OnStarted, WindowInv, WindowTypeOK, RoundInv, PairingKeepsToWindow
<1>q. QED  BY <1>2, <1>3, <1>4 DEF WindowInv

\* The flag is up only while the window was not over at the last look.
LEMMA RequestKeeps == WindowInv /\ PairingRequest => WindowInv'
<1> SUFFICES ASSUME WindowInv, PairingRequest PROVE WindowInv'
  OBVIOUS
<1>1. pairingOpen' \in BOOLEAN /\ discoverable' \in BOOLEAN /\ stalled' \in BOOLEAN
  BY Zenon DEF PairingRequest, WindowInv, WindowTypeOK
<1>2. WindowTypeOK'
  BY <1>1, WindowAssumption DEF PairingRequest, WindowInv, WindowTypeOK
<1>3. RoundInv'
  BY WindowAssumption DEF PairingRequest, WindowInv, WindowTypeOK, RoundInv
<1>4. PairingKeepsToWindow'
  BY WindowAssumption
  DEF PairingRequest, WindowInv, WindowTypeOK, RoundInv, PairingKeepsToWindow
<1>q. QED  BY <1>2, <1>3, <1>4 DEF WindowInv

\* The invariant of the window.
THEOREM WindowInvariant == WindowSpec => []WindowInv
<1>1. WindowInit => WindowInv
  BY WindowStarts
<1>2. WindowInv /\ [WindowNext]_windowVars => WindowInv'
  <2>1. CASE WindowNext
    BY <2>1, TimeKeeps, StartKeeps, WorkKeeps, HeadKeeps, OpenKeeps, RequestKeeps DEF WindowNext
  <2>2. CASE UNCHANGED windowVars
    BY <2>2 DEF windowVars, WindowInv, WindowTypeOK, RoundInv, PairingKeepsToWindow
  <2>q. QED  BY <2>1, <2>2
<1>q. QED  BY <1>1, <1>2, PTL DEF WindowSpec

\* New devices pair only within the window, late by less than one round of the worker
\* unless it was blocked (pairing_window.rs:3-6, bluetooth.rs:277-287).
THEOREM PairingStaysInWindow == WindowSpec => []PairingKeepsToWindow
BY WindowInvariant, PTL DEF WindowInv

-----------------------------------------------------------------------------
(* LineFramer, for lines of any length and any limit. *)

\* What the machine knows of the line begun: all of it, or that it is too long.
BufferInv ==
  /\ discarding <=> TooLong(line)
  /\ ~discarding => buffer = line
FramerInv == FramerTypeOK /\ BufferInv /\ FramesAreLines

\* A line that is too long stays so, whatever byte follows.
LEMMA LongStaysLong ==
  ASSUME NEW l \in Seq(Bytes \ {NL}), NEW b \in Bytes \ {NL}, TooLong(l)
  PROVE  TooLong(Append(l, b))
BY FramerAssumption DEF TooLong

\* A line that is not too long becomes so exactly where there is no room.
LEMMA RoomIsRoom ==
  ASSUME NEW l \in Seq(Bytes \ {NL}), NEW b \in Bytes \ {NL}, ~TooLong(l)
  PROVE  TooLong(Append(l, b)) <=> ~(Len(l) < MaxLine \/ (b = CR /\ Len(l) = MaxLine))
<1>1. Append(l, b) \in Seq(Bytes \ {NL}) /\ Len(Append(l, b)) = Len(l) + 1
      /\ LastOf(Append(l, b)) = b
  BY DEF LastOf
<1>2. Len(l) \in Nat
  OBVIOUS
<1>q. QED  BY <1>1, <1>2, FramerAssumption DEF TooLong

LEMMA EmptyIsNothing == ~TooLong(<<>>) /\ FramesOf(<<>>) = <<>>
BY FramerAssumption DEF TooLong, FramesOf, Chomped, AllBlank

LEMMA FramerStarts == FramerInit => FramerInv
<1> SUFFICES ASSUME FramerInit PROVE FramerInv
  OBVIOUS
<1>1. FramerTypeOK
  <2>1. discarding \in BOOLEAN
    BY DEF FramerInit
  <2>2. <<>> \in Seq(Bytes \ {NL})
    OBVIOUS
  <2>q. QED  BY <2>1, <2>2, Zenon DEF FramerInit, FramerTypeOK
<1>2. BufferInv /\ FramesAreLines
  BY EmptyIsNothing DEF FramerInit, BufferInv, FramesAreLines
<1>q. QED  BY <1>1, <1>2 DEF FramerInv

LEMMA EndLineKeeps == FramerInv /\ EndLine => FramerInv'
<1> SUFFICES ASSUME FramerInv, EndLine PROVE FramerInv'
  OBVIOUS
<1>1. FramerTypeOK'
  <2>1. buffer' = <<>> /\ discarding' = FALSE /\ line' = <<>> /\ ended' = line
    BY DEF EndLine, Emptied
  <2>2. discarding' \in BOOLEAN
    BY <2>1
  <2>3. <<>> \in Seq(Bytes \ {NL})
    OBVIOUS
  <2>q. QED  BY <2>1, <2>2, <2>3, Zenon DEF FramerInv, FramerTypeOK
<1>2. BufferInv'
  <2>1. buffer' = <<>> /\ discarding' = FALSE /\ line' = <<>>
    BY DEF EndLine, Emptied
  <2>q. QED  BY <2>1, EmptyIsNothing DEF BufferInv
<1>3. gave' = FramesOf(line)
  <2>1. CASE discarding
    BY <2>1 DEF FramerInv, BufferInv, FramesAreLines, EndLine, FramesOf
  <2>2. CASE ~discarding
    <3>1. buffer = line /\ yet = <<>> /\ ~TooLong(line)
      BY <2>2 DEF FramerInv, BufferInv, FramesAreLines
    <3>2. Append(<<>>, Line(Chomped(line))) = <<Line(Chomped(line))>>
      OBVIOUS
    <3>q. QED  BY <2>2, <3>1, <3>2 DEF EndLine, FramesOf
  <2>q. QED  BY <2>1, <2>2
<1>4. FramesAreLines'
  BY <1>3, EmptyIsNothing DEF EndLine, FramesAreLines
<1>q. QED  BY <1>1, <1>2, <1>4 DEF FramerInv

LEMMA TakeByteKeeps ==
  ASSUME NEW b \in Bytes \ {NL}, FramerInv, TakeByte(b)
  PROVE  FramerInv'
<1>1. FramerTypeOK'
  <2>1. discarding' \in BOOLEAN
    BY Zenon DEF FramerInv, FramerTypeOK, TakeByte
  <2>2. /\ Append(buffer, b) \in Seq(Bytes \ {NL}) /\ Append(line, b) \in Seq(Bytes \ {NL})
        /\ <<>> \in Seq(Bytes \ {NL}) /\ buffer \in Seq(Bytes \ {NL})
    BY DEF FramerInv, FramerTypeOK
  <2>3. /\ buffer' \in Seq(Bytes \ {NL}) /\ line' \in Seq(Bytes \ {NL})
        /\ ended' \in Seq(Bytes \ {NL})
    BY <2>2, Zenon DEF TakeByte
  <2>q. QED  BY <2>1, <2>3, Zenon DEF FramerTypeOK
<1>2. line \in Seq(Bytes \ {NL}) /\ line' = Append(line, b)
  BY DEF FramerInv, FramerTypeOK, TakeByte
<1>3. BufferInv' /\ yet' = (IF TooLong(line)' THEN <<Overflow>> ELSE <<>>)
  <2>1. CASE discarding
    BY <2>1, <1>2, LongStaysLong DEF FramerInv, BufferInv, FramesAreLines, TakeByte
  <2>2. CASE ~discarding /\ Room(b)
    <3>1. ~TooLong(line) /\ buffer = line /\ yet = <<>>
      BY <2>2 DEF FramerInv, BufferInv, FramesAreLines
    <3>2. ~TooLong(line')
      BY <2>2, <3>1, <1>2, RoomIsRoom DEF Room
    <3>q. QED  BY <2>2, <3>1, <3>2, <1>2 DEF BufferInv, TakeByte, FramerInv, FramerTypeOK
  <2>3. CASE ~discarding /\ ~Room(b)
    <3>1. ~TooLong(line) /\ buffer = line /\ yet = <<>>
      BY <2>3 DEF FramerInv, BufferInv, FramesAreLines
    <3>2. TooLong(line')
      BY <2>3, <3>1, <1>2, RoomIsRoom DEF Room
    <3>3. Append(<<>>, Overflow) = <<Overflow>>
      OBVIOUS
    <3>q. QED  BY <2>3, <3>1, <3>2, <3>3 DEF BufferInv, TakeByte
  <2>q. QED  BY <2>1, <2>2, <2>3
<1>4. FramesAreLines'
  BY <1>3, EmptyIsNothing DEF TakeByte, FramesAreLines
<1>q. QED  BY <1>1, <1>3, <1>4 DEF FramerInv

LEMMA ClearKeeps == FramerInv /\ ClearFramer => FramerInv'
<1> SUFFICES ASSUME FramerInv, ClearFramer PROVE FramerInv'
  OBVIOUS
<1>1. FramerTypeOK'
  <2>1. discarding' \in BOOLEAN
    BY DEF ClearFramer
  <2>2. <<>> \in Seq(Bytes \ {NL})
    OBVIOUS
  <2>q. QED  BY <2>1, <2>2, Zenon DEF FramerTypeOK, ClearFramer
<1>2. BufferInv' /\ FramesAreLines'
  BY EmptyIsNothing DEF ClearFramer, BufferInv, FramesAreLines
<1>q. QED  BY <1>1, <1>2 DEF FramerInv

\* The framer's invariant.
THEOREM FramerInvariant == FramerSpec => []FramerInv
<1>1. FramerInv /\ [FramerNext]_framerVars => FramerInv'
  <2>1. CASE FramerNext
    BY <2>1, EndLineKeeps, TakeByteKeeps, ClearKeeps DEF FramerNext, PushByte
  <2>2. CASE UNCHANGED framerVars
    BY <2>2 DEF framerVars, FramerInv, FramerTypeOK, BufferInv, FramesAreLines, TooLong,
       FramesOf, Chomped, AllBlank, LastOf
  <2>q. QED  BY <2>1, <2>2
<1>q. QED  BY FramerStarts, <1>1, PTL DEF FramerSpec

\* Every line gives its own frames, whatever its length, the limit, and what came before
\* (framing.rs:5-8, 46-75).
THEOREM FramesComeFromLines == FramerSpec => []FramesAreLines
BY FramerInvariant, PTL DEF FramerInv

-----------------------------------------------------------------------------
(* Division and the sweeps of LidarScan. *)

LEMMA DivFacts ==
  ASSUME NEW a \in Nat, NEW s \in Nat, s > 0
  PROVE  /\ a \div s \in Nat /\ a % s \in Nat
         /\ a = (s * (a \div s)) + (a % s) /\ a % s < s
OBVIOUS

LEMMA DivUnique ==
  ASSUME NEW a \in Nat, NEW s \in Nat, s > 0, NEW q \in Nat, NEW r \in Nat, r < s, a = q * s + r
  PROVE  a \div s = q /\ a % s = r
OBVIOUS

LEMMA MulMono ==
  ASSUME NEW k \in Nat, NEW j \in Nat, NEW s \in Nat, s > 0, j < k
  PROVE  j * s + s <= k * s
OBVIOUS

LEMMA DivCeilIs ==
  ASSUME NEW a \in Nat, NEW s \in Nat, s > 0, NEW q \in Nat, q * s < a, a <= q * s + s
  PROVE  DivCeil(a, s) = q + 1
BY DEF DivCeil

\* Positions of a sweep over a length n in steps of s: every s, and the end.
OnSweep(d, n, s) == d = n \/ d % s = 0

LEMMA SweepOn ==
  ASSUME NEW s \in Nat, NEW n \in Nat, NEW d \in Nat, NEW e \in Nat, s > 0, d < n, d % s = 0,
         d < e, e <= n, e <= d + s, e = n \/ e = d + s
  PROVE  /\ OnSweep(e, n, s) /\ DivCeil(e, s) = DivCeil(d, s) + 1
         /\ \A f \in 0..n : OnSweep(f, n, s) => f <= d \/ e <= f
<1> DEFINE q == d \div s
<1>1. q \in Nat /\ d = q * s
  BY DivFacts
<1> HIDE DEF q
<1>2. q * s \in Nat /\ DivCeil(d, s) = q
  <2>1. CASE q = 0
    <3>1. d = 0
      BY <1>1, <2>1
    <3>2. (s - 1) \div s = 0
      BY DivUnique
    <3> QED BY <2>1, <3>1, <3>2 DEF DivCeil
  <2>2. CASE q # 0
    <3>1. q - 1 \in Nat /\ (q - 1) * s + s = d /\ (q - 1) * s \in Nat
      BY <1>1, <2>2
    <3>2. DivCeil(d, s) = (q - 1) + 1
      BY <3>1, DivCeilIs
    <3> QED BY <1>1, <3>2
  <2> QED BY <1>1, <2>1, <2>2
<1>3. d < e /\ e <= d + s /\ e <= n
  OBVIOUS
<1>4. DivCeil(e, s) = q + 1
  BY <1>1, <1>2, <1>3, DivCeilIs
<1>5. OnSweep(e, n, s)
  <2>1. CASE e = d + s
    <3>1. e = (q + 1) * s + 0 /\ q + 1 \in Nat
      BY <1>1, <2>1
    <3>2. e % s = 0
      BY <3>1, DivUnique, 0 \in Nat, 0 < s
    <3> QED BY <3>2 DEF OnSweep
  <2>2. CASE e = n
    BY <2>2 DEF OnSweep
  <2> QED BY <2>1, <2>2
<1>6. ASSUME NEW f \in 0..n, OnSweep(f, n, s), f > d
      PROVE  e <= f
  <2>1. CASE f = n
    BY <1>3, <2>1
  <2>2. CASE f % s = 0
    <3>1. f \div s \in Nat /\ f = (f \div s) * s
      BY <2>2, DivFacts
    <3>2. q < f \div s
      BY <1>1, <1>6, <3>1
    <3>3. q * s + s <= (f \div s) * s
      BY <1>1, <3>1, <3>2, MulMono
    <3> QED BY <1>1, <1>2, <1>3, <3>1, <3>3
  <2> QED BY <1>6, <2>1, <2>2 DEF OnSweep
<1> QED BY <1>2, <1>3, <1>4, <1>5, <1>6

LEMMA SweepStep ==
  ASSUME stride \in Nat, stride > 0, NEW a \in Pivots, NEW b \in Pivots,
         NEW v \in Marks(a, b), v # b, NEW w, w = StepToward(v, b, stride)
  PROVE  /\ w \in Marks(a, b) /\ Abs(a - v) < Abs(a - w)
         /\ DivCeil(Abs(a - w), stride) = DivCeil(Abs(a - v), stride) + 1
         /\ \A u \in Marks(a, b) : Abs(a - u) <= Abs(a - v) \/ Abs(a - w) <= Abs(a - u)
<1> DEFINE n == Abs(a - b)
           d == Abs(a - v)
           e == IF d + stride < n THEN d + stride ELSE n
<1>1. /\ PivotLimit \in Nat /\ a \in Int /\ b \in Int /\ v \in Int
      /\ n \in Nat /\ d \in Nat /\ e \in Nat
  BY LidarAssumption DEF Pivots, Marks, Abs
<1>2. d < n /\ d % stride = 0
  BY <1>1 DEF Marks, Abs
<1>3. w \in Pivots /\ Abs(a - w) = e /\ Abs(a - w) + Abs(w - b) = Abs(a - b) /\ (e = n => w = b)
  BY <1>1, <1>2 DEF Marks, Abs, StepToward, Clamp, Pivots
<1>4. \A u \in Marks(a, b) : Abs(a - u) \in 0..n /\ OnSweep(Abs(a - u), n, stride)
  BY <1>1 DEF Marks, Abs, OnSweep, Pivots
<1>5. /\ OnSweep(e, n, stride) /\ DivCeil(e, stride) = DivCeil(d, stride) + 1 /\ d < e
      /\ \A f \in 0..n : OnSweep(f, n, stride) => f <= d \/ e <= f
  <2>1. d < e /\ e <= n /\ e <= d + stride /\ (e = n \/ e = d + stride)
    BY <1>1, <1>2
  <2>2. stride \in Nat /\ stride > 0
    OBVIOUS
  <2> HIDE DEF n, d, e
  <2>3. OnSweep(e, n, stride)
    BY ONLY <1>1, <1>2, <2>1, <2>2, SweepOn
  <2>4. DivCeil(e, stride) = DivCeil(d, stride) + 1 
    BY ONLY <1>1, <1>2, <2>1, <2>2, SweepOn
  <2>5.  \A f \in 0..n : OnSweep(f, n, stride) => f <= d \/ e <= f
    BY ONLY <1>1, <1>2, <2>1, <2>2, SweepOn
  <2> QED BY ONLY <2>1, <2>3, <2>4, <2>5
<1>6. w = b \/ Abs(a - w) % stride = 0
  BY <1>3, <1>5 DEF OnSweep
<1>7. w \in Marks(a, b)
  BY <1>3, <1>6 DEF Marks
<1>8. ASSUME NEW u \in Marks(a, b)
      PROVE  Abs(a - u) <= Abs(a - v) \/ Abs(a - w) <= Abs(a - u)
  <2> HIDE DEF n, e
  <2> QED BY <1>3, <1>4, <1>5
<1> QED
  <2> HIDE DEF e
  <2> QED BY <1>3, <1>5, <1>7, <1>8

\* The marks of a sweep differ in how far they are from where it begins.
LEMMA SweepOrder ==
  ASSUME NEW a \in Pivots, NEW b \in Pivots, NEW u \in Marks(a, b)
  PROVE  /\ Abs(a - u) \in Nat /\ Abs(a - u) <= Abs(a - b) /\ u \in Pivots
         /\ \A v \in Marks(a, b) : Abs(a - u) = Abs(a - v) => u = v
<1>1. PivotLimit \in Nat /\ a \in Int /\ b \in Int /\ u \in Int
  BY LidarAssumption DEF Pivots, Marks
<1> QED BY <1>1 DEF Marks, Abs, Pivots

LEMMA SweepEnds ==
  ASSUME stride \in Nat, stride > 0, NEW a \in Pivots, NEW b \in Pivots
  PROVE  a \in Marks(a, b) /\ b \in Marks(a, b) /\ Abs(a - a) = 0 /\ DivCeil(0, stride) = 0
<1>1. PivotLimit \in Nat /\ a \in Int /\ b \in Int
  BY LidarAssumption DEF Pivots
<1>2. 0 % stride = 0 /\ (stride - 1) \div stride = 0
  <2>1. 0 = 0 * stride + 0 /\ stride - 1 = 0 * stride + (stride - 1) /\ stride - 1 \in Nat
    OBVIOUS
  <2>2. 0 % stride = 0
    BY <2>1, DivUnique, 0 \in Nat, 0 < stride
  <2>3. (stride - 1) \div stride = 0
    BY <2>1, DivUnique, 0 \in Nat, stride - 1 < stride
  <2> QED BY <2>2, <2>3
<1>3. DivCeil(0, stride) = 0
  BY <1>2 DEF DivCeil
<1>4. Abs(a - a) = 0 /\ Abs(b - b) = 0
  BY <1>1 DEF Abs
<1>5. Abs(a - b) \in Int
  BY <1>1 DEF Abs
<1> QED BY <1>1, <1>2, <1>3, <1>4, <1>5 DEF Marks

-----------------------------------------------------------------------------

\* Rows are numbered from the top; even ones run from roi.max, odd ones back.
RowAt(y) == DivCeil(Abs(roi.max.y - y), stride)
RowStart(y) == IF RowAt(y) % 2 = 0 THEN roi.max.x ELSE roi.min.x
RowEnd(y) == IF RowAt(y) % 2 = 0 THEN roi.min.x ELSE roi.max.x
ColumnAt(p) == DivCeil(Abs(RowStart(p.y) - p.x), stride)

\* The scan visits p before q.
Before(p, q) ==
  \/ Abs(roi.max.y - p.y) < Abs(roi.max.y - q.y)
  \/ p.y = q.y /\ Abs(RowStart(q.y) - p.x) < Abs(RowStart(q.y) - q.x)

ConfigOK == roi \in [min : Points, max : Points] /\ stride \in Nat /\ stride > 0

LEMMA PlanTypes ==
  ASSUME ConfigOK
  PROVE  /\ {roi.max.x, roi.max.y, roi.min.x, roi.min.y} \subseteq Pivots
         /\ Pivots \subseteq Int
         /\ \A y : RowStart(y) \in Pivots /\ RowEnd(y) \in Pivots
BY LidarAssumption DEF ConfigOK, Points, Pivots, RowStart, RowEnd

LEMMA SerpentineIs ==
  ASSUME ConfigOK, NEW p
  PROVE  p \in Serpentine <=>
           p \in Points /\ p.y \in Marks(roi.max.y, roi.min.y) /\ p.x \in Marks(RowStart(p.y), RowEnd(p.y))
BY DEF Serpentine, RowStart, RowEnd, RowAt

\* Along a row: the next mark follows the last position.
LEMMA NextInRow ==
  ASSUME ConfigOK, NEW at \in Serpentine, at.x # RowEnd(at.y),
         NEW to, to = [at EXCEPT !.x = StepToward(at.x, RowEnd(at.y), stride)]
  PROVE  /\ to \in Serpentine /\ to.y = at.y /\ ~Before(at, at)
         /\ ColumnAt(to) = ColumnAt(at) + 1
         /\ \A p \in Serpentine : Before(p, to) <=> Before(p, at) \/ p = at
<1> DEFINE a == RowStart(at.y)
           b == RowEnd(at.y)
           w == StepToward(at.x, b, stride)
<1>1. stride \in Nat /\ stride > 0 /\ a \in Pivots /\ b \in Pivots
  BY PlanTypes DEF ConfigOK
<1>2. at \in Points /\ at.y \in Marks(roi.max.y, roi.min.y) /\ at.x \in Marks(a, b)
  BY SerpentineIs
<1>3. /\ w \in Marks(a, b) /\ Abs(a - at.x) < Abs(a - w)
      /\ DivCeil(Abs(a - w), stride) = DivCeil(Abs(a - at.x), stride) + 1
      /\ \A u \in Marks(a, b) : Abs(a - u) <= Abs(a - at.x) \/ Abs(a - w) <= Abs(a - u)
  <2> HIDE DEF a
  <2> QED BY <1>1, <1>2, SweepStep
<1>4. to = [x |-> w, y |-> at.y] /\ to \in Points /\ at = [x |-> at.x, y |-> at.y]
  <2>1. w \in Pivots
    BY <1>3 DEF Marks
  <2> QED BY <1>2, <2>1 DEF Points
<1>5. to.x = w /\ to.y = at.y
  BY <1>4
<1>6. to \in Serpentine
  BY <1>2, <1>3, <1>4, <1>5, SerpentineIs
<1>7. ColumnAt(to) = ColumnAt(at) + 1
  BY <1>3, <1>5 DEF ColumnAt
<1>8. \A u \in Marks(a, b) :
        /\ Abs(a - u) \in Nat
        /\ Abs(a - u) = Abs(a - at.x) => u = at.x
  BY <1>1, <1>2, SweepOrder
<1>9. Abs(roi.max.y - at.y) \in Nat
  BY <1>2, SweepOrder, PlanTypes
<1>10. ~Before(at, at)
  BY <1>2, <1>8, <1>9 DEF Before
<1>11. ASSUME NEW p \in Serpentine
       PROVE  Before(p, to) <=> Before(p, at) \/ p = at
  <2>1. CASE p.y = at.y
    <3>1. p.x \in Marks(a, b) /\ p \in Points
      BY <2>1, SerpentineIs
    <3>2. Abs(a - p.x) < Abs(a - w) <=> Abs(a - p.x) < Abs(a - at.x) \/ p.x = at.x
      <4>1. /\ Abs(a - p.x) \in Nat /\ Abs(a - at.x) \in Nat /\ Abs(a - w) \in Nat
            /\ (Abs(a - p.x) <= Abs(a - at.x) \/ Abs(a - w) <= Abs(a - p.x))
            /\ (Abs(a - p.x) = Abs(a - at.x) => p.x = at.x)
        BY <1>2, <1>3, <1>8, <3>1
      <4> QED BY ONLY <4>1, <1>3
    <3>3. p = at <=> p.x = at.x
      BY <2>1, <3>1, <1>2 DEF Points
    <3>4. Before(p, to) <=> Abs(a - p.x) < Abs(a - w)
      BY <1>5, <1>9, <2>1 DEF Before
    <3>5. Before(p, at) <=> Abs(a - p.x) < Abs(a - at.x)
      BY <1>9, <2>1 DEF Before
    <3> QED BY <3>2, <3>3, <3>4, <3>5
  <2>2. CASE p.y # at.y
    BY <1>5, <2>2 DEF Before
  <2> QED BY <2>1, <2>2
<1> QED BY <1>5, <1>6, <1>7, <1>10, <1>11

\* From the end of a row to the next one, which runs back from there.
LEMMA NextRow ==
  ASSUME ConfigOK, NEW at \in Serpentine, at.x = RowEnd(at.y), at.y # roi.min.y,
         NEW to, to = [at EXCEPT !.y = StepToward(at.y, roi.min.y, stride)]
  PROVE  /\ to \in Serpentine /\ ~Before(at, at)
         /\ RowAt(to.y) = RowAt(at.y) + 1 /\ ColumnAt(to) = 0
         /\ RowStart(to.y) = RowEnd(at.y) /\ RowEnd(to.y) = RowStart(at.y)
         /\ \A p \in Serpentine : Before(p, to) <=> Before(p, at) \/ p = at
<1> DEFINE a == RowStart(at.y)
           b == RowEnd(at.y)
           my == roi.max.y
           w == StepToward(at.y, roi.min.y, stride)
<1>1. /\ stride \in Nat /\ stride > 0 /\ a \in Pivots /\ b \in Pivots
      /\ my \in Pivots /\ roi.min.y \in Pivots
  BY PlanTypes DEF ConfigOK
<1>2. at \in Points /\ at.y \in Marks(my, roi.min.y) /\ at.x \in Marks(a, b)
  BY SerpentineIs
<1>3. /\ w \in Marks(my, roi.min.y) /\ Abs(my - at.y) < Abs(my - w)
      /\ DivCeil(Abs(my - w), stride) = DivCeil(Abs(my - at.y), stride) + 1
      /\ \A u \in Marks(my, roi.min.y) : Abs(my - u) <= Abs(my - at.y) \/ Abs(my - w) <= Abs(my - u)
  <2> HIDE DEF my
  <2> QED BY <1>1, <1>2, SweepStep
<1>4. to = [x |-> at.x, y |-> w] /\ to \in Points
  <2>1. w \in Pivots
    BY <1>3 DEF Marks
  <2> QED BY <1>2, <2>1 DEF Points
<1>5. to.x = b /\ to.y = w
  BY <1>4
<1>6. RowAt(to.y) = RowAt(at.y) + 1
  BY <1>3, <1>5 DEF RowAt
<1>7. RowAt(at.y) \in Nat
  <2>1. Abs(my - at.y) \in Nat
    BY <1>1, <1>2, SweepOrder
  <2>2. Abs(my - at.y) + stride - 1 \in Nat
    BY <1>1, <2>1
  <2> QED BY <1>1, <2>2, DivFacts DEF RowAt, DivCeil
<1>8. (RowAt(at.y) % 2 = 0) # (RowAt(to.y) % 2 = 0)
  BY ONLY <1>6, <1>7
<1>9. RowStart(to.y) = b /\ RowEnd(to.y) = a
  BY <1>8 DEF RowStart, RowEnd
<1>10. to \in Serpentine
  <2>1. b \in Marks(b, a)
    BY <1>1, SweepEnds
  <2> QED BY <1>3, <1>4, <1>5, <1>9, <2>1, SerpentineIs
<1>11. ColumnAt(to) = 0 /\ Abs(b - b) = 0
  BY <1>1, <1>5, <1>9, SweepEnds DEF ColumnAt
<1>12. \A u \in Marks(my, roi.min.y) :
        /\ Abs(my - u) \in Nat
        /\ Abs(my - u) = Abs(my - at.y) => u = at.y
  BY <1>1, <1>2, SweepOrder
<1>13. \A u \in Marks(a, b) :
        /\ Abs(a - u) \in Nat /\ Abs(a - u) <= Abs(a - b)
        /\ Abs(a - u) = Abs(a - b) => u = b
  BY <1>1, <1>2, SweepOrder
<1>14. ~Before(at, at)
  BY <1>2, <1>12, <1>13 DEF Before
<1>15. ASSUME NEW p \in Serpentine
       PROVE  Before(p, to) <=> Before(p, at) \/ p = at
  <2>1. p.y \in Marks(my, roi.min.y) /\ p.x \in Marks(RowStart(p.y), RowEnd(p.y)) /\ p \in Points
    BY SerpentineIs
  <2>2. Before(p, to) <=> Abs(my - p.y) < Abs(my - w)
    <3>1. CASE p.y = to.y
      <4>1. Abs(RowStart(to.y) - p.x) \in Nat
        BY <1>1, <1>9, <2>1, <3>1, SweepOrder
      <4> QED BY <1>5, <1>9, <1>11, <4>1 DEF Before
    <3>2. CASE p.y # to.y
      BY <1>5, <3>2 DEF Before
    <3> QED BY <3>1, <3>2
  <2>3. Abs(my - p.y) < Abs(my - w) <=> Abs(my - p.y) < Abs(my - at.y) \/ p.y = at.y
    <3>1. /\ Abs(my - p.y) \in Nat /\ Abs(my - at.y) \in Nat /\ Abs(my - w) \in Nat
          /\ (Abs(my - p.y) <= Abs(my - at.y) \/ Abs(my - w) <= Abs(my - p.y))
          /\ (Abs(my - p.y) = Abs(my - at.y) => p.y = at.y)
      BY <1>2, <1>3, <1>12, <2>1
    <3> QED BY ONLY <3>1, <1>3
  <2>4. CASE p.y = at.y
    <3>1. Abs(a - p.x) < Abs(a - at.x) \/ p.x = at.x
      <4>1. /\ Abs(a - p.x) \in Nat /\ Abs(a - b) \in Nat /\ Abs(a - p.x) <= Abs(a - b)
            /\ (Abs(a - p.x) = Abs(a - b) => p.x = b)
        BY <1>2, <1>13, <2>1, <2>4
      <4> QED BY ONLY <4>1, at.x = b
    <3>2. p = at <=> p.x = at.x
      BY <2>1, <2>4, <1>2 DEF Points
    <3> QED BY <2>2, <2>3, <2>4, <3>1, <3>2 DEF Before
  <2>5. CASE p.y # at.y
    BY <2>2, <2>3, <2>5 DEF Before
  <2> QED BY <2>4, <2>5
<1> QED BY <1>6, <1>9, <1>10, <1>11, <1>14, <1>15

\* In the last row's last position all others were visited.
LEMMA LastOfScan ==
  ASSUME ConfigOK, NEW at \in Serpentine, at.x = RowEnd(at.y), at.y = roi.min.y
  PROVE  ~Before(at, at) /\ \A p \in Serpentine : Before(p, at) \/ p = at
<1> DEFINE a == RowStart(at.y)
           b == RowEnd(at.y)
           my == roi.max.y
<1>1. a \in Pivots /\ b \in Pivots /\ my \in Pivots /\ roi.min.y \in Pivots
  BY PlanTypes
<1>2. at \in Points /\ at.y \in Marks(my, roi.min.y) /\ at.x \in Marks(a, b)
  BY SerpentineIs
<1>3. \A u \in Marks(my, roi.min.y) :
        /\ Abs(my - u) \in Nat /\ Abs(my - u) <= Abs(my - at.y)
        /\ Abs(my - u) = Abs(my - at.y) => u = at.y
  BY <1>1, <1>2, SweepOrder
<1>4. \A u \in Marks(a, b) :
        /\ Abs(a - u) \in Nat /\ Abs(a - u) <= Abs(a - at.x)
        /\ Abs(a - u) = Abs(a - at.x) => u = at.x
  BY <1>1, <1>2, SweepOrder
<1>5. ~Before(at, at)
  BY <1>2, <1>3, <1>4 DEF Before
<1>6. ASSUME NEW p \in Serpentine, p # at
      PROVE  Before(p, at)
  <2>1. p.y \in Marks(my, roi.min.y) /\ p.x \in Marks(RowStart(p.y), RowEnd(p.y)) /\ p \in Points
    BY SerpentineIs
  <2>2. CASE p.y # at.y
    <3>1. Abs(my - p.y) < Abs(my - at.y)
      <4>1. /\ Abs(my - p.y) \in Nat /\ Abs(my - at.y) \in Nat
            /\ Abs(my - p.y) <= Abs(my - at.y) /\ Abs(my - p.y) # Abs(my - at.y)
        BY <1>2, <1>3, <2>1, <2>2
      <4> QED BY ONLY <4>1
    <3> QED BY <3>1 DEF Before
  <2>3. CASE p.y = at.y
    <3>1. p.x # at.x
      BY <1>2, <1>6, <2>1, <2>3 DEF Points
    <3>2. Abs(a - p.x) < Abs(a - at.x)
      <4>1. /\ Abs(a - p.x) \in Nat /\ Abs(a - at.x) \in Nat
            /\ Abs(a - p.x) <= Abs(a - at.x) /\ Abs(a - p.x) # Abs(a - at.x)
        BY <1>2, <1>4, <2>1, <2>3, <3>1
      <4> QED BY ONLY <4>1
    <3> QED BY <2>3, <3>2 DEF Before
  <2> QED BY <2>2, <2>3
<1> QED BY <1>5, <1>6

PlanOf(from, to, limit) ==
  [start |-> roi.max, end |-> roi.min, step |-> stride, from |-> from, target |-> to, limit |-> limit]

\* A scan that nothing came in the way of stands at the position `at`: it has recorded
\* exactly the positions before that one, each once, and so many chunks have gone.
SweepAt(at) ==
  /\ \E from : scan = PlanOf(from, at, RowEnd(at.y))
  /\ at \in Serpentine /\ planned = Serpentine
  /\ places = {p \in planned : Before(p, at)} /\ IsFiniteSet(places)
  /\ count = Cardinality(places)
  /\ count = RowAt(at.y) * PositionsOn(roi.max.x, roi.min.x) + ColumnAt(at)
  /\ buffered \in Nat /\ buffered < ChunkSize /\ chunk \in Nat /\ chunk > 0
  /\ count = (chunk - 1) * ChunkSize + buffered
  /\ chunks = DivCeil(PositionsOn(roi.max.x, roi.min.x) * PositionsOn(roi.max.y, roi.min.y), ChunkSize)

CoverInv ==
  /\ ConfigOK
  /\ lidarMode = "Scanning" /\ disturbed = {} => SweepAt(Position)
  /\ ScanCoversRegion

LEMMA CountTypes ==
  ASSUME ConfigOK
  PROVE  /\ ChunkSize \in Nat /\ ChunkSize > 0
         /\ PositionsOn(roi.max.x, roi.min.x) \in Nat /\ PositionsOn(roi.max.x, roi.min.x) > 0
         /\ PositionsOn(roi.max.y, roi.min.y) \in Nat
         /\ \A p \in Serpentine : RowAt(p.y) \in Nat /\ ColumnAt(p) \in Nat
<1>1. stride \in Nat /\ stride > 0
  BY DEF ConfigOK
<1>2. ASSUME NEW n \in Nat PROVE DivCeil(n, stride) \in Nat
  <2>1. n + stride - 1 \in Nat
    BY <1>1
  <2> QED BY <1>1, <2>1, DivFacts DEF DivCeil
<1>3. \A a, b \in Pivots : Abs(a - b) \in Nat
  BY LidarAssumption DEF Pivots, Abs
<1>4. \A a, b \in Pivots : DivCeil(Abs(a - b), stride) \in Nat
  BY <1>2, <1>3
<1>5. ASSUME NEW p \in Serpentine
      PROVE  RowAt(p.y) \in Nat /\ ColumnAt(p) \in Nat
  <2>1. p.x \in Pivots /\ p.y \in Pivots
    BY SerpentineIs DEF Points
  <2> QED BY <1>4, <2>1, PlanTypes DEF RowAt, ColumnAt
<1>6. /\ DivCeil(Abs(roi.max.x - roi.min.x), stride) \in Nat
      /\ DivCeil(Abs(roi.max.y - roi.min.y), stride) \in Nat
  BY <1>4, PlanTypes
<1> QED BY <1>5, <1>6, LidarAssumption DEF PositionsOn

\* The end of a row is as many columns away as the row has, less one.
LEMMA RowWidth ==
  ASSUME ConfigOK, NEW at, at.x = RowEnd(at.y)
  PROVE  ColumnAt(at) + 1 = PositionsOn(roi.max.x, roi.min.x)
<1>1. roi.max.x \in Int /\ roi.min.x \in Int
  BY PlanTypes
<1>2. Abs(roi.max.x - roi.min.x) = Abs(roi.min.x - roi.max.x)
  BY <1>1 DEF Abs
<1> QED BY <1>2 DEF ColumnAt, PositionsOn, RowStart, RowEnd

\* The plan's operators depend on the region and the step alone.
LEMMA PlanStays ==
  ASSUME UNCHANGED <<roi, stride>>
  PROVE  /\ ConfigOK' = ConfigOK /\ Serpentine' = Serpentine
         /\ \A y : RowAt(y)' = RowAt(y) /\ RowStart(y)' = RowStart(y) /\ RowEnd(y)' = RowEnd(y)
         /\ \A p : ColumnAt(p)' = ColumnAt(p)
         /\ \A p, q : Before(p, q)' = Before(p, q)
         /\ \A a, b : PositionsOn(a, b)' = PositionsOn(a, b)
<1>1. \A a, b : Marks(a, b)' = Marks(a, b)
  BY DEF Marks
<1>2. Serpentine' = Serpentine
  BY <1>1 DEF Serpentine
<1>3. \A y : RowAt(y)' = RowAt(y) /\ RowStart(y)' = RowStart(y) /\ RowEnd(y)' = RowEnd(y)
  BY DEF RowAt, RowStart, RowEnd
<1>4. \A p, q : Before(p, q)' = Before(p, q)
  BY DEF Before, RowStart, RowAt
<1>5. \A p : ColumnAt(p)' = ColumnAt(p)
  BY DEF ColumnAt, RowStart, RowAt
<1>6. ConfigOK' = ConfigOK
  BY DEF ConfigOK
<1>7. \A a, b : PositionsOn(a, b)' = PositionsOn(a, b)
  BY DEF PositionsOn
<1> QED BY <1>2, <1>3, <1>4, <1>5, <1>6, <1>7

\* Servos that reach every target do not stall.
LEMMA NeverStalls ==
  ASSUME SweepAt(Position)
  PROVE  /\ RowFinished(Position) <=> Position.x = RowEnd(Position.y)
         /\ ScanFinished(Position) <=> Position.x = RowEnd(Position.y) /\ Position.y = roi.min.y
<1>1. /\ scan.target = Position /\ scan.limit = RowEnd(Position.y) /\ scan.end = roi.min
  BY DEF SweepAt, PlanOf
<1>2. ~Stalled("x", Position) /\ ~Stalled("y", Position)
  BY <1>1 DEF Stalled, Position
<1> QED BY <1>1, <1>2 DEF RowFinished, ScanFinished

PlanFields == {"start", "end", "step", "from", "target", "limit"}

LEMMA PlanIs ==
  ASSUME NEW r, DOMAIN r = PlanFields, r = [k \in DOMAIN r |-> r[k]],
         r.start = roi.max, r.end = roi.min, r.step = stride
  PROVE  r = PlanOf(r.from, r.target, r.limit)
BY DEF PlanOf, PlanFields

\* The next target.
LEMMA NextTarget ==
  ASSUME ConfigOK, SweepAt(Position), ~ScanFinished(Position),
         NEW to, to = Advanced(Position).target
  PROVE  /\ to \in Serpentine /\ ~Before(Position, Position)
         /\ \A p \in Serpentine : Before(p, to) <=> Before(p, Position) \/ p = Position
         /\ RowAt(to.y) * PositionsOn(roi.max.x, roi.min.x) + ColumnAt(to)
              = RowAt(Position.y) * PositionsOn(roi.max.x, roi.min.x) + ColumnAt(Position) + 1
         /\ Advanced(Position) = PlanOf(Position, to, RowEnd(to.y))
<1> DEFINE at == Position
           w == PositionsOn(roi.max.x, roi.min.x)
<1>1. /\ at \in Serpentine
      /\ scan.start = roi.max /\ scan.end = roi.min /\ scan.step = stride /\ scan.limit = RowEnd(at.y)
  BY DEF SweepAt, PlanOf
<1> PICK from : scan = PlanOf(from, at, RowEnd(at.y))
  BY DEF SweepAt
<1>2. /\ w \in Nat /\ RowAt(at.y) \in Nat /\ ColumnAt(at) \in Nat
  BY <1>1, CountTypes
<1>3. CASE at.x # RowEnd(at.y)
  <2>1. Advanced(at) = [scan EXCEPT !.from = at, !.target = [at EXCEPT !.x = StepToward(at.x, scan.limit, scan.step)]]
    BY <1>3, NeverStalls DEF Advanced
  <2>2. to = [at EXCEPT !.x = StepToward(at.x, RowEnd(at.y), stride)]
    BY <1>1, <2>1
  <2>3. /\ to \in Serpentine /\ to.y = at.y /\ ~Before(at, at)
        /\ ColumnAt(to) = ColumnAt(at) + 1
        /\ \A p \in Serpentine : Before(p, to) <=> Before(p, at) \/ p = at
    <3> HIDE DEF at
    <3> QED BY <1>1, <1>3, <2>2, NextInRow
  <2>4. RowAt(to.y) * w + ColumnAt(to) = RowAt(at.y) * w + ColumnAt(at) + 1
    <3>1. RowAt(at.y) * w \in Nat /\ RowAt(to.y) = RowAt(at.y)
      BY <1>2, <2>3
    <3> HIDE DEF at, w
    <3> QED BY ONLY <3>1, <1>2, <2>3
  <2>5. Advanced(at) = PlanOf(at, to, RowEnd(to.y))
    <3>1. RowEnd(to.y) = scan.limit
      BY <1>1, <2>3
    <3>2. /\ DOMAIN Advanced(at) = PlanFields
          /\ Advanced(at) = [k \in DOMAIN Advanced(at) |-> Advanced(at)[k]]
      <4>1. DOMAIN scan = PlanFields
        BY DEF PlanOf, PlanFields
      <4> QED BY ONLY <4>1, <2>1
    <3>3. /\ Advanced(at).start = roi.max /\ Advanced(at).end = roi.min
          /\ Advanced(at).step = stride /\ Advanced(at).from = at /\ Advanced(at).target = to
      BY <2>1, <1>1
    <3>4. Advanced(at).limit = RowEnd(to.y)
      BY <2>1, <1>1, <3>1
    <3> DEFINE r == Advanced(at)
    <3> HIDE DEF r, at
    <3>5. r = PlanOf(r.from, r.target, r.limit)
      BY <3>2, <3>3, PlanIs DEF r
    <3> QED BY <3>3, <3>4, <3>5 DEF r
  <2> HIDE DEF w
  <2> QED BY <2>3, <2>4, <2>5 DEF w
<1>4. CASE at.x = RowEnd(at.y)
  <2>1. at.y # roi.min.y
    BY <1>4, NeverStalls
  <2>2. Advanced(at) = [scan EXCEPT !.from = at,
                          !.limit = IF @ = scan.end.x THEN scan.start.x ELSE scan.end.x,
                          !.target = [at EXCEPT !.y = StepToward(at.y, scan.end.y, scan.step)]]
    BY <1>4, NeverStalls DEF Advanced
  <2>3. to = [at EXCEPT !.y = StepToward(at.y, roi.min.y, stride)]
    BY <1>1, <2>2
  <2>4. /\ to \in Serpentine /\ ~Before(at, at)
        /\ RowAt(to.y) = RowAt(at.y) + 1 /\ ColumnAt(to) = 0
        /\ RowStart(to.y) = RowEnd(at.y) /\ RowEnd(to.y) = RowStart(at.y)
        /\ \A p \in Serpentine : Before(p, to) <=> Before(p, at) \/ p = at
    <3> HIDE DEF at
    <3> QED BY <1>1, <1>4, <2>1, <2>3, NextRow
  <2>5. RowAt(to.y) * w + ColumnAt(to) = RowAt(at.y) * w + ColumnAt(at) + 1
    <3>1. ColumnAt(at) + 1 = w
      <4> HIDE DEF at
      <4> QED BY <1>4, RowWidth
    <3>2. (RowAt(at.y) + 1) * w = RowAt(at.y) * w + w /\ RowAt(at.y) * w \in Nat
      BY <1>2
    <3> HIDE DEF at, w
    <3> QED BY ONLY <3>1, <3>2, <1>2, <2>4
  <2>6. Advanced(at) = PlanOf(at, to, RowEnd(to.y))
    <3>1. RowEnd(to.y) = IF scan.limit = scan.end.x THEN scan.start.x ELSE scan.end.x
      BY <1>1, <2>4 DEF RowStart, RowEnd
    <3>2. /\ DOMAIN Advanced(at) = PlanFields
          /\ Advanced(at) = [k \in DOMAIN Advanced(at) |-> Advanced(at)[k]]
      <4>1. DOMAIN scan = PlanFields
        BY DEF PlanOf, PlanFields
      <4> QED BY ONLY <4>1, <2>2
    <3>3. /\ Advanced(at).start = roi.max /\ Advanced(at).end = roi.min
          /\ Advanced(at).step = stride /\ Advanced(at).from = at /\ Advanced(at).target = to
      BY <2>2, <1>1
    <3>4. Advanced(at).limit = RowEnd(to.y)
      BY <2>2, <1>1, <3>1
    <3> DEFINE r == Advanced(at)
    <3> HIDE DEF r, at
    <3>5. r = PlanOf(r.from, r.target, r.limit)
      BY <3>2, <3>3, PlanIs DEF r
    <3> QED BY <3>3, <3>4, <3>5 DEF r
  <2> HIDE DEF w
  <2> QED BY <2>4, <2>5, <2>6 DEF w
<1> QED BY <1>3, <1>4

\* A reading that counts, at a position that is not the last: one position more is
\* recorded, a full chunk goes, and the servos stand at the next target.
LEMMA ReadingGoesOn ==
  ASSUME ConfigOK, SweepAt(Position), UsableReading(TRUE), disturbed' = {}, ~ScanFinished(Position)
  PROVE  lidarMode' = "Scanning" /\ ConfigOK' /\ SweepAt(Position)'
<1> DEFINE at == Position
           to == Advanced(Position).target
           w == PositionsOn(roi.max.x, roi.min.x)
<1>1. PICK m \in Moves(to) :
        /\ MoveServos(m)
        /\ IF m.ok
             THEN /\ scan' = Advanced(at) /\ UNCHANGED lidarMode
                  /\ IF buffered + 1 >= ChunkSize THEN Flush(buffered + 1)
                     ELSE buffered' = buffered + 1 /\ UNCHANGED chunk
             ELSE EndScan("StopScan", buffered + 1)
        /\ disturbed' = disturbed \cup {} \cup Interference(m)
  BY DEF UsableReading
<1>2. m.ok /\ [x |-> m.servo.x.at, y |-> m.servo.y.at] = scan'.target
  BY <1>1 DEF Interference, Destination
<1>3. scan' = Advanced(at) /\ lidarMode' = "Scanning" /\ Position' = to
  BY <1>1, <1>2 DEF MoveServos, Position, UsableReading
<1>4. UNCHANGED <<roi, stride, planned, chunks>>
  BY DEF UsableReading
<1>5. /\ to \in Serpentine /\ ~Before(at, at)
      /\ \A p \in Serpentine : Before(p, to) <=> Before(p, at) \/ p = at
      /\ RowAt(to.y) * w + ColumnAt(to) = RowAt(at.y) * w + ColumnAt(at) + 1
      /\ Advanced(at) = PlanOf(at, to, RowEnd(to.y))
  <2> HIDE DEF to
  <2> QED BY NextTarget DEF to
<1>6. places' = places \cup {at} /\ count' = count + 1
  BY DEF UsableReading
<1>7. /\ at \in Serpentine /\ planned = Serpentine /\ IsFiniteSet(places)
      /\ places = {p \in planned : Before(p, at)} /\ count = Cardinality(places)
      /\ count = RowAt(at.y) * w + ColumnAt(at)
      /\ count = (chunk - 1) * ChunkSize + buffered
      /\ buffered \in Nat /\ buffered < ChunkSize /\ chunk \in Nat /\ chunk > 0
      /\ chunks = DivCeil(w * PositionsOn(roi.max.y, roi.min.y), ChunkSize)
  BY DEF SweepAt
<1> HIDE DEF at, to, w
<1>8. places' = {p \in planned : Before(p, to)}
  BY <1>5, <1>6, <1>7
<1>9. IsFiniteSet(places') /\ count' = Cardinality(places')
  <2>1. at \notin places
    BY <1>5, <1>7
  <2>2. IsFiniteSet(places \cup {at}) /\ Cardinality(places \cup {at}) = Cardinality(places) + 1
    BY ONLY <1>7, <2>1, FS_AddElement
  <2> QED BY ONLY <1>6, <1>7, <2>2
<1>10. count' = RowAt(to.y) * w + ColumnAt(to)
  BY <1>5, <1>6, <1>7
<1>11. /\ buffered' \in Nat /\ buffered' < ChunkSize /\ chunk' \in Nat /\ chunk' > 0
       /\ count' = (chunk' - 1) * ChunkSize + buffered'
  <2>1. ChunkSize \in Nat /\ ChunkSize > 0
    BY CountTypes
  <2>2. (chunk - 1) * ChunkSize \in Nat /\ chunk * ChunkSize = (chunk - 1) * ChunkSize + ChunkSize
    BY <1>7, <2>1
  <2>3. CASE buffered + 1 >= ChunkSize
    <3>1. buffered' = 0 /\ chunk' = chunk + 1 /\ buffered + 1 = ChunkSize
      BY <1>1, <1>2, <1>7, <2>1, <2>3 DEF Flush
    <3>2. chunk' - 1 = chunk
      BY <1>7, <3>1
    <3> QED BY <1>6, <1>7, <2>1, <2>2, <3>1, <3>2
  <2>4. CASE ~(buffered + 1 >= ChunkSize)
    <3>1. buffered' = buffered + 1 /\ chunk' = chunk
      BY <1>1, <1>2, <2>4
    <3> QED BY <1>6, <1>7, <2>1, <2>2, <2>4, <3>1
  <2> QED BY <2>3, <2>4
<1>12. /\ ConfigOK' = ConfigOK /\ Serpentine' = Serpentine
       /\ \A y : RowAt(y)' = RowAt(y) /\ RowEnd(y)' = RowEnd(y)
       /\ \A p : ColumnAt(p)' = ColumnAt(p)
       /\ \A p, q : Before(p, q)' = Before(p, q)
       /\ \A a, b : PositionsOn(a, b)' = PositionsOn(a, b)
  BY <1>4, PlanStays
<1>13. SweepAt(Position)'
  <2>1. (\E from : scan = PlanOf(from, Position, RowEnd(Position.y)))'
    BY <1>3, <1>4, <1>5, <1>12 DEF PlanOf
  <2>2. (Position \in Serpentine /\ planned = Serpentine)'
    BY <1>3, <1>4, <1>5, <1>7, <1>12
  <2>3. (places = {p \in planned : Before(p, Position)})'
    BY <1>3, <1>4, <1>8, <1>12
  <2>4. (count = RowAt(Position.y) * PositionsOn(roi.max.x, roi.min.x) + ColumnAt(Position))'
    BY <1>3, <1>4, <1>10, <1>12 DEF w
  <2>5. (chunks = DivCeil(PositionsOn(roi.max.x, roi.min.x) * PositionsOn(roi.max.y, roi.min.y), ChunkSize))'
    BY <1>4, <1>7, <1>12 DEF w, DivCeil
  <2> QED BY <1>9, <1>11, <2>1, <2>2, <2>3, <2>4, <2>5 DEF SweepAt
<1> QED BY <1>3, <1>12, <1>13

\* The reading at the last position: everything is recorded, and all chunks have gone.
LEMMA ReadingFinishes ==
  ASSUME ConfigOK, SweepAt(Position), UsableReading(TRUE), ScanFinished(Position)
  PROVE  /\ lidarMode' = "Idol" /\ ConfigOK'
         /\ places' = planned' /\ count' = Cardinality(planned') /\ chunk' = chunks' + 1
<1> DEFINE at == Position
           w == PositionsOn(roi.max.x, roi.min.x)
           h == PositionsOn(roi.max.y, roi.min.y)
<1>1. /\ places' = places \cup {at} /\ count' = count + 1
      /\ EndScan("Idol", buffered + 1)
      /\ UNCHANGED <<roi, stride, planned, chunks>>
  BY DEF UsableReading
<1>2. /\ at \in Serpentine /\ planned = Serpentine /\ IsFiniteSet(places)
      /\ places = {p \in planned : Before(p, at)} /\ count = Cardinality(places)
      /\ count = RowAt(at.y) * w + ColumnAt(at)
      /\ count = (chunk - 1) * ChunkSize + buffered
      /\ buffered \in Nat /\ buffered < ChunkSize /\ chunk \in Nat /\ chunk > 0
      /\ chunks = DivCeil(w * h, ChunkSize)
  BY DEF SweepAt
<1>3. at.x = RowEnd(at.y) /\ at.y = roi.min.y
  BY NeverStalls
<1>4. ColumnAt(at) + 1 = w /\ RowAt(at.y) + 1 = h
  <2>1. ColumnAt(at) + 1 = w
    <3> HIDE DEF at
    <3> QED BY <1>3, RowWidth
  <2>2. RowAt(at.y) + 1 = h
    BY <1>3 DEF RowAt, PositionsOn
  <2> QED BY <2>1, <2>2
<1> HIDE DEF at, w, h
<1>5. ~Before(at, at) /\ \A p \in Serpentine : Before(p, at) \/ p = at
  BY <1>2, <1>3, LastOfScan
<1>6. places' = planned /\ at \notin places
  BY <1>1, <1>2, <1>5
<1>7. count' = Cardinality(planned)
  <2>1. Cardinality(places \cup {at}) = Cardinality(places) + 1
    BY ONLY <1>2, <1>6, FS_AddElement
  <2> QED BY ONLY <1>1, <1>2, <1>6, <2>1
<1>8. /\ w \in Nat /\ h \in Nat /\ RowAt(at.y) \in Nat /\ ColumnAt(at) \in Nat
      /\ ChunkSize \in Nat /\ ChunkSize > 0
  BY <1>2, CountTypes DEF w, h
<1>9. count + 1 = w * h
  <2>1. (RowAt(at.y) + 1) * w = RowAt(at.y) * w + w /\ RowAt(at.y) * w \in Nat /\ h * w = w * h
    BY <1>8
  <2>2. count + 1 = (RowAt(at.y) + 1) * w
    BY ONLY <1>2, <1>4, <1>8, <2>1
  <2> QED BY <1>4, <2>1, <2>2
<1>10. chunks = chunk
  <2>1. /\ chunk - 1 \in Nat /\ (chunk - 1) * ChunkSize \in Nat
        /\ (chunk - 1) * ChunkSize < count + 1
        /\ count + 1 <= (chunk - 1) * ChunkSize + ChunkSize
    BY <1>2, <1>8
  <2>2. count + 1 \in Nat
    BY <1>2, <2>1
  <2>3. DivCeil(count + 1, ChunkSize) = (chunk - 1) + 1
    BY <1>8, <2>1, <2>2, DivCeilIs
  <2> QED BY <1>2, <1>9, <2>1, <2>3
<1>11. chunk' = chunk + 1 /\ lidarMode' = "Idol"
  BY <1>1, <1>2 DEF EndScan, Flush
<1>12. ConfigOK'
  BY <1>1 DEF ConfigOK
<1> QED BY <1>1, <1>6, <1>7, <1>10, <1>11, <1>12

\* A scan begins at its first position with nothing recorded.
LEMMA SweepBegins ==
  ASSUME ConfigOK, UNCHANGED <<roi, stride>>, Position' = roi.max, scan' = NewPlan,
         planned' = Serpentine, places' = {}, count' = 0, buffered' = 0, chunk' = 1,
         chunks' = DivCeil(PositionsOn(roi.max.x, roi.min.x) * PositionsOn(roi.max.y, roi.min.y), ChunkSize)
  PROVE  SweepAt(Position)'
<1> DEFINE at == roi.max
           w == PositionsOn(roi.max.x, roi.min.x)
<1>1. /\ stride \in Nat /\ stride > 0 /\ at \in Points
      /\ {roi.max.x, roi.max.y, roi.min.x, roi.min.y} \subseteq Pivots
  BY PlanTypes DEF ConfigOK
<1>2. /\ at.y \in Marks(roi.max.y, roi.min.y) /\ Abs(at.y - at.y) = 0
      /\ at.x \in Marks(roi.max.x, roi.min.x) /\ Abs(at.x - at.x) = 0
      /\ DivCeil(0, stride) = 0
  BY <1>1, SweepEnds
<1>3. RowAt(at.y) = 0 /\ RowStart(at.y) = at.x /\ RowEnd(at.y) = roi.min.x
  BY <1>2 DEF RowAt, RowStart, RowEnd
<1>4. at \in Serpentine /\ ColumnAt(at) = 0
  BY <1>1, <1>2, <1>3, SerpentineIs DEF ColumnAt
<1>5. \A p \in Serpentine : ~Before(p, at)
  <2> SUFFICES ASSUME NEW p \in Serpentine PROVE ~Before(p, at)
    OBVIOUS
  <2>1. p.y \in Marks(roi.max.y, roi.min.y) /\ p.x \in Marks(RowStart(p.y), RowEnd(p.y))
    BY SerpentineIs
  <2>2. Abs(roi.max.y - p.y) \in Nat /\ RowStart(p.y) \in Pivots /\ RowEnd(p.y) \in Pivots
    BY <1>1, <2>1, SweepOrder, PlanTypes
  <2>3. Abs(RowStart(p.y) - p.x) \in Nat
    BY <2>1, <2>2, SweepOrder
  <2> QED BY <1>2, <1>3, <2>2, <2>3 DEF Before
<1>6. /\ Serpentine' = Serpentine
      /\ \A y : RowAt(y)' = RowAt(y) /\ RowEnd(y)' = RowEnd(y)
      /\ \A p : ColumnAt(p)' = ColumnAt(p)
      /\ \A p, q : Before(p, q)' = Before(p, q)
      /\ \A a, b : PositionsOn(a, b)' = PositionsOn(a, b)
  BY PlanStays
<1>7. (\E from : scan = PlanOf(from, Position, RowEnd(Position.y)))'
  BY <1>3, <1>6 DEF PlanOf, NewPlan
<1>8. w \in Nat /\ ChunkSize \in Nat /\ ChunkSize > 0
  BY CountTypes
<1>9. IsFiniteSet(places') /\ count' = Cardinality(places') /\ places' = {p \in Serpentine : Before(p, at)}
  BY <1>5, FS_EmptySet
<1>10. count' = RowAt(at.y) * w + ColumnAt(at)
  BY <1>3, <1>4, <1>8
<1>11. /\ buffered' \in Nat /\ buffered' < ChunkSize /\ chunk' \in Nat /\ chunk' > 0
       /\ count' = (chunk' - 1) * ChunkSize + buffered'
  BY <1>8
<1>12. (count = RowAt(Position.y) * PositionsOn(roi.max.x, roi.min.x) + ColumnAt(Position))'
  BY <1>6, <1>10
<1>13. (chunks = DivCeil(PositionsOn(roi.max.x, roi.min.x) * PositionsOn(roi.max.y, roi.min.y), ChunkSize))'
  BY <1>6 DEF DivCeil
<1>14. (places = {p \in planned : Before(p, Position)})'
  BY <1>6, <1>9
<1>15. (Position \in Serpentine /\ planned = Serpentine)'
  BY <1>4, <1>6
<1> QED BY <1>7, <1>9, <1>11, <1>12, <1>13, <1>14, <1>15 DEF SweepAt

\* What leaves the plan and the record alone leaves the scan where it is.
LEMMA SweepStays ==
  ASSUME CoverInv,
         UNCHANGED <<Position, scan, lidarMode, buffered, chunk, chunks, places, count, planned, roi, stride>>,
         disturbed' = {} => disturbed = {}
  PROVE  CoverInv'
<1>1. /\ ConfigOK' = ConfigOK /\ Serpentine' = Serpentine
      /\ \A y : RowAt(y)' = RowAt(y) /\ RowEnd(y)' = RowEnd(y)
      /\ \A p : ColumnAt(p)' = ColumnAt(p)
      /\ \A p, q : Before(p, q)' = Before(p, q)
      /\ \A a, b : PositionsOn(a, b)' = PositionsOn(a, b)
  BY PlanStays
<1>2. ScanCoversRegion'
  BY DEF CoverInv, ScanCoversRegion
<1>3. ASSUME SweepAt(Position) PROVE SweepAt(Position)'
  <2>1. (\E from : scan = PlanOf(from, Position, RowEnd(Position.y)))'
    BY <1>1, <1>3 DEF SweepAt, PlanOf
  <2>2. (Position \in Serpentine /\ planned = Serpentine)'
    BY <1>1, <1>3 DEF SweepAt
  <2>3. (places = {p \in planned : Before(p, Position)})'
    BY <1>1, <1>3 DEF SweepAt
  <2>4. (count = RowAt(Position.y) * PositionsOn(roi.max.x, roi.min.x) + ColumnAt(Position))'
    BY <1>1, <1>3 DEF SweepAt
  <2>5. (chunks = DivCeil(PositionsOn(roi.max.x, roi.min.x) * PositionsOn(roi.max.y, roi.min.y), ChunkSize))'
    BY <1>1, <1>3 DEF SweepAt, DivCeil
  <2>6. (/\ IsFiniteSet(places) /\ count = Cardinality(places)
         /\ buffered \in Nat /\ buffered < ChunkSize /\ chunk \in Nat /\ chunk > 0
         /\ count = (chunk - 1) * ChunkSize + buffered)'
    BY <1>3 DEF SweepAt
  <2> QED BY <2>1, <2>2, <2>3, <2>4, <2>5, <2>6 DEF SweepAt
<1> QED BY <1>1, <1>2, <1>3 DEF CoverInv

LEMMA CoverNext ==
  ASSUME CoverInv, [LidarNext]_lidarVars
  PROVE  CoverInv'
<1>1. CASE UNCHANGED lidarVars
  BY <1>1, SweepStays DEF lidarVars, pointVars, Position
<1>2. CASE EarlyReading \/ Elapse
  BY <1>2, SweepStays DEF EarlyReading, Elapse, pointVars, Position
<1>3. CASE \E valid \in BOOLEAN : UsableReading(valid)
  <2> PICK valid \in BOOLEAN : UsableReading(valid)
    BY <1>3
  <2>1. lidarMode = "Scanning" /\ ConfigOK /\ UNCHANGED <<roi, stride>>
    BY DEF UsableReading, CoverInv
  <2>2. CASE disturbed' # {}
    BY <2>1, <2>2, PlanStays DEF CoverInv, ScanCoversRegion
  <2>3. CASE disturbed' = {}
    <3>1. valid = TRUE /\ disturbed = {}
      BY <2>3 DEF UsableReading
    <3>2. SweepAt(Position) /\ UsableReading(TRUE)
      BY <2>1, <3>1 DEF CoverInv
    <3>3. CASE ScanFinished(Position)
      BY <2>1, <3>2, <3>3, ReadingFinishes DEF CoverInv, ScanCoversRegion
    <3>4. CASE ~ScanFinished(Position)
      BY <2>1, <2>3, <3>2, <3>4, ReadingGoesOn DEF CoverInv, ScanCoversRegion
    <3> QED BY <3>3, <3>4
  <2> QED BY <2>2, <2>3
<1>4. CASE ReadingTimesOut \/ StopScan \/ MoveByModule \/ MoveDirectly \/ CommandRanger
  <2>1. disturbed' # {} /\ UNCHANGED <<roi, stride>>
    BY <1>4 DEF ReadingTimesOut, StopScan, MoveByModule, MoveDirectly, CommandRanger
  <2> QED BY <2>1, PlanStays DEF CoverInv, ScanCoversRegion
<1>5. CASE Configure
  <2>1. ConfigOK'
    <3>1. ConfigOK /\ ((roi' \in Rois /\ stride' = stride) \/ (stride' \in Steps /\ roi' = roi))
      BY <1>5 DEF Configure, CoverInv
    <3>2. (\A r \in Rois : r \in [min : Points, max : Points]) /\ (\A s \in Steps : s \in Nat /\ s > 0)
      BY LidarAssumption
    <3> QED BY <3>1, <3>2 DEF ConfigOK
  <2>2. ~(lidarMode' = "Scanning" /\ disturbed' = {})
    <3>1. scan = NoScan /\ UNCHANGED <<lidarMode, disturbed>>
      BY <1>5 DEF Configure
    <3>2. ASSUME SweepAt(Position) PROVE scan # NoScan
      <4>1. \E from : scan = PlanOf(from, Position, RowEnd(Position.y))
        BY <3>2 DEF SweepAt
      <4>2. "start" \in DOMAIN scan /\ "start" \notin DOMAIN NoScan
        BY <4>1 DEF PlanOf, NoScan
      <4> QED BY <4>2
    <3> QED BY <3>1, <3>2 DEF CoverInv
  <2>3. ScanCoversRegion'
    BY <1>5 DEF Configure, pointVars, CoverInv, ScanCoversRegion
  <2> QED BY <2>1, <2>2, <2>3 DEF CoverInv
<1>6. CASE StartScan
  <2>1. UNCHANGED <<roi, stride>> /\ ConfigOK
    BY <1>6 DEF StartScan, CoverInv
  <2>2. CASE UNCHANGED <<servo, lidarMode, scan, chunks, ranging, timeVars, pointVars, planned, disturbed>>
    BY <2>1, <2>2, SweepStays DEF pointVars, Position
  <2>3. CASE disturbed' # {}
    BY <2>1, <2>3, PlanStays DEF CoverInv, ScanCoversRegion
  <2>4. ASSUME NEW m \in Moves(NewPlan.start), m.ok, MoveServos(m), scan' = NewPlan,
               lidarMode' = "Scanning", buffered' = 0, chunk' = 1, places' = {}, count' = 0,
               chunks' = DivCeil(PositionsOn(roi.max.x, roi.min.x) * PositionsOn(roi.max.y, roi.min.y), ChunkSize),
               planned' = Serpentine, Interference(m) = {}
        PROVE  CoverInv'
    <3>1. Position' = roi.max
      BY <2>4 DEF Interference, Destination, MoveServos, Position, NewPlan
    <3>2. SweepAt(Position)'
      BY <2>1, <2>4, <3>1, SweepBegins
    <3> QED BY <2>1, <2>4, <3>2, PlanStays DEF CoverInv, ScanCoversRegion
  <2>5. CASE disturbed' = {} /\ ~UNCHANGED <<servo, lidarMode, scan, chunks, ranging, timeVars, pointVars, planned, disturbed>>
    <3> PICK m \in Moves(NewPlan.start) :
          /\ MoveServos(m)
          /\ m.ok
          /\ scan' = NewPlan /\ lidarMode' = "Scanning"
          /\ buffered' = 0 /\ chunk' = 1
          /\ chunks' = DivCeil(PositionsOn(roi.max.x, roi.min.x) * PositionsOn(roi.max.y, roi.min.y), ChunkSize)
          /\ places' = {} /\ count' = 0
          /\ planned' = Serpentine
          /\ Interference(m) = {}
      <4> HIDE DEF NewPlan, Serpentine
      <4> QED BY <1>6, <2>5 DEF StartScan
    <3> QED BY <2>4
  <2> QED BY <2>2, <2>3, <2>5
<1> QED
  BY <1>1, <1>2, <1>3, <1>4, <1>5, <1>6 DEF LidarNext, LidarTick

\* A scan that nothing came in the way of has measured every position of its region
\* once, and has sent the chunks it announced (lidar_scan.rs:1-20, 160-168).
THEOREM LidarScanCoversRegion == LidarSpec => []ScanCoversRegion
<1>1. LidarInit => CoverInv
  <2> SUFFICES ASSUME LidarInit PROVE CoverInv
    OBVIOUS
  <2>1. ConfigOK
    BY LidarAssumption DEF LidarInit, ConfigOK
  <2>2. Cardinality({}) = 0
    BY FS_EmptySet
  <2>3. ScanCoversRegion
    BY <2>2 DEF LidarInit, ScanCoversRegion
  <2> QED BY <2>1, <2>3 DEF LidarInit, CoverInv
<1>2. CoverInv /\ [LidarNext]_lidarVars => CoverInv'
  BY CoverNext
<1>3. CoverInv => ScanCoversRegion
  BY DEF CoverInv
<1> QED BY <1>1, <1>2, <1>3, PTL DEF LidarSpec

-----------------------------------------------------------------------------
(* The clock of LidarScan, for any servos, travel and measuring time. *)

IntPoints == [x : Int, y : Int]
ServoStates == [{"x", "y"} -> [at : Int, min : Int, max : Int, commanded : BOOLEAN]]
Plans == [start : Points, end : Points, step : Nat, from : IntPoints, target : IntPoints, limit : Int]

\* How far the servos are from where they were commanded.
Off == TravelDegrees(real, Position)

CleanTypes ==
  /\ ConfigOK /\ servo \in ServoStates /\ real \in IntPoints
  /\ lidarMode = "Scanning" => scan \in Plans
  /\ wait \in Nat /\ measured \in Nat /\ measured < Budget
  /\ measured = 0 => sample = "Clean"
  /\ ~ranging => measured = 0

\* What is left of the wait is enough for the rest of the travel and a whole measurement,
\* and for the end of the one in progress if a servo has moved in it.
WaitInv ==
  /\ servo.x.commanded /\ servo.y.commanded
  /\ Off > 0 => wait >= Off + Budget
  /\ sample = "Blurred" => wait >= Budget - measured + 1
  /\ ready = "Blurred" => wait >= 1

CleanInv ==
  /\ CleanTypes
  /\ "Commanded" \notin disturbed /\ ~mistimed =>
       ~blurred /\ (lidarMode = "Scanning" => WaitInv)

LEMMA TravelIs ==
  ASSUME NEW p \in IntPoints, NEW q \in IntPoints
  PROVE  TravelDegrees(p, q) \in Nat /\ (TravelDegrees(p, q) = 0 <=> p = q)
<1>1. p.x \in Int /\ p.y \in Int /\ q.x \in Int /\ q.y \in Int
  BY DEF IntPoints
<1>2. p = q <=> p.x = q.x /\ p.y = q.y
  BY DEF IntPoints
<1>3. /\ Abs(p.x - q.x) \in Nat /\ (Abs(p.x - q.x) = 0 <=> p.x = q.x)
      /\ Abs(p.y - q.y) \in Nat /\ (Abs(p.y - q.y) = 0 <=> p.y = q.y)
  BY ONLY <1>1 DEF Abs
<1>4. TravelDegrees(p, q) \in {Abs(p.x - q.x), Abs(p.y - q.y)}
      /\ Abs(p.x - q.x) <= TravelDegrees(p, q) /\ Abs(p.y - q.y) <= TravelDegrees(p, q)
  BY ONLY <1>3 DEF TravelDegrees
<1> QED BY ONLY <1>2, <1>3, <1>4

LEMMA PositionIs ==
  ASSUME servo \in ServoStates
  PROVE  Position \in IntPoints
BY DEF ServoStates, Position, IntPoints

LEMMA BudgetIs == Budget \in Nat /\ Budget > 0 /\ PivotLimit \in Nat
BY LidarAssumption

\* A servo that is commanded gets nearer, or is there.
LEMMA ReachIs ==
  ASSUME servo \in ServoStates, real \in IntPoints, NEW axis \in {"x", "y"}, NEW v \in Reach(axis)
  PROVE  /\ v \in Int
         /\ servo[axis].commanded =>
              \/ (v = real[axis] /\ real[axis] = servo[axis].at)
              \/ Abs(v - servo[axis].at) + 1 <= Abs(real[axis] - servo[axis].at)
<1>1. real[axis] \in Int /\ servo[axis].at \in Int /\ \A u \in Pivots : u \in Int
  BY BudgetIs DEF IntPoints, ServoStates, Pivots
<1>2. CASE servo[axis].commanded /\ real[axis] # servo[axis].at
  <2>1. v \in Pivots /\ v # real[axis]
        /\ Abs(real[axis] - v) + Abs(v - servo[axis].at) = Abs(real[axis] - servo[axis].at)
    BY <1>2 DEF Reach
  <2>2. Abs(v - servo[axis].at) + 1 <= Abs(real[axis] - servo[axis].at)
    <3> DEFINE r == real[axis]
               a == servo[axis].at
    <3>1. v \in Int /\ r \in Int /\ a \in Int /\ v # r /\ Abs(r - v) + Abs(v - a) = Abs(r - a)
      BY <1>1, <2>1
    <3> HIDE DEF r, a
    <3>2. Abs(v - a) + 1 <= Abs(r - a)
      BY ONLY <3>1 DEF Abs
    <3> QED BY <3>2 DEF r, a
  <2> QED BY <1>1, <2>1, <2>2
<1>3. CASE ~(servo[axis].commanded /\ real[axis] # servo[axis].at)
  BY <1>1, <1>3 DEF Reach
<1> QED BY <1>2, <1>3

LEMMA ElapseNears ==
  ASSUME CleanTypes, Elapse
  PROVE  /\ real' \in IntPoints
         /\ servo.x.commanded /\ servo.y.commanded =>
              (Off = 0 => real' = real) /\ (Off > 0 => Off' <= Off - 1)
<1> PICK x \in Reach("x"), y \in Reach("y") : real' = [x |-> x, y |-> y]
  BY DEF Elapse
<1>1. servo \in ServoStates /\ real \in IntPoints /\ Position \in IntPoints /\ Position' = Position
  BY PositionIs DEF CleanTypes, Elapse, Position
<1>2. x \in Int /\ y \in Int /\ real.x \in Int /\ real.y \in Int /\ Position.x \in Int /\ Position.y \in Int
  BY <1>1, ReachIs DEF IntPoints
<1>3. real' \in IntPoints /\ real'.x = x /\ real'.y = y /\ real = [x |-> real.x, y |-> real.y]
  BY <1>1, <1>2 DEF IntPoints
<1>4. ASSUME servo.x.commanded, servo.y.commanded
      PROVE  (Off = 0 => real' = real) /\ (Off > 0 => Off' <= Off - 1)
  <2>1. /\ ((x = real.x /\ real.x = Position.x) \/ Abs(x - Position.x) + 1 <= Abs(real.x - Position.x))
        /\ ((y = real.y /\ real.y = Position.y) \/ Abs(y - Position.y) + 1 <= Abs(real.y - Position.y))
    BY <1>1, <1>4, ReachIs DEF Position
  <2>2. Off = 0 => real = Position
    BY <1>1, TravelIs DEF Off
  <2>3. real = Position => x = real.x /\ y = real.y
    <3>1. real = Position => Abs(real.x - Position.x) = 0 /\ Abs(real.y - Position.y) = 0
      BY <1>2 DEF Abs
    <3>2. Abs(x - Position.x) \in Nat /\ Abs(y - Position.y) \in Nat
      BY ONLY <1>2 DEF Abs
    <3> QED BY ONLY <2>1, <3>1, <3>2
  <2>4. Off' = TravelDegrees([x |-> x, y |-> y], Position)
    BY <1>1, <1>3 DEF Off
  <2>5. Off > 0 => Off' <= Off - 1
    <3> DEFINE A == Abs(x - Position.x)
               B == Abs(y - Position.y)
               C == Abs(real.x - Position.x)
               D == Abs(real.y - Position.y)
    <3>1. A \in Nat /\ B \in Nat /\ C \in Nat /\ D \in Nat
      BY ONLY <1>2 DEF Abs
    <3>2. Off = IF C < D THEN D ELSE C
      BY DEF Off, TravelDegrees
    <3>3. Off' = IF A < B THEN B ELSE A
      BY <2>4 DEF TravelDegrees
    <3>4. ((A = 0 /\ C = 0) \/ A + 1 <= C) /\ ((B = 0 /\ D = 0) \/ B + 1 <= D)
      <4>1. /\ x = real.x /\ real.x = Position.x => A = 0 /\ C = 0
            /\ y = real.y /\ real.y = Position.y => B = 0 /\ D = 0
        BY ONLY <1>2 DEF Abs
      <4> QED BY <2>1, <4>1
    <3> HIDE DEF A, B, C, D
    <3> QED BY ONLY <3>1, <3>2, <3>3, <3>4
  <2> QED BY <1>3, <2>2, <2>3, <2>5
<1> QED BY <1>3, <1>4

LEMMA MovedIs ==
  ASSUME servo \in ServoStates, NEW axis \in {"x", "y"}, NEW v \in Int, NEW s \in ServoStates
  PROVE  [s EXCEPT ![axis] = Moved(@, v)] \in ServoStates /\ Moved(s[axis], v).commanded
<1>1. s[axis] \in [at : Int, min : Int, max : Int, commanded : BOOLEAN]
  BY DEF ServoStates
<1>2. Clamp(v, s[axis].min, s[axis].max) \in Int
  BY <1>1 DEF Clamp
<1>3. Moved(s[axis], v) \in [at : Int, min : Int, max : Int, commanded : BOOLEAN]
      /\ Moved(s[axis], v).commanded
  BY <1>1, <1>2 DEF Moved
<1> QED BY <1>3 DEF ServoStates

LEMMA MovesAre ==
  ASSUME servo \in ServoStates, NEW p \in IntPoints, NEW m \in Moves(p)
  PROVE  /\ m.servo \in ServoStates /\ m.ok \in BOOLEAN
         /\ m.ok => m.servo.x.commanded /\ m.servo.y.commanded
<1> DEFINE sx == [servo EXCEPT !.x = Moved(@, p.x)]
           sy == [sx EXCEPT !.y = Moved(@, p.y)]
<1>1. p.x \in Int /\ p.y \in Int
  BY DEF IntPoints
<1>2. sx \in ServoStates /\ Moved(servo["x"], p.x).commanded
  BY <1>1, MovedIs
<1>3. sy \in ServoStates /\ Moved(sx["y"], p.y).commanded
  <2> HIDE DEF sx
  <2> QED BY <1>1, <1>2, MovedIs
<1>4. sy["x"] = Moved(servo["x"], p.x) /\ sy["y"] = Moved(sx["y"], p.y)
  <2>1. sx["x"] = Moved(servo["x"], p.x)
    BY DEF ServoStates
  <2>2. sy["x"] = sx["x"] /\ sy["y"] = Moved(sx["y"], p.y)
    <3> HIDE DEF sx
    <3> QED BY <1>2 DEF ServoStates
  <2> QED BY <2>1, <2>2
<1>5. m \in {[servo |-> servo, ok |-> FALSE], [servo |-> sx, ok |-> FALSE], [servo |-> sy, ok |-> TRUE]}
  BY DEF Moves
<1>6. sy.x.commanded /\ sy.y.commanded
  <2>1. Moved(sx["y"], p.y).commanded
    BY <1>3
  <2> HIDE DEF sx, sy
  <2> QED BY <1>2, <1>4, <2>1
<1>7. /\ m.servo = servo \/ m.servo = sx \/ m.servo = sy
      /\ m.ok \in BOOLEAN /\ (m.ok => m.servo = sy)
  <2>1. CASE m = [servo |-> servo, ok |-> FALSE]
    BY <2>1
  <2>2. CASE m = [servo |-> sx, ok |-> FALSE]
    <3> HIDE DEF sx, sy
    <3> QED BY <2>2
  <2>3. CASE m = [servo |-> sy, ok |-> TRUE]
    <3> HIDE DEF sx, sy
    <3> QED BY <2>3
  <2> QED BY ONLY <1>5, <2>1, <2>2, <2>3
<1> HIDE DEF sx, sy
<1> QED BY <1>2, <1>3, <1>6, <1>7

\* After a move of the servos from where they are the wait is enough.
LEMMA MoveWaits ==
  ASSUME CleanTypes, real = Position, NEW p \in IntPoints, NEW m \in Moves(p), m.ok,
         MoveServos(m), real' = real
  PROVE  /\ servo' \in ServoStates /\ wait' \in Nat /\ wait' >= Budget
         /\ servo'.x.commanded /\ servo'.y.commanded
         /\ Off' \in Nat /\ wait' = Off' + Budget
<1>1. servo' = m.servo /\ servo' \in ServoStates /\ servo'.x.commanded /\ servo'.y.commanded
  BY MovesAre DEF MoveServos, CleanTypes
<1>2. Position' \in IntPoints /\ Position' = Destination(m) /\ Position \in IntPoints
  BY <1>1, PositionIs DEF CleanTypes, ServoStates, Position, IntPoints, Destination
<1>3. Off' = TravelDegrees(Position, Destination(m)) /\ Off' \in Nat
  BY <1>2, TravelIs DEF Off
<1>4. wait' = Off' + Budget
  BY <1>3 DEF MoveServos, NoteMoved
<1> QED BY <1>1, <1>3, <1>4, BudgetIs

LEMMA StepsAre ==
  ASSUME NEW from \in Int, NEW to \in Int, NEW by \in Nat
  PROVE  StepToward(from, to, by) \in Int
BY DEF StepToward, Clamp

LEMMA AdvancedIs ==
  ASSUME scan \in Plans, NEW at \in IntPoints
  PROVE  Advanced(at) \in Plans /\ Advanced(at).target \in IntPoints
<1> DEFINE ty == StepToward(at.y, scan.end.y, scan.step)
           tx == StepToward(at.x, scan.limit, scan.step)
           lim == IF scan.limit = scan.end.x THEN scan.start.x ELSE scan.end.x
           down == [at EXCEPT !.y = ty]
           along == [at EXCEPT !.x = tx]
<1>1. /\ at.x \in Int /\ at.y \in Int /\ scan.limit \in Int /\ scan.step \in Nat
      /\ scan.end.x \in Int /\ scan.end.y \in Int /\ scan.start.x \in Int
  BY BudgetIs DEF Plans, Points, Pivots, IntPoints
<1>2. ty \in Int /\ tx \in Int /\ lim \in Int
  BY <1>1, StepsAre
<1>3. down \in IntPoints /\ along \in IntPoints
  <2> HIDE DEF ty, tx
  <2> QED BY <1>2 DEF IntPoints
<1>4. Advanced(at) = IF RowFinished(at) THEN [scan EXCEPT !.from = at, !.limit = lim, !.target = down]
                     ELSE [scan EXCEPT !.from = at, !.target = along]
  BY DEF Advanced, Plans
<1> HIDE DEF ty, tx, lim, down, along
<1>5. CASE RowFinished(at)
  BY <1>2, <1>3, <1>4, <1>5 DEF Plans
<1>6. CASE ~RowFinished(at)
  BY <1>2, <1>3, <1>4, <1>6 DEF Plans
<1> QED BY <1>5, <1>6

LEMMA NewPlanIs ==
  ASSUME ConfigOK
  PROVE  NewPlan \in Plans /\ NewPlan.start \in IntPoints
<1>1. roi.max \in Points /\ roi.min \in Points /\ Points \subseteq IntPoints /\ stride \in Nat
      /\ roi.min.x \in Int
  BY BudgetIs DEF ConfigOK, Points, IntPoints, Pivots
<1> QED BY <1>1 DEF NewPlan, Plans

\* The types are kept by every step.
LEMMA TypesNext ==
  ASSUME CleanTypes, [LidarNext]_lidarVars
  PROVE  CleanTypes'
<1>1. /\ ConfigOK /\ servo \in ServoStates /\ real \in IntPoints /\ Position \in IntPoints
      /\ (lidarMode = "Scanning" => scan \in Plans)
      /\ wait \in Nat /\ measured \in Nat /\ measured < Budget /\ (measured = 0 => sample = "Clean")
      /\ (~ranging => measured = 0)
  BY PositionIs DEF CleanTypes
<1>2. CASE UNCHANGED lidarVars
  BY <1>1, <1>2 DEF lidarVars, timeVars, pointVars, CleanTypes, ConfigOK
<1>3. CASE EarlyReading
  BY <1>1, <1>3 DEF EarlyReading, CleanTypes, ConfigOK
<1>4. ASSUME NEW valid \in BOOLEAN, UsableReading(valid)
      PROVE  CleanTypes'
  <2>1. UNCHANGED <<roi, stride, real, ranging, measured, sample>> /\ lidarMode = "Scanning" /\ scan \in Plans
    BY <1>1, <1>4 DEF UsableReading
  <2>2. CASE lidarMode' # "Scanning" /\ UNCHANGED <<servo, wait>>
    BY <1>1, <2>1, <2>2 DEF CleanTypes, ConfigOK
  <2>3. ASSUME NEW m \in Moves(Advanced(Position).target), MoveServos(m),
               scan' = Advanced(Position) \/ lidarMode' # "Scanning"
        PROVE  CleanTypes'
    <3>1. servo' \in ServoStates
      BY <1>1, <2>1, <2>3, MovesAre, AdvancedIs DEF MoveServos
    <3>2. Position' \in IntPoints /\ Destination(m) = Position'
      BY <3>1, <2>3 DEF ServoStates, Position, IntPoints, Destination, MoveServos
    <3>3. wait' \in Nat
      BY <1>1, <2>3, <3>2, TravelIs, BudgetIs DEF MoveServos, NoteMoved
    <3>4. lidarMode' = "Scanning" => scan' \in Plans
      BY <1>1, <2>1, <2>3, AdvancedIs
    <3> QED BY <1>1, <2>1, <3>1, <3>3, <3>4 DEF CleanTypes, ConfigOK
  <2> QED BY <1>4, <2>2, <2>3 DEF UsableReading, EndScan
<1>5. CASE ReadingTimesOut
  BY <1>1, <1>5 DEF ReadingTimesOut, EndScan, timeVars, CleanTypes, ConfigOK
<1>6. CASE Elapse
  <2>1. real' \in IntPoints /\ UNCHANGED <<servo, roi, stride, lidarMode, scan, ranging>>
    BY <1>6, ElapseNears DEF Elapse
  <2>2. wait' \in Nat
    BY <1>1, <1>6 DEF Elapse
  <2>3. measured' \in Nat /\ measured' < Budget /\ (measured' = 0 => sample' = "Clean")
      /\ (~ranging => measured' = 0)
    BY <1>1, <1>6, BudgetIs DEF Elapse, Measure
  <2> QED BY <1>1, <2>1, <2>2, <2>3 DEF CleanTypes, ConfigOK
<1>7. CASE Configure
  <2>1. ConfigOK'
    <3>1. (roi' \in Rois /\ stride' = stride) \/ (stride' \in Steps /\ roi' = roi)
      BY <1>7 DEF Configure
    <3>2. (\A r \in Rois : r \in [min : Points, max : Points]) /\ (\A s \in Steps : s \in Nat /\ s > 0)
      BY LidarAssumption
    <3> QED BY <1>1, <3>1, <3>2 DEF ConfigOK
  <2>2. UNCHANGED <<servo, lidarMode, scan, ranging, real, wait, measured, sample>>
    BY <1>7 DEF Configure, timeVars
  <2> QED BY <1>1, <2>1, <2>2 DEF CleanTypes
<1>8. CASE StartScan
  <2>1. UNCHANGED <<roi, stride>>
    BY <1>8 DEF StartScan
  <2>2. CASE UNCHANGED <<servo, lidarMode, scan, ranging, timeVars>>
    BY <1>1, <2>1, <2>2 DEF timeVars, CleanTypes, ConfigOK
  <2>3. ASSUME NEW m \in Moves(NewPlan.start), MoveServos(m), ranging' = TRUE, UNCHANGED <<real, measured, sample>>,
               scan' = NewPlan \/ UNCHANGED <<scan, lidarMode>>
        PROVE  CleanTypes'
    <3>1. servo' \in ServoStates
      BY <1>1, <2>3, MovesAre, NewPlanIs DEF MoveServos
    <3>2. Position' \in IntPoints /\ Destination(m) = Position'
      BY <3>1, <2>3 DEF ServoStates, Position, IntPoints, Destination, MoveServos
    <3>3. wait' \in Nat
      BY <1>1, <2>3, <3>2, TravelIs, BudgetIs DEF MoveServos, NoteMoved
    <3>4. lidarMode' = "Scanning" => scan' \in Plans
      BY <1>1, <2>3, NewPlanIs
    <3> QED BY <1>1, <2>1, <2>3, <3>1, <3>3, <3>4 DEF CleanTypes, ConfigOK
  <2> HIDE DEF NewPlan
  <2> QED BY <1>8, <2>2, <2>3 DEF StartScan
<1>9. CASE StopScan
  BY <1>1, <1>9 DEF StopScan, EndScan, timeVars, CleanTypes, ConfigOK
<1>10. CASE MoveByModule
  <2>1. UNCHANGED <<roi, stride, lidarMode, scan, ranging, real, measured, sample>>
    BY <1>10 DEF MoveByModule
  <2>2. \A v \in Goals : v \in Int
    BY LidarAssumption DEF Pivots
  <2>3. ASSUME NEW m, MoveServos(m), m.servo \in ServoStates
        PROVE  servo' \in ServoStates /\ wait' \in Nat
    <3>1. servo' \in ServoStates
      BY <2>3 DEF MoveServos
    <3>2. Position' \in IntPoints /\ Destination(m) = Position'
      BY <3>1, <2>3 DEF ServoStates, Position, IntPoints, Destination, MoveServos
    <3> QED BY <1>1, <2>3, <3>1, <3>2, TravelIs, BudgetIs DEF MoveServos, NoteMoved
  <2>4. ASSUME NEW p \in [x : Goals, y : Goals], NEW m \in Moves(p), MoveServos(m)
        PROVE  servo' \in ServoStates /\ wait' \in Nat
    <3>1. p \in IntPoints
      BY <2>2 DEF IntPoints
    <3>2. m.servo \in ServoStates
      BY <1>1, <3>1, MovesAre
    <3> QED BY <2>3, <2>4, <3>2
  <2>5. ASSUME NEW axis \in {"x", "y"}, NEW angle \in Goals,
               NEW s \in {servo, [servo EXCEPT ![axis] = Moved(@, angle)]}, MoveServos([servo |-> s])
        PROVE  servo' \in ServoStates /\ wait' \in Nat
    <3>1. s \in ServoStates
      BY <1>1, <2>2, MovedIs
    <3>2. [servo |-> s].servo \in ServoStates
      BY <3>1
    <3> QED BY <2>3, <2>5, <3>2
  <2>6. servo' \in ServoStates /\ wait' \in Nat
    BY <1>10, <2>4, <2>5 DEF MoveByModule
  <2> QED BY <1>1, <2>1, <2>6 DEF CleanTypes, ConfigOK
<1>11. CASE MoveDirectly
  <2>1. UNCHANGED <<roi, stride, lidarMode, scan, ranging, real, wait, measured, sample>>
    BY <1>11 DEF MoveDirectly
  <2>2. \A v \in Goals : v \in Int
    BY LidarAssumption DEF Pivots
  <2> DEFINE One == [at : Int, min : Int, max : Int, commanded : BOOLEAN]
  <2>3. ASSUME NEW axis \in {"x", "y"}, NEW v \in Goals, NEW w \in {"min", "max"},
               NEW s \in BackInside(WithLimit(servo[axis], w, v))
        PROVE  s \in One
    <3> DEFINE t == WithLimit(servo[axis], w, v)
    <3>1. servo[axis] \in One /\ v \in Int
      BY <1>1, <2>2 DEF ServoStates
    <3>2. t \in One
      <4>1. CASE w = "min"
        BY <3>1, <4>1 DEF WithLimit
      <4>2. CASE w = "max"
        BY <3>1, <4>2 DEF WithLimit
      <4> QED BY <4>1, <4>2
    <3> HIDE DEF t
    <3>3. Moved(t, t.at) \in One
      <4>1. t.at \in Int /\ t.min \in Int /\ t.max \in Int
        BY <3>2
      <4>2. Clamp(t.at, t.min, t.max) \in Int
        BY ONLY <4>1 DEF Clamp
      <4> QED BY <3>2, <4>2 DEF Moved
    <3>4. s \in BackInside(t)
      BY <2>3 DEF t
    <3> QED BY <3>2, <3>3, <3>4 DEF BackInside
  <2>4. ASSUME NEW axis \in {"x", "y"}, NEW v \in Goals
        PROVE  Moved(servo[axis], v) \in One
    <3>1. servo[axis] \in One /\ v \in Int
      BY <1>1, <2>2 DEF ServoStates
    <3>2. Clamp(v, servo[axis].min, servo[axis].max) \in Int
      BY <3>1 DEF Clamp
    <3> QED BY <3>1, <3>2 DEF Moved
  <2>5. PICK axis \in {"x", "y"} : \E v \in Goals :
          \E s \in {Moved(servo[axis], v)} \cup UNION {BackInside(WithLimit(servo[axis], w, v)) : w \in {"min", "max"}} :
            servo' = [servo EXCEPT ![axis] = s]
    BY <1>11 DEF MoveDirectly
  <2>6. \E s \in One : servo' = [servo EXCEPT ![axis] = s]
    <3> HIDE DEF One
    <3> QED BY <2>3, <2>4, <2>5
  <2>7. servo' \in ServoStates
    BY <1>1, <2>6 DEF ServoStates
  <2> QED BY <1>1, <2>1, <2>7 DEF CleanTypes, ConfigOK
<1>12. CASE CommandRanger
  BY <1>1, <1>12, BudgetIs DEF CommandRanger, CleanTypes, ConfigOK
<1> QED
  BY <1>2, <1>3, <1>4, <1>5, <1>6, <1>7, <1>8, <1>9, <1>10, <1>11, <1>12 DEF LidarNext, LidarTick

LEMMA CleanNext ==
  ASSUME CleanInv, [LidarNext]_lidarVars
  PROVE  CleanInv'
<1> DEFINE Undisturbed == "Commanded" \notin disturbed /\ ~mistimed
           Fine == ~blurred /\ (lidarMode = "Scanning" => WaitInv)
<1>1. CleanTypes /\ CleanTypes'
  BY TypesNext DEF CleanInv
<1>2. /\ ConfigOK /\ servo \in ServoStates /\ real \in IntPoints /\ Position \in IntPoints
      /\ (lidarMode = "Scanning" => scan \in Plans)
      /\ wait \in Nat /\ measured \in Nat /\ measured < Budget /\ (measured = 0 => sample = "Clean")
      /\ (~ranging => measured = 0)
  BY <1>1, PositionIs DEF CleanTypes
<1>3. Off \in Nat /\ (Off = 0 <=> real = Position)
  BY <1>2, TravelIs DEF Off
<1>4. Undisturbed => Fine
  BY DEF CleanInv
<1> SUFFICES ASSUME Undisturbed' PROVE Fine'
  BY <1>1 DEF CleanInv
<1>5. CASE UNCHANGED <<servo, real, lidarMode, wait, measured, sample, ready, blurred, disturbed, mistimed>>
  BY <1>4, <1>5 DEF WaitInv, Off, Position
<1>6. CASE EarlyReading
  <2>1. /\ UNCHANGED <<servo, real, lidarMode, wait, measured, sample, blurred, disturbed, mistimed>>
        /\ ready' = "None"
    BY <1>6 DEF EarlyReading, pointVars
  <2> QED BY <1>4, <2>1 DEF WaitInv, Off, Position
<1>7. CASE lidarMode' # "Scanning" /\ UNCHANGED <<blurred, mistimed>> /\ disturbed \subseteq disturbed'
  BY <1>4, <1>7
<1>8. ASSUME NEW valid \in BOOLEAN, UsableReading(valid)
      PROVE  Fine'
  <2>1. /\ lidarMode = "Scanning" /\ ready # "None" /\ wait = 0 /\ ready' = "None"
        /\ UNCHANGED <<real, measured, sample, mistimed>> /\ disturbed \subseteq disturbed'
        /\ blurred' = (blurred \/ (valid /\ ready = "Blurred"))
    BY <1>8 DEF UsableReading
  <2>2. Undisturbed /\ Fine
    BY <1>4, <2>1
  <2>3. Off = 0 /\ sample # "Blurred" /\ ready # "Blurred" /\ ~blurred'
    <3>1. /\ ~blurred /\ (Off > 0 => wait >= Off + Budget)
          /\ (sample = "Blurred" => wait >= Budget - measured + 1)
          /\ (ready = "Blurred" => wait >= 1)
      BY <2>1, <2>2 DEF WaitInv
    <3> DEFINE off == Off
    <3>2. off \in Nat /\ (off > 0 => wait >= off + Budget)
      BY <1>3, <3>1
    <3> HIDE DEF off
    <3>3. off = 0 /\ sample # "Blurred" /\ ready # "Blurred"
      BY ONLY <1>2, <2>1, <3>1, <3>2, BudgetIs
    <3> QED BY <2>1, <3>1, <3>3 DEF off
  <2>4. CASE lidarMode' # "Scanning"
    BY <2>3, <2>4
  <2>5. ASSUME NEW m \in Moves(Advanced(Position).target), MoveServos(m), m.ok
        PROVE  Fine'
    <3>1. Advanced(Position).target \in IntPoints
      BY <1>2, <2>1, AdvancedIs
    <3>2. real = Position /\ real' = real
      BY <1>3, <2>1, <2>3
    <3>3. /\ servo'.x.commanded /\ servo'.y.commanded
          /\ Off' \in Nat /\ wait' = Off' + Budget
      BY <1>1, <2>5, <3>1, <3>2, MoveWaits
    <3> DEFINE off == Off'
    <3>4. wait' >= 1 /\ (off > 0 => wait' >= off + Budget)
      <4>1. off \in Nat /\ wait' = off + Budget
        BY <3>3
      <4> HIDE DEF off
      <4> QED BY ONLY <4>1, BudgetIs
    <3>5. sample' # "Blurred" /\ ready' # "Blurred"
      BY <2>1, <2>3
    <3> HIDE DEF off
    <3>6. WaitInv'
      BY <3>3, <3>4, <3>5 DEF WaitInv, off
    <3> QED BY <2>3, <3>6
  <2> QED BY <1>8, <2>4, <2>5 DEF UsableReading, EndScan
<1>9. CASE ReadingTimesOut
  <2>1. lidarMode' # "Scanning" /\ UNCHANGED <<blurred, mistimed>> /\ disturbed \subseteq disturbed'
    BY <1>9 DEF ReadingTimesOut, EndScan, timeVars
  <2> QED BY <1>7, <2>1
<1>10. CASE Elapse
  <2>1. /\ UNCHANGED <<servo, lidarMode, blurred, disturbed>>
        /\ wait' = IF wait = 0 THEN 0 ELSE wait - 1
        /\ mistimed' = (mistimed \/ (lidarMode = "Scanning" /\ ready # "None"))
    BY <1>10 DEF Elapse, pointVars
  <2>2. Undisturbed /\ Fine /\ (lidarMode = "Scanning" => ready = "None")
    BY <1>4, <2>1
  <2>3. CASE lidarMode = "Scanning"
    <3>1. /\ WaitInv /\ ready = "None"
      BY <2>2, <2>3
    <3>2. (Off = 0 => real' = real) /\ (Off > 0 => Off' <= Off - 1) /\ Off' \in Nat
      <4>1. real' \in IntPoints /\ Position' = Position
        BY <1>1, <1>10, ElapseNears DEF Elapse, Position
      <4>2. Off' \in Nat
        BY <1>2, <4>1, TravelIs DEF Off
      <4> QED BY <1>1, <1>10, <3>1, <4>2, ElapseNears DEF WaitInv
    <3>3. Off' > 0 => wait' >= Off' + Budget
      <4>1. Off = 0 => Off' = 0
        <5>1. Off = 0 => real' = real /\ Position' = Position
          BY <3>2, <2>1 DEF Position
        <5> QED BY <5>1 DEF Off
      <4>2. Off > 0 => wait >= Off + Budget
        BY <3>1 DEF WaitInv
      <4> DEFINE off == Off
                 near == Off'
      <4>3. /\ off \in Nat /\ near \in Nat /\ (off > 0 => near <= off - 1)
            /\ (off = 0 => near = 0) /\ (off > 0 => wait >= off + Budget)
        BY <1>3, <3>2, <4>1, <4>2
      <4>4. wait \in Nat /\ wait' = IF wait = 0 THEN 0 ELSE wait - 1
        BY <1>2, <2>1
      <4> HIDE DEF off, near
      <4>5. near > 0 => wait' >= near + Budget
        BY ONLY <4>3, <4>4, BudgetIs
      <4> QED BY <4>5 DEF near
    <3>4. CASE ~ranging
      <4>1. UNCHANGED <<measured, sample, ready>>
        BY <1>10, <3>4 DEF Elapse
      <4>2. sample # "Blurred"
        BY <1>2, <3>4
      <4> QED BY <2>1, <2>2, <3>1, <3>3, <4>1, <4>2 DEF WaitInv
    <3>5. CASE ranging
      <4>1. Measure
        BY <1>10, <3>5 DEF Elapse
      <4> DEFINE seen == IF real' = real THEN sample ELSE "Blurred"
      <4>2. seen = "Blurred" => wait' >= Budget - measured
        <5>1. CASE real' = real
          BY <1>2, <2>1, <3>1, <5>1, BudgetIs DEF WaitInv
        <5>2. CASE real' # real
          <6>1. Off > 0 /\ wait >= Off + Budget
            BY <1>3, <3>1, <3>2, <5>2 DEF WaitInv
          <6> QED BY ONLY <1>2, <1>3, <2>1, <6>1, BudgetIs
        <5> QED BY <5>1, <5>2
      <4>3. CASE measured + 1 < Budget
        <5>1. measured' = measured + 1 /\ sample' = seen /\ ready' = ready
          BY <4>1, <4>3 DEF Measure
        <5> HIDE DEF seen
        <5>2. sample' = "Blurred" => wait' >= Budget - measured' + 1
          BY <1>2, <4>2, <5>1, BudgetIs
        <5> QED BY <2>1, <2>2, <3>1, <3>3, <5>1, <5>2 DEF WaitInv
      <4>4. CASE ~(measured + 1 < Budget)
        <5>1. measured' = 0 /\ sample' = "Clean" /\ ready' = seen
          BY <3>1, <4>1, <4>4 DEF Measure
        <5> HIDE DEF seen
        <5>2. ready' = "Blurred" => wait' >= 1
          BY <1>2, <4>2, <4>4, <5>1, BudgetIs
        <5> QED BY <2>1, <2>2, <3>1, <3>3, <5>1, <5>2 DEF WaitInv
      <4> QED BY <4>3, <4>4
    <3> QED BY <3>4, <3>5
  <2>4. CASE lidarMode # "Scanning"
    BY <2>1, <2>2, <2>4
  <2> QED BY <2>3, <2>4
<1>11. CASE Configure
  BY <1>5, <1>11 DEF Configure, timeVars, pointVars
<1>12. CASE StartScan
  <2>1. CASE UNCHANGED <<servo, lidarMode, scan, chunks, ranging, timeVars, pointVars, planned, disturbed>>
    BY <1>5, <2>1 DEF timeVars, pointVars
  <2>2. ASSUME NEW m \in Moves(NewPlan.start), MoveServos(m), Outdate, m.ok, blurred' = FALSE,
               mistimed' = (real # Position), UNCHANGED <<real, measured, sample>>
        PROVE  Fine'
    <3>1. real = Position
      BY <2>2
    <3>2. /\ servo'.x.commanded /\ servo'.y.commanded
          /\ Off' \in Nat /\ wait' = Off' + Budget
      BY <1>1, <1>2, <2>2, <3>1, NewPlanIs, MoveWaits
    <3>3. measured = 0 => sample # "Blurred"
      BY <1>2
    <3> DEFINE off == Off'
    <3>4. wait' \in Nat /\ wait' >= Budget
      <4>1. off \in Nat /\ wait' = off + Budget
        BY <3>2
      <4> HIDE DEF off
      <4> QED BY ONLY <4>1, BudgetIs
    <3>5. sample' = "Blurred" => wait' >= Budget - measured' + 1
      <4>1. measured' = measured /\ sample' = sample
        BY <2>2
      <4>2. sample' = "Blurred" => measured >= 1
        BY <1>2, <3>3, <4>1
      <4> QED BY ONLY <1>2, <3>4, <4>1, <4>2, BudgetIs
    <3>6. wait' >= 1 /\ (off > 0 => wait' >= off + Budget)
      <4>1. off \in Nat /\ wait' = off + Budget
        BY <3>2
      <4> HIDE DEF off
      <4> QED BY ONLY <4>1, BudgetIs
    <3> HIDE DEF off
    <3>7. WaitInv'
      BY <3>2, <3>5, <3>6 DEF WaitInv, off
    <3> QED BY <2>2, <3>7
  <2>3. CASE "Commanded" \in disturbed'
    BY <2>3
  <2> HIDE DEF NewPlan
  <2> QED BY <1>12, <2>1, <2>2, <2>3 DEF StartScan
<1>13. CASE StopScan \/ MoveByModule \/ MoveDirectly \/ CommandRanger
  <2>1. "Commanded" \in disturbed'
    BY <1>13 DEF StopScan, MoveByModule, MoveDirectly, CommandRanger
  <2> QED BY <2>1
<1>14. CASE UNCHANGED lidarVars
  BY <1>5, <1>14 DEF lidarVars, timeVars, pointVars
<1> QED
  BY <1>6, <1>8, <1>9, <1>10, <1>11, <1>12, <1>13, <1>14 DEF LidarNext, LidarTick

\* A scan records only measurements during which no servo moved, if the servos were where
\* they had been commanded when it began, nobody else moved them since, and every reading
\* was read in time: the wait that is reckoned from the larger travel and one measurement
\* is enough, whatever the travel, the budget and the servos (lidar.rs:158-174, 305-308,
\* lidar_scan.rs:38-49).
THEOREM LidarUncommandedScanIsClean == LidarSpec => []UncommandedScanIsClean
<1>1. LidarInit => CleanInv
  <2> SUFFICES ASSUME LidarInit PROVE CleanInv
    OBVIOUS
  <2>1. ConfigOK
    BY LidarAssumption DEF LidarInit, ConfigOK
  <2>2. servo \in ServoStates
    <3>1. servo = [axis \in {"x", "y"} |-> [at |-> 0, min |-> -PivotLimit, max |-> PivotLimit,
                                        commanded |-> FALSE]] /\ -PivotLimit \in Int
      BY BudgetIs DEF LidarInit
    <3> QED BY <3>1, BudgetIs DEF ServoStates
  <2>3. real \in IntPoints
    BY BudgetIs DEF LidarInit, Points, Pivots, IntPoints
  <2>4. CleanTypes
    BY <2>1, <2>2, <2>3, BudgetIs DEF LidarInit, CleanTypes
  <2> QED BY <2>4 DEF LidarInit, CleanInv
<1>2. CleanInv /\ [LidarNext]_lidarVars => CleanInv'
  BY CleanNext
<1>3. CleanInv => UncommandedScanIsClean
  BY DEF CleanInv, UncommandedScanIsClean
<1> QED BY <1>1, <1>2, <1>3, PTL DEF LidarSpec

-----------------------------------------------------------------------------
(* LidarView, for any number of scans, chunks and reports. *)

Phases == {"Idol", "Scanning", "StopScan"}
StateEvents == [kind : {"ScanState"}, is : Phases, scan : Nat]
ChunkEvents == [kind : {"PointMap"}, is : Nat \ {0}, scan : Nat]
ViewEvents == StateEvents \cup ChunkEvents
ViewMessages == {Registered} \cup ViewEvents

IsEvent(x) == x # Registered
IsChunk(x) == x.kind = "PointMap"
Starts(x) == x.kind = "ScanState" /\ x.is = "Scanning"
Ends(x) == x.kind = "ScanState" /\ x.is # "Scanning"

\* x may be under way before y: events are sent in the order of their scans, a scan's
\* chunks in their order, and "Scanning" not after the end of the scan.
InTurn(x, y) ==
  IsEvent(x) /\ IsEvent(y) =>
    /\ x.scan <= y.scan
    /\ x.scan = y.scan => /\ IsChunk(x) /\ IsChunk(y) => x.is < y.is
                          /\ Ends(x) => ~Starts(y)

WireOrder(w) == \A i, j \in DOMAIN w : i < j => InTurn(w[i], w[j])

\* The start of scan t is under way, before everything else of it.
FirstOn(w, t) ==
  \E i \in DOMAIN w :
    /\ w[i] = StateEvent("Scanning", t)
    /\ \A j \in DOMAIN w : j < i /\ IsEvent(w[j]) => w[j].scan # t

LEMMA EventForms ==
  /\ \A v \in Phases, s \in Nat :
       /\ StateEvent(v, s) \in ViewEvents /\ IsEvent(StateEvent(v, s)) /\ ~IsChunk(StateEvent(v, s))
       /\ StateEvent(v, s).scan = s /\ StateEvent(v, s).is = v
       /\ Starts(StateEvent(v, s)) = (v = "Scanning") /\ Ends(StateEvent(v, s)) = (v # "Scanning")
  /\ \A n \in Nat \ {0}, s \in Nat :
       /\ ChunkEvent(n, s) \in ViewEvents /\ IsEvent(ChunkEvent(n, s)) /\ IsChunk(ChunkEvent(n, s))
       /\ ChunkEvent(n, s).scan = s /\ ChunkEvent(n, s).is = n
       /\ ~Starts(ChunkEvent(n, s)) /\ ~Ends(ChunkEvent(n, s))
BY DEF StateEvent, ChunkEvent, ViewEvents, StateEvents, ChunkEvents, IsEvent, IsChunk, Starts, Ends, Registered

LEMMA StateEventIs ==
  ASSUME NEW v \in Phases, NEW s \in Nat
  PROVE  LET e == StateEvent(v, s)
         IN /\ e \in ViewEvents /\ IsEvent(e) /\ ~IsChunk(e) /\ e.scan = s /\ e.is = v
            /\ Starts(e) = (v = "Scanning") /\ Ends(e) = (v # "Scanning")
BY EventForms

LEMMA EventIs ==
  ASSUME NEW x \in ViewEvents
  PROVE  /\ IsEvent(x) /\ x.scan \in Nat
         /\ IsChunk(x) => x.is \in Nat \ {0} /\ x = ChunkEvent(x.is, x.scan) /\ ~Starts(x) /\ ~Ends(x)
         /\ Starts(x) => x = StateEvent("Scanning", x.scan) /\ ~IsChunk(x) /\ ~Ends(x)
         /\ Ends(x) => /\ x.is \in {"Idol", "StopScan"} /\ x = StateEvent(x.is, x.scan)
                       /\ ~IsChunk(x) /\ ~Starts(x)
         /\ IsChunk(x) \/ Starts(x) \/ Ends(x)
         /\ x.kind = "ScanState" <=> Starts(x) \/ Ends(x)
<1>1. CASE x \in StateEvents
  BY <1>1 DEF StateEvents, Phases, IsEvent, IsChunk, Starts, Ends, Registered, StateEvent
<1>2. CASE x \in ChunkEvents
  BY <1>2 DEF ChunkEvents, IsEvent, IsChunk, Starts, Ends, Registered, ChunkEvent
<1> QED BY <1>1, <1>2 DEF ViewEvents

LEMMA MessageIs ==
  ASSUME NEW x \in ViewMessages
  PROVE  IsEvent(x) <=> x \in ViewEvents
BY EventIs DEF ViewMessages, IsEvent

LEMMA OnAppended ==
  ASSUME NEW w \in Seq(ViewMessages), NEW u \in Seq(ViewMessages)
  PROVE  w \o u \in Seq(ViewMessages) /\ ToSet(w \o u) = ToSet(w) \cup ToSet(u)
<1>1. w \o u \in Seq(ViewMessages) /\ Len(w \o u) = Len(w) + Len(u)
  OBVIOUS
<1>2. \A i \in 1..Len(w) : (w \o u)[i] = w[i]
  OBVIOUS
<1>3. \A i \in 1..Len(u) : (w \o u)[Len(w) + i] = u[i]
  OBVIOUS
<1>4. ASSUME NEW x \in ToSet(w \o u) PROVE x \in ToSet(w) \cup ToSet(u)
  <2>1. PICK i \in 1..(Len(w) + Len(u)) : x = (w \o u)[i]
    BY <1>1 DEF ToSet
  <2>2. CASE i <= Len(w)
    BY <1>2, <2>1, <2>2 DEF ToSet
  <2>3. CASE i > Len(w)
    <3>1. i - Len(w) \in 1..Len(u) /\ i = Len(w) + (i - Len(w))
      BY <2>1, <2>3
    <3>2. x = u[i - Len(w)]
      BY <1>3, <2>1, <3>1
    <3> QED BY <3>1, <3>2 DEF ToSet
  <2> QED BY <2>1, <2>2, <2>3
<1>5. ToSet(w) \subseteq ToSet(w \o u)
  <2>1. \A i \in 1..Len(w) : i \in 1..Len(w \o u)
    BY <1>1
  <2> QED BY <1>1, <1>2, <2>1 DEF ToSet
<1>6. ToSet(u) \subseteq ToSet(w \o u)
  <2>1. \A i \in 1..Len(u) : Len(w) + i \in 1..Len(w \o u)
    BY <1>1
  <2>2. ASSUME NEW i \in 1..Len(u) PROVE u[i] \in ToSet(w \o u)
    <3>1. Len(w) + i \in DOMAIN (w \o u) /\ (w \o u)[Len(w) + i] = u[i]
      BY <1>1, <1>3, <2>1
    <3> QED BY <3>1 DEF ToSet
  <2> QED BY <2>2 DEF ToSet
<1> QED BY <1>1, <1>4, <1>5, <1>6

LEMMA TurnAppended ==
  ASSUME NEW w \in Seq(ViewMessages), NEW u \in Seq(ViewMessages), WireOrder(w), WireOrder(u),
         \A x \in ToSet(w), y \in ToSet(u) : InTurn(x, y)
  PROVE  WireOrder(w \o u)
<1>1. w \o u \in Seq(ViewMessages) /\ Len(w \o u) = Len(w) + Len(u)
  OBVIOUS
<1>2. \A i \in 1..Len(w) : (w \o u)[i] = w[i] /\ w[i] \in ToSet(w)
  BY DEF ToSet
<1>3. \A i \in 1..Len(u) : (w \o u)[Len(w) + i] = u[i] /\ u[i] \in ToSet(u)
  BY DEF ToSet
<1>4. ASSUME NEW i \in 1..(Len(w) + Len(u)), i > Len(w)
      PROVE  i - Len(w) \in 1..Len(u) /\ (w \o u)[i] = u[i - Len(w)] /\ u[i - Len(w)] \in ToSet(u)
  <2>1. i - Len(w) \in 1..Len(u) /\ i = Len(w) + (i - Len(w))
    BY <1>4
  <2> QED BY <1>3, <2>1
<1>5. ASSUME NEW i \in 1..(Len(w) + Len(u)), NEW j \in 1..(Len(w) + Len(u)), i < j
      PROVE  InTurn((w \o u)[i], (w \o u)[j])
  <2>1. CASE j <= Len(w)
    <3>1. i \in 1..Len(w) /\ j \in 1..Len(w)
      BY <1>5, <2>1
    <3> QED BY <1>2, <1>5, <3>1 DEF WireOrder
  <2>2. CASE i <= Len(w) /\ j > Len(w)
    <3>1. i \in 1..Len(w)
      BY <2>2
    <3> QED BY <1>2, <1>4, <2>2, <3>1
  <2>3. CASE i > Len(w)
    <3>1. j > Len(w) /\ i - Len(w) < j - Len(w)
      BY <1>5, <2>3
    <3>2. InTurn(u[i - Len(w)], u[j - Len(w)])
      BY <1>4, <2>3, <3>1 DEF WireOrder
    <3> QED BY <1>4, <2>3, <3>1, <3>2
  <2> QED BY <1>5, <2>1, <2>2, <2>3
<1> QED BY <1>1, <1>5 DEF WireOrder

LEMMA Taken ==
  ASSUME NEW w \in Seq(ViewMessages), w # <<>>
  PROVE  /\ Head(w) \in ViewMessages /\ Tail(w) \in Seq(ViewMessages)
         /\ ToSet(w) = {Head(w)} \cup ToSet(Tail(w))
         /\ WireOrder(w) => WireOrder(Tail(w)) /\ \A y \in ToSet(Tail(w)) : InTurn(Head(w), y)
<1>1. /\ Head(w) = w[1] /\ Head(w) \in ViewMessages /\ Tail(w) \in Seq(ViewMessages)
      /\ Len(w) >= 1 /\ Len(Tail(w)) = Len(w) - 1
      /\ \A i \in 1..(Len(w) - 1) : Tail(w)[i] = w[i + 1]
  OBVIOUS
<1>2. ASSUME NEW x \in ToSet(w) PROVE x \in {Head(w)} \cup ToSet(Tail(w))
  <2>1. PICK i \in 1..Len(w) : x = w[i]
    BY DEF ToSet
  <2>2. CASE i > 1
    <3>1. i - 1 \in 1..(Len(w) - 1) /\ i = (i - 1) + 1
      BY <2>1, <2>2
    <3>2. x = Tail(w)[i - 1]
      BY <1>1, <2>1, <3>1
    <3>3. i - 1 \in DOMAIN Tail(w)
      BY <1>1, <3>1
    <3> QED BY <3>2, <3>3 DEF ToSet
  <2> QED BY <1>1, <2>1, <2>2
<1>3. Head(w) \in ToSet(w)
  <2>1. 1 \in 1..Len(w)
    BY <1>1
  <2> QED BY <1>1, <2>1 DEF ToSet
<1>4. \A i \in 1..(Len(w) - 1) : i + 1 \in 1..Len(w)
  BY <1>1
<1>5. ToSet(Tail(w)) \subseteq ToSet(w)
  BY <1>1, <1>4 DEF ToSet
<1>6. ASSUME WireOrder(w) PROVE WireOrder(Tail(w)) /\ \A y \in ToSet(Tail(w)) : InTurn(Head(w), y)
  <2>1. \A i, j \in 1..(Len(w) - 1) : i < j => InTurn(w[i + 1], w[j + 1])
    BY <1>1, <1>4, <1>6 DEF WireOrder
  <2>2. \A i \in 1..(Len(w) - 1) : InTurn(w[1], w[i + 1])
    BY <1>1, <1>4, <1>6 DEF WireOrder
  <2> QED BY <1>1, <2>1, <2>2 DEF WireOrder, ToSet
<1> QED BY <1>1, <1>2, <1>3, <1>5, <1>6

LEMMA FirstAppended ==
  ASSUME NEW w \in Seq(ViewMessages), NEW u \in Seq(ViewMessages), NEW t, FirstOn(w, t)
  PROVE  FirstOn(w \o u, t)
<1>1. PICK i \in 1..Len(w) : /\ w[i] = StateEvent("Scanning", t)
                             /\ \A j \in 1..Len(w) : j < i /\ IsEvent(w[j]) => w[j].scan # t
  BY DEF FirstOn
<1>2. Len(w \o u) = Len(w) + Len(u) /\ w \o u \in Seq(ViewMessages) /\ \A j \in 1..Len(w) : (w \o u)[j] = w[j]
  OBVIOUS
<1>3. i \in 1..Len(w \o u) /\ \A j \in 1..Len(w \o u) : j < i => j \in 1..Len(w)
  BY <1>2
<1> QED BY <1>1, <1>2, <1>3 DEF FirstOn

LEMMA FirstNew ==
  ASSUME NEW w \in Seq(ViewMessages), NEW t \in Nat, \A x \in ToSet(w) : IsEvent(x) => x.scan # t
  PROVE  FirstOn(w \o <<StateEvent("Scanning", t)>>, t)
<1> DEFINE e == StateEvent("Scanning", t)
           u == w \o <<e>>
<1>1. e \in ViewMessages
  BY EventForms DEF ViewMessages, Phases
<1> HIDE DEF e
<1>2. /\ Len(u) = Len(w) + 1 /\ u \in Seq(ViewMessages) /\ u[Len(w) + 1] = e
      /\ \A j \in 1..Len(w) : u[j] = w[j]
  BY <1>1
<1> HIDE DEF u
<1>3. Len(w) + 1 \in 1..Len(u) /\ \A j \in 1..Len(u) : j < Len(w) + 1 => j \in 1..Len(w)
  BY <1>2
<1>4. \A j \in 1..Len(w) : w[j] \in ToSet(w)
  BY DEF ToSet
<1>5. FirstOn(u, t)
  BY <1>2, <1>3, <1>4 DEF FirstOn, e
<1> QED BY <1>5 DEF u, e

LEMMA FirstTaken ==
  ASSUME NEW w \in Seq(ViewMessages), w # <<>>, NEW t, FirstOn(w, t)
  PROVE  /\ StateEvent("Scanning", t) \in ToSet(w)
         /\ Head(w) # StateEvent("Scanning", t) =>
              FirstOn(Tail(w), t) /\ (IsEvent(Head(w)) => Head(w).scan # t)
<1>1. PICK i \in 1..Len(w) : /\ w[i] = StateEvent("Scanning", t)
                             /\ \A j \in 1..Len(w) : j < i /\ IsEvent(w[j]) => w[j].scan # t
  BY DEF FirstOn
<1>2. /\ Head(w) = w[1] /\ Tail(w) \in Seq(ViewMessages)
      /\ Len(w) >= 1 /\ Len(Tail(w)) = Len(w) - 1
      /\ \A k \in 1..(Len(w) - 1) : Tail(w)[k] = w[k + 1]
  OBVIOUS
<1>3. StateEvent("Scanning", t) \in ToSet(w)
  BY <1>1 DEF ToSet
<1>4. CASE i = 1
  BY <1>1, <1>2, <1>3, <1>4
<1>5. CASE i > 1
  <2>1. i - 1 \in 1..(Len(w) - 1) /\ i = (i - 1) + 1 /\ 1 \in 1..Len(w) /\ 1 < i
    BY <1>2, <1>5
  <2>2. Tail(w)[i - 1] = StateEvent("Scanning", t)
    BY <1>1, <1>2, <2>1
  <2>3. ASSUME NEW j \in 1..(Len(w) - 1), j < i - 1, IsEvent(Tail(w)[j])
        PROVE  Tail(w)[j].scan # t
    <3>1. j + 1 \in 1..Len(w) /\ j + 1 < i
      BY <2>3, <1>2
    <3> QED BY <1>1, <1>2, <2>3, <3>1
  <2>4. FirstOn(Tail(w), t)
    <3>1. DOMAIN Tail(w) = 1..(Len(w) - 1)
      BY <1>2
    <3>2. \A j \in 1..(Len(w) - 1) : j < i - 1 /\ IsEvent(Tail(w)[j]) => Tail(w)[j].scan # t
      BY <2>3
    <3> QED BY ONLY <2>1, <2>2, <3>1, <3>2 DEF FirstOn
  <2> QED BY <1>1, <1>2, <1>3, <2>1, <2>4
<1> QED BY <1>1, <1>4, <1>5

-----------------------------------------------------------------------------

ViewTypes ==
  /\ wire \in Seq(ViewMessages) /\ {scanState, shownState} \subseteq Phases
  /\ scanNo \in Nat /\ flushed \in Nat
  /\ DOMAIN shownChunks \subseteq Nat \ {0} /\ \A k \in DOMAIN shownChunks : shownChunks[k] \in Nat
  /\ shownChunks = [k \in DOMAIN shownChunks |-> shownChunks[k]]

\* What is under way is in turn and within what the module has sent, and what is shown
\* of a scan lies before the chunks of it that are under way.
TurnInv ==
  /\ WireOrder(wire)
  /\ \A x \in ToSet(wire) : IsEvent(x) =>
       /\ x.scan <= scanNo
       /\ x.scan = scanNo => (IsChunk(x) => x.is <= flushed) /\ (Ends(x) => scanState # "Scanning")
  /\ \A k \in DOMAIN shownChunks :
       /\ shownChunks[k] <= scanNo /\ (shownChunks[k] = scanNo => k <= flushed)
       /\ \A x \in ToSet(wire) : IsEvent(x) /\ IsChunk(x) /\ x.scan = shownChunks[k] => k < x.is
  /\ ~online => wire = <<>>

Shows(t) == \E k \in DOMAIN shownChunks : shownChunks[k] = t

\* Nothing older than scan t is shown or under way.
Past(t) ==
  /\ \A k \in DOMAIN shownChunks : shownChunks[k] >= t
  /\ \A x \in ToSet(wire) : IsEvent(x) => x.scan >= t

EndMissed(t) == \E v \in {"Idol", "StopScan"} : StateEvent(v, t) \in missed

\* The store has heard that scan t is over, or is about to.
EndHeard(t) ==
  \/ \E v \in {"Idol", "StopScan"} : StateEvent(v, t) \in ToSet(wire)
  \/ shownState # "Scanning" /\ \A x \in ToSet(wire) : IsEvent(x) /\ Starts(x) => x.scan > t

\* A scan of which chunks were sent shows nothing older once its first chunk has come.
FirstChunkInv ==
  \A t \in Nat :
    (t = scanNo /\ flushed > 0) \/ (\E x \in ToSet(wire) : IsEvent(x) /\ IsChunk(x) /\ x.scan = t) \/ Shows(t)
      => ChunkEvent(1, t) \in missed \/ ChunkEvent(1, t) \in ToSet(wire) \/ Past(t)

\* A scan that followed the end of another shows nothing older once its start has come.
StartInv ==
  \A t \in Nat : t \in 1..scanNo /\ t \notin replacing /\ ~EndMissed(t - 1) =>
    \/ StateEvent("Scanning", t) \in missed
    \/ Past(t)
    \/ FirstOn(wire, t) /\ ~Shows(t) /\ EndHeard(t - 1)

EndInv == scanState # "Scanning" /\ ~EndMissed(scanNo) => EndHeard(scanNo)

\* Of a scan of which nothing was missed, the first m chunks are shown and the others
\* are under way; its start is still to come, or has come, or its end has.
HeardUpTo(m) ==
  /\ \A x \in ToSet(wire) : IsEvent(x) /\ IsChunk(x) /\ x.scan = scanNo => x.is > m
  /\ \A n \in Nat : m < n /\ n <= flushed => ChunkEvent(n, scanNo) \in ToSet(wire)
  /\ m > 0 => DOMAIN shownChunks = 1..m /\ \A k \in 1..m : shownChunks[k] = scanNo
  /\ \/ FirstOn(wire, scanNo) /\ m = 0
     \/ shownState = "Scanning" /\ \A x \in ToSet(wire) : IsEvent(x) => x.scan >= scanNo
     \/ /\ scanState # "Scanning"
        /\ \A x \in ToSet(wire) : IsEvent(x) => x.scan >= scanNo /\ ~Starts(x)

HeardInv == AllHeard(scanNo) => \E m \in Nat : m <= flushed /\ HeardUpTo(m)

\* Stores come and go, but the scans they hear of come in their order; and a scan of which
\* nothing was missed and no store has heard yet begins with what is under way.
ForgetInv ==
  /\ heard \in Nat /\ forgotten \in Nat /\ forgotten <= heard /\ heard <= scanNo
  /\ \A x \in ToSet(wire) : IsEvent(x) => heard <= x.scan
  /\ Shows(scanNo) => heard = scanNo
  /\ AllHeard(scanNo) /\ heard # scanNo => FirstOn(wire, scanNo)

ViewInv == ViewTypes /\ TurnInv /\ FirstChunkInv /\ StartInv /\ EndInv /\ HeardInv /\ ForgetInv

\* The inductive invariant says what the property does.
LEMMA ViewInvFollows ==
  ASSUME ViewInv
  PROVE  ViewFollowsScan
<1>1. ASSUME NEW j \in DOMAIN shownChunks, NEW k \in DOMAIN shownChunks, shownChunks[j] < shownChunks[k]
      PROVE  Unnoticed(shownChunks[k])
  <2> DEFINE t == shownChunks[k]
  <2>1. /\ t \in Nat /\ shownChunks[j] \in Nat /\ t <= scanNo /\ scanNo \in Nat /\ k \in Nat /\ k > 0
        /\ shownChunks[j] < t
    BY <1>1 DEF ViewInv, ViewTypes, TurnInv
  <2>2. t \in 1..scanNo /\ ~Past(t) /\ Shows(t)
    BY <2>1 DEF Past, Shows
  <2>3. ChunkEvent(1, t) \notin ToSet(wire)
    <3> SUFFICES ASSUME ChunkEvent(1, t) \in ToSet(wire) PROVE FALSE
      OBVIOUS
    <3>1. IsEvent(ChunkEvent(1, t)) /\ IsChunk(ChunkEvent(1, t)) /\ ChunkEvent(1, t).scan = t /\ ChunkEvent(1, t).is = 1
      BY <2>1, EventForms
    <3>2. k < 1
      BY <3>1 DEF ViewInv, TurnInv
    <3> QED BY <2>1, <3>2
  <2> HIDE DEF t
  <2>4. ChunkEvent(1, t) \in missed
    BY <2>1, <2>2, <2>3 DEF ViewInv, FirstChunkInv
  <2>5. t \notin replacing /\ ~EndMissed(t - 1) => StateEvent("Scanning", t) \in missed
    BY <2>1, <2>2 DEF ViewInv, StartInv
  <2>6. Unnoticed(t)
    BY <2>4, <2>5 DEF Unnoticed, EndMissed
  <2> QED BY <2>6 DEF t
<1>2. ASSUME scanState # "Scanning", flushed > 0, Events(wire) = {}, AllHeard(scanNo)
      PROVE  shownChunks = [k \in 1..flushed |-> scanNo]
  <2>1. PICK m \in Nat : m <= flushed /\ HeardUpTo(m)
    BY <1>2 DEF ViewInv, HeardInv
  <2>2. flushed \in Nat /\ scanNo \in Nat
    BY DEF ViewInv, ViewTypes
  <2>3. m = flushed
    <3> SUFFICES ASSUME m < flushed PROVE FALSE
      BY <2>1, <2>2
    <3>1. ChunkEvent(flushed, scanNo) \in ToSet(wire)
      BY <1>2, <2>1, <2>2 DEF HeardUpTo
    <3>2. IsEvent(ChunkEvent(flushed, scanNo))
      BY <1>2, <2>2, EventForms
    <3> QED BY <1>2, <3>1, <3>2 DEF Events, IsEvent
  <2>4. DOMAIN shownChunks = 1..flushed /\ \A k \in 1..flushed : shownChunks[k] = scanNo
    BY <1>2, <2>1, <2>2, <2>3 DEF HeardUpTo
  <2> QED BY <2>4 DEF ViewInv, ViewTypes
<1> QED BY <1>1, <1>2 DEF ViewFollowsScan

LEMMA ViewInitial == ViewInit => ViewInv
<1> SUFFICES ASSUME ViewInit PROVE ViewInv
  OBVIOUS
<1>1. /\ wire = <<Registered>> /\ shownChunks = <<>> /\ scanState = "Idol" /\ shownState = "Idol"
      /\ scanNo = 0 /\ flushed = 0 /\ online = TRUE
  BY DEF ViewInit
<1>2. wire \in Seq(ViewMessages) /\ ToSet(wire) = {Registered} /\ WireOrder(wire)
  BY <1>1 DEF ViewMessages, ToSet, WireOrder
<1>3. DOMAIN shownChunks = {} /\ \A x \in ToSet(wire) : ~IsEvent(x)
  BY <1>1, <1>2 DEF IsEvent
<1>4. ViewTypes
  BY <1>1, <1>2, <1>3 DEF ViewTypes, Phases
<1>5. TurnInv
  BY <1>1, <1>2, <1>3 DEF TurnInv
<1>6. FirstChunkInv
  BY <1>1, <1>3 DEF FirstChunkInv, Shows
<1>7. StartInv
  BY <1>1 DEF StartInv
<1>8. EndInv
  BY <1>1, <1>3 DEF EndInv, EndHeard
<1>9. HeardInv
  <2>1. HeardUpTo(0) /\ 0 <= flushed
    BY <1>1, <1>3 DEF HeardUpTo
  <2> QED BY <2>1 DEF HeardInv
<1>10. ForgetInv
  <2>1. heard = 0 /\ forgotten = 0
    BY DEF ViewInit
  <2> QED BY <1>1, <1>3, <2>1 DEF ForgetInv, Shows
<1> QED BY <1>4, <1>5, <1>6, <1>7, <1>8, <1>9, <1>10 DEF ViewInv

-----------------------------------------------------------------------------

\* The messages S of ms have been put on the wire.
Sends(ms, S) ==
  /\ wire' \in Seq(ViewMessages) /\ WireOrder(wire') /\ ToSet(wire') = ToSet(wire) \cup S
  /\ ~online => wire' = wire
  /\ \A t : FirstOn(wire, t) => FirstOn(wire', t)
  /\ \A t \in Nat :
       /\ ms = <<StateEvent("Scanning", t)>> /\ S # {}
       /\ \A x \in ToSet(wire) : IsEvent(x) => x.scan # t
       => FirstOn(wire', t)

LEMMA OneMessage ==
  ASSUME NEW x \in ViewMessages
  PROVE  <<x>> \in Seq(ViewMessages) /\ ToSet(<<x>>) = {x} /\ WireOrder(<<x>>)
BY DEF ToSet, WireOrder

LEMMA TwoMessages ==
  ASSUME NEW x \in ViewMessages, NEW y \in ViewMessages, InTurn(x, y)
  PROVE  <<x, y>> \in Seq(ViewMessages) /\ ToSet(<<x, y>>) = {x, y} /\ WireOrder(<<x, y>>)
<1>1. DOMAIN <<x, y>> = {1, 2} /\ <<x, y>>[1] = x /\ <<x, y>>[2] = y
  OBVIOUS
<1>2. WireOrder(<<x, y>>)
  BY <1>1 DEF WireOrder
<1> QED BY <1>1, <1>2 DEF ToSet

\* Messages that are all later than what is under way may follow it.
LEMMA SendsInTurn ==
  ASSUME ViewTypes, TurnInv, NEW ms \in Seq(ViewMessages), WireOrder(ms),
         \A x \in ToSet(wire), y \in ToSet(ms) : InTurn(x, y),
         NEW on \in Passed(ms), ~online => on = <<>>, wire' = wire \o on
  PROVE  ToSet(on) \subseteq ToSet(ms) /\ Sends(ms, ToSet(on))
<1>1. on \in Seq(ViewMessages) /\ WireOrder(on) /\ ToSet(on) \subseteq ToSet(ms)
  <2>1. CASE on = <<>>
    BY <2>1 DEF WireOrder, ToSet
  <2>2. CASE on = ms
    BY <2>2
  <2>3. ASSUME NEW i \in DOMAIN ms, on = <<ms[i]>>
        PROVE  on \in Seq(ViewMessages) /\ WireOrder(on) /\ ToSet(on) \subseteq ToSet(ms)
    <3>1. ms[i] \in ViewMessages /\ ms[i] \in ToSet(ms)
      BY DEF ToSet
    <3> QED BY <2>3, <3>1, OneMessage
  <2> QED BY <2>1, <2>2, <2>3 DEF Passed
<1>2. wire \in Seq(ViewMessages) /\ WireOrder(wire)
  BY DEF ViewTypes, TurnInv
<1>3. wire' \in Seq(ViewMessages) /\ ToSet(wire') = ToSet(wire) \cup ToSet(on)
  BY <1>1, <1>2, OnAppended
<1>4. WireOrder(wire')
  BY <1>1, <1>2, TurnAppended
<1>5. ~online => wire' = wire
  BY <1>2
<1>6. \A t : FirstOn(wire, t) => FirstOn(wire', t)
  BY <1>1, <1>2, FirstAppended
<1>7. ASSUME NEW t \in Nat, ms = <<StateEvent("Scanning", t)>>, ToSet(on) # {},
             \A x \in ToSet(wire) : IsEvent(x) => x.scan # t
      PROVE  FirstOn(wire', t)
  <2>1. on = ms
    <3>1. ToSet(<<>>) = {}
      BY DEF ToSet
    <3>2. \A i \in DOMAIN ms : <<ms[i]>> = ms
      BY <1>7
    <3> QED BY <1>7, <3>1, <3>2 DEF Passed
  <2> QED BY <1>2, <1>7, <2>1, FirstNew
<1> QED BY <1>1, <1>3, <1>4, <1>5, <1>6, <1>7 DEF Sends

LEMMA ReportGives ==
  ASSUME ViewTypes, TurnInv, NEW ms \in Seq(ViewMessages), WireOrder(ms),
         \A x \in ToSet(wire), y \in ToSet(ms) : InTurn(x, y), Report(ms)
  PROVE  \E S \in SUBSET ToSet(ms) : Sends(ms, S) /\ missed' = missed \cup (ToSet(ms) \ S)
<1> PICK on \in Passed(ms) :
      /\ ~online => on = <<>>
      /\ wire' = wire \o on
      /\ missed' = missed \cup (ToSet(ms) \ ToSet(on))
  BY DEF Report
<1>1. ToSet(on) \subseteq ToSet(ms) /\ Sends(ms, ToSet(on))
  BY SendsInTurn
<1> QED BY <1>1

\* New messages belong to this scan or a later one, so what was past stays past.
LEMMA SendingKeeps ==
  ASSUME ViewTypes, UNCHANGED <<shownState, shownChunks>>, NEW ms, NEW S \in SUBSET ViewMessages, Sends(ms, S),
         \A y \in S : IsEvent(y) => y.scan >= scanNo,
         missed \subseteq missed', replacing \subseteq replacing'
  PROVE  /\ \A t \in Nat : t <= scanNo /\ Past(t) => Past(t)'
         /\ \A t \in Nat : Shows(t)' = Shows(t)
         /\ \A t : ~EndMissed(t)' => ~EndMissed(t)
         /\ \A t \in Nat :
              EndHeard(t) /\ (t < scanNo \/ \A y \in S : IsEvent(y) /\ Starts(y) => y.scan > t) => EndHeard(t)'
         /\ StartInv => \A t \in Nat : t \in 1..scanNo /\ t \notin replacing' /\ ~EndMissed(t - 1)' =>
              \/ StateEvent("Scanning", t) \in missed'
              \/ Past(t)'
              \/ FirstOn(wire', t) /\ ~Shows(t)' /\ EndHeard(t - 1)'
<1>1. ToSet(wire') = ToSet(wire) \cup S /\ scanNo \in Nat
  BY DEF Sends, ViewTypes
<1>2. \A y \in S : IsEvent(y) => y.scan \in Nat
  BY MessageIs, EventIs
<1>3. \A t \in Nat : t <= scanNo /\ Past(t) => Past(t)'
  BY <1>1, <1>2 DEF Past
<1>4. \A t \in Nat : Shows(t)' = Shows(t)
  BY DEF Shows
<1>5. \A t : ~EndMissed(t)' => ~EndMissed(t)
  BY DEF EndMissed
<1>6. ASSUME NEW t \in Nat, EndHeard(t), t < scanNo \/ \A y \in S : IsEvent(y) /\ Starts(y) => y.scan > t
      PROVE  EndHeard(t)'
  <2>1. \A y \in S : IsEvent(y) /\ Starts(y) => y.scan > t
    BY <1>1, <1>2, <1>6
  <2> QED BY <1>1, <1>6, <2>1 DEF EndHeard
<1>7. ASSUME StartInv, NEW t \in Nat, t \in 1..scanNo, t \notin replacing', ~EndMissed(t - 1)'
      PROVE  \/ StateEvent("Scanning", t) \in missed'
             \/ Past(t)'
             \/ FirstOn(wire', t) /\ ~Shows(t)' /\ EndHeard(t - 1)'
  <2>1. t - 1 \in Nat /\ t - 1 < scanNo /\ t <= scanNo
    BY <1>1, <1>7
  <2>2. t \notin replacing /\ ~EndMissed(t - 1)
    BY <1>5, <1>7
  <2>3. \/ StateEvent("Scanning", t) \in missed
        \/ Past(t)
        \/ FirstOn(wire, t) /\ ~Shows(t) /\ EndHeard(t - 1)
    BY <1>7, <2>2 DEF StartInv
  <2> QED BY <1>3, <1>4, <1>6, <2>1, <2>3 DEF Sends
<1> QED BY <1>3, <1>4, <1>5, <1>6, <1>7

-----------------------------------------------------------------------------

LEMMA ScanStartKeeps ==
  ASSUME ViewInv, ViewStart
  PROVE  ViewInv'
<1> DEFINE t0 == scanNo + 1
           e == StateEvent("Scanning", t0)
<1> USE DEF ViewInv
<1>1. /\ scanNo \in Nat /\ t0 \in Nat /\ scanNo' = t0 /\ flushed' = 0 /\ scanState' = "Scanning"
      /\ UNCHANGED <<online, shownState, shownChunks, heard, forgotten>> /\ replacing \subseteq replacing'
      /\ t0 \notin replacing' => scanState # "Scanning"
      /\ Report(<<e>>)
  BY DEF ViewStart, ViewTypes
<1>2. e \in ViewEvents /\ IsEvent(e) /\ ~IsChunk(e) /\ e.scan = t0 /\ Starts(e) /\ ~Ends(e)
  BY <1>1, EventForms DEF Phases
<1> HIDE DEF e
<1>3. <<e>> \in Seq(ViewMessages) /\ ToSet(<<e>>) = {e} /\ WireOrder(<<e>>)
  BY <1>2, OneMessage DEF ViewMessages
<1>4. \A x \in ToSet(wire) : IsEvent(x) => x \in ViewEvents /\ x.scan \in Nat /\ x.scan < t0
  <2> SUFFICES ASSUME NEW x \in ToSet(wire), IsEvent(x) PROVE x \in ViewEvents /\ x.scan \in Nat /\ x.scan < t0
    OBVIOUS
  <2>1. x \in ViewEvents
    BY MessageIs DEF ViewTypes, ToSet
  <2> QED BY <1>1, <2>1, EventIs DEF TurnInv
<1>5. \A x \in ToSet(wire), y \in ToSet(<<e>>) : InTurn(x, y)
  BY <1>1, <1>2, <1>3, <1>4 DEF InTurn
<1>6. PICK S \in SUBSET {e} : Sends(<<e>>, S) /\ missed' = missed \cup ({e} \ S)
  BY <1>1, <1>3, <1>5, ReportGives
<1>7. ToSet(wire') = ToSet(wire) \cup S /\ wire' \in Seq(ViewMessages) /\ WireOrder(wire')
  BY <1>6 DEF Sends
<1>8. ViewTypes'
  BY <1>1, <1>7 DEF ViewTypes, Phases
<1>9. TurnInv'
  <2>1. \A x \in ToSet(wire') : IsEvent(x) =>
          x.scan <= t0 /\ (x.scan = t0 => ~IsChunk(x) /\ ~Ends(x))
    BY <1>1, <1>2, <1>4, <1>6, <1>7
  <2>2. \A k \in DOMAIN shownChunks :
          /\ shownChunks[k] <= t0 /\ shownChunks[k] # t0
          /\ \A x \in ToSet(wire') : IsEvent(x) /\ IsChunk(x) /\ x.scan = shownChunks[k] => k < x.is
    <3>1. \A k \in DOMAIN shownChunks : shownChunks[k] \in Nat /\ shownChunks[k] <= scanNo
      BY DEF ViewTypes, TurnInv
    <3> QED BY <1>1, <1>2, <1>6, <1>7, <3>1 DEF TurnInv
  <2>3. ~online' => wire' = <<>>
    BY <1>1, <1>6 DEF Sends, TurnInv
  <2> QED BY <1>1, <1>7, <2>1, <2>2, <2>3 DEF TurnInv
<1>10. S \subseteq ViewMessages /\ (\A y \in S : IsEvent(y) => y.scan >= scanNo) /\ missed \subseteq missed'
  BY <1>1, <1>2, <1>6 DEF ViewMessages
<1>11. /\ \A t \in Nat : t <= scanNo /\ Past(t) => Past(t)'
       /\ \A t \in Nat : Shows(t)' = Shows(t)
       /\ \A t : ~EndMissed(t)' => ~EndMissed(t)
       /\ \A t \in Nat :
            EndHeard(t) /\ (t < scanNo \/ \A y \in S : IsEvent(y) /\ Starts(y) => y.scan > t) => EndHeard(t)'
       /\ \A t \in Nat : t \in 1..scanNo /\ t \notin replacing' /\ ~EndMissed(t - 1)' =>
            \/ StateEvent("Scanning", t) \in missed'
            \/ Past(t)'
            \/ FirstOn(wire', t) /\ ~Shows(t)' /\ EndHeard(t - 1)'
  BY <1>1, <1>6, <1>10, SendingKeeps
<1>12. FirstChunkInv'
  <2> SUFFICES ASSUME NEW t \in Nat,
                      ((t = scanNo /\ flushed > 0) \/ (\E x \in ToSet(wire) : IsEvent(x) /\ IsChunk(x) /\ x.scan = t) \/ Shows(t))'
               PROVE  (ChunkEvent(1, t) \in missed \/ ChunkEvent(1, t) \in ToSet(wire) \/ Past(t))'
    BY DEF FirstChunkInv
  <2>1. (\E x \in ToSet(wire) : IsEvent(x) /\ IsChunk(x) /\ x.scan = t) \/ Shows(t)
    BY <1>1, <1>2, <1>6, <1>7, <1>11
  <2>2. t <= scanNo
    BY <2>1 DEF TurnInv, Shows
  <2>3. ChunkEvent(1, t) \in missed \/ ChunkEvent(1, t) \in ToSet(wire) \/ Past(t)
    BY <2>1 DEF FirstChunkInv
  <2> QED BY <1>7, <1>10, <1>11, <2>2, <2>3
<1>13. StartInv'
  <2> SUFFICES ASSUME NEW t \in Nat, t \in 1..scanNo', t \notin replacing', ~EndMissed(t - 1)'
               PROVE  \/ StateEvent("Scanning", t) \in missed'
                      \/ Past(t)'
                      \/ FirstOn(wire', t) /\ ~Shows(t)' /\ EndHeard(t - 1)'
    BY DEF StartInv
  <2>1. CASE t <= scanNo
    <3>1. t \in 1..scanNo
      BY <1>1, <2>1
    <3> QED BY <1>11, <3>1
  <2>2. CASE t > scanNo
    <3>1. t = t0 /\ t - 1 = scanNo
      BY <1>1, <2>2
    <3>2. CASE S = {}
      <4>1. e \in missed'
        BY <1>6, <3>2
      <4> QED BY <3>1, <4>1 DEF e
    <3>3. CASE S # {}
      <4>1. FirstOn(wire', t)
        <5>1. \A x \in ToSet(wire) : IsEvent(x) => x.scan # t0
          BY <1>1, <1>4
        <5> QED BY <1>1, <1>6, <3>1, <3>3, <5>1 DEF Sends, e
      <4>2. ~Shows(t)'
        <5>1. ~Shows(t0)
          BY <1>1 DEF Shows, TurnInv, ViewTypes
        <5> QED BY <1>1, <1>11, <3>1, <5>1
      <4>3. EndHeard(t - 1)
        <5>1. EndHeard(scanNo)
          BY <1>1, <1>11, <3>1 DEF EndInv
        <5> QED BY <3>1, <5>1
      <4>4. EndHeard(t - 1)'
        <5>1. \A y \in S : IsEvent(y) /\ Starts(y) => y.scan > t - 1
          BY <1>1, <1>2, <1>6, <3>1
        <5>2. t - 1 \in Nat
          BY <1>1, <3>1
        <5> QED BY <1>11, <4>3, <5>1, <5>2
      <4> QED BY <3>1, <4>1, <4>2, <4>4
    <3> QED BY <3>2, <3>3
  <2> QED BY <1>1, <2>1, <2>2
<1>14. EndInv'
  BY <1>1 DEF EndInv
<1>15. AllHeard(scanNo)' => FirstOn(wire', t0)
  <2> SUFFICES ASSUME AllHeard(scanNo)' PROVE FirstOn(wire', t0)
    OBVIOUS
  <2>1. S # {}
    <3> SUFFICES ASSUME S = {} PROVE FALSE
      OBVIOUS
    <3>1. e \in missed'
      BY <1>6
    <3> QED BY <1>1, <1>2, <3>1 DEF AllHeard
  <2>2. \A x \in ToSet(wire) : IsEvent(x) => x.scan # t0
    BY <1>1, <1>4
  <2> QED BY <1>1, <1>6, <2>1, <2>2 DEF Sends, e
<1>16. HeardInv'
  <2> SUFFICES ASSUME AllHeard(scanNo)' PROVE (0 <= flushed /\ HeardUpTo(0))'
    BY DEF HeardInv
  <2>2. FirstOn(wire', t0)
    BY <1>15
  <2>3. \A x \in ToSet(wire') : IsEvent(x) /\ IsChunk(x) => x.scan # t0
    BY <1>1, <1>2, <1>4, <1>6, <1>7
  <2> QED BY <1>1, <2>2, <2>3 DEF HeardUpTo
<1>17. ForgetInv'
  <2>1. heard \in Nat /\ forgotten \in Nat /\ forgotten <= heard /\ heard <= scanNo
    BY DEF ForgetInv
  <2>2. heard <= t0 /\ ~Shows(t0)
    <3>1. ~Shows(t0)
      BY <1>1 DEF Shows, TurnInv, ViewTypes
    <3> QED BY <1>1, <2>1, <3>1
  <2>3. \A x \in ToSet(wire') : IsEvent(x) => heard <= x.scan
    BY <1>2, <1>6, <1>7, <2>2 DEF ForgetInv
  <2>4. ~Shows(scanNo)'
    BY <1>1, <2>2 DEF Shows
  <2> QED BY <1>1, <1>15, <2>1, <2>2, <2>3, <2>4 DEF ForgetInv
<1> QED BY <1>8, <1>9, <1>12, <1>13, <1>14, <1>16, <1>17

\* A report of the scan that the module is at: what it may be for the invariant to hold.
LEMMA SendingHere ==
  ASSUME ViewInv, scanNo' = scanNo, flushed' \in Nat, flushed <= flushed', scanState' \in Phases,
         UNCHANGED <<online, shownState, shownChunks, heard, forgotten, replacing>>,
         NEW ms, NEW S \in SUBSET ViewMessages, Sends(ms, S), missed \subseteq missed',
         \A y \in S : IsEvent(y) =>
           /\ y.scan = scanNo
           /\ IsChunk(y) => flushed < y.is /\ y.is <= flushed'
           /\ Ends(y) => scanState' # "Scanning"
           /\ Starts(y) => scanState = "Scanning",
         scanState # "Scanning" => scanState' # "Scanning",
         flushed = 0 /\ flushed' > 0 => ChunkEvent(1, scanNo) \in S \cup missed',
         scanState = "Scanning" /\ scanState' # "Scanning" =>
           \E v \in {"Idol", "StopScan"} : StateEvent(v, scanNo) \in S \cup missed',
         AllHeard(scanNo)' =>
           \A n \in Nat : flushed < n /\ n <= flushed' => ChunkEvent(n, scanNo) \in S
  PROVE  ViewInv'
<1> USE DEF ViewInv
<1>1. /\ ToSet(wire') = ToSet(wire) \cup S /\ wire' \in Seq(ViewMessages) /\ WireOrder(wire')
      /\ ~online => wire' = wire
      /\ \A t : FirstOn(wire, t) => FirstOn(wire', t)
  BY DEF Sends
<1>2. scanNo \in Nat /\ flushed \in Nat
  BY DEF ViewTypes
<1>3. \A y \in S : IsEvent(y) => y \in ViewEvents /\ (IsChunk(y) => y.is \in Nat /\ y.is > 0)
  BY MessageIs, EventIs
<1>4. ViewTypes'
  BY <1>1, <1>2 DEF ViewTypes
<1>5. TurnInv'
  <2>1. ASSUME NEW x \in ToSet(wire'), IsEvent(x)
        PROVE  /\ x.scan <= scanNo
               /\ x.scan = scanNo => (IsChunk(x) => x.is <= flushed') /\ (Ends(x) => scanState' # "Scanning")
    <3>1. CASE x \in S
      BY <1>2, <2>1, <3>1
    <3>2. CASE x \in ToSet(wire)
      <4>1. /\ x.scan <= scanNo
            /\ x.scan = scanNo => (IsChunk(x) => x.is <= flushed) /\ (Ends(x) => scanState # "Scanning")
        BY <2>1, <3>2 DEF TurnInv
      <4>2. IsChunk(x) => x.is \in Nat
        <5>1. x \in ViewEvents
          BY <2>1, <3>2, MessageIs DEF ViewTypes, ToSet
        <5> QED BY <5>1, EventIs
      <4> QED BY <1>2, <4>1, <4>2
    <3> QED BY <1>1, <2>1, <3>1, <3>2
  <2>2. ASSUME NEW k \in DOMAIN shownChunks
        PROVE  /\ shownChunks[k] <= scanNo /\ (shownChunks[k] = scanNo => k <= flushed')
               /\ \A x \in ToSet(wire') : IsEvent(x) /\ IsChunk(x) /\ x.scan = shownChunks[k] => k < x.is
    <3>1. k \in Nat /\ shownChunks[k] <= scanNo /\ (shownChunks[k] = scanNo => k <= flushed)
      BY DEF ViewTypes, TurnInv
    <3>2. \A x \in ToSet(wire) : IsEvent(x) /\ IsChunk(x) /\ x.scan = shownChunks[k] => k < x.is
      BY DEF TurnInv
    <3>3. \A x \in S : IsEvent(x) /\ IsChunk(x) /\ x.scan = shownChunks[k] => k < x.is
      BY <1>2, <1>3, <3>1
    <3> QED BY <1>1, <1>2, <3>1, <3>2, <3>3
  <2>3. ~online' => wire' = <<>>
    BY <1>1 DEF TurnInv
  <2> QED BY <1>1, <2>1, <2>2, <2>3 DEF TurnInv
<1>6. \A y \in S : IsEvent(y) => y.scan >= scanNo
  BY <1>2
<1>7. /\ \A t \in Nat : t <= scanNo /\ Past(t) => Past(t)'
      /\ \A t \in Nat : Shows(t)' = Shows(t)
      /\ \A t : ~EndMissed(t)' => ~EndMissed(t)
      /\ \A t \in Nat :
           EndHeard(t) /\ (t < scanNo \/ \A y \in S : IsEvent(y) /\ Starts(y) => y.scan > t) => EndHeard(t)'
      /\ \A t \in Nat : t \in 1..scanNo /\ t \notin replacing' /\ ~EndMissed(t - 1)' =>
           \/ StateEvent("Scanning", t) \in missed'
           \/ Past(t)'
           \/ FirstOn(wire', t) /\ ~Shows(t)' /\ EndHeard(t - 1)'
  BY <1>6, SendingKeeps
<1>8. FirstChunkInv'
  <2> SUFFICES ASSUME NEW t \in Nat,
                      ((t = scanNo /\ flushed > 0) \/ (\E x \in ToSet(wire) : IsEvent(x) /\ IsChunk(x) /\ x.scan = t) \/ Shows(t))'
               PROVE  (ChunkEvent(1, t) \in missed \/ ChunkEvent(1, t) \in ToSet(wire) \/ Past(t))'
    BY DEF FirstChunkInv
  <2>1. CASE (t = scanNo /\ flushed > 0) \/ (\E x \in ToSet(wire) : IsEvent(x) /\ IsChunk(x) /\ x.scan = t) \/ Shows(t)
    <3>1. t <= scanNo
      BY <1>2, <2>1 DEF TurnInv, Shows
    <3>2. ChunkEvent(1, t) \in missed \/ ChunkEvent(1, t) \in ToSet(wire) \/ Past(t)
      BY <2>1 DEF FirstChunkInv
    <3> QED BY <1>1, <1>7, <3>1, <3>2
  <2>2. CASE ~((t = scanNo /\ flushed > 0) \/ (\E x \in ToSet(wire) : IsEvent(x) /\ IsChunk(x) /\ x.scan = t) \/ Shows(t))
    <3>1. (t = scanNo /\ flushed' > 0) \/ \E x \in S : IsEvent(x) /\ IsChunk(x) /\ x.scan = t
      BY <1>1, <1>7, <2>2
    <3>2. t = scanNo /\ flushed' > 0
      BY <1>2, <1>3, <3>1
    <3>3. flushed = 0
      BY <1>2, <2>2, <3>2
    <3> QED BY <1>1, <3>2, <3>3
  <2> QED BY <2>1, <2>2
<1>9. StartInv'
  BY <1>7 DEF StartInv
<1>10. EndInv'
  <2> SUFFICES ASSUME scanState' # "Scanning", ~EndMissed(scanNo)' PROVE EndHeard(scanNo)'
    BY DEF EndInv
  <2>1. CASE scanState = "Scanning"
    <3>1. PICK v \in {"Idol", "StopScan"} : StateEvent(v, scanNo) \in S \cup missed'
      BY <2>1
    <3>2. StateEvent(v, scanNo) \in ToSet(wire')
      BY <1>1, <3>1 DEF EndMissed
    <3> QED BY <3>2 DEF EndHeard
  <2>2. CASE scanState # "Scanning"
    <3>1. EndHeard(scanNo)
      BY <2>2 DEF EndInv, EndMissed
    <3>2. \A y \in S : IsEvent(y) => ~Starts(y)
      BY <2>2
    <3> QED BY <1>1, <3>1, <3>2 DEF EndHeard
  <2> QED BY <2>1, <2>2
<1>11. HeardInv'
  <2> SUFFICES ASSUME AllHeard(scanNo)' PROVE (\E m \in Nat : m <= flushed /\ HeardUpTo(m))'
    BY DEF HeardInv
  <2>1. AllHeard(scanNo)
    BY DEF AllHeard
  <2>2. PICK m \in Nat : m <= flushed /\ HeardUpTo(m)
    BY <2>1 DEF HeardInv
  <2>3. \A x \in ToSet(wire') : IsEvent(x) /\ IsChunk(x) /\ x.scan = scanNo => x.is > m
    <3>1. \A x \in S : IsEvent(x) /\ IsChunk(x) => x.is > m
      BY <1>2, <1>3, <2>2
    <3> QED BY <1>1, <2>2, <3>1 DEF HeardUpTo
  <2>4. \A n \in Nat : m < n /\ n <= flushed' => ChunkEvent(n, scanNo) \in ToSet(wire')
    <3>1. \A n \in Nat : n <= flushed \/ flushed < n
      BY <1>2
    <3> QED BY <1>1, <2>2, <3>1 DEF HeardUpTo
  <2>5. \/ FirstOn(wire', scanNo) /\ m = 0
        \/ shownState = "Scanning" /\ \A x \in ToSet(wire') : IsEvent(x) => x.scan >= scanNo
        \/ /\ scanState' # "Scanning"
           /\ \A x \in ToSet(wire') : IsEvent(x) => x.scan >= scanNo /\ ~Starts(x)
    BY <1>1, <1>6, <2>2 DEF HeardUpTo
  <2>6. m <= flushed'
    BY <1>2, <2>2
  <2>7. HeardUpTo(m)'
    BY <2>2, <2>3, <2>4, <2>5 DEF HeardUpTo
  <2> QED BY <2>6, <2>7
<1>12. ForgetInv'
  <2>1. heard \in Nat /\ forgotten \in Nat /\ forgotten <= heard /\ heard <= scanNo
    BY DEF ForgetInv
  <2>2. \A x \in ToSet(wire') : IsEvent(x) => heard <= x.scan
    BY <1>1, <2>1 DEF ForgetInv
  <2>3. Shows(scanNo)' => heard = scanNo
    BY DEF ForgetInv, Shows
  <2>4. AllHeard(scanNo)' => AllHeard(scanNo)
    BY DEF AllHeard
  <2> QED BY <1>1, <2>1, <2>2, <2>3, <2>4 DEF ForgetInv
<1> QED BY <1>4, <1>5, <1>8, <1>9, <1>10, <1>11, <1>12

LEMMA WireBefore ==
  ASSUME ViewTypes, TurnInv, NEW x \in ToSet(wire), IsEvent(x)
  PROVE  /\ x \in ViewEvents /\ x.scan \in Nat /\ x.scan <= scanNo
         /\ x.scan = scanNo => (IsChunk(x) => x.is \in Nat /\ x.is <= flushed) /\ (Ends(x) => scanState # "Scanning")
<1>1. x \in ViewEvents
  BY MessageIs DEF ViewTypes, ToSet
<1> QED BY <1>1, EventIs DEF TurnInv

LEMMA FlushKeeps ==
  ASSUME ViewInv, ViewFlush
  PROVE  ViewInv'
<1> DEFINE n == flushed + 1
           e == ChunkEvent(n, scanNo)
<1>0. ViewTypes /\ TurnInv
  BY DEF ViewInv
<1>1. /\ scanNo \in Nat /\ flushed \in Nat /\ n \in Nat /\ n > 0
      /\ scanState = "Scanning" /\ flushed' = n /\ Report(<<e>>)
      /\ UNCHANGED <<scanState, scanNo, online, known, shownState, shownChunks, heard, forgotten, replacing>>
  BY <1>0 DEF ViewFlush, ViewTypes
<1>2. e \in ViewEvents /\ IsEvent(e) /\ IsChunk(e) /\ e.scan = scanNo /\ e.is = n /\ ~Starts(e) /\ ~Ends(e)
  BY <1>1, EventForms
<1> HIDE DEF e
<1>3. <<e>> \in Seq(ViewMessages) /\ ToSet(<<e>>) = {e} /\ WireOrder(<<e>>)
  BY <1>2, OneMessage DEF ViewMessages
<1>4. \A x \in ToSet(wire), y \in ToSet(<<e>>) : InTurn(x, y)
  <2> SUFFICES ASSUME NEW x \in ToSet(wire), IsEvent(x) PROVE InTurn(x, e)
    BY <1>3 DEF InTurn
  <2>1. x.scan \in Nat /\ x.scan <= scanNo /\ (x.scan = scanNo /\ IsChunk(x) => x.is \in Nat /\ x.is <= flushed)
    BY <1>0, WireBefore
  <2> QED BY <1>1, <1>2, <2>1 DEF InTurn
<1>5. PICK S \in SUBSET {e} : Sends(<<e>>, S) /\ missed' = missed \cup ({e} \ S)
  BY <1>0, <1>1, <1>3, <1>4, ReportGives
<1>6. S \subseteq ViewMessages /\ missed \subseteq missed' /\ e \in S \cup missed'
  BY <1>2, <1>5 DEF ViewMessages
<1>7. flushed = 0 => ChunkEvent(1, scanNo) = e
  BY <1>1 DEF e
<1>8. AllHeard(scanNo)' => \A k \in Nat : flushed < k /\ k <= flushed' => ChunkEvent(k, scanNo) \in S
  <2> SUFFICES ASSUME AllHeard(scanNo)', NEW k \in Nat, flushed < k, k <= flushed' PROVE ChunkEvent(k, scanNo) \in S
    OBVIOUS
  <2>1. k = n
    BY <1>1
  <2>2. e \in S
    BY <1>1, <1>2, <1>6 DEF AllHeard
  <2> QED BY <2>1, <2>2 DEF e
<1>9. \A y \in S : /\ y.scan = scanNo /\ (IsChunk(y) => flushed < y.is /\ y.is <= flushed')
                   /\ ~Ends(y) /\ ~Starts(y)
  BY <1>1, <1>2, <1>5
<1>10. flushed' \in Nat /\ flushed <= flushed' /\ scanState' \in Phases
  BY <1>1 DEF Phases
<1> HIDE DEF n
<1> QED BY <1>1, <1>5, <1>6, <1>7, <1>8, <1>9, <1>10, SendingHere

LEMMA EndKeeps ==
  ASSUME ViewInv, ViewEnd
  PROVE  ViewInv'
<1>0. ViewTypes /\ TurnInv
  BY DEF ViewInv
<1>1. PICK v \in {"Idol", "StopScan"} : \E last \in BOOLEAN :
        /\ scanState' = v /\ flushed' = IF last THEN flushed + 1 ELSE flushed
        /\ Report(IF last THEN <<ChunkEvent(flushed', scanNo), StateEvent(v, scanNo)>>
                  ELSE <<StateEvent(v, scanNo)>>)
  BY DEF ViewEnd
<1>2. PICK last \in BOOLEAN :
        /\ scanState' = v /\ flushed' = IF last THEN flushed + 1 ELSE flushed
        /\ Report(IF last THEN <<ChunkEvent(flushed', scanNo), StateEvent(v, scanNo)>>
                  ELSE <<StateEvent(v, scanNo)>>)
  BY <1>1
<1> DEFINE n == flushed + 1
           c == ChunkEvent(n, scanNo)
           e == StateEvent(v, scanNo)
<1>3. /\ scanNo \in Nat /\ flushed \in Nat /\ n \in Nat /\ n > 0 /\ scanState = "Scanning"
      /\ UNCHANGED <<scanNo, online, shownState, shownChunks, heard, forgotten, replacing>>
  BY <1>0 DEF ViewEnd, ViewTypes
<1>4. /\ e \in ViewEvents /\ IsEvent(e) /\ ~IsChunk(e) /\ e.scan = scanNo /\ ~Starts(e) /\ Ends(e)
      /\ c \in ViewEvents /\ IsEvent(c) /\ IsChunk(c) /\ c.scan = scanNo /\ c.is = n /\ ~Starts(c) /\ ~Ends(c)
  <2>1. v \in Phases /\ v # "Scanning" /\ n \in Nat \ {0}
    BY <1>3 DEF Phases
  <2>2. e \in ViewEvents /\ IsEvent(e) /\ ~IsChunk(e) /\ e.scan = scanNo /\ ~Starts(e) /\ Ends(e)
    BY ONLY <1>3, <2>1, StateEventIs
  <2> HIDE DEF n
  <2>3. c \in ViewEvents /\ IsEvent(c) /\ IsChunk(c) /\ c.scan = scanNo /\ c.is = n /\ ~Starts(c) /\ ~Ends(c)
    BY ONLY <1>3, <2>1, EventForms
  <2> QED BY ONLY <2>2, <2>3
<1>5. scanState' # "Scanning" /\ scanState' \in Phases
  BY <1>2 DEF Phases
<1> HIDE DEF c, e
<1>6. ASSUME NEW x \in ToSet(wire) PROVE InTurn(x, e) /\ InTurn(x, c)
  <2>1. IsEvent(x) => x.scan \in Nat /\ x.scan <= scanNo /\ (x.scan = scanNo /\ IsChunk(x) => x.is \in Nat /\ x.is <= flushed)
    BY <1>0, WireBefore
  <2> QED BY <1>3, <1>4, <2>1 DEF InTurn
<1>7. CASE last = TRUE
  <2>1. flushed' = n /\ Report(<<c, e>>)
    <3>1. flushed' = n
      BY <1>2, <1>7
    <3> QED BY <1>2, <1>7, <3>1 DEF c, e
  <2>2. InTurn(c, e)
    BY <1>3, <1>4 DEF InTurn
  <2>3. <<c, e>> \in Seq(ViewMessages) /\ ToSet(<<c, e>>) = {c, e} /\ WireOrder(<<c, e>>)
    BY <1>4, <2>2, TwoMessages DEF ViewMessages
  <2>4. \A x \in ToSet(wire), y \in ToSet(<<c, e>>) : InTurn(x, y)
    BY <1>6, <2>3
  <2>5. PICK S \in SUBSET {c, e} : Sends(<<c, e>>, S) /\ missed' = missed \cup ({c, e} \ S)
    BY <1>0, <2>1, <2>3, <2>4, ReportGives
  <2>6. S \subseteq ViewMessages /\ missed \subseteq missed' /\ e \in S \cup missed' /\ c \in S \cup missed'
    BY <1>4, <2>5 DEF ViewMessages
  <2>7. flushed = 0 => ChunkEvent(1, scanNo) = c
    BY <1>3 DEF c
  <2>8. AllHeard(scanNo)' => \A k \in Nat : flushed < k /\ k <= flushed' => ChunkEvent(k, scanNo) \in S
    <3> SUFFICES ASSUME AllHeard(scanNo)', NEW k \in Nat, flushed < k, k <= flushed' PROVE ChunkEvent(k, scanNo) \in S
      OBVIOUS
    <3>1. k = n
      BY <1>3, <2>1
    <3>2. c \in S
      BY <1>3, <1>4, <2>6 DEF AllHeard
    <3> QED BY <3>1, <3>2 DEF c
  <2>9. \A y \in S : /\ y.scan = scanNo /\ (IsChunk(y) => flushed < y.is /\ y.is <= flushed')
                     /\ ~Starts(y)
    BY <1>3, <1>4, <2>1, <2>5
  <2>10. flushed' \in Nat /\ flushed <= flushed'
    BY <1>3, <2>1
  <2>11. \E u \in {"Idol", "StopScan"} : StateEvent(u, scanNo) \in S \cup missed'
    BY <2>6 DEF e
  <2> HIDE DEF n
  <2> QED BY <1>3, <1>5, <2>5, <2>6, <2>7, <2>8, <2>9, <2>10, <2>11, SendingHere
<1>8. CASE last = FALSE
  <2>1. flushed' = flushed /\ Report(<<e>>)
    BY <1>2, <1>8 DEF e
  <2>3. <<e>> \in Seq(ViewMessages) /\ ToSet(<<e>>) = {e} /\ WireOrder(<<e>>)
    BY <1>4, OneMessage DEF ViewMessages
  <2>4. \A x \in ToSet(wire), y \in ToSet(<<e>>) : InTurn(x, y)
    BY <1>6, <2>3
  <2>5. PICK S \in SUBSET {e} : Sends(<<e>>, S) /\ missed' = missed \cup ({e} \ S)
    BY <1>0, <2>1, <2>3, <2>4, ReportGives
  <2>6. S \subseteq ViewMessages /\ missed \subseteq missed' /\ e \in S \cup missed'
    BY <1>4, <2>5 DEF ViewMessages
  <2>7. \A y \in S : y.scan = scanNo /\ ~IsChunk(y) /\ ~Starts(y)
    BY <1>4, <2>5
  <2>8. /\ \A k \in Nat : ~(flushed < k /\ k <= flushed')
        /\ flushed' \in Nat /\ flushed <= flushed' /\ ~(flushed = 0 /\ flushed' > 0)
    BY <1>3, <2>1
  <2>9. \E u \in {"Idol", "StopScan"} : StateEvent(u, scanNo) \in S \cup missed'
    BY <2>6 DEF e
  <2> QED BY <1>3, <1>5, <2>5, <2>6, <2>7, <2>8, <2>9, SendingHere
<1> QED BY <1>7, <1>8

LEMMA StopIdleKeeps ==
  ASSUME ViewInv, ViewStopIdle
  PROVE  ViewInv'
<1> DEFINE e == StateEvent("StopScan", scanNo)
<1>0. ViewTypes /\ TurnInv
  BY DEF ViewInv
<1>1. /\ scanNo \in Nat /\ flushed \in Nat /\ scanState # "Scanning" /\ scanState' = "StopScan" /\ Report(<<e>>)
      /\ UNCHANGED <<scanNo, flushed, online, shownState, shownChunks, heard, forgotten, replacing>>
  BY <1>0 DEF ViewStopIdle, ViewTypes
<1>2. e \in ViewEvents /\ IsEvent(e) /\ ~IsChunk(e) /\ e.scan = scanNo /\ ~Starts(e) /\ Ends(e)
  BY <1>1, EventForms DEF Phases
<1> HIDE DEF e
<1>3. <<e>> \in Seq(ViewMessages) /\ ToSet(<<e>>) = {e} /\ WireOrder(<<e>>)
  BY <1>2, OneMessage DEF ViewMessages
<1>4. \A x \in ToSet(wire), y \in ToSet(<<e>>) : InTurn(x, y)
  <2> SUFFICES ASSUME NEW x \in ToSet(wire), IsEvent(x) PROVE InTurn(x, e)
    BY <1>3 DEF InTurn
  <2>1. x.scan \in Nat /\ x.scan <= scanNo
    BY <1>0, WireBefore
  <2> QED BY <1>1, <1>2, <2>1 DEF InTurn
<1>5. PICK S \in SUBSET {e} : Sends(<<e>>, S) /\ missed' = missed \cup ({e} \ S)
  BY <1>0, <1>1, <1>3, <1>4, ReportGives
<1>6. S \subseteq ViewMessages /\ missed \subseteq missed'
  BY <1>2, <1>5 DEF ViewMessages
<1>7. \A y \in S : y.scan = scanNo /\ ~IsChunk(y) /\ ~Starts(y)
  BY <1>2, <1>5
<1>8. /\ \A k \in Nat : ~(flushed < k /\ k <= flushed')
      /\ flushed' \in Nat /\ flushed <= flushed' /\ ~(flushed = 0 /\ flushed' > 0)
      /\ scanState' \in Phases /\ scanState' # "Scanning"
  BY <1>1 DEF Phases
<1> QED BY <1>1, <1>5, <1>6, <1>7, <1>8, SendingHere

LEMMA RediscoverKeeps ==
  ASSUME ViewInv, ViewRediscover
  PROVE  ViewInv'
<1> DEFINE e == StateEvent(scanState, scanNo)
           ms == <<Registered, e>>
<1>0. ViewTypes /\ TurnInv
  BY DEF ViewInv
<1>1. /\ scanNo \in Nat /\ flushed \in Nat /\ scanState \in Phases /\ online
      /\ \/ wire' = wire \o <<Registered>> \/ wire' = wire \o ms
      /\ UNCHANGED <<scanState, scanNo, flushed, online, shownState, shownChunks, missed, heard, forgotten, replacing>>
  BY <1>0 DEF ViewRediscover, ViewTypes
<1>2. /\ e \in ViewEvents /\ IsEvent(e) /\ ~IsChunk(e) /\ e.scan = scanNo
      /\ (Starts(e) => scanState = "Scanning") /\ (Ends(e) => scanState # "Scanning")
      /\ Registered \in ViewMessages /\ ~IsEvent(Registered)
  <2>1. /\ e \in ViewEvents /\ IsEvent(e) /\ ~IsChunk(e) /\ e.scan = scanNo
        /\ (Starts(e) => scanState = "Scanning") /\ (Ends(e) => scanState # "Scanning")
    BY <1>1, StateEventIs
  <2> QED BY <2>1 DEF ViewMessages, IsEvent
<1> HIDE DEF e
<1>3. ms \in Seq(ViewMessages) /\ ToSet(ms) = {Registered, e} /\ WireOrder(ms)
  <2>1. InTurn(Registered, e)
    BY <1>2 DEF InTurn
  <2> QED BY <1>2, <2>1, TwoMessages DEF ViewMessages
<1>4. \A x \in ToSet(wire), y \in ToSet(ms) : InTurn(x, y)
  <2> SUFFICES ASSUME NEW x \in ToSet(wire), IsEvent(x) PROVE InTurn(x, e)
    BY <1>2, <1>3 DEF InTurn
  <2>1. x.scan \in Nat /\ x.scan <= scanNo /\ (x.scan = scanNo => (Ends(x) => scanState # "Scanning"))
    BY <1>0, WireBefore
  <2> QED BY <1>1, <1>2, <2>1 DEF InTurn
<1>5. PICK S \in SUBSET {Registered, e} : Sends(ms, S)
  <2>1. PICK on \in Passed(ms) : wire' = wire \o on
    <3>1. ms \in Passed(ms) /\ 1 \in DOMAIN ms /\ ms[1] = Registered
      BY DEF Passed
    <3>2. <<Registered>> \in Passed(ms)
      BY <3>1 DEF Passed
    <3> QED BY <1>1, <3>1, <3>2
  <2>2. ToSet(on) \subseteq ToSet(ms) /\ Sends(ms, ToSet(on))
    <3> HIDE DEF ms
    <3> QED BY <1>0, <1>1, <1>3, <1>4, <2>1, SendsInTurn
  <2> QED BY <1>3, <2>2
<1>6. S \subseteq ViewMessages
  BY <1>2, <1>5 DEF ViewMessages
<1>7. \A y \in S : IsEvent(y) => /\ y.scan = scanNo /\ ~IsChunk(y)
                                 /\ (Starts(y) => scanState = "Scanning") /\ (Ends(y) => scanState # "Scanning")
  BY <1>2, <1>5
<1>8. /\ \A k \in Nat : ~(flushed < k /\ k <= flushed')
      /\ flushed' \in Nat /\ flushed <= flushed' /\ ~(flushed = 0 /\ flushed' > 0)
      /\ scanState' \in Phases /\ scanState' = scanState /\ missed \subseteq missed'
  BY <1>1
<1> HIDE DEF ms
<1> QED BY <1>1, <1>5, <1>6, <1>7, <1>8, SendingHere

LEMMA BreakKeeps ==
  ASSUME ViewInv, LinkBreaks
  PROVE  ViewInv'
<1> USE DEF ViewInv
<1>1. /\ wire' = <<>> /\ online' = FALSE /\ missed' = missed \cup Events(wire) /\ ToSet(wire') = {}
      /\ UNCHANGED <<scanState, scanNo, flushed, shownState, shownChunks, heard, forgotten, replacing>>
  BY DEF LinkBreaks, ToSet
<1>2. \A x \in ToSet(wire) : IsEvent(x) => x \in missed'
  BY <1>1 DEF Events, IsEvent
<1>3. \A v \in Phases, t \in Nat : StateEvent(v, t) \in ToSet(wire) => StateEvent(v, t) \in missed'
  BY <1>2, EventForms
<1>4. ViewTypes'
  BY <1>1 DEF ViewTypes
<1>5. TurnInv'
  BY <1>1 DEF TurnInv, WireOrder
<1>6. FirstChunkInv'
  <2> SUFFICES ASSUME NEW t \in Nat,
                      ((t = scanNo /\ flushed > 0) \/ (\E x \in ToSet(wire) : IsEvent(x) /\ IsChunk(x) /\ x.scan = t) \/ Shows(t))'
               PROVE  (ChunkEvent(1, t) \in missed \/ ChunkEvent(1, t) \in ToSet(wire) \/ Past(t))'
    BY DEF FirstChunkInv
  <2>1. ChunkEvent(1, t) \in missed \/ ChunkEvent(1, t) \in ToSet(wire) \/ Past(t)
    BY <1>1 DEF FirstChunkInv, Shows
  <2>2. IsEvent(ChunkEvent(1, t))
    BY EventForms
  <2> QED BY <1>1, <1>2, <2>1, <2>2 DEF Past
<1>7. \A t \in Nat : ~EndMissed(t)' /\ EndHeard(t) => EndHeard(t)'
  <2> SUFFICES ASSUME NEW t \in Nat, ~EndMissed(t)', EndHeard(t) PROVE EndHeard(t)'
    OBVIOUS
  <2>1. \A v \in {"Idol", "StopScan"} : StateEvent(v, t) \notin ToSet(wire)
    BY <1>3 DEF EndMissed, Phases
  <2> QED BY <1>1, <2>1 DEF EndHeard
<1>8. StartInv'
  <2> SUFFICES ASSUME NEW t \in Nat, t \in 1..scanNo, t \notin replacing, ~EndMissed(t - 1)'
               PROVE  (\/ StateEvent("Scanning", t) \in missed
                       \/ Past(t)
                       \/ FirstOn(wire, t) /\ ~Shows(t) /\ EndHeard(t - 1))'
    BY <1>1 DEF StartInv
  <2>1. ~EndMissed(t - 1)
    BY <1>1 DEF EndMissed
  <2>2. \/ StateEvent("Scanning", t) \in missed
        \/ Past(t)
        \/ FirstOn(wire, t) /\ ~Shows(t) /\ EndHeard(t - 1)
    BY <2>1 DEF StartInv
  <2>3. FirstOn(wire, t) => StateEvent("Scanning", t) \in missed'
    <3> SUFFICES ASSUME FirstOn(wire, t) PROVE StateEvent("Scanning", t) \in missed'
      OBVIOUS
    <3>1. StateEvent("Scanning", t) \in ToSet(wire)
      BY DEF FirstOn, ToSet
    <3> QED BY <1>3, <3>1 DEF Phases
  <2> QED BY <1>1, <2>2, <2>3 DEF Past
<1>9. EndInv'
  <2> SUFFICES ASSUME scanState # "Scanning", ~EndMissed(scanNo)' PROVE EndHeard(scanNo)'
    BY <1>1 DEF EndInv
  <2>1. ~EndMissed(scanNo)
    BY <1>1 DEF EndMissed
  <2>2. EndHeard(scanNo)
    BY <2>1 DEF EndInv
  <2>3. \A v \in {"Idol", "StopScan"} : StateEvent(v, scanNo) \notin ToSet(wire)
    BY <1>1, <1>3 DEF EndMissed, Phases, ViewTypes
  <2> QED BY <1>1, <2>2, <2>3 DEF EndHeard
<1>10. HeardInv'
  <2> SUFFICES ASSUME AllHeard(scanNo)' PROVE (\E m \in Nat : m <= flushed /\ HeardUpTo(m))'
    BY DEF HeardInv
  <2>1. AllHeard(scanNo)
    BY <1>1 DEF AllHeard
  <2>2. PICK m \in Nat : m <= flushed /\ HeardUpTo(m)
    BY <2>1 DEF HeardInv
  <2>3. \A x \in ToSet(wire) : IsEvent(x) => x.scan # scanNo
    BY <1>1, <1>2 DEF AllHeard
  <2>4. ~FirstOn(wire, scanNo)
    <3> SUFFICES ASSUME FirstOn(wire, scanNo) PROVE FALSE
      OBVIOUS
    <3>1. StateEvent("Scanning", scanNo) \in ToSet(wire)
      BY DEF FirstOn, ToSet
    <3>2. IsEvent(StateEvent("Scanning", scanNo)) /\ StateEvent("Scanning", scanNo).scan = scanNo
      BY EventForms DEF ViewTypes, Phases
    <3> QED BY <2>3, <3>1, <3>2
  <2>5. \A n \in Nat : ~(m < n /\ n <= flushed)
    <3> SUFFICES ASSUME NEW n \in Nat, m < n, n <= flushed PROVE FALSE
      OBVIOUS
    <3>1. ChunkEvent(n, scanNo) \in ToSet(wire)
      BY <2>2 DEF HeardUpTo
    <3>2. IsEvent(ChunkEvent(n, scanNo)) /\ ChunkEvent(n, scanNo).scan = scanNo
      <4>1. n \in Nat \ {0} /\ scanNo \in Nat
        BY <2>2 DEF ViewTypes
      <4> QED BY <4>1, EventForms
    <3> QED BY <2>3, <3>1, <3>2
  <2>6. (m <= flushed /\ HeardUpTo(m))'
    BY <1>1, <2>2, <2>4, <2>5 DEF HeardUpTo
  <2> QED BY <2>6
<1>11. ForgetInv'
  <2>1. AllHeard(scanNo)' => AllHeard(scanNo) /\ ~FirstOn(wire, scanNo)
    <3> SUFFICES ASSUME AllHeard(scanNo)', FirstOn(wire, scanNo) PROVE FALSE
      BY <1>1 DEF AllHeard
    <3>1. StateEvent("Scanning", scanNo) \in ToSet(wire)
      BY DEF FirstOn, ToSet
    <3>2. IsEvent(StateEvent("Scanning", scanNo)) /\ StateEvent("Scanning", scanNo).scan = scanNo
      BY EventForms DEF ViewTypes, Phases
    <3> QED BY <1>1, <1>2, <3>1, <3>2 DEF AllHeard
  <2>2. Shows(scanNo)' = Shows(scanNo)
    BY <1>1 DEF Shows
  <2> QED BY <1>1, <2>1, <2>2 DEF ForgetInv
<1> QED BY <1>4, <1>5, <1>6, <1>8, <1>9, <1>10, <1>11

LEMMA ReturnKeeps ==
  ASSUME ViewInv, LinkReturns
  PROVE  ViewInv'
<1> DEFINE ms == <<Registered>>
<1>1. /\ wire = <<>> /\ wire' = ms /\ online' = TRUE
      /\ UNCHANGED <<scanState, scanNo, flushed, shownState, shownChunks, missed, heard, forgotten, replacing>>
  BY DEF ViewInv, TurnInv, LinkReturns
<1>2. Registered \in ViewMessages /\ ~IsEvent(Registered)
  BY DEF ViewMessages, IsEvent
<1>3. ms \in Seq(ViewMessages) /\ ToSet(ms) = {Registered} /\ WireOrder(ms)
  BY <1>2, OneMessage
<1>4. ToSet(wire) = {} /\ (\A t : ~FirstOn(wire, t))
  BY <1>1 DEF ToSet, FirstOn
<1>5. \A x \in ToSet(wire') : ~IsEvent(x)
  BY <1>1, <1>2, <1>3
<1> HIDE DEF ms
<1>6. ViewTypes'
  BY <1>1, <1>3 DEF ViewInv, ViewTypes
<1>7. TurnInv'
  BY <1>1, <1>3, <1>5 DEF ViewInv, TurnInv
<1>8. \A t : (Past(t) => Past(t)') /\ Shows(t)' = Shows(t) /\ EndMissed(t)' = EndMissed(t) /\ (EndHeard(t) => EndHeard(t)')
  BY <1>1, <1>4, <1>5 DEF Past, Shows, EndMissed, EndHeard
<1>9. FirstChunkInv'
  <2> SUFFICES ASSUME NEW t \in Nat,
                      ((t = scanNo /\ flushed > 0) \/ (\E x \in ToSet(wire) : IsEvent(x) /\ IsChunk(x) /\ x.scan = t) \/ Shows(t))'
               PROVE  (ChunkEvent(1, t) \in missed \/ ChunkEvent(1, t) \in ToSet(wire) \/ Past(t))'
    BY DEF FirstChunkInv
  <2>1. (t = scanNo /\ flushed > 0) \/ Shows(t)
    BY <1>1, <1>5, <1>8
  <2> QED BY <1>1, <1>4, <1>8, <2>1 DEF ViewInv, FirstChunkInv
<1>10. StartInv'
  <2> SUFFICES ASSUME NEW t \in Nat, t \in 1..scanNo, t \notin replacing, ~EndMissed(t - 1)'
               PROVE  (\/ StateEvent("Scanning", t) \in missed
                       \/ Past(t)
                       \/ FirstOn(wire, t) /\ ~Shows(t) /\ EndHeard(t - 1))'
    BY <1>1 DEF StartInv
  <2> QED BY <1>1, <1>4, <1>8 DEF ViewInv, StartInv
<1>11. EndInv'
  <2>1. EndMissed(scanNo)' = EndMissed(scanNo) /\ (EndHeard(scanNo) => EndHeard(scanNo)')
    BY <1>1, <1>4, <1>5 DEF EndMissed, EndHeard
  <2> QED BY <1>1, <2>1 DEF ViewInv, EndInv
<1>12. HeardInv'
  <2> SUFFICES ASSUME AllHeard(scanNo)' PROVE (\E m \in Nat : m <= flushed /\ HeardUpTo(m))'
    BY DEF HeardInv
  <2>1. PICK m \in Nat : m <= flushed /\ HeardUpTo(m)
    BY <1>1 DEF ViewInv, HeardInv, AllHeard
  <2>2. (m <= flushed /\ HeardUpTo(m))'
    BY <1>1, <1>4, <1>5, <2>1 DEF HeardUpTo
  <2> QED BY <2>2
<1>13. ForgetInv'
  <2>1. AllHeard(scanNo)' = AllHeard(scanNo) /\ Shows(scanNo)' = Shows(scanNo)
    BY <1>1 DEF AllHeard, Shows
  <2> QED BY <1>1, <1>4, <1>5, <2>1 DEF ViewInv, ForgetInv
<1> QED BY <1>6, <1>7, <1>9, <1>10, <1>11, <1>12, <1>13 DEF ViewInv

\* The store is thrown away: what is shown of no scan cannot be wrong, and a scan of which
\* no store has heard is still to come as a whole.
LEMMA EmptyKeeps ==
  ASSUME ViewInv, EmptyDeviceState
  PROVE  ViewInv'
<1> USE DEF ViewInv
<1>1. /\ shownState' = "Idol" /\ shownChunks' = <<>> /\ forgotten' = heard
      /\ UNCHANGED <<scanState, scanNo, flushed, online, wire, missed, heard, replacing>>
  BY DEF EmptyDeviceState
<1>2. DOMAIN shownChunks' = {} /\ shownChunks' = [k \in DOMAIN shownChunks' |-> shownChunks'[k]]
  BY <1>1
<1>3. ViewTypes'
  BY <1>1, <1>2 DEF ViewTypes, Phases
<1>4. TurnInv'
  BY <1>1, <1>2 DEF TurnInv
<1>5. \A t : ~Shows(t)' /\ (Past(t) => Past(t)') /\ (EndHeard(t) => EndHeard(t)') /\ EndMissed(t)' = EndMissed(t)
  BY <1>1, <1>2 DEF Shows, Past, EndHeard, EndMissed
<1>6. FirstChunkInv'
  BY <1>1, <1>5 DEF FirstChunkInv
<1>7. StartInv'
  <2> SUFFICES ASSUME NEW t \in Nat, t \in 1..scanNo, t \notin replacing, ~EndMissed(t - 1)'
               PROVE  (\/ StateEvent("Scanning", t) \in missed
                       \/ Past(t)
                       \/ FirstOn(wire, t) /\ ~Shows(t) /\ EndHeard(t - 1))'
    BY <1>1 DEF StartInv
  <2> QED BY <1>1, <1>5 DEF StartInv
<1>8. EndInv'
  <2>1. EndMissed(scanNo)' = EndMissed(scanNo) /\ (EndHeard(scanNo) => EndHeard(scanNo)')
    BY <1>1 DEF EndMissed, EndHeard
  <2> QED BY <1>1, <2>1 DEF EndInv
<1>9. AllHeard(scanNo)' => AllHeard(scanNo) /\ heard # scanNo
  <2> SUFFICES ASSUME AllHeard(scanNo)' PROVE AllHeard(scanNo) /\ heard # scanNo
    OBVIOUS
  <2>1. heard # scanNo /\ \A m \in missed : m.scan # scanNo
    BY <1>1 DEF AllHeard
  <2>2. forgotten # scanNo
    BY <2>1 DEF ForgetInv, ViewTypes
  <2> QED BY <2>1, <2>2 DEF AllHeard
<1>10. HeardInv'
  <2> SUFFICES ASSUME AllHeard(scanNo)' PROVE (0 <= flushed /\ HeardUpTo(0))'
    BY DEF HeardInv
  <2>1. AllHeard(scanNo) /\ heard # scanNo
    BY <1>9
  <2>2. PICK m \in Nat : m <= flushed /\ HeardUpTo(m)
    BY <2>1 DEF HeardInv
  <2>3. FirstOn(wire, scanNo) /\ ~Shows(scanNo)
    BY <2>1 DEF ForgetInv
  <2>4. m = 0
    <3> SUFFICES ASSUME m > 0 PROVE FALSE
      BY <2>2
    <3>1. 1 \in DOMAIN shownChunks /\ shownChunks[1] = scanNo
      BY <2>2 DEF HeardUpTo
    <3> QED BY <2>3, <3>1 DEF Shows
  <2> QED BY <1>1, <2>2, <2>3, <2>4 DEF HeardUpTo, ViewTypes
<1>11. ForgetInv'
  BY <1>1, <1>2, <1>9 DEF ForgetInv, Shows
<1> QED BY <1>3, <1>4, <1>6, <1>7, <1>8, <1>10, <1>11

-----------------------------------------------------------------------------
(* The store takes one message. *)

\* What taking the message h does to the store.
Passes(h) == ~IsEvent(h) /\ UNCHANGED <<shownState, shownChunks, missed, heard>>
Misses(h) == h \in ViewEvents /\ missed' = missed \cup {h} /\ UNCHANGED <<shownState, shownChunks, heard>>
HearsState(h) ==
  /\ h \in ViewEvents /\ (Starts(h) \/ Ends(h))
  /\ shownState' = h.is /\ missed' = missed /\ heard' = h.scan
  /\ shownChunks' = IF Starts(h) /\ shownState # "Scanning" THEN <<>> ELSE shownChunks
HearsChunk(h) ==
  /\ h \in ViewEvents /\ IsChunk(h) /\ UNCHANGED <<shownState, missed>> /\ heard' = h.scan
  /\ LET old == IF h.is = 1 THEN <<>> ELSE shownChunks
     IN shownChunks' = [k \in DOMAIN old \cup {h.is} |-> IF k = h.is THEN h.scan ELSE old[k]]

TakesMessage(h) ==
  /\ h \in ViewMessages /\ ToSet(wire) = {h} \cup ToSet(wire')
  /\ wire' \in Seq(ViewMessages) /\ WireOrder(wire') /\ online /\ online' = online
  /\ \A y \in ToSet(wire') : InTurn(h, y)
  /\ \A t \in Nat : FirstOn(wire, t) =>
       \/ h = StateEvent("Scanning", t)
       \/ FirstOn(wire', t) /\ (IsEvent(h) => h.scan # t)
  /\ \A t \in Nat : FirstOn(wire', t) => StateEvent("Scanning", t) \in ToSet(wire')
  /\ UNCHANGED <<scanState, scanNo, flushed, forgotten, replacing>>
  /\ Passes(h) \/ Misses(h) \/ HearsState(h) \/ HearsChunk(h)

LEMMA HandleTakes ==
  ASSUME ViewInv, HandleEvent
  PROVE  \E h : TakesMessage(h)
<1> DEFINE h == Head(wire)
<1>1. /\ wire # <<>> /\ wire' = Tail(wire) /\ wire \in Seq(ViewMessages) /\ WireOrder(wire)
      /\ online /\ UNCHANGED <<scanState, scanNo, flushed, online, forgotten, replacing>>
  BY DEF HandleEvent, ViewInv, ViewTypes, TurnInv
<1>2. /\ h \in ViewMessages /\ ToSet(wire) = {h} \cup ToSet(wire')
      /\ wire' \in Seq(ViewMessages) /\ WireOrder(wire')
      /\ \A y \in ToSet(wire') : InTurn(h, y)
  BY <1>1, Taken
<1>3. ASSUME NEW t \in Nat, FirstOn(wire, t)
      PROVE  h = StateEvent("Scanning", t) \/ (FirstOn(wire', t) /\ (IsEvent(h) => h.scan # t))
  BY <1>1, <1>3, FirstTaken
<1>4. \A t \in Nat : FirstOn(wire', t) => StateEvent("Scanning", t) \in ToSet(wire')
  BY DEF FirstOn, ToSet
<1>5. Passes(h) \/ Misses(h) \/ HearsState(h) \/ HearsChunk(h)
  <2>1. CASE RegistrationEvent
    BY <2>1 DEF RegistrationEvent, Passes, IsEvent
  <2>2. CASE UnknownModule
    BY <1>2, <2>2, MessageIs DEF UnknownModule, Misses, IsEvent
  <2>3. CASE ScanStateEvent
    <3>1. h.kind = "ScanState" /\ h # Registered
      BY <2>3 DEF ScanStateEvent, Registered
    <3>2. h \in ViewEvents /\ (Starts(h) \/ Ends(h))
      BY <1>2, <3>1, MessageIs, EventIs DEF IsEvent
    <3>3. Starting(h.is) <=> Starts(h) /\ shownState # "Scanning"
      BY <3>1 DEF Starting, Starts
    <3> QED BY <2>3, <3>2, <3>3 DEF ScanStateEvent, HearsState
  <2>4. CASE PointMapEvent
    <3>1. h.kind = "PointMap" /\ h # Registered
      BY <2>4 DEF PointMapEvent, Registered
    <3>2. h \in ViewEvents /\ IsChunk(h)
      BY <1>2, <3>1, MessageIs DEF IsEvent, IsChunk
    <3> QED BY <2>4, <3>2 DEF PointMapEvent, HearsChunk, Kept
  <2> QED BY <2>1, <2>2, <2>3, <2>4 DEF HandleEvent
<1> HIDE DEF h
<1> QED BY <1>1, <1>2, <1>3, <1>4, <1>5 DEF TakesMessage

\* What is shown afterwards was shown before, or is the chunk that was taken.
LEMMA ShownAfter ==
  ASSUME ViewTypes, NEW h, TakesMessage(h)
  PROVE  /\ ViewTypes'
         /\ \A k \in DOMAIN shownChunks' :
              \/ k \in DOMAIN shownChunks /\ shownChunks'[k] = shownChunks[k]
              \/ HearsChunk(h) /\ k = h.is /\ shownChunks'[k] = h.scan
<1>1. h \in ViewEvents => h.scan \in Nat /\ (IsChunk(h) => h.is \in Nat \ {0}) /\ (Starts(h) \/ Ends(h) => h.is \in Phases)
  BY EventIs DEF Starts, Phases
<1>2. CASE shownChunks' = shownChunks /\ shownState' = shownState
  BY <1>2 DEF ViewTypes, TakesMessage
<1>3. CASE HearsState(h)
  <2>1. shownState' \in Phases
    BY <1>1, <1>3 DEF HearsState
  <2>2. DOMAIN <<>> = {} /\ <<>> = [k \in DOMAIN <<>> |-> <<>>[k]]
    OBVIOUS
  <2>3. shownChunks' = <<>> \/ shownChunks' = shownChunks
    BY <1>3 DEF HearsState
  <2>4. CASE shownChunks' = shownChunks
    BY <2>1, <2>4 DEF ViewTypes, TakesMessage
  <2>5. CASE shownChunks' = <<>>
    <3>1. DOMAIN shownChunks' = {} /\ shownChunks' = [k \in DOMAIN shownChunks' |-> shownChunks'[k]]
      BY <2>2, <2>5
    <3> QED BY <2>1, <3>1 DEF ViewTypes, TakesMessage
  <2> QED BY <2>3, <2>4, <2>5
<1>4. CASE HearsChunk(h)
  <2> DEFINE old == IF h.is = 1 THEN <<>> ELSE shownChunks
  <2>1. shownChunks' = [k \in DOMAIN old \cup {h.is} |-> IF k = h.is THEN h.scan ELSE old[k]]
    BY <1>4 DEF HearsChunk
  <2>2. DOMAIN old \subseteq DOMAIN shownChunks /\ \A k \in DOMAIN old : old[k] = shownChunks[k]
    OBVIOUS
  <2>3. shownState' = shownState /\ h \in ViewEvents /\ IsChunk(h)
    BY <1>4 DEF HearsChunk
  <2> HIDE DEF old
  <2>4. DOMAIN shownChunks' = DOMAIN old \cup {h.is}
        /\ \A k \in DOMAIN shownChunks' : shownChunks'[k] = IF k = h.is THEN h.scan ELSE old[k]
    BY <2>1
  <2>5. \A k \in DOMAIN shownChunks' :
          \/ k \in DOMAIN shownChunks /\ shownChunks'[k] = shownChunks[k]
          \/ HearsChunk(h) /\ k = h.is /\ shownChunks'[k] = h.scan
    BY <1>4, <2>2, <2>4
  <2>6. shownChunks' = [k \in DOMAIN shownChunks' |-> shownChunks'[k]]
    BY <2>1
  <2>7. DOMAIN shownChunks' \subseteq Nat \ {0} /\ \A k \in DOMAIN shownChunks' : shownChunks'[k] \in Nat
    BY <1>1, <2>2, <2>3, <2>4 DEF ViewTypes
  <2>8. ViewTypes'
    BY <2>3, <2>6, <2>7 DEF ViewTypes, TakesMessage
  <2> QED BY <2>5, <2>8
<1> QED BY <1>2, <1>3, <1>4 DEF TakesMessage, Passes, Misses

LEMMA TakenFrom ==
  ASSUME ViewInv, NEW h, TakesMessage(h)
  PROVE  /\ h \in ToSet(wire) /\ ToSet(wire') \subseteq ToSet(wire) /\ missed \subseteq missed'
         /\ h \in ViewEvents <=> IsEvent(h)
         /\ scanNo \in Nat /\ flushed \in Nat
         /\ UNCHANGED <<scanState, scanNo, flushed, replacing>>
         /\ IsEvent(h) => /\ h.scan \in Nat /\ h.scan <= scanNo
                          /\ h.scan = scanNo => (IsChunk(h) => h.is <= flushed) /\ (Ends(h) => scanState # "Scanning")
         /\ IsEvent(h) /\ IsChunk(h) => h.is \in Nat \ {0} /\ h = ChunkEvent(h.is, h.scan)
BY MessageIs, EventIs DEF TakesMessage, ViewInv, ViewTypes, TurnInv, Passes, Misses, HearsState, HearsChunk

\* What is still under way comes in turn after the message that was taken.
LEMMA StillUnderWay ==
  ASSUME ViewInv, NEW h, TakesMessage(h), NEW x \in ToSet(wire'), IsEvent(x)
  PROVE  /\ x \in ToSet(wire) /\ x \in ViewEvents /\ x.scan \in Nat /\ (IsChunk(x) => x.is \in Nat)
         /\ IsEvent(h) => /\ h.scan <= x.scan
                          /\ h.scan = x.scan => /\ IsChunk(h) /\ IsChunk(x) => h.is < x.is
                                                /\ Ends(h) => ~Starts(x)
<1>1. x \in ToSet(wire) /\ InTurn(h, x)
  BY DEF TakesMessage
<1>2. x \in ViewMessages
  BY <1>1 DEF ViewInv, ViewTypes, ToSet
<1> QED BY <1>1, <1>2, MessageIs, EventIs DEF InTurn

LEMMA TurnTaken ==
  ASSUME ViewInv, NEW h, TakesMessage(h)
  PROVE  TurnInv'
<1>1. WireOrder(wire)' /\ (~online => wire = <<>>)'
  BY DEF TakesMessage
<1>2. \A x \in ToSet(wire') : IsEvent(x) =>
        /\ x.scan <= scanNo
        /\ x.scan = scanNo => (IsChunk(x) => x.is <= flushed) /\ (Ends(x) => scanState # "Scanning")
  BY TakenFrom DEF ViewInv, TurnInv
<1>3. ASSUME NEW k \in DOMAIN shownChunks'
      PROVE  /\ shownChunks'[k] <= scanNo /\ (shownChunks'[k] = scanNo => k <= flushed)
             /\ \A x \in ToSet(wire') : IsEvent(x) /\ IsChunk(x) /\ x.scan = shownChunks'[k] => k < x.is
  <2>1. CASE k \in DOMAIN shownChunks /\ shownChunks'[k] = shownChunks[k]
    BY <2>1, TakenFrom DEF ViewInv, TurnInv
  <2>2. CASE HearsChunk(h) /\ k = h.is /\ shownChunks'[k] = h.scan
    <3>1. IsEvent(h) /\ IsChunk(h)
      BY <2>2, TakenFrom DEF HearsChunk
    <3> QED BY <2>2, <3>1, TakenFrom, StillUnderWay
  <2> QED BY <2>1, <2>2, ShownAfter DEF ViewInv
<1>4. scanNo' = scanNo /\ flushed' = flushed /\ scanState' = scanState
  BY DEF TakesMessage
<1>5. \A k \in DOMAIN shownChunks' :
       /\ shownChunks'[k] <= scanNo' /\ (shownChunks'[k] = scanNo' => k <= flushed')
       /\ \A x \in ToSet(wire') : IsEvent(x) /\ IsChunk(x) /\ x.scan = shownChunks'[k] => k < x.is
  BY <1>3, <1>4
<1>6. \A x \in ToSet(wire') : IsEvent(x) =>
        /\ x.scan <= scanNo'
        /\ x.scan = scanNo' => (IsChunk(x) => x.is <= flushed') /\ (Ends(x) => scanState' # "Scanning")
  BY <1>2, <1>4
<1> QED BY <1>1, <1>5, <1>6 DEF TurnInv

LEMMA PastTaken ==
  ASSUME ViewInv, NEW h, TakesMessage(h), NEW t \in Nat, Past(t)
  PROVE  Past(t)'
<1>1. \A x \in ToSet(wire') : IsEvent(x) => x.scan >= t
  BY TakenFrom DEF Past
<1>2. ASSUME NEW k \in DOMAIN shownChunks' PROVE shownChunks'[k] >= t
  <2>1. HearsChunk(h) => h \in ToSet(wire) /\ IsEvent(h)
    BY TakenFrom DEF HearsChunk
  <2> QED BY <2>1, ShownAfter DEF Past, ViewInv
<1> QED BY <1>1, <1>2 DEF Past

\* Once the first chunk or the start of scan t has been shown, nothing older is.
LEMMA PastShown ==
  ASSUME ViewInv, NEW h, TakesMessage(h), IsEvent(h),
         \A k \in DOMAIN shownChunks' : shownChunks'[k] = h.scan
  PROVE  Past(h.scan)'
<1>1. h.scan \in Nat
  BY TakenFrom
<1>2. \A x \in ToSet(wire') : IsEvent(x) => x.scan >= h.scan
  BY <1>1, StillUnderWay
<1>3. \A k \in DOMAIN shownChunks' : shownChunks'[k] >= h.scan
  BY <1>1
<1> QED BY <1>2, <1>3 DEF Past

LEMMA FirstChunkTaken ==
  ASSUME ViewInv, NEW h, TakesMessage(h)
  PROVE  FirstChunkInv'
<1> SUFFICES
      ASSUME NEW t \in Nat,
             \/ t = scanNo' /\ flushed' > 0
             \/ \E x \in ToSet(wire') : IsEvent(x) /\ IsChunk(x) /\ x.scan = t
             \/ Shows(t)'
      PROVE  ChunkEvent(1, t) \in missed' \/ ChunkEvent(1, t) \in ToSet(wire') \/ Past(t)'
  BY DEF FirstChunkInv
<1>1. Shows(t)' => Shows(t) \/ \E x \in ToSet(wire) : IsEvent(x) /\ IsChunk(x) /\ x.scan = t
  <2>1. HearsChunk(h) => h \in ToSet(wire) /\ IsEvent(h) /\ IsChunk(h)
    BY TakenFrom DEF HearsChunk
  <2> QED BY <2>1, ShownAfter DEF Shows, ViewInv
<1>2. \/ t = scanNo /\ flushed > 0
      \/ \E x \in ToSet(wire) : IsEvent(x) /\ IsChunk(x) /\ x.scan = t
      \/ Shows(t)
  BY <1>1, TakenFrom
<1>3. ChunkEvent(1, t) \in missed \/ ChunkEvent(1, t) \in ToSet(wire) \/ Past(t)
  BY <1>2 DEF ViewInv, FirstChunkInv
<1>4. CASE ChunkEvent(1, t) = h
  <2>1. IsEvent(h) /\ IsChunk(h) /\ h.scan = t /\ h.is = 1 /\ ~Starts(h) /\ ~Ends(h)
    BY <1>4, EventForms
  <2>2. CASE Misses(h)
    BY <1>4, <2>2 DEF Misses
  <2>3. CASE HearsChunk(h)
    <3>1. \A k \in DOMAIN shownChunks' : shownChunks'[k] = h.scan
      BY <2>1, <2>3 DEF HearsChunk
    <3> QED BY <2>1, <3>1, PastShown
  <2> QED BY <2>1, <2>2, <2>3 DEF TakesMessage, Passes, HearsState
<1>5. CASE ChunkEvent(1, t) # h
  BY <1>3, <1>5, TakenFrom, PastTaken DEF TakesMessage
<1> QED BY <1>4, <1>5

\* The store hears of the end of scan t unless that is what was missed, as long as it
\* has not come to a later start.
LEMMA EndTaken ==
  ASSUME ViewInv, NEW h, TakesMessage(h), NEW t \in Nat, EndHeard(t),
         IsEvent(h) /\ Starts(h) => h.scan <= t
  PROVE  EndHeard(t)' \/ EndMissed(t)'
<1>1. CASE \E v \in {"Idol", "StopScan"} : StateEvent(v, t) \in ToSet(wire)
  <2>1. PICK v \in {"Idol", "StopScan"} : StateEvent(v, t) \in ToSet(wire)
    BY <1>1
  <2>2. CASE StateEvent(v, t) \in ToSet(wire')
    BY <2>1, <2>2 DEF EndHeard
  <2>3. CASE StateEvent(v, t) = h
    <3>1. IsEvent(h) /\ ~IsChunk(h) /\ h.scan = t /\ h.is = v /\ Ends(h) /\ ~Starts(h)
      <4>1. v \in Phases /\ v # "Scanning"
        BY DEF Phases
      <4> QED BY ONLY <2>3, <4>1, t \in Nat, StateEventIs
    <3>2. CASE Misses(h)
      BY <2>3, <3>2 DEF Misses, EndMissed
    <3>3. CASE HearsState(h)
      <4>1. shownState' # "Scanning"
        BY <3>1, <3>3 DEF HearsState
      <4>2. ASSUME NEW x \in ToSet(wire'), IsEvent(x), Starts(x) PROVE x.scan > t
        <5>1. x.scan \in Nat /\ h.scan <= x.scan /\ h.scan # x.scan
          BY <3>1, <4>2, StillUnderWay
        <5> QED BY <3>1, <5>1
      <4> QED BY <4>1, <4>2 DEF EndHeard
    <3> QED BY <3>1, <3>2, <3>3 DEF TakesMessage, Passes, HearsChunk
  <2> QED BY <2>1, <2>2, <2>3 DEF TakesMessage
<1>2. CASE shownState # "Scanning" /\ \A x \in ToSet(wire) : IsEvent(x) /\ Starts(x) => x.scan > t
  <2>1. ~(IsEvent(h) /\ Starts(h))
    BY <1>2, TakenFrom
  <2>2. shownState' # "Scanning"
    BY <1>2, <2>1, TakenFrom DEF TakesMessage, Passes, Misses, HearsState, HearsChunk, Starts, Ends
  <2>3. \A x \in ToSet(wire') : IsEvent(x) /\ Starts(x) => x.scan > t
    BY <1>2, TakenFrom
  <2> QED BY <2>2, <2>3 DEF EndHeard
<1> QED BY <1>1, <1>2 DEF EndHeard

LEMMA StartTaken ==
  ASSUME ViewInv, NEW h, TakesMessage(h)
  PROVE  StartInv'
<1> SUFFICES
      ASSUME NEW t \in Nat, t \in 1..scanNo', t \notin replacing', ~EndMissed(t - 1)'
      PROVE  \/ StateEvent("Scanning", t) \in missed'
             \/ Past(t)'
             \/ FirstOn(wire', t) /\ ~Shows(t)' /\ EndHeard(t - 1)'
  BY DEF StartInv
<1>1. t - 1 \in Nat /\ t > t - 1
  OBVIOUS
<1>2. t \in 1..scanNo /\ t \notin replacing /\ ~EndMissed(t - 1)
  BY TakenFrom DEF EndMissed
<1>3. CASE StateEvent("Scanning", t) \in missed \/ Past(t)
  BY <1>3, TakenFrom, PastTaken
<1>4. CASE FirstOn(wire, t) /\ ~Shows(t) /\ EndHeard(t - 1)
  <2>1. CASE h = StateEvent("Scanning", t)
    <3>1. IsEvent(h) /\ ~IsChunk(h) /\ h.scan = t /\ h.is = "Scanning" /\ Starts(h)
      BY <2>1, EventForms DEF Phases
    <3>2. CASE Misses(h)
      BY <2>1, <3>2 DEF Misses
    <3>3. CASE HearsState(h)
      <4>1. ~\E v \in {"Idol", "StopScan"} : StateEvent(v, t - 1) \in ToSet(wire)
        <5> SUFFICES ASSUME NEW v \in {"Idol", "StopScan"}, StateEvent(v, t - 1) \in ToSet(wire) PROVE FALSE
          OBVIOUS
        <5> DEFINE x == StateEvent(v, t - 1)
        <5>1. v \in Phases /\ v # "Scanning"
          BY DEF Phases
        <5>2. IsEvent(x) /\ x.scan = t - 1 /\ Ends(x)
          BY ONLY <1>1, <5>1, StateEventIs
        <5>3. x # h
          BY <1>1, <3>1, <5>2
        <5>4. x \in ToSet(wire')
          BY <5>3 DEF TakesMessage
        <5> HIDE DEF x
        <5>5. t <= t - 1
          BY <3>1, <5>2, <5>4, StillUnderWay
        <5> QED BY <1>1, <5>5
      <4>2. shownState # "Scanning"
        BY <1>4, <4>1 DEF EndHeard
      <4>3. DOMAIN shownChunks' = {}
        BY <3>1, <3>3, <4>2 DEF HearsState
      <4> QED BY <3>1, <4>3, PastShown
    <3> QED BY <3>1, <3>2, <3>3 DEF TakesMessage, Passes, HearsChunk
  <2>2. CASE h # StateEvent("Scanning", t)
    <3>1. FirstOn(wire', t) /\ (IsEvent(h) => h.scan # t)
      BY <1>4, <2>2 DEF TakesMessage
    <3>2. ~Shows(t)'
      <4>1. HearsChunk(h) => IsEvent(h)
        BY TakenFrom DEF HearsChunk
      <4> QED BY <1>4, <3>1, <4>1, ShownAfter DEF Shows, ViewInv
    <3>3. IsEvent(h) => h.scan <= t - 1
      <4> DEFINE e == StateEvent("Scanning", t)
      <4>1. e \in ToSet(wire')
        BY <3>1 DEF TakesMessage
      <4>2. IsEvent(e) /\ e.scan = t
        BY EventForms DEF Phases
      <4> HIDE DEF e
      <4>3. IsEvent(h) => h.scan \in Nat /\ h.scan <= t
        BY <4>1, <4>2, StillUnderWay, TakenFrom
      <4> QED BY <1>1, <3>1, <4>3
    <3>4. EndHeard(t - 1)'
      <4> DEFINE s == t - 1
      <4>1. s \in Nat /\ EndHeard(s) /\ ~EndMissed(s)' /\ (IsEvent(h) => h.scan <= s)
        BY <1>1, <1>4, <3>3
      <4> HIDE DEF s
      <4>2. EndHeard(s)'
        BY <4>1, EndTaken
      <4> QED BY <4>2 DEF s
    <3> QED BY <3>1, <3>2, <3>4
  <2> QED BY <2>1, <2>2
<1> QED BY <1>2, <1>3, <1>4 DEF ViewInv, StartInv

LEMMA EndsTaken ==
  ASSUME ViewInv, NEW h, TakesMessage(h)
  PROVE  EndInv'
<1> DEFINE t == scanNo
<1>1. t \in Nat /\ scanNo' = t /\ scanState' = scanState
  BY TakenFrom
<1>2. IsEvent(h) => h.scan <= t
  BY TakenFrom
<1>3. EndMissed(t) => EndMissed(scanNo)'
  BY <1>1, TakenFrom DEF EndMissed
<1>4. ASSUME scanState # "Scanning", ~EndMissed(scanNo)'
      PROVE  EndHeard(scanNo)'
  <2>1. EndHeard(t)
    BY <1>3, <1>4 DEF ViewInv, EndInv
  <2> SUFFICES ASSUME NEW u \in Nat, u = t PROVE EndHeard(u)'
    BY <1>1 DEF EndHeard
  <2>2. ~EndMissed(u)'
    BY <1>1, <1>4 DEF EndMissed
  <2> QED BY <1>2, <2>1, <2>2, EndTaken
<1> QED BY <1>1, <1>4 DEF EndInv

\* The parts of HeardUpTo that speak of the chunks, after a message that is no chunk of
\* the current scan and clears nothing that was shown of it.
LEMMA ChunksStay ==
  ASSUME ViewInv, NEW h, TakesMessage(h), NEW m \in Nat, HeardUpTo(m),
         ~(IsEvent(h) /\ IsChunk(h) /\ h.scan = scanNo), m > 0 => shownChunks' = shownChunks
  PROVE  /\ \A x \in ToSet(wire') : IsEvent(x) /\ IsChunk(x) /\ x.scan = scanNo => x.is > m
         /\ \A n \in Nat : m < n /\ n <= flushed => ChunkEvent(n, scanNo) \in ToSet(wire')
         /\ m > 0 => DOMAIN shownChunks' = 1..m /\ \A k \in 1..m : shownChunks'[k] = scanNo
<1>1. \A x \in ToSet(wire') : IsEvent(x) /\ IsChunk(x) /\ x.scan = scanNo => x.is > m
  BY TakenFrom DEF HeardUpTo
<1>2. ASSUME NEW n \in Nat, m < n, n <= flushed PROVE ChunkEvent(n, scanNo) \in ToSet(wire')
  <2> DEFINE c == ChunkEvent(n, scanNo)
  <2>1. c \in ToSet(wire)
    BY <1>2 DEF HeardUpTo
  <2>2. IsEvent(c) /\ IsChunk(c) /\ c.scan = scanNo
    BY <1>2, TakenFrom, EventForms
  <2> HIDE DEF c
  <2>3. c \in ToSet(wire')
    BY <2>1, <2>2 DEF TakesMessage
  <2> QED BY <2>3 DEF c
<1>3. m > 0 => DOMAIN shownChunks' = 1..m /\ \A k \in 1..m : shownChunks'[k] = scanNo
  BY DEF HeardUpTo
<1> QED BY <1>1, <1>2, <1>3

\* HeardUpTo(m) afterwards, in what does not change.
LEMMA HeardAfter ==
  ASSUME ViewInv, NEW h, TakesMessage(h), NEW m \in Nat,
         \A x \in ToSet(wire') : IsEvent(x) /\ IsChunk(x) /\ x.scan = scanNo => x.is > m,
         \A n \in Nat : m < n /\ n <= flushed => ChunkEvent(n, scanNo) \in ToSet(wire'),
         m > 0 => DOMAIN shownChunks' = 1..m /\ \A k \in 1..m : shownChunks'[k] = scanNo,
         \/ FirstOn(wire', scanNo) /\ m = 0
         \/ shownState' = "Scanning" /\ \A x \in ToSet(wire') : IsEvent(x) => x.scan >= scanNo
         \/ /\ scanState # "Scanning"
            /\ \A x \in ToSet(wire') : IsEvent(x) => x.scan >= scanNo /\ ~Starts(x)
  PROVE  HeardUpTo(m)'
<1>1. scanNo' = scanNo /\ flushed' = flushed /\ scanState' = scanState
  BY DEF TakesMessage
<1> QED BY <1>1 DEF HeardUpTo

LEMMA HeardOther ==
  ASSUME ViewInv, NEW h, TakesMessage(h), NEW m \in Nat, HeardUpTo(m),
         IsEvent(h) => h.scan # scanNo
  PROVE  HeardUpTo(m)'
<1> DEFINE t == scanNo
<1>1. t \in Nat /\ (IsEvent(h) => h.scan \in Nat /\ h.scan < t)
  BY TakenFrom
<1>2. CASE FirstOn(wire, t) /\ m = 0
  <2>1. h # StateEvent("Scanning", t)
    <3>1. IsEvent(StateEvent("Scanning", t)) /\ StateEvent("Scanning", t).scan = t
      BY <1>1, EventForms DEF Phases
    <3> QED BY <1>1, <3>1
  <2>2. FirstOn(wire', t)
    BY <1>1, <1>2, <2>1 DEF TakesMessage
  <2> QED BY <1>2, <2>2, ChunksStay, HeardAfter
<1>3. CASE \A x \in ToSet(wire) : IsEvent(x) => x.scan >= t
  <2>1. ~IsEvent(h)
    BY <1>1, <1>3, TakenFrom
  <2>2. UNCHANGED <<shownState, shownChunks>>
    BY <2>1, TakenFrom DEF TakesMessage, Passes, Misses, HearsState, HearsChunk
  <2>3. \A x \in ToSet(wire') : x \in ToSet(wire)
    BY TakenFrom
  <2>4. \/ FirstOn(wire', scanNo) /\ m = 0
        \/ shownState' = "Scanning" /\ \A x \in ToSet(wire') : IsEvent(x) => x.scan >= scanNo
        \/ /\ scanState # "Scanning"
           /\ \A x \in ToSet(wire') : IsEvent(x) => x.scan >= scanNo /\ ~Starts(x)
    <3>1. CASE FirstOn(wire, t) /\ m = 0
      <4>1. h # StateEvent("Scanning", t)
        BY <1>1, <2>1, EventForms DEF Phases
      <4> QED BY <1>1, <3>1, <4>1 DEF TakesMessage
    <3> QED BY <1>3, <2>2, <2>3, <3>1 DEF HeardUpTo
  <2> QED BY <2>1, <2>2, <2>4, ChunksStay, HeardAfter
<1> QED BY <1>2, <1>3 DEF HeardUpTo

LEMMA HeardChunk ==
  ASSUME ViewInv, NEW h, TakesMessage(h), NEW m \in Nat, HeardUpTo(m),
         HearsChunk(h), h.scan = scanNo
  PROVE  HeardUpTo(m + 1)' /\ m + 1 <= flushed
<1>1. /\ IsEvent(h) /\ IsChunk(h) /\ h.is \in Nat /\ h.is > m /\ h.is <= flushed
      /\ scanNo \in Nat /\ flushed \in Nat /\ h = ChunkEvent(h.is, scanNo) /\ ~Starts(h) /\ ~Ends(h)
  BY TakenFrom, EventIs DEF HearsChunk, HeardUpTo
<1>2. h.is = m + 1
  <2> SUFFICES ASSUME h.is > m + 1 PROVE FALSE
    BY <1>1
  <2> DEFINE c == ChunkEvent(m + 1, scanNo)
  <2>1. m + 1 \in Nat \ {0} /\ m < m + 1 /\ m + 1 <= flushed /\ m + 1 # h.is
    BY <1>1
  <2>2. c \in ToSet(wire)
    BY <2>1 DEF HeardUpTo
  <2>3. IsEvent(c) /\ IsChunk(c) /\ c.scan = scanNo /\ c.is = m + 1
    <3> DEFINE n == m + 1
    <3>1. n \in Nat \ {0}
      BY <2>1
    <3> HIDE DEF n
    <3>2. LET d == ChunkEvent(n, scanNo) IN IsEvent(d) /\ IsChunk(d) /\ d.scan = scanNo /\ d.is = n
      BY <1>1, <3>1, EventForms
    <3> QED BY <3>2 DEF n
  <2> HIDE DEF c
  <2>4. c \in ToSet(wire')
    BY <2>1, <2>2, <2>3 DEF TakesMessage
  <2>5. h.is < c.is
    BY <1>1, <2>3, <2>4, StillUnderWay
  <2> QED BY <1>1, <2>3, <2>5
<1> DEFINE u == m + 1
<1>3. u \in Nat /\ u > m /\ u = h.is
  BY <1>2
<1>4. \A x \in ToSet(wire') : IsEvent(x) /\ IsChunk(x) /\ x.scan = scanNo => x.is > u
  BY <1>1, <1>3, StillUnderWay
<1>5. ASSUME NEW n \in Nat, u < n, n <= flushed PROVE ChunkEvent(n, scanNo) \in ToSet(wire')
  <2> DEFINE c == ChunkEvent(n, scanNo)
  <2>1. c \in ToSet(wire)
    BY <1>3, <1>5 DEF HeardUpTo
  <2>2. n \in Nat \ {0}
    BY <1>3, <1>5
  <2>3. c.is = n /\ n # h.is
    BY <1>1, <1>3, <1>5, <2>2, EventForms
  <2> HIDE DEF c
  <2>4. c \in ToSet(wire')
    BY <2>1, <2>3 DEF TakesMessage
  <2> QED BY <2>4 DEF c
<1>6. DOMAIN shownChunks' = 1..u /\ \A k \in 1..u : shownChunks'[k] = scanNo
  <2> DEFINE old == IF h.is = 1 THEN <<>> ELSE shownChunks
  <2>1. shownChunks' = [k \in DOMAIN old \cup {h.is} |-> IF k = h.is THEN h.scan ELSE old[k]]
    BY DEF HearsChunk
  <2>2. DOMAIN old = 1..m /\ \A k \in 1..m : old[k] = scanNo
    <3>1. CASE m = 0
      BY <1>2, <3>1
    <3>2. CASE m > 0
      <4>1. old = shownChunks
        BY <1>2, <3>2
      <4> QED BY <3>2, <4>1 DEF HeardUpTo
    <3> QED BY <3>1, <3>2
  <2> HIDE DEF old
  <2>3. (1..m) \cup {u} = 1..u /\ \A k \in 1..u : k # u => k \in 1..m
    BY DEF u
  <2> HIDE DEF u
  <2> QED BY <1>3, <2>1, <2>2, <2>3
<1>7. shownState' = shownState /\ ToSet(wire') \subseteq ToSet(wire)
  BY TakenFrom DEF HearsChunk
<1>8. ~FirstOn(wire, scanNo)
  <2>1. h # StateEvent("Scanning", scanNo)
    BY <1>1, EventForms DEF Phases
  <2> QED BY <1>1, <2>1 DEF TakesMessage
<1>9. \/ shownState' = "Scanning" /\ \A x \in ToSet(wire') : IsEvent(x) => x.scan >= scanNo
      \/ /\ scanState # "Scanning"
         /\ \A x \in ToSet(wire') : IsEvent(x) => x.scan >= scanNo /\ ~Starts(x)
  BY <1>7, <1>8 DEF HeardUpTo
<1> HIDE DEF u
<1>10. HeardUpTo(u)'
  BY <1>3, <1>4, <1>5, <1>6, <1>9, HeardAfter
<1> QED BY <1>1, <1>3, <1>10 DEF u

LEMMA HeardState ==
  ASSUME ViewInv, NEW h, TakesMessage(h), NEW m \in Nat, HeardUpTo(m),
         HearsState(h), h.scan = scanNo
  PROVE  HeardUpTo(m)'
<1>1. IsEvent(h) /\ ~IsChunk(h) /\ h \in ToSet(wire) /\ scanNo \in Nat
  BY TakenFrom, EventIs DEF HearsState
<1>2. \A x \in ToSet(wire') : IsEvent(x) => x.scan >= scanNo /\ x.scan = scanNo
  <2> SUFFICES ASSUME NEW x \in ToSet(wire'), IsEvent(x) PROVE x.scan >= scanNo /\ x.scan = scanNo
    OBVIOUS
  <2>1. x \in ToSet(wire) /\ x.scan \in Nat /\ h.scan <= x.scan
    BY <1>1, StillUnderWay
  <2>2. x.scan <= scanNo
    BY <2>1 DEF ViewInv, TurnInv
  <2> QED BY <1>1, <2>1, <2>2
<1>3. CASE Starts(h)
  <2>1. shownState' = "Scanning"
    BY <1>3 DEF HearsState, Starts
  <2>2. m > 0 => shownChunks' = shownChunks
    <3> SUFFICES ASSUME m > 0, shownState # "Scanning" PROVE FALSE
      BY DEF HearsState
    <3>1. \A x \in ToSet(wire) : IsEvent(x) => ~Starts(x)
      BY DEF HeardUpTo
    <3> QED BY <1>1, <1>3, <3>1
  <2> QED BY <1>1, <1>2, <2>1, <2>2, ChunksStay, HeardAfter
<1>4. CASE Ends(h)
  <2>1. ~Starts(h) /\ shownChunks' = shownChunks
    BY <1>4, EventIs DEF HearsState
  <2>2. scanState # "Scanning"
    BY <1>1, <1>4, TakenFrom
  <2>3. \A x \in ToSet(wire') : IsEvent(x) => x.scan >= scanNo /\ ~Starts(x)
    BY <1>1, <1>2, <1>4, StillUnderWay
  <2> QED BY <1>1, <2>1, <2>2, <2>3, ChunksStay, HeardAfter
<1> QED BY <1>3, <1>4 DEF HearsState

LEMMA HeardTaken ==
  ASSUME ViewInv, NEW h, TakesMessage(h)
  PROVE  HeardInv'
<1> SUFFICES ASSUME AllHeard(scanNo)' PROVE (\E m \in Nat : m <= flushed /\ HeardUpTo(m))'
  BY DEF HeardInv
<1>1. scanNo' = scanNo /\ flushed' = flushed /\ missed \subseteq missed' /\ flushed \in Nat
  BY TakenFrom
<1>2. AllHeard(scanNo)
  BY <1>1 DEF AllHeard, TakesMessage
<1>3. PICK m \in Nat : m <= flushed /\ HeardUpTo(m)
  BY <1>2 DEF ViewInv, HeardInv
<1>4. CASE IsEvent(h) => h.scan # scanNo
  BY <1>1, <1>3, <1>4, HeardOther
<1>5. CASE IsEvent(h) /\ h.scan = scanNo
  <2>1. ~Misses(h) /\ ~Passes(h)
    BY <1>1, <1>5 DEF AllHeard, Misses, Passes
  <2>2. CASE HearsState(h)
    BY <1>1, <1>3, <1>5, <2>2, HeardState
  <2>3. CASE HearsChunk(h)
    <3>1. HeardUpTo(m + 1)' /\ m + 1 <= flushed'
      BY <1>1, <1>3, <1>5, <2>3, HeardChunk
    <3> QED BY <3>1
  <2> QED BY <2>1, <2>2, <2>3 DEF TakesMessage
<1> QED BY <1>4, <1>5

LEMMA ForgetTaken ==
  ASSUME ViewInv, NEW h, TakesMessage(h)
  PROVE  ForgetInv'
<1>1. /\ scanNo' = scanNo /\ missed \subseteq missed' /\ forgotten' = forgotten /\ scanNo \in Nat
      /\ (h \in ViewEvents <=> IsEvent(h))
  BY TakenFrom DEF TakesMessage
<1>2. /\ heard \in Nat /\ forgotten \in Nat /\ forgotten <= heard /\ heard <= scanNo
      /\ (Shows(scanNo) => heard = scanNo) /\ (AllHeard(scanNo) /\ heard # scanNo => FirstOn(wire, scanNo))
      /\ \A x \in ToSet(wire) : IsEvent(x) => heard <= x.scan
  BY DEF ViewInv, ForgetInv
<1>3. IsEvent(h) => h.scan \in Nat /\ heard <= h.scan /\ h.scan <= scanNo
  BY <1>2, TakenFrom
<1>4. \/ heard' = heard /\ ~HearsChunk(h)
      \/ IsEvent(h) /\ heard' = h.scan
  BY <1>1 DEF TakesMessage, Passes, Misses, HearsState, HearsChunk
<1>5. heard' \in Nat /\ heard <= heard' /\ heard' <= scanNo
  BY <1>2, <1>3, <1>4
<1>6. \A x \in ToSet(wire') : IsEvent(x) => heard' <= x.scan
  <2> SUFFICES ASSUME NEW x \in ToSet(wire'), IsEvent(x) PROVE heard' <= x.scan
    OBVIOUS
  <2> QED BY <1>2, <1>4, StillUnderWay
<1>7. Shows(scanNo)' => heard' = scanNo
  <2> SUFFICES ASSUME NEW k \in DOMAIN shownChunks', shownChunks'[k] = scanNo PROVE heard' = scanNo
    BY <1>1 DEF Shows
  <2>1. CASE k \in DOMAIN shownChunks /\ shownChunks'[k] = shownChunks[k]
    <3>1. heard = scanNo
      BY <1>2, <2>1 DEF Shows
    <3> QED BY <1>1, <1>5, <3>1
  <2>2. CASE HearsChunk(h) /\ shownChunks'[k] = h.scan
    BY <1>4, <2>2 DEF HearsChunk
  <2> QED BY <2>1, <2>2, ShownAfter DEF ViewInv
<1>8. ASSUME AllHeard(scanNo)', heard' # scanNo PROVE FirstOn(wire', scanNo)
  <2>1. AllHeard(scanNo)
    BY <1>1, <1>8 DEF AllHeard
  <2>2. heard # scanNo
    BY <1>1, <1>2, <1>5, <1>8
  <2>3. FirstOn(wire, scanNo)
    BY <1>2, <2>1, <2>2
  <2>4. h # StateEvent("Scanning", scanNo)
    <3> SUFFICES ASSUME h = StateEvent("Scanning", scanNo) PROVE FALSE
      OBVIOUS
    <3>1. IsEvent(h) /\ h.scan = scanNo
      BY <1>1, EventForms DEF Phases
    <3>2. ~Misses(h) /\ ~Passes(h)
      BY <1>1, <1>8, <3>1 DEF AllHeard, Misses, Passes
    <3> QED BY <1>8, <3>1, <3>2 DEF TakesMessage, HearsState, HearsChunk
  <2> QED BY <1>1, <2>3, <2>4 DEF TakesMessage
<1> QED BY <1>1, <1>2, <1>5, <1>6, <1>7, <1>8 DEF ForgetInv

LEMMA HandleKeeps ==
  ASSUME ViewInv, HandleEvent
  PROVE  ViewInv'
<1>1. PICK h : TakesMessage(h)
  BY HandleTakes
<1>2. ViewTypes'
  BY <1>1, ShownAfter DEF ViewInv
<1> QED BY <1>1, <1>2, TurnTaken, FirstChunkTaken, StartTaken, EndsTaken, HeardTaken, ForgetTaken DEF ViewInv

LEMMA ViewNextKeeps == ViewInv /\ [ViewNext]_viewVars => ViewInv'
<1> SUFFICES ASSUME ViewInv, [ViewNext]_viewVars PROVE ViewInv'
  OBVIOUS
<1>1. CASE ViewStart BY <1>1, ScanStartKeeps
<1>2. CASE ViewFlush BY <1>2, FlushKeeps
<1>3. CASE ViewEnd BY <1>3, EndKeeps
<1>4. CASE ViewStopIdle BY <1>4, StopIdleKeeps
<1>5. CASE ViewRediscover BY <1>5, RediscoverKeeps
<1>6. CASE LinkBreaks BY <1>6, BreakKeeps
<1>7. CASE LinkReturns BY <1>7, ReturnKeeps
<1>8. CASE HandleEvent BY <1>8, HandleKeeps
<1>9. CASE EmptyDeviceState BY <1>9, EmptyKeeps
<1>10. CASE UNCHANGED viewVars
  BY <1>10 DEF viewVars, ViewInv, ViewTypes, TurnInv, FirstChunkInv, StartInv, EndInv, HeardInv,
               ForgetInv, HeardUpTo, AllHeard, Past, Shows, EndMissed, EndHeard
<1> QED BY <1>1, <1>2, <1>3, <1>4, <1>5, <1>6, <1>7, <1>8, <1>9, <1>10 DEF ViewNext

\* The map the desktop shows of a scan: it never shows points of two scans together,
\* unless the beginning of the later one went unnoticed, and once a scan has ended of
\* which nothing was missed, or forgotten with a registry that was emptied, it shows all
\* its chunks and no others (Modules/lidar/store.ts:44-45, 88-97, 107-112,
\* transport.ts:157-184).
THEOREM ViewShowsTheScan == ViewSpec => []ViewFollowsScan
<1>1. ViewSpec => []ViewInv
  BY ViewInitial, ViewNextKeeps, PTL DEF ViewSpec
<1> QED BY <1>1, ViewInvFollows, PTL
=============================================================================
