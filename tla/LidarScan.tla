------------------------------ MODULE LidarScan -----------------------------
(***************************************************************************)
(* The scanning rangefinder: the LiDAR module (lidar.rs), its planner      *)
(* (lidar_scan.rs), its two servos (servo.rs, servo_position.rs) and its   *)
(* rangefinder (rangefinder.rs).                                           *)
(*                                                                         *)
(* Time passes in units of SERVO_MS_PER_DEGREE, in which a servo that is   *)
(* on its way moves a degree or more.  `real` is where the servos are, of  *)
(* which the module knows only what it has commanded: nothing, before the  *)
(* first write (servo_position.rs:90).  The main loop polls four times in  *)
(* a unit, so a reading that is read in the unit it ends in is in time.    *)
(***************************************************************************)
EXTENDS Integers, FiniteSets

CONSTANTS
  PivotLimit,   \* the servos' range either side of their centre
  Rois,         \* regions of interest: [min, max], each a point
  Steps,        \* scan steps, of 1..MAX_STEP
  Goals,        \* pivots that the commands to the servos name
  ChunkSize,    \* POINTS_PER_CHUNK
  Budget,       \* timing_budget_ms: how long a measurement takes
  MaxOrders     \* bound: commands

Pivots == (-PivotLimit)..PivotLimit
Points == [x : Pivots, y : Pivots]

ASSUME LidarAssumption ==
  /\ PivotLimit \in Nat /\ Rois \subseteq [min : Points, max : Points] /\ Goals \subseteq Pivots
  /\ Steps \subseteq Nat \ {0} /\ {ChunkSize, Budget} \subseteq Nat \ {0} /\ MaxOrders \in Nat

VARIABLES
  servo,        \* per axis: position, limits, whether it has been commanded
  roi, stride,  \* min_point and max_point, step
  lidarMode,    \* curr_scan_mode: "Idol", "Scanning", "StopScan"
  scan,         \* the plan, or NoScan
  buffered,     \* points in point_map
  chunk, chunks, \* current_chunk, total_chunks
  ranging,      \* the sensor measures
  real,         \* where the servos are
  wait,         \* reading_usable_from_us, as the time that is left
  measured, sample, \* the measurement in progress: its age, and "Blurred" if a servo has moved
  ready,        \* the finished one that waits to be read: "None", "Clean", "Blurred"
  places, count, blurred, \* history of this scan: where and how many points were recorded, one badly
  planned,      \* history: the positions of the region this scan is to visit
  disturbed,    \* history: what came in the way of this scan
  mistimed,     \* history: it began with servos elsewhere than commanded, or a reading was read late
  orders        \* commands so far

timeVars == <<real, wait, measured, sample, ready, mistimed>>
pointVars == <<buffered, chunk, places, count, blurred>>
lidarVars == <<servo, roi, stride, lidarMode, scan, chunks, ranging, timeVars, pointVars,
               planned, disturbed, orders>>

NoScan == [limit |-> PivotLimit + 1]
Position == [x |-> servo.x.at, y |-> servo.y.at]
Clamp(v, lo, hi) == IF v < lo THEN lo ELSE IF v > hi THEN hi ELSE v
Abs(v) == IF v < 0 THEN -v ELSE v
DivCeil(a, b) == (a + b - 1) \div b

\* Nothing has been commanded: the servos are anywhere, and taken to be in the centre.
LidarInit ==
  /\ servo = [axis \in {"x", "y"} |-> [at |-> 0, min |-> -PivotLimit, max |-> PivotLimit,
                                        commanded |-> FALSE]]
  /\ roi \in Rois /\ stride \in Steps
  /\ lidarMode = "Idol" /\ scan = NoScan
  /\ buffered = 0 /\ chunk = 1 /\ chunks = 0 /\ ranging = FALSE
  /\ real \in Points /\ wait = 0 /\ measured = 0 /\ sample = "Clean" /\ ready = "None"
  /\ mistimed = FALSE
  /\ places = {} /\ count = 0 /\ blurred = FALSE /\ planned = {} /\ disturbed = {}
  /\ orders = 0

-----------------------------------------------------------------------------
(* Servos.  A write of the pulse may fail; then the position stays. *)

Moved(s, pivot) == [s EXCEPT !.at = Clamp(pivot, s.min, s.max), !.commanded = TRUE]

\* set_angle_silent on x and then, if that worked, on y: how the servos may end up, and
\* whether both writes worked.
Moves(p) ==
  LET x == [servo EXCEPT !.x = Moved(@, p.x)]
  IN {[servo |-> servo, ok |-> FALSE], [servo |-> x, ok |-> FALSE],
      [servo |-> [x EXCEPT !.y = Moved(@, p.y)], ok |-> TRUE]}

\* travel_degrees: the larger of the two movements.
TravelDegrees(from, to) ==
  LET x == Abs(from.x - to.x) y == Abs(from.y - to.y) IN IF x < y THEN y ELSE x

Destination(m) == [x |-> m.servo.x.at, y |-> m.servo.y.at]

\* Mutant: the measurement that was in progress counts.
NoteTravelOnly(m) == wait' = TravelDegrees(Position, Destination(m))

\* note_moved_from: the time is reckoned from the positions last commanded, as if the
\* servos were there.
NoteMoved(m) == wait' = TravelDegrees(Position, Destination(m)) + Budget

MoveServos(m) == servo' = m.servo /\ NoteMoved(m)

\* A reading that waits is for where the servos were.
Outdate ==
  ready' = IF ready = "None" \/ Position' = real THEN ready ELSE "Blurred"

-----------------------------------------------------------------------------
(* The world. *)

\* How far a servo gets in a unit of time.
Reach(axis) ==
  IF servo[axis].commanded /\ real[axis] # servo[axis].at
    THEN {v \in Pivots : v # real[axis] /\ Abs(real[axis] - v) + Abs(v - servo[axis].at)
                                             = Abs(real[axis] - servo[axis].at)}
    ELSE {real[axis]}

\* The sensor measures again and again; a reading nobody reads may be replaced.
Measure ==
  LET seen == IF real' = real THEN sample ELSE "Blurred"
  IN IF measured + 1 < Budget
       THEN measured' = measured + 1 /\ sample' = seen /\ UNCHANGED ready
       ELSE /\ measured' = 0 /\ sample' = "Clean"
            /\ ready' \in IF ready = "None" THEN {seen} ELSE {ready, seen}

Elapse ==
  /\ \E x \in Reach("x"), y \in Reach("y") : real' = [x |-> x, y |-> y]
  /\ wait' = IF wait = 0 THEN 0 ELSE wait - 1
  /\ IF ranging THEN Measure ELSE UNCHANGED <<measured, sample, ready>>
  /\ mistimed' = (mistimed \/ (lidarMode = "Scanning" /\ ready # "None"))
  /\ UNCHANGED <<servo, roi, stride, lidarMode, scan, chunks, ranging, pointVars,
                 planned, disturbed, orders>>

-----------------------------------------------------------------------------
(* The planner. *)

StepToward(from, to, by) == IF from < to THEN Clamp(from + by, from, to) ELSE Clamp(from - by, to, from)

PositionsOn(a, b) == DivCeil(Abs(a - b), stride) + 1

NewPlan ==
  [start |-> roi.max, end |-> roi.min, step |-> stride, from |-> roi.max, target |-> roi.max,
   limit |-> roi.min.x]

\* Mutant: only a servo that reaches its target ends the row.
NeverStalled(axis, at) == FALSE

Stalled(axis, at) == at[axis] = scan.from[axis] /\ at[axis] # scan.target[axis]

RowFinished(at) == at.x = scan.limit \/ Stalled("x", at)

\* Mutant: the scan is over as soon as the last row is reached.
LeavesLastRow(at) == Stalled("y", at) \/ at.y = scan.end.y

ScanFinished(at) == Stalled("y", at) \/ (RowFinished(at) /\ at.y = scan.end.y)

\* The plan after a move was decided at `at`; its target is the next position.
Advanced(at) ==
  IF RowFinished(at)
    THEN [scan EXCEPT !.from = at,
            !.limit = IF @ = scan.end.x THEN scan.start.x ELSE scan.end.x,
            !.target = [at EXCEPT !.y = StepToward(at.y, scan.end.y, scan.step)]]
    ELSE [scan EXCEPT !.from = at,
            !.target = [at EXCEPT !.x = StepToward(at.x, scan.limit, scan.step)]]

-----------------------------------------------------------------------------
(* The end of a scan. *)

\* flush_point_map with n points buffered.
Flush(n) == /\ buffered' = 0 /\ chunk' = IF n > 0 THEN chunk + 1 ELSE chunk

EndScan(mode, n) ==
  /\ Flush(n)
  /\ scan' = NoScan /\ lidarMode' = mode

-----------------------------------------------------------------------------
(* The tick: update_range, then the planner, then the servos. *)

\* A reading that came too early is dropped.
EarlyReading ==
  /\ lidarMode = "Scanning" /\ ready # "None" /\ wait > 0
  /\ ready' = "None"
  /\ UNCHANGED <<servo, roi, stride, lidarMode, scan, chunks, ranging, real, wait, measured, sample,
                 mistimed, pointVars, planned, disturbed, orders>>

Interference(m) ==
  IF ~m.ok THEN {"Failed"}
  ELSE IF Destination(m) # scan'.target THEN {"Clamped"} ELSE {}

\* A reading that counts.  Where nothing could be measured there is no point.
UsableReading(valid) ==
  /\ lidarMode = "Scanning" /\ ready # "None" /\ wait = 0
  /\ ready' = "None"
  /\ count' = IF valid THEN count + 1 ELSE count
  /\ places' = IF valid THEN places \cup {Position} ELSE places
  /\ blurred' = (blurred \/ (valid /\ ready = "Blurred"))
  /\ LET n == IF valid THEN buffered + 1 ELSE buffered
         skipped == IF valid THEN {} ELSE {"Skipped"}
     IN \/ /\ ScanFinished(Position)
           /\ EndScan("Idol", n)
           /\ disturbed' = disturbed \cup skipped
           /\ UNCHANGED <<servo, wait>>
        \/ /\ ~ScanFinished(Position)
           /\ \E m \in Moves(Advanced(Position).target) :
                /\ MoveServos(m)
                /\ IF m.ok
                     THEN /\ scan' = Advanced(Position) /\ UNCHANGED lidarMode
                          /\ IF n >= ChunkSize THEN Flush(n) ELSE buffered' = n /\ UNCHANGED chunk
                     ELSE EndScan("StopScan", n)
                /\ disturbed' = disturbed \cup skipped \cup Interference(m)
  /\ UNCHANGED <<roi, stride, chunks, ranging, real, measured, sample, mistimed, planned, orders>>

\* No reading for READING_TIMEOUT_US: the sensor is silent or its bus fails.
ReadingTimesOut ==
  /\ lidarMode = "Scanning"
  /\ EndScan("StopScan", buffered) /\ disturbed' = disturbed \cup {"Failed"}
  /\ UNCHANGED <<servo, roi, stride, chunks, ranging, timeVars, places, count, blurred, planned, orders>>

-----------------------------------------------------------------------------
(* Commands. *)

Order == orders < MaxOrders /\ orders' = orders + 1

\* Roi and SetStep, refused during a scan.
Configure ==
  /\ Order /\ scan = NoScan
  /\ \/ roi' \in Rois /\ UNCHANGED stride
     \/ stride' \in Steps /\ UNCHANGED roi
  /\ UNCHANGED <<servo, lidarMode, scan, chunks, ranging, timeVars, pointVars, planned, disturbed>>

\* The positions of a row or a column that is swept from a to b: every step, and b.
Marks(a, b) ==
  {v \in Pivots : Abs(a - v) + Abs(v - b) = Abs(a - b) /\ (v = b \/ Abs(a - v) % stride = 0)}

\* The positions a scan visits: rows alternate direction, and where the step does not
\* divide the width the rows that run back have marks of their own.
Serpentine ==
  {p \in Points :
     /\ p.y \in Marks(roi.max.y, roi.min.y)
     /\ p.x \in IF DivCeil(Abs(roi.max.y - p.y), stride) % 2 = 0
                  THEN Marks(roi.max.x, roi.min.x) ELSE Marks(roi.min.x, roi.max.x)}

\* StartScan, also during a scan: it fails at the sensor, at a servo, or not at all.
StartScan ==
  /\ Order
  /\ \/ ~ranging /\ UNCHANGED <<servo, lidarMode, scan, chunks, ranging, timeVars, pointVars, planned, disturbed>>
     \/ /\ ranging' = TRUE
        /\ \E m \in Moves(NewPlan.start) :
             /\ MoveServos(m) /\ Outdate
             /\ IF m.ok
                  THEN /\ scan' = NewPlan /\ lidarMode' = "Scanning"
                       /\ buffered' = 0 /\ chunk' = 1
                       /\ chunks' = DivCeil(PositionsOn(roi.max.x, roi.min.x) * PositionsOn(roi.max.y, roi.min.y), ChunkSize)
                       /\ places' = {} /\ count' = 0 /\ blurred' = FALSE
                       /\ planned' = Serpentine
                       /\ disturbed' = Interference(m) /\ mistimed' = (real # Position)
                  ELSE /\ disturbed' = disturbed \cup {"Commanded"}
                       /\ UNCHANGED <<lidarMode, scan, chunks, pointVars, planned, mistimed>>
        /\ UNCHANGED <<real, measured, sample>>
  /\ UNCHANGED <<roi, stride>>

StopScan ==
  /\ Order
  /\ EndScan("StopScan", buffered) /\ disturbed' = disturbed \cup {"Commanded"}
  /\ UNCHANGED <<servo, roi, stride, chunks, ranging, timeVars, places, count, blurred, planned>>

\* MovePos and ChangeMotorAngle: the module moves its servos, and notes it.
MoveByModule ==
  /\ Order
  /\ \/ \E p \in [x : Goals, y : Goals] : \E m \in Moves(p) : MoveServos(m)
     \/ \E axis \in {"x", "y"}, pivot \in Goals :
          \E s \in {servo, [servo EXCEPT ![axis] = Moved(@, pivot)]} : MoveServos([servo |-> s])
  /\ Outdate /\ disturbed' = disturbed \cup {"Commanded"}
  /\ UNCHANGED <<roi, stride, lidarMode, scan, chunks, ranging, real, measured, sample, mistimed,
                 pointVars, planned>>

\* Commands to a servo by its own id: SetAngle; SetMinPivot and SetMaxPivot, which move
\* a servo back that is outside.  The module does not notice.
Outside(s) == s.commanded /\ s.at \notin s.min..s.max
WithLimit(s, which, v) ==
  IF which = "min" THEN [s EXCEPT !.min = IF v < s.max THEN v ELSE s.max]
  ELSE [s EXCEPT !.max = IF v > s.min THEN v ELSE s.min]
BackInside(s) == IF Outside(s) THEN {s, Moved(s, s.at)} ELSE {s}

MoveDirectly ==
  /\ Order
  /\ \E axis \in {"x", "y"}, v \in Goals :
       \E s \in {Moved(servo[axis], v)} \cup UNION {BackInside(WithLimit(servo[axis], w, v)) : w \in {"min", "max"}} :
         servo' = [servo EXCEPT ![axis] = s]
  /\ Outdate /\ disturbed' = disturbed \cup {"Commanded"}
  /\ UNCHANGED <<roi, stride, lidarMode, scan, chunks, ranging, real, wait, measured, sample,
                 mistimed, pointVars, planned>>

\* The rangefinder's own commands; what the sensor makes of a timing budget or a
\* distance mode that changes during a measurement is not modelled.
CommandRanger ==
  /\ Order /\ ranging' = ~ranging
  /\ measured' = 0 /\ sample' = "Clean"
  /\ disturbed' = disturbed \cup {"Commanded"}
  /\ UNCHANGED <<servo, roi, stride, lidarMode, scan, chunks, real, wait, ready, mistimed,
                 pointVars, planned>>

LidarTick == EarlyReading \/ (\E valid \in BOOLEAN : UsableReading(valid)) \/ ReadingTimesOut

LidarNext ==
  \/ LidarTick \/ Elapse
  \/ Configure \/ StartScan \/ StopScan \/ MoveByModule \/ MoveDirectly \/ CommandRanger

LidarSpec == LidarInit /\ [][LidarNext]_lidarVars

\* Time passes, and the sensor answers or is found silent.
LidarFairness == WF_lidarVars(Elapse) /\ WF_lidarVars(LidarTick)

-----------------------------------------------------------------------------
(* Properties. *)

\* Every variable holds a value of its type; there is a plan exactly during a scan, and
\* the buffer never holds a whole chunk between ticks.
LidarTypeOK ==
  /\ \A axis \in {"x", "y"} :
       /\ {servo[axis].at, servo[axis].min, servo[axis].max} \subseteq Pivots
       /\ servo[axis].min <= servo[axis].max
  /\ lidarMode \in {"Idol", "Scanning", "StopScan"} /\ (lidarMode = "Scanning") = (scan # NoScan)
  /\ buffered \in 0..(ChunkSize - 1) /\ chunk \in Nat \ {0}
  /\ {ranging, blurred, mistimed} \subseteq BOOLEAN
  /\ real \in Points /\ wait \in 0..(2 * PivotLimit + Budget) /\ measured \in 0..(Budget - 1)
  /\ sample \in {"Clean", "Blurred"} /\ ready \in {"None", "Clean", "Blurred"}
  /\ places \subseteq Points

\* A scan that nothing came in the way of has measured every position of its region
\* once, and has sent the chunks it announced (lidar_scan.rs:1-20, 160-168).
ScanCoversRegion ==
  lidarMode = "Idol" /\ disturbed = {} =>
    /\ places = planned /\ count = Cardinality(planned)
    /\ chunk = chunks + 1

\* A scan records only measurements during which no servo moved, if the servos were where
\* they had been commanded when it began, nobody else moved them since, and every reading
\* was read in the unit of time it ended in: then the wait that is reckoned from the
\* larger travel and one measurement is enough (lidar.rs:158-174, 305-308,
\* lidar_scan.rs:38-49).
UncommandedScanIsClean == "Commanded" \notin disturbed /\ ~mistimed => ~blurred

\* "A distance is recorded only if its measurement began after the servos arrived"
\* (lidar.rs:13).
PointsAreClean == ~blurred

\* Every scan ends, wherever the servos are held or moved (lidar_scan.rs:14-20,
\* lidar.rs:14-16).
ScanEnds == (lidarMode = "Scanning") ~> (lidarMode # "Scanning")
=============================================================================
