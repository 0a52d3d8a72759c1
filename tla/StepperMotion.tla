--------------------------- MODULE StepperMotion ----------------------------
(***************************************************************************)
(* A stepper motor: the motion logic (stepper_motion.rs) and the module    *)
(* that drives the coils for it and reports (stepper.rs).  Positions and   *)
(* limits are half-steps; angles that are not whole half-steps are rounded *)
(* by the code before they become a target.                                *)
(*                                                                         *)
(* Commands and ticks run to completion on the main loop; what may fail    *)
(* between them is the driver of the coils, and with it a report is lost.  *)
(***************************************************************************)
EXTENDS Integers

CONSTANTS
  Travel,       \* travel limit either side of the origin
  DefaultPivot, \* the pivot limits at start, either side of the origin
  HoldWhenIdle, \* keep the coils energised when idle
  MaxMoves      \* bound: commands

ASSUME StepperAssumption ==
  /\ Travel \in Nat /\ DefaultPivot \in 0..Travel
  /\ HoldWhenIdle \in BOOLEAN /\ MaxMoves \in Nat

VARIABLES
  step, target,       \* position and target
  motion,             \* "Idle", "Moving", "Homing", "Pivot"
  cycle, toward,      \* of Homing; `toward` also of Pivot
  pivotPoint,         \* the limit the motor rests on, or "None"
  pivot,              \* the limits, by name
  energised,          \* the coils carry current
  shown,              \* what was last reported
  lost,               \* history: what failed and was not made good since
  moves               \* commands so far

stepperVars == <<step, target, motion, cycle, toward, pivotPoint, pivot, energised, shown,
                 lost, moves>>

PivotPoints == {"Min", "Max"}
HomingCycles == 3
Positions == (-Travel)..Travel
Distance(a, b) == IF a < b THEN b - a ELSE a - b
Other(p) == IF p = "Min" THEN "Max" ELSE "Min"

StepperInit ==
  /\ step = 0 /\ target = 0
  /\ motion = "Idle" /\ cycle = 1 /\ toward = "Min" /\ pivotPoint = "None"
  /\ pivot = [Min |-> -DefaultPivot, Max |-> DefaultPivot]
  /\ energised = FALSE
  /\ shown = [motion |-> "Idle", step |-> 0, pivot |-> pivot, point |-> "None"]
  /\ lost = {} /\ moves = 0

\* Mutant: the coils stay as they are.
KeepCoils(powered) == powered

\* `apply` switches the coils off unless they are to hold.
ReleaseCoils(powered) == powered /\ HoldWhenIdle

\* become_idle: the motor stops where it is, the coils are released, and then it is
\* reported; when the release fails nothing is reported.
BecomeIdle(powered, point) ==
  /\ motion' = "Idle" /\ target' = step'
  /\ \/ /\ energised' = ReleaseCoils(powered)
        /\ shown' = [shown EXCEPT !.motion = "Idle", !.step = step', !.point = point]
        /\ lost' = lost \ {"Release"}
     \/ /\ ~HoldWhenIdle /\ energised' \in {powered, FALSE}
        /\ lost' = {"Release", "Report"} /\ UNCHANGED shown

-----------------------------------------------------------------------------
(* Commands. *)

Command == moves < MaxMoves /\ moves' = moves + 1
SetMotion(m) == motion' = m /\ shown' = [shown EXCEPT !.motion = m]

\* MoveToAngle and MoveToOrigin; an angle outside the travel is refused.
MoveToAngle(angle) ==
  /\ Command /\ angle \in Positions
  /\ target' = angle /\ SetMotion("Moving")
  /\ UNCHANGED <<step, cycle, toward, pivotPoint, pivot, energised, lost>>

\* Mutant: limits are not compared.
AnyLimits(limits) == TRUE

InOrder(limits) == limits.Min <= limits.Max

\* SetPivotMin and SetPivotMax; limits outside the travel or inverted are refused.
SetPivot(point, value) ==
  /\ Command /\ value \in Positions
  /\ pivot' = [pivot EXCEPT ![point] = value] /\ InOrder(pivot')
  /\ shown' = [shown EXCEPT !.pivot = pivot']
  /\ UNCHANGED <<step, target, motion, cycle, toward, pivotPoint, energised, lost>>

\* MoveToPivotMin, MoveToPivotMax, SetMode Pivot.
MoveToPivot(point) ==
  /\ Command /\ SetMotion("Pivot") /\ toward' = point
  /\ UNCHANGED <<step, target, cycle, pivotPoint, pivot, energised, lost>>

FartherPivot ==
  IF Distance(step, pivot.Min) >= Distance(step, pivot.Max) THEN "Min" ELSE "Max"

SetModeHoming ==
  /\ Command /\ SetMotion("Homing")
  /\ cycle' = 1 /\ toward' = FartherPivot
  /\ UNCHANGED <<step, target, pivotPoint, pivot, energised, lost>>

\* The target stays whatever it was.
SetModeMoving ==
  /\ Command /\ SetMotion("Moving")
  /\ UNCHANGED <<step, target, cycle, toward, pivotPoint, pivot, energised, lost>>

SetModeIdle ==
  /\ Command /\ UNCHANGED <<step, cycle, toward, pivotPoint, pivot>>
  /\ BecomeIdle(energised, shown.point)

\* Rediscovery: register and first_emit.
StepperRediscover ==
  /\ shown' = [motion |-> motion, step |-> step, pivot |-> pivot,
               point |-> IF pivotPoint = "None" THEN shown.point ELSE pivotPoint]
  /\ lost' = lost \ {"Report"}
  /\ UNCHANGED <<step, target, motion, cycle, toward, pivotPoint, pivot, energised, moves>>

-----------------------------------------------------------------------------
(* The tick. *)

\* The target of this tick, and the position one half-step nearer to it.
Aim == IF motion = "Moving" THEN target ELSE pivot[toward]
Nearer == CASE step < Aim -> step + 1 [] step > Aim -> step - 1 [] OTHER -> step

Sweeping == motion # "Idle" /\ (motion = "Homing" => cycle <= HomingCycles)

\* A half-step that does not reach the target.
StepTaken ==
  /\ Sweeping /\ Nearer # Aim
  /\ target' = Aim /\ step' = Nearer /\ pivotPoint' = "None" /\ energised' = TRUE
  /\ UNCHANGED <<motion, cycle, toward, pivot, shown, lost, moves>>

\* The step timer was not due, or the coil driver failed.
StepNotTaken ==
  /\ Sweeping /\ step # Aim
  /\ target' = Aim /\ energised' \in {energised, TRUE}
  /\ UNCHANGED <<step, motion, cycle, toward, pivotPoint, pivot, shown, lost, moves>>

\* What a tick that is on the target, or one half-step from it, leaves.
Arrives == Sweeping /\ Nearer = Aim /\ step' = Aim
Powered == energised \/ step # Aim

MoveDone ==
  /\ motion = "Moving" /\ Arrives
  /\ pivotPoint' = IF step = Aim THEN pivotPoint ELSE "None"
  /\ BecomeIdle(Powered, shown.point)
  /\ UNCHANGED <<cycle, toward, pivot, moves>>

PivotDone ==
  /\ motion = "Pivot" /\ Arrives
  /\ pivotPoint' = toward
  /\ BecomeIdle(Powered, toward)
  /\ UNCHANGED <<cycle, toward, pivot, moves>>

\* One sweep of homing is done; the next goes to the other limit.
SweepDone ==
  /\ motion = "Homing" /\ Arrives
  /\ target' = Aim /\ pivotPoint' = toward /\ energised' = Powered
  /\ shown' = [shown EXCEPT !.motion = "Homing", !.step = step', !.point = toward]
  /\ cycle' = cycle + 1 /\ toward' = Other(toward)
  /\ UNCHANGED <<motion, pivot, lost, moves>>

HomingDone ==
  /\ motion = "Homing" /\ ~Sweeping
  /\ UNCHANGED <<step, cycle, toward, pivotPoint, pivot, moves>>
  /\ BecomeIdle(energised, shown.point)

StepperTick == StepTaken \/ MoveDone \/ PivotDone \/ SweepDone \/ HomingDone

StepperCommand ==
  \/ \E angle \in Positions : MoveToAngle(angle)
  \/ \E point \in PivotPoints : MoveToPivot(point) \/ \E value \in Positions : SetPivot(point, value)
  \/ SetModeHoming \/ SetModeMoving \/ SetModeIdle

StepperNext == StepperCommand \/ StepperTick \/ StepNotTaken \/ StepperRediscover

StepperSpec == StepperInit /\ [][StepperNext]_stepperVars

\* The main loop ticks, and the driver does not fail for ever.
StepperFairness == WF_stepperVars(StepperTick)

-----------------------------------------------------------------------------
(* Properties. *)

\* Every variable holds a value of its type.
StepperTypeOK ==
  /\ step \in Int /\ target \in Int /\ motion \in {"Idle", "Moving", "Homing", "Pivot"}
  /\ cycle \in 1..(HomingCycles + 1) /\ toward \in PivotPoints
  /\ pivotPoint \in PivotPoints \cup {"None"} /\ pivot \in [PivotPoints -> Int]
  /\ energised \in BOOLEAN /\ lost \subseteq {"Release", "Report"} /\ moves \in 0..MaxMoves
  /\ shown \in [motion : {"Idle", "Moving", "Homing", "Pivot"}, step : Int,
                pivot : [PivotPoints -> Int], point : PivotPoints \cup {"None"}]

\* Whatever the commands, the motor, its target and its limits stay within the travel,
\* and the limits in order (stepper_motion.rs:9-12).
StaysInTravel ==
  /\ step \in Positions /\ target \in Positions
  /\ \A p \in PivotPoints : pivot[p] \in Positions
  /\ pivot.Min <= pivot.Max

\* An idle motor carries no current unless it is to hold, and what was reported of it is
\* so.  A failed release excuses both: the current until it is idle again, the report,
\* which is lost with it, until the next rediscovery (stepper_motion.rs:201-207, stepper.rs:112-120).
IdleIsAsReported ==
  motion = "Idle" =>
    /\ target = step
    /\ energised => HoldWhenIdle \/ "Release" \in lost
    /\ "Report" \notin lost =>
         /\ shown.motion = "Idle" /\ shown.step = step /\ shown.pivot = pivot
         /\ pivotPoint # "None" => shown.point = pivotPoint

\* Every motion ends: homing after its sweeps, wherever the limits are moved meanwhile
\* (stepper_motion.rs:300-337).
MotionEnds == (motion # "Idle") ~> (motion = "Idle")
=============================================================================
