----------------------------- MODULE MCModules ------------------------------
(* The modules of a board on small instances (a stepper, a scanning          *)
(* rangefinder, a card reader), the desktop's view of a scan, the pairing    *)
(* window and the line framer.  They share no state, and every step is one   *)
(* part's, so one of them is wired at a time.                                *)
EXTENDS StepperMotion, LidarScan, RfidCard, LidarView, PairingWindow, LineFramer

VARIABLE wired
boardVars == <<wired, stepperVars, lidarVars, rfidVars, viewVars, windowVars, framerVars>>

Corner(x, y) == [x |-> x, y |-> y]
OneGoal == {-1}
OneRegion == {[min |-> Corner(1, 0), max |-> Corner(-2, 1)]}

BoardInit ==
  /\ wired \in {"stepper", "lidar", "rfid", "view", "window", "framer"}
  /\ StepperInit /\ LidarInit /\ RfidInit /\ ViewInit /\ WindowInit /\ FramerInit
  /\ wired # "lidar" => \A s \in Steps : stride <= s
  /\ real \in IF wired = "lidar" THEN {Corner(0, 0), Corner(-2, 2)} ELSE {Corner(0, 0)}
  /\ wired # "rfid" => \A c \in Cards : card[c][1].n = 0

StepperTurn ==
  /\ wired = "stepper" /\ StepperNext
  /\ UNCHANGED <<wired, lidarVars, rfidVars, viewVars, windowVars, framerVars>>
LidarTurn ==
  /\ wired = "lidar" /\ LidarNext
  /\ UNCHANGED <<wired, stepperVars, rfidVars, viewVars, windowVars, framerVars>>
RfidTurn ==
  /\ wired = "rfid" /\ RfidNext
  /\ UNCHANGED <<wired, stepperVars, lidarVars, viewVars, windowVars, framerVars>>
ViewTurn ==
  /\ wired = "view" /\ ViewNext
  /\ UNCHANGED <<wired, stepperVars, lidarVars, rfidVars, windowVars, framerVars>>
WindowTurn ==
  /\ wired = "window" /\ WindowNext
  /\ UNCHANGED <<wired, stepperVars, lidarVars, rfidVars, viewVars, framerVars>>
FramerTurn ==
  /\ wired = "framer" /\ FramerNext
  /\ UNCHANGED <<wired, stepperVars, lidarVars, rfidVars, viewVars, windowVars>>

BoardNext ==
  StepperTurn \/ LidarTurn \/ RfidTurn \/ ViewTurn \/ WindowTurn \/ FramerTurn

BoardSpec == BoardInit /\ [][BoardNext]_boardVars /\ StepperFairness /\ LidarFairness

\* Whatever a module has set in motion comes to rest by itself.
MovesEnd == MotionEnds /\ ScanEnds
=============================================================================
