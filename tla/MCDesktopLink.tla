--------------------------- MODULE MCDesktopLink ----------------------------
(* The desktop's connection on small instances: each setting lets one part of *)
(* the system run far and bounds the others.                                  *)
EXTENDS DesktopLink

CONSTANT Settings
VARIABLE setting

\* What the settings bound: uses, mounts and sessions, what the uses do, and whether a
\* listener runs at the start.
Bounds ==
  [ports   |-> [clicks |-> 3, mounts |-> 1, sessions |-> 0, acts |-> Acts, wifi |-> 0],
   overlap |-> [clicks |-> 2, mounts |-> 2, sessions |-> 0, acts |-> {"Bluetooth", "Stop"}, wifi |-> 0],
   wifi    |-> [clicks |-> 2, mounts |-> 1, sessions |-> 1, acts |-> {"Wi-Fi", "Stop"}, wifi |-> 1],
   change  |-> [clicks |-> 1, mounts |-> 1, sessions |-> 1, acts |-> {"Serial"}, wifi |-> 1],
   peers   |-> [clicks |-> 1, mounts |-> 1, sessions |-> 2, acts |-> {"Stop"}, wifi |-> 1]]

Within ==
  LET b == Bounds[setting]
  IN /\ clicks <= b.clicks /\ mounts <= b.mounts
     /\ \A s \in Sessions : session[s] # "None" => s <= b.sessions
     /\ \A u \in Uses : at[u] # "Idle" => act[u] \in b.acts

MCInit == Init /\ setting \in Settings /\ wifi = Bounds[setting].wifi /\ Within
MCNext == Next /\ UNCHANGED setting /\ Within'

\* Bounded are only the steps that nothing is obliged to take.
MCFairSpec == MCInit /\ [][MCNext]_<<vars, setting>> /\ Fairness
=============================================================================
