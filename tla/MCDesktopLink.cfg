\* Two COM links; up to three uses of the button, two mounts and two Wi-Fi sessions,
\* as the settings say.
SPECIFICATION MCFairSpec
CONSTANTS
  MaxLinks = 2
  MaxClicks = 3
  MaxMounts = 2
  MaxSessions = 2
  Settings = {"ports", "overlap", "wifi", "change", "peers"}
INVARIANTS OneReader StoreShowsWhatIs
PROPERTIES ActionsEnd
CHECK_DEADLOCK FALSE
