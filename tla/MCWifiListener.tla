--------------------------- MODULE MCWifiListener ---------------------------
(* Small instances of WifiListener for TLC; see the cfg files. *)
EXTENDS WifiListener
=============================================================================
