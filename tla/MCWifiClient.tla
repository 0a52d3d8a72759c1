---------------------------- MODULE MCWifiClient ----------------------------
(* The firmware's Wi-Fi client on small instances. *)
EXTENDS WifiClient

AnnouncedInOrder == <<"System", "led">>
=============================================================================
