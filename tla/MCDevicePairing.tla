-------------------------- MODULE MCDevicePairing ---------------------------
(* Small instances of DevicePairing for TLC; see the cfg files. *)
EXTENDS DevicePairing
=============================================================================
