------------------------- MODULE MCFirmwarePipeline -------------------------
(* Small instances of FirmwarePipeline for TLC; see the cfg files. *)
EXTENDS FirmwarePipeline
=============================================================================
