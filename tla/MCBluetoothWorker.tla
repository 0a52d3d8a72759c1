------------------------- MODULE MCBluetoothWorker --------------------------
(* Small instances of BluetoothWorker for TLC; see the cfg files. *)
EXTENDS BluetoothWorker
=============================================================================
