----------------------------- MODULE MCProcesses -----------------------------
(* Small instances of bridge processes for TLC. *)
EXTENDS BridgeProcesses

CONSTANTS first, second, j1, x, y

==============================================================================
