--------------------------- MODULE MCThermalGuard ---------------------------
(***************************************************************************)
(* An instance of ThermalGuard for TLC with the program's own numbers:     *)
(* three retries, three failed samples in a row.                           *)
(***************************************************************************)
EXTENDS ThermalGuard
=============================================================================
