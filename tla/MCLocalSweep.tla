---------------------------- MODULE MCLocalSweep ----------------------------
(***************************************************************************)
(* Small instances of LocalSweep for TLC: two endpoints, as EsploraNetwork *)
(* has by default, two addresses and two fee rates.                        *)
(***************************************************************************)
EXTENDS LocalSweep

=============================================================================
