-------------------------- MODULE MCRemoteWorkers --------------------------
(***************************************************************************)
(* A small instance of RemoteWorkers for TLC.  Every grant after the first *)
(* one of a chunk follows a fault, so Cardinality(Chunks) + MaxFaults      *)
(* tokens are never used up.                                               *)
(***************************************************************************)
EXTENDS RemoteWorkers

ASSUME EnoughTokens == Cardinality(Tokens) >= Cardinality(Chunks) + MaxFaults

=============================================================================
