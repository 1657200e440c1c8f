---------------------------- MODULE MCLocalSetup ----------------------------
(***************************************************************************)
(* A small instance of LocalSetup for TLC: two terminals, so that a command *)
(* may meet another one, or a worker that is searching, at every step.     *)
(***************************************************************************)
EXTENDS LocalSetup

=============================================================================
