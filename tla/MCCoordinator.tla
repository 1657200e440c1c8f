--------------------------- MODULE MCCoordinator ---------------------------
(***************************************************************************)
(* Small instances of Coordinator for TLC.                                 *)
(***************************************************************************)
EXTENDS Coordinator, TLC

\* The last chunk of a puzzle may be shorter than the others.
MCSize == [c \in Chunks |-> IF c = Total - 1 THEN 1 ELSE 2]

\* Two affine orders of three or four chunks (multipliers 1 and Total - 1, as
\* partition.py derives them: coprime to Total), offset by the seed.
MCSeeds == {1, 2}
OneSeed == {1}
MCOrder ==
  [s \in Seeds |-> [n \in Chunks |->
     IF s = 1 THEN (n + 1) % Total ELSE (n * (Total - 1)) % Total]]

MCKeys == {"target", "decoy", "outside"}
MCHome == [k \in MCKeys |-> CASE k = "target"  -> 1
                              [] k = "decoy"   -> 0
                              [] k = "outside" -> Total]

\* Tokens are not symmetric: FreshToken chooses among them.
Symmetry == Permutations(Workers)

=============================================================================
