--------------------------- MODULE MCGeneratorLab ---------------------------
(***************************************************************************)
(* A small instance of GeneratorLab for TLC: two sources of two seeds, the *)
(* first with two schemes, the second, of timestamps, with the only one    *)
(* that fits them.  The answer is the last pair of the first source, so    *)
(* that a find and a move to the next source are both reached, or nowhere. *)
(***************************************************************************)
EXTENDS GeneratorLab

MCSizes == <<2, 2>>
MCWidths == <<2, 1>>
MCWinners == {<<1, 1, 1>>, None}

=============================================================================
