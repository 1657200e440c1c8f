--------------------------- MODULE MCScanSessions ---------------------------
(***************************************************************************)
(* A small instance of ScanSessions for TLC: puzzle 5 (keys 16 .. 31) in   *)
(* three chunks of 7, 7 and 2 keys, two shards, two workers that share a   *)
(* chunk unevenly and walk it in blocks of 3.  The answer is any key, or   *)
(* none.  The curve is y^2 = x^3 + 3 over the field of 31, of 43 points.   *)
(***************************************************************************)
EXTENDS ScanSessions

MCTargets == Keys \cup {None}
MCGenerator == <<1, 2>>

\* Doubling and adding bits is adding the generator again and again.
ASSUME MultiplesAreMultiples ==
  LET multiples == GeneratorMultiples(GroupN - 1)
  IN  \A k \in Scalars : multiples[k] = ScalarMultiply(k)

\* The batched walk yields exactly the public keys of the interval, wherever it
\* starts and however it is cut into blocks: next to the generator, where the
\* base is itself in the table, and up to the last scalar.
ASSUME WalkIsExact ==
  LET multiples == GeneratorMultiples(GroupN - 1)
  IN  \A start \in Scalars, batch \in 1 .. 4 :
        \A count \in {1, 2, 3, 4, 5, 7, GroupN - start} :
          start + count <= GroupN =>
            SequentialPoints(start, count, batch)
              = [i \in 1 .. count |-> multiples[start + i - 1]]

\* An entry without an inverse leaves the others alone, wherever it stands.
ASSUME BatchInverseIsInverse ==
  \A values \in [1 .. 3 -> {0, 1, 2, FieldP - 1}] :
    BatchInverse(values)
      = [i \in 1 .. 3 |-> IF values[i] = 0 THEN 0 ELSE FieldInverse(values[i])]

=============================================================================
