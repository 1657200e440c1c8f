----------------------------- MODULE PointWalk ------------------------------
(***************************************************************************)
(* The public keys of consecutive private keys, as crypto.py computes      *)
(* them: the addition of affine points, the multiplication by a scalar,    *)
(* the inversion of many field elements at the price of one, and the walk  *)
(* that scanner.py scans an interval with.  The curve y^2 = x^3 + b is a   *)
(* parameter (b occurs in no formula), so that TLC can take a small one.   *)
(***************************************************************************)
EXTENDS Integers, Sequences

CONSTANTS
  FieldP,       \* FIELD_P, the size of the field
  GroupN,       \* GROUP_N, the order of the generator
  Generator     \* <<GENERATOR_X, GENERATOR_Y>>

\* Both are primes; of the order only that it is odd is needed.
ASSUME CurveAssumption ==
  /\ FieldP \in Nat /\ FieldP > 3 /\ \A d \in 2 .. FieldP - 1 : FieldP % d # 0
  /\ GroupN \in Nat /\ GroupN > 3 /\ GroupN % 2 = 1
  /\ Generator \in (0 .. FieldP - 1) \X (0 .. FieldP - 1)

\* Python's None.
Infinity == <<>>

Scalars == 1 .. GroupN - 1

\* pow(value, -1, FIELD_P)
FieldInverse(value) == CHOOSE w \in 1 .. FieldP - 1 : (value * w) % FieldP = 1

\* The third point of the line with this slope through two points, mirrored.
Third(left, right, slope) ==
  LET x == (slope * slope - left[1] - right[1]) % FieldP
  IN  <<x, (slope * (left[1] - x) - left[2]) % FieldP>>

Opposite(left, right) ==
  left[1] = right[1] /\ (left[2] + right[2]) % FieldP = 0

Slope(left, right) ==
  IF left = right
  THEN (3 * left[1] * left[1] * FieldInverse((2 * left[2]) % FieldP)) % FieldP
  ELSE ((right[2] - left[2]) * FieldInverse((right[1] - left[1]) % FieldP)) % FieldP

PointAdd(left, right) ==
  CASE left = Infinity -> right
    [] left # Infinity /\ right = Infinity -> left
    [] left # Infinity /\ right # Infinity ->
         IF Opposite(left, right) THEN Infinity
         ELSE Third(left, right, Slope(left, right))

\* scalar_multiply: doubled is 2^i times the generator after i rounds, sum what
\* the lowest i bits of the scalar add up to, rest the bits that are left.
ScalarMultiply(scalar) ==
  LET round[i \in 0 .. scalar] ==
        IF i = 0 THEN [doubled |-> Generator, sum |-> Infinity, rest |-> scalar]
        ELSE LET last == round[i - 1]
             IN  [doubled |-> PointAdd(last.doubled, last.doubled),
                  sum |-> IF last.rest % 2 = 1
                          THEN PointAdd(last.sum, last.doubled) ELSE last.sum,
                  rest |-> last.rest \div 2]
      done == CHOOSE i \in 0 .. scalar : round[i].rest = 0
  IN  round[done].sum

\* batch_inverse: running products forwards, one inversion, and the inverses
\* backwards; an entry that is zero takes no part and stays zero.
BatchInverse(values) ==
  LET n == Len(values)
      Factor(i) == IF values[i] = 0 THEN 1 ELSE values[i]
      prefix[i \in 0 .. n] ==
        IF i = 0 THEN 1 ELSE (prefix[i - 1] * Factor(i)) % FieldP
      inverse[i \in 0 .. n] ==
        IF i = 0 THEN FieldInverse(prefix[n])
        ELSE (inverse[i - 1] * Factor(n + 1 - i)) % FieldP
  IN  [i \in 1 .. n |-> IF values[i] = 0 THEN 0
                        ELSE (prefix[i - 1] * inverse[n - i]) % FieldP]

\* generator_multiples
GeneratorMultiples(count) ==
  LET multiple[i \in 1 .. count] ==
        IF i = 1 THEN Generator ELSE PointAdd(multiple[i - 1], Generator)
  IN  [i \in 1 .. count |-> multiple[i]]

\* What is taken from the curve itself: the multiples of the generator are
\* different points of the plane, and the addition adds their scalars.
ASSUME GroupAssumption ==
  LET multiples == GeneratorMultiples(GroupN - 1)
  IN  /\ multiples[1] = Generator
      /\ \A j \in Scalars :
           multiples[j] \in (0 .. FieldP - 1) \X (0 .. FieldP - 1)
      /\ \A j, k \in Scalars :
           /\ multiples[j] = multiples[k] => j = k
           /\ PointAdd(multiples[j], multiples[k])
                = IF j + k = GroupN THEN Infinity ELSE multiples[(j + k) % GroupN]

\* The points a block adds to its base: a difference without an inverse is
\* the same x, and goes through the general addition.
Following(base, table, steps) ==
  LET inverses == BatchInverse([i \in 1 .. steps |-> (table[i][1] - base[1]) % FieldP])
  IN  [i \in 1 .. steps |->
         IF inverses[i] = 0 THEN PointAdd(base, table[i])
         ELSE Third(base, table[i], ((table[i][2] - base[2]) * inverses[i]) % FieldP)]

\* One step more than the block has points leads to the base of the next one.
Steps(block, remaining) == block - 1 + (IF remaining > block THEN 1 ELSE 0)

\* iter_sequential_points: the points from start on, block by block.
SequentialPoints(start, count, batch) ==
  LET width == IF batch < count THEN batch ELSE count
      table == GeneratorMultiples(width)
      after[blocks \in 0 .. count] ==
        IF blocks = 0 THEN [yielded |-> <<>>, base |-> ScalarMultiply(start)]
        ELSE LET last == after[blocks - 1]
                 remaining == count - Len(last.yielded)
                 block == IF width < remaining THEN width ELSE remaining
                 steps == Steps(block, remaining)
                 points == <<last.base>> \o Following(last.base, table, steps)
             IN  IF remaining = 0 THEN last
                 ELSE [yielded |-> last.yielded \o SubSeq(points, 1, block),
                       base |-> points[Len(points)]]
  IN  after[count].yielded

=============================================================================
