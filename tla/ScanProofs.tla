----------------------------- MODULE ScanProofs -----------------------------
(***************************************************************************)
(* Theorems about the reference scanner: the walk over consecutive public  *)
(* keys yields exactly the keys of its interval, the plan cuts the         *)
(* interval into disjoint chunks, shares and parts, and with both the      *)
(* checkpoint of a session is honest and no key is scanned twice.          *)
(***************************************************************************)
EXTENDS ScanSessions, OrdersProofs, SequenceTheorems

-----------------------------------------------------------------------------
(***************************************************************************)
(* Arithmetic modulo a number                                              *)
(***************************************************************************)

LEMMA ModAddMultiple ==
  ASSUME NEW a \in Int, NEW k \in Int, NEW n \in Nat \ {0}
  PROVE  (a + n * k) % n = a % n
<1>1. PICK q \in Int, r \in 0 .. n - 1 : q = a \div n /\ r = a % n /\ a = n * q + r
  BY Division
<1>2. a + n * k = n * (q + k) + r /\ q + k \in Int /\ a + n * k \in Int
  <2>1. n * (q + k) = n * q + n * k
    OBVIOUS
  <2>2. QED
    BY <1>1, <2>1
<1>3. (a + n * k) % n = r
  BY <1>2, DivisionUnique
<1>4. QED
  BY <1>1, <1>3

LEMMA ModTimes ==
  ASSUME NEW a \in Int, NEW b \in Int, NEW n \in Nat \ {0}
  PROVE  ((a % n) * b) % n = (a * b) % n
<1>1. PICK q \in Int, r \in 0 .. n - 1 : q = a \div n /\ r = a % n /\ a = n * q + r
  BY Division
<1>2. a * b = r * b + n * (q * b) /\ r * b \in Int /\ q * b \in Int
  <2>1. (n * q + r) * b = (n * q) * b + r * b
    OBVIOUS
  <2>2. (n * q) * b = n * (q * b)
    OBVIOUS
  <2>3. QED
    BY <1>1, <2>1, <2>2
<1>3. (r * b + n * (q * b)) % n = (r * b) % n
  BY <1>2, ModAddMultiple
<1>4. QED
  BY <1>1, <1>2, <1>3

LEMMA ModSmall ==
  ASSUME NEW n \in Nat \ {0}, NEW a \in 0 .. n - 1
  PROVE  a % n = a
<1>1. a = n * 0 + a
  OBVIOUS
<1>2. QED
  BY <1>1, DivisionUnique

-----------------------------------------------------------------------------
(***************************************************************************)
(* The field                                                               *)
(***************************************************************************)
Residues == 0 .. FieldP - 1
Units == 1 .. FieldP - 1

LEMMA UnitsCoprime ==
  ASSUME NEW value \in Units
  PROVE  Coprime(value, FieldP)
<1>1. SUFFICES ASSUME NEW d \in 2 .. FieldP, value % d = 0, FieldP % d = 0
               PROVE  FALSE
  BY DEF Coprime
<1>2. d = FieldP
  BY <1>1, CurveAssumption
<1>3. value % FieldP = value /\ value # 0
  BY ModSmall, CurveAssumption DEF Units
<1>4. QED
  BY <1>1, <1>2, <1>3

\* pow(value, -1, FIELD_P) exists for every value but 0, and is the only one.
LEMMA InverseExists ==
  ASSUME NEW value \in Units
  PROVE  FieldInverse(value) \in Units /\ (value * FieldInverse(value)) % FieldP = 1
<1>. DEFINE f == [r \in 0 .. FieldP - 1 |-> AffineChunk(FieldP, value, 0, r)]
<1>1. FieldP \in Nat \ {0} /\ value \in Nat \ {0} /\ 1 \in 0 .. FieldP - 1
  BY CurveAssumption DEF Units
<1>2. f \in Bijection(0 .. FieldP - 1, 0 .. FieldP - 1)
  <2>1. Coprime(value, FieldP) /\ 0 \in Int
    BY UnitsCoprime
  <2>2. QED
    BY <1>1, <2>1, AffineOrder
<1>3. PICK w \in 0 .. FieldP - 1 : f[w] = 1
  BY <1>1, <1>2 DEF Bijection, Surjection
<1>4. (value * w) % FieldP = 1
  BY <1>1, <1>3 DEF AffineChunk
<1>5. w # 0
  <2>1. value * 0 = 0 /\ 0 % FieldP = 0
    BY <1>1, ModSmall, CurveAssumption
  <2>2. QED
    BY <1>4, <2>1
<1>6. w \in Units
  BY <1>5, CurveAssumption DEF Units
<1>7. \E v \in 1 .. FieldP - 1 : (value * v) % FieldP = 1
  BY <1>4, <1>6 DEF Units
<1>8. QED
  BY <1>7 DEF FieldInverse, Units

LEMMA InverseUnique ==
  ASSUME NEW value \in Units, NEW w \in Residues, (value * w) % FieldP = 1
  PROVE  w = FieldInverse(value)
<1>. DEFINE u == FieldInverse(value)
<1>1. u \in Units /\ (value * u) % FieldP = 1
  BY InverseExists
<1>. HIDE DEF u
<1>2. /\ FieldP \in Nat \ {0} /\ value \in Int /\ w \in Int /\ u \in Int
      /\ value * w \in Int /\ value * u \in Int /\ u \in Residues
  BY <1>1, CurveAssumption DEF Units, Residues
<1>3. ((value * w) * u) % FieldP = u
  <2>1. (((value * w) % FieldP) * u) % FieldP = ((value * w) * u) % FieldP
    BY <1>2, ModTimes
  <2>2. (1 * u) % FieldP = u
    BY <1>2, ModSmall DEF Residues
  <2>3. QED
    BY <2>1, <2>2
<1>4. ((value * u) * w) % FieldP = w
  <2>1. (((value * u) % FieldP) * w) % FieldP = ((value * u) * w) % FieldP
    BY <1>2, ModTimes
  <2>2. (1 * w) % FieldP = w
    BY <1>2, ModSmall DEF Residues
  <2>3. QED
    BY <1>1, <2>1, <2>2
<1>5. (value * w) * u = (value * u) * w
  BY <1>2
<1>6. QED
  BY <1>3, <1>4, <1>5 DEF u

LEMMA UnitTimes ==
  ASSUME NEW a \in Units, NEW b \in Units
  PROVE  (a * b) % FieldP \in Units
<1>1. PICK w \in Units : (b * w) % FieldP = 1
  BY InverseExists
<1>2. /\ FieldP \in Nat \ {0} /\ a \in Int /\ b \in Int /\ w \in Int
      /\ a * b \in Int /\ b * w \in Int
      /\ a % FieldP = a /\ a # 0
  BY ModSmall, CurveAssumption DEF Units
<1>3. (a * b) % FieldP \in 0 .. FieldP - 1
  BY <1>2, Division
<1>4. (a * b) % FieldP # 0
  <2>1. SUFFICES ASSUME (a * b) % FieldP = 0 PROVE FALSE
    OBVIOUS
  <2>2. (((a * b) % FieldP) * w) % FieldP = ((a * b) * w) % FieldP
    BY <1>2, ModTimes
  <2>3. (((b * w) % FieldP) * a) % FieldP = ((b * w) * a) % FieldP
    BY <1>2, ModTimes
  <2>4. (a * b) * w = (b * w) * a
    BY <1>2
  <2>5. (0 * w) % FieldP = 0 /\ (1 * a) % FieldP = a
    <3>1. 0 * w = 0 /\ 1 * a = a /\ 0 % FieldP = 0
      BY <1>2, ModSmall, CurveAssumption
    <3>2. QED
      BY <1>2, <3>1
  <2>6. QED
    BY <1>1, <1>2, <2>1, <2>2, <2>3, <2>4, <2>5
<1>5. QED
  BY <1>2, <1>3, <1>4 DEF Units

\* batch_inverse gives every entry its own inverse, and zero to a zero, with one
\* inversion for all of them.
THEOREM BatchInverseExact ==
  ASSUME NEW n \in Nat, NEW values \in [1 .. n -> Residues]
  PROVE  BatchInverse(values)
           = [i \in 1 .. n |-> IF values[i] = 0 THEN 0 ELSE FieldInverse(values[i])]
<1>. DEFINE Factor(i) == IF values[i] = 0 THEN 1 ELSE values[i]
            IsPrefix(g) == g = [i \in 0 .. n |->
               IF i = 0 THEN 1 ELSE (g[i - 1] * Factor(i)) % FieldP]
            prefix == CHOOSE g : IsPrefix(g)
            IsInverse(g) == g = [i \in 0 .. n |->
               IF i = 0 THEN FieldInverse(prefix[n])
               ELSE (g[i - 1] * Factor(n + 1 - i)) % FieldP]
            inverse == CHOOSE g : IsInverse(g)
<1>0. FieldP \in Nat \ {0} /\ 1 \in Units /\ Units \subseteq Residues /\ Units \subseteq Nat
  BY CurveAssumption DEF Units, Residues
<1>1. \A i \in 1 .. n : Factor(i) \in Units
  BY <1>0 DEF Units, Residues
<1>2. BatchInverse(values)
        = [i \in 1 .. n |-> IF values[i] = 0 THEN 0
                            ELSE (prefix[i - 1] * inverse[n - i]) % FieldP]
  <2>1. Len(values) = n
    OBVIOUS
  <2>2. QED
    BY <2>1 DEF BatchInverse
<1>3. IsPrefix(prefix) /\ \A i \in 0 .. n : prefix[i] \in Units
  <2>. DEFINE step == [x \in (1 .. n) \X Units |-> (x[2] * Factor(x[1])) % FieldP]
  <2>1. IsStep(step, n, Units)
    <3>1. SUFFICES ASSUME NEW x \in (1 .. n) \X Units
                   PROVE  (x[2] * Factor(x[1])) % FieldP \in Units
      BY DEF IsStep
    <3>2. x[1] \in 1 .. n /\ x[2] \in Units
      OBVIOUS
    <3>3. Factor(x[1]) \in Units
      BY <1>1, <3>2
    <3>. HIDE DEF Factor
    <3>4. QED
      BY <3>2, <3>3, UnitTimes
  <2>2. PICK f : Follows(f, n, Units, 1, step)
    <3>. HIDE DEF step
    <3>1. QED
      BY <1>0, <2>1, Recursion
  <2>3. \A i \in 1 .. n : f[i] = (f[i - 1] * Factor(i)) % FieldP
    <3>1. SUFFICES ASSUME NEW i \in 1 .. n
                   PROVE  f[i] = (f[i - 1] * Factor(i)) % FieldP
      OBVIOUS
    <3>2. i - 1 \in 0 .. n /\ <<i, f[i - 1]>> \in (1 .. n) \X Units
      BY <2>2 DEF Follows
    <3>3. step[<<i, f[i - 1]>>] = (f[i - 1] * Factor(i)) % FieldP
      <4>. HIDE DEF Factor
      <4>1. QED
        BY <3>2
    <3>. HIDE DEF step, Factor
    <3>4. QED
      BY <2>2, <3>3 DEF Follows
  <2>4. IsPrefix(f)
    <3>1. f = [i \in 0 .. n |-> f[i]] /\ f[0] = 1
      BY <2>2 DEF Follows
    <3>2. \A i \in 0 .. n : i # 0 => i \in 1 .. n
      OBVIOUS
    <3>. HIDE DEF Factor, step
    <3>3. \A i \in 0 .. n : f[i] = IF i = 0 THEN 1 ELSE (f[i - 1] * Factor(i)) % FieldP
      BY <2>3, <3>1, <3>2
    <3>4. QED
      BY <3>1, <3>3
  <2>5. IsPrefix(prefix)
    <3>. HIDE DEF IsPrefix
    <3>1. QED
      BY <2>4
  <2>. DEFINE S == {i \in 0 .. n : prefix[i] \in Units}
  <2>. HIDE DEF prefix, Factor, step
  <2>6. 0 \in S
    BY <1>0, <2>5
  <2>7. ASSUME NEW i \in 0 .. n - 1, i \in S PROVE i + 1 \in S
    <3>1. i + 1 \in 1 .. n /\ (i + 1) - 1 = i /\ i + 1 \in 0 .. n /\ i + 1 # 0
      OBVIOUS
    <3>2. prefix[i + 1] = (prefix[i] * Factor(i + 1)) % FieldP
      BY <2>5, <3>1
    <3>3. prefix[i] \in Units /\ Factor(i + 1) \in Units
      BY <1>1, <2>7, <3>1
    <3>4. QED
      BY <3>1, <3>2, <3>3, UnitTimes
  <2>8. \A i \in 0 .. n : i \in S
    <3>. HIDE DEF S
    <3>1. QED
      BY <2>6, <2>7, Climb
  <2>9. QED
    BY <2>5, <2>8
<1>4. FieldInverse(prefix[n]) \in Units /\ (prefix[n] * FieldInverse(prefix[n])) % FieldP = 1
  <2>. HIDE DEF prefix
  <2>1. prefix[n] \in Units
    BY <1>3
  <2>2. QED
    BY <2>1, InverseExists
<1>5. IsInverse(inverse) /\ \A i \in 0 .. n : inverse[i] \in Units
  <2>. HIDE DEF prefix, IsPrefix
  <2>. DEFINE step == [x \in (1 .. n) \X Units |-> (x[2] * Factor(n + 1 - x[1])) % FieldP]
              start == FieldInverse(prefix[n])
  <2>1. IsStep(step, n, Units)
    <3>1. SUFFICES ASSUME NEW x \in (1 .. n) \X Units
                   PROVE  (x[2] * Factor(n + 1 - x[1])) % FieldP \in Units
      BY DEF IsStep
    <3>2. n + 1 - x[1] \in 1 .. n /\ x[2] \in Units
      OBVIOUS
    <3>3. Factor(n + 1 - x[1]) \in Units
      BY <1>1, <3>2
    <3>. HIDE DEF Factor
    <3>4. QED
      BY <3>2, <3>3, UnitTimes
  <2>2. PICK f : Follows(f, n, Units, start, step)
    <3>1. start \in Units
      BY <1>4
    <3>. HIDE DEF step, start
    <3>2. QED
      BY <2>1, <3>1, Recursion
  <2>3. \A i \in 1 .. n : f[i] = (f[i - 1] * Factor(n + 1 - i)) % FieldP
    <3>1. SUFFICES ASSUME NEW i \in 1 .. n
                   PROVE  f[i] = (f[i - 1] * Factor(n + 1 - i)) % FieldP
      OBVIOUS
    <3>2. i - 1 \in 0 .. n /\ <<i, f[i - 1]>> \in (1 .. n) \X Units
      BY <2>2 DEF Follows
    <3>3. step[<<i, f[i - 1]>>] = (f[i - 1] * Factor(n + 1 - i)) % FieldP
      <4>. HIDE DEF Factor
      <4>1. QED
        BY <3>2
    <3>. HIDE DEF step, Factor
    <3>4. QED
      BY <2>2, <3>3 DEF Follows
  <2>4. IsInverse(f)
    <3>1. f = [i \in 0 .. n |-> f[i]] /\ f[0] = start
      BY <2>2 DEF Follows
    <3>2. \A i \in 0 .. n : i # 0 => i \in 1 .. n
      OBVIOUS
    <3>. HIDE DEF Factor, step
    <3>3. \A i \in 0 .. n : f[i] = IF i = 0 THEN FieldInverse(prefix[n]) ELSE (f[i - 1] * Factor(n + 1 - i)) % FieldP
      BY <2>3, <3>1, <3>2
    <3>4. QED
      BY <3>1, <3>3
  <2>5. IsInverse(inverse)
    <3>. HIDE DEF IsInverse
    <3>1. QED
      BY <2>4
  <2>. DEFINE S == {i \in 0 .. n : inverse[i] \in Units}
  <2>. HIDE DEF inverse, Factor, step
  <2>6. 0 \in S
    BY <1>4, <2>5
  <2>7. ASSUME NEW i \in 0 .. n - 1, i \in S PROVE i + 1 \in S
    <3>1. /\ i + 1 \in 1 .. n /\ (i + 1) - 1 = i /\ i + 1 \in 0 .. n /\ i + 1 # 0
          /\ n + 1 - (i + 1) \in 1 .. n
      OBVIOUS
    <3>2. inverse[i + 1] = (inverse[i] * Factor(n + 1 - (i + 1))) % FieldP
      BY <2>5, <3>1
    <3>3. inverse[i] \in Units /\ Factor(n + 1 - (i + 1)) \in Units
      BY <1>1, <2>7, <3>1
    <3>4. QED
      BY <3>1, <3>2, <3>3, UnitTimes
  <2>8. \A i \in 0 .. n : i \in S
    <3>. HIDE DEF S
    <3>1. QED
      BY <2>6, <2>7, Climb
  <2>9. QED
    BY <2>5, <2>8
<1>. HIDE DEF prefix, inverse
<1>6. \A i \in 0 .. n : (prefix[n - i] * inverse[i]) % FieldP = 1
  <2>. DEFINE S == {i \in 0 .. n : (prefix[n - i] * inverse[i]) % FieldP = 1}
  <2>1. 0 \in S
    <3>1. inverse[0] = FieldInverse(prefix[n]) /\ n - 0 = n
      BY <1>5
    <3>2. QED
      BY <1>4, <3>1
  <2>2. ASSUME NEW i \in 0 .. n - 1, i \in S PROVE i + 1 \in S
    <3>. DEFINE a == prefix[n - (i + 1)]
                v == Factor(n - i)
                w == inverse[i]
    <3>1. /\ n - i \in 1 .. n /\ n + 1 - (i + 1) = n - i /\ n - (i + 1) \in 0 .. n
          /\ (n - i) - 1 = n - (i + 1) /\ i + 1 \in 0 .. n /\ i + 1 # 0
          /\ (i + 1) - 1 = i /\ n - i \in 0 .. n /\ n - i # 0 /\ i \in 0 .. n
      OBVIOUS
    <3>2. a \in Int /\ v \in Int /\ w \in Int /\ prefix[n - i] \in Int
      <4>1. v \in Units
        BY <1>1, <3>1
      <4>2. a \in Units /\ w \in Units /\ prefix[n - i] \in Units
        BY <1>3, <1>5, <3>1
      <4>3. a \in Nat /\ v \in Nat /\ w \in Nat /\ prefix[n - i] \in Nat
        <5>. HIDE DEF a, v, w
        <5>1. QED
          BY <1>0, <4>1, <4>2
      <4>. HIDE DEF a, v, w
      <4>4. QED
        BY <4>3
    <3>3. prefix[n - i] = (a * v) % FieldP
      <4>. HIDE DEF Factor
      <4>1. prefix[n - i] = (prefix[(n - i) - 1] * Factor(n - i)) % FieldP
        BY <1>3, <3>1
      <4>2. QED
        BY <3>1, <4>1
    <3>4. inverse[i + 1] = (w * v) % FieldP
      <4>. HIDE DEF Factor
      <4>1. QED
        BY <1>5, <3>1
    <3>5. (prefix[n - i] * w) % FieldP = 1
      BY <2>2
    <3>. HIDE DEF a, v, w
    <3>6. a * v \in Int /\ w * v \in Int
      BY <3>2
    <3>7. (((a * v) % FieldP) * w) % FieldP = ((a * v) * w) % FieldP
      BY <1>0, <3>2, <3>6, ModTimes
    <3>8. (((w * v) % FieldP) * a) % FieldP = ((w * v) * a) % FieldP
      BY <1>0, <3>2, <3>6, ModTimes
    <3>9. (a * v) * w = (w * v) * a
      BY <3>2
    <3>10. (w * v) % FieldP \in Int
      BY <1>0, <3>6
    <3>11. a * ((w * v) % FieldP) = ((w * v) % FieldP) * a
      BY <3>2, <3>10
    <3>12. (a * inverse[i + 1]) % FieldP = 1
      BY <3>3, <3>4, <3>5, <3>7, <3>8, <3>9, <3>11
    <3>13. QED
      BY <3>1, <3>12 DEF a
  <2>3. \A i \in 0 .. n : i \in S
    <3>. HIDE DEF S
    <3>1. QED
      BY <2>1, <2>2, Climb
  <2>4. QED
    BY <2>3
<1>7. ASSUME NEW i \in 1 .. n, values[i] # 0
      PROVE  (prefix[i - 1] * inverse[n - i]) % FieldP = FieldInverse(values[i])
  <2>. DEFINE a == prefix[i - 1]
              w == inverse[n - i]
              v == values[i]
              r == (a * w) % FieldP
  <2>1. /\ i - 1 \in 0 .. n /\ n - i \in 0 .. n /\ n - (n - i) = i /\ i \in 0 .. n
        /\ i # 0
    OBVIOUS
  <2>2. v \in Units /\ v = Factor(i)
    BY <1>1, <1>7
  <2>3. a \in Int /\ w \in Int /\ v \in Int /\ a * w \in Int /\ a * v \in Int
    <3>1. a \in Nat /\ w \in Nat /\ v \in Nat
      BY <1>0, <1>3, <1>5, <2>1, <2>2
    <3>. HIDE DEF a, w, v
    <3>2. QED
      BY <3>1
  <2>4. prefix[i] = (a * v) % FieldP
    <3>1. prefix[i] = (prefix[i - 1] * Factor(i)) % FieldP
      <4>. HIDE DEF Factor
      <4>1. QED
        BY <1>3, <2>1
    <3>2. QED
      BY <2>2, <3>1
  <2>5. (prefix[i] * w) % FieldP = 1
    BY <1>6, <2>1
  <2>. HIDE DEF a, v, w
  <2>6. (((a * v) % FieldP) * w) % FieldP = ((a * v) * w) % FieldP
    BY <1>0, <2>3, ModTimes
  <2>7. (((a * w) % FieldP) * v) % FieldP = ((a * w) * v) % FieldP
    BY <1>0, <2>3, ModTimes
  <2>8. (a * v) * w = (a * w) * v
    BY <2>3
  <2>9. r \in 0 .. FieldP - 1
    BY <1>0, <2>3, Division
  <2>. HIDE DEF r
  <2>10. v * r = r * v
    BY <2>3, <2>9
  <2>11. (v * r) % FieldP = 1
    BY <2>4, <2>5, <2>6, <2>7, <2>8, <2>10 DEF r
  <2>12. r = FieldInverse(v)
    BY <2>2, <2>9, <2>11, InverseUnique DEF Residues
  <2>13. QED
    BY <2>12 DEF r, a, v, w
<1>8. QED
  BY <1>2, <1>7

-----------------------------------------------------------------------------
(***************************************************************************)
(* The group                                                               *)
(***************************************************************************)
Plane == (0 .. FieldP - 1) \X (0 .. FieldP - 1)
Multiples == GeneratorMultiples(GroupN - 1)

\* j times the generator; 0 times it is the point at infinity.
Multiple(j) == IF j = 0 THEN Infinity ELSE Multiples[j]
Group == {Multiple(j) : j \in 0 .. GroupN - 1}

LEMMA MultipleFacts ==
  /\ Multiple(1) = Generator
  /\ \A j \in Scalars : Multiple(j) = Multiples[j] /\ Multiple(j) \in Plane
                          /\ Multiple(j) # Infinity
  /\ \A j, k \in Scalars : Multiple(j) = Multiple(k) => j = k
<1>1. 1 \in Scalars /\ \A j \in Scalars : j # 0
  BY CurveAssumption DEF Scalars
<1>2. \A j \in Scalars : Multiple(j) = Multiples[j]
  BY <1>1 DEF Multiple
<1>3. \A j \in Scalars : Multiples[j] \in Plane
  BY GroupAssumption DEF Multiples, Plane
<1>4. \A p \in Plane : p # Infinity
  BY DEF Plane, Infinity
<1>5. Multiples[1] = Generator /\ \A j, k \in Scalars : Multiples[j] = Multiples[k] => j = k
  BY GroupAssumption DEF Multiples
<1>6. QED
  BY <1>1, <1>2, <1>3, <1>4, <1>5

\* point_add adds multiples, the point at infinity included.
LEMMA AddMultiple ==
  ASSUME NEW j \in 0 .. GroupN - 1, NEW k \in 0 .. GroupN - 1
  PROVE  /\ (j + k) % GroupN \in 0 .. GroupN - 1
         /\ PointAdd(Multiple(j), Multiple(k)) = Multiple((j + k) % GroupN)
<1>1. /\ GroupN \in Nat \ {0} /\ j + k \in Int
      /\ j % GroupN = j /\ k % GroupN = k
  BY ModSmall, CurveAssumption
<1>2. (j + k) % GroupN \in 0 .. GroupN - 1
  BY <1>1, Division
<1>3. CASE j = 0
  <2>1. Multiple(j) = Infinity /\ j + k = k
    BY <1>3 DEF Multiple
  <2>2. PointAdd(Multiple(j), Multiple(k)) = Multiple(k)
    BY <2>1 DEF PointAdd
  <2>3. QED
    BY <1>1, <1>2, <2>1, <2>2
<1>4. CASE j # 0 /\ k = 0
  <2>1. j \in Scalars /\ Multiple(k) = Infinity /\ j + k = j
    BY <1>4 DEF Multiple, Scalars
  <2>2. Multiple(j) # Infinity
    BY <2>1, MultipleFacts
  <2>3. PointAdd(Multiple(j), Multiple(k)) = Multiple(j)
    BY <2>1, <2>2 DEF PointAdd
  <2>4. QED
    BY <1>1, <1>2, <2>1, <2>3
<1>5. CASE j # 0 /\ k # 0
  <2>1. j \in Scalars /\ k \in Scalars
    BY <1>5 DEF Scalars
  <2>2. PointAdd(Multiples[j], Multiples[k])
          = IF j + k = GroupN THEN Infinity ELSE Multiples[(j + k) % GroupN]
    BY <2>1, GroupAssumption DEF Multiples
  <2>3. (j + k) % GroupN = 0 <=> j + k = GroupN
    <3>1. CASE j + k < GroupN
      <4>1. (j + k) % GroupN = j + k
        BY <1>1, <3>1, ModSmall
      <4>2. QED
        BY <1>5, <3>1, <4>1
    <3>2. CASE j + k >= GroupN
      <4>1. j + k = GroupN * 1 + (j + k - GroupN) /\ j + k - GroupN \in 0 .. GroupN - 1
        BY <1>1, <3>2
      <4>2. (j + k) % GroupN = j + k - GroupN
        BY <1>1, <4>1, DivisionUnique
      <4>3. QED
        BY <1>1, <4>2
    <3>3. QED
      BY <1>1, <3>1, <3>2
  <2>4. QED
    BY <1>2, <2>1, <2>2, <2>3, MultipleFacts DEF Multiple
<1>6. QED
  BY <1>3, <1>4, <1>5

\* The table of the first multiples.
LEMMA TableExact ==
  ASSUME NEW count \in Scalars
  PROVE  GeneratorMultiples(count) = [i \in 1 .. count |-> Multiple(i)]
<1>. DEFINE Is(g) == g = [i \in 1 .. count |->
                IF i = 1 THEN Generator ELSE PointAdd(g[i - 1], Generator)]
            multiple == CHOOSE g : Is(g)
            table == [i \in 1 .. count |-> Multiple(i)]
<1>1. GeneratorMultiples(count) = [i \in 1 .. count |-> multiple[i]]
  BY DEF GeneratorMultiples
<1>2. count \in Nat /\ 1 <= count /\ count < GroupN /\ GroupN \in Nat \ {0}
  BY CurveAssumption DEF Scalars
<1>3. \A i \in 2 .. count : PointAdd(Multiple(i - 1), Generator) = Multiple(i)
  <2>1. SUFFICES ASSUME NEW i \in 2 .. count
                 PROVE  PointAdd(Multiple(i - 1), Generator) = Multiple(i)
    OBVIOUS
  <2>2. i - 1 \in 0 .. GroupN - 1 /\ 1 \in 0 .. GroupN - 1 /\ (i - 1) + 1 = i
    BY <1>2
  <2>3. PointAdd(Multiple(i - 1), Multiple(1)) = Multiple(((i - 1) + 1) % GroupN)
    BY <2>2, AddMultiple
  <2>4. i % GroupN = i
    BY <1>2, ModSmall
  <2>5. QED
    BY <2>2, <2>3, <2>4, MultipleFacts
<1>4. Is(table)
  <2>1. ASSUME NEW i \in 1 .. count
        PROVE  table[i] = IF i = 1 THEN Generator ELSE PointAdd(table[i - 1], Generator)
    <3>1. CASE i = 1
      BY <3>1, MultipleFacts
    <3>2. CASE i # 1
      <4>1. i \in 2 .. count /\ i - 1 \in 1 .. count
        BY <1>2, <3>2
      <4>2. table[i] = Multiple(i) /\ table[i - 1] = Multiple(i - 1)
        BY <4>1
      <4>. HIDE DEF table
      <4>3. QED
        BY <1>3, <3>2, <4>1, <4>2
    <3>3. QED
      BY <3>1, <3>2
  <2>2. table = [i \in 1 .. count |-> table[i]]
    OBVIOUS
  <2>. HIDE DEF table
  <2>3. QED
    BY <2>1, <2>2
<1>5. Is(multiple)
  <2>. HIDE DEF Is
  <2>1. QED
    BY <1>4
<1>6. \A i \in 1 .. count : multiple[i] = Multiple(i)
  <2>. DEFINE S == {i \in 0 .. count : i = 0 \/ multiple[i] = Multiple(i)}
  <2>. HIDE DEF multiple
  <2>1. 0 \in S
    BY <1>2
  <2>2. ASSUME NEW i \in 0 .. count - 1, i \in S PROVE i + 1 \in S
    <3>1. i + 1 \in 1 .. count /\ i + 1 \in 0 .. count /\ (i + 1) - 1 = i
      BY <1>2
    <3>2. multiple[i + 1] = IF i + 1 = 1 THEN Generator ELSE PointAdd(multiple[i], Generator)
      BY <1>5, <3>1
    <3>3. multiple[i + 1] = Multiple(i + 1)
      <4>1. CASE i = 0
        BY <3>2, <4>1, MultipleFacts
      <4>2. CASE i # 0
        <5>1. multiple[i] = Multiple(i) /\ i + 1 \in 2 .. count /\ i + 1 # 1
          BY <2>2, <3>1, <4>2
        <5>2. QED
          BY <1>3, <3>1, <3>2, <5>1
      <4>3. QED
        BY <4>1, <4>2
    <3>4. QED
      BY <3>1, <3>3
  <2>3. \A i \in 0 .. count : i \in S
    <3>. HIDE DEF S
    <3>1. QED
      BY <1>2, <2>1, <2>2, Climb
  <2>4. QED
    BY <2>3
<1>7. QED
  <2>. HIDE DEF multiple, table
  <2>1. QED
    BY <1>1, <1>6

\* scalar_multiply computes the multiple of its scalar.
THEOREM ScalarMultiplyExact ==
  ASSUME NEW scalar \in Scalars
  PROVE  ScalarMultiply(scalar) = Multiple(scalar)
<1>. DEFINE State == [doubled : Group, sum : Group, rest : Nat]
            Next1(last) ==
              [doubled |-> PointAdd(last.doubled, last.doubled),
               sum |-> IF last.rest % 2 = 1
                       THEN PointAdd(last.sum, last.doubled) ELSE last.sum,
               rest |-> last.rest \div 2]
            start == [doubled |-> Generator, sum |-> Infinity, rest |-> scalar]
            Is(g) == g = [i \in 0 .. scalar |-> IF i = 0 THEN start ELSE Next1(g[i - 1])]
            round == CHOOSE g : Is(g)
            done == CHOOSE i \in 0 .. scalar : round[i].rest = 0
<1>0. /\ scalar \in Nat /\ 1 <= scalar /\ scalar < GroupN
      /\ GroupN \in Nat \ {0} /\ GroupN > 3 /\ GroupN % 2 = 1
  BY CurveAssumption DEF Scalars
<1>1. ScalarMultiply(scalar) = round[done].sum
  BY DEF ScalarMultiply
<1>2. \A x, y \in Group : PointAdd(x, y) \in Group
  <2>1. SUFFICES ASSUME NEW j \in 0 .. GroupN - 1, NEW k \in 0 .. GroupN - 1
                 PROVE  PointAdd(Multiple(j), Multiple(k)) \in Group
    BY DEF Group
  <2>2. QED
    BY AddMultiple DEF Group
<1>3. start \in State
  <2>1. Generator = Multiple(1) /\ Infinity = Multiple(0)
        /\ 1 \in 0 .. GroupN - 1 /\ 0 \in 0 .. GroupN - 1
    BY <1>0, MultipleFacts DEF Multiple
  <2>2. Generator \in Group /\ Infinity \in Group
    BY <2>1 DEF Group
  <2>3. QED
    BY <1>0, <2>2
<1>4. ASSUME NEW x \in State PROVE Next1(x) \in State
  <2>1. x.doubled \in Group /\ x.sum \in Group /\ x.rest \div 2 \in Nat
    OBVIOUS
  <2>2. /\ PointAdd(x.doubled, x.doubled) \in Group
        /\ PointAdd(x.sum, x.doubled) \in Group
    BY <1>2, <2>1
  <2>3. QED
    BY <2>1, <2>2
<1>5. Is(round)
  <2>. DEFINE step == [x \in (1 .. scalar) \X State |-> Next1(x[2])]
  <2>1. IsStep(step, scalar, State)
    <3>1. \A x \in (1 .. scalar) \X State : x[2] \in State
      OBVIOUS
    <3>. HIDE DEF Next1, State
    <3>2. QED
      BY <1>4, <3>1 DEF IsStep
  <2>2. PICK f : Follows(f, scalar, State, start, step)
    <3>. HIDE DEF step, State, start
    <3>1. QED
      BY <1>0, <1>3, <2>1, Recursion
  <2>3. \A i \in 1 .. scalar : f[i] = Next1(f[i - 1])
    <3>1. SUFFICES ASSUME NEW i \in 1 .. scalar PROVE f[i] = Next1(f[i - 1])
      OBVIOUS
    <3>. HIDE DEF Next1, State
    <3>2. i - 1 \in 0 .. scalar /\ f[i - 1] \in State
      BY <1>0, <2>2 DEF Follows
    <3>3. step[<<i, f[i - 1]>>] = Next1(f[i - 1])
      BY <3>2
    <3>. HIDE DEF step
    <3>4. QED
      BY <2>2, <3>3 DEF Follows
  <2>4. Is(f)
    <3>. HIDE DEF Next1, State, step, start
    <3>1. f = [i \in 0 .. scalar |-> f[i]] /\ f[0] = start
      BY <2>2 DEF Follows
    <3>2. \A i \in 0 .. scalar : i # 0 => i \in 1 .. scalar
      OBVIOUS
    <3>3. \A i \in 0 .. scalar : f[i] = IF i = 0 THEN start ELSE Next1(f[i - 1])
      BY <2>3, <3>1, <3>2
    <3>4. QED
      BY <3>1, <3>3
  <2>. HIDE DEF Is
  <2>5. QED
    BY <2>4
\* After i rounds the sum and the doublings of the bits left make up the scalar.
<1>. DEFINE Holds(r, i) ==
              \E d \in Scalars, a \in 0 .. GroupN - 1, q \in Int :
                /\ r.doubled = Multiple(d) /\ r.sum = Multiple(a)
                /\ r.rest \in Nat /\ (r.rest = 0 \/ r.rest <= scalar - i)
                /\ a + r.rest * d = scalar + GroupN * q
<1>6. Holds(start, 0)
  <2>1. /\ 1 \in Scalars /\ 0 \in 0 .. GroupN - 1 /\ 0 \in Int
        /\ Generator = Multiple(1) /\ Infinity = Multiple(0)
        /\ scalar \in Nat /\ scalar <= scalar - 0
        /\ 0 + scalar * 1 = scalar + GroupN * 0
    BY <1>0, MultipleFacts DEF Multiple, Scalars
  <2>2. start.doubled = Generator /\ start.sum = Infinity /\ start.rest = scalar
    OBVIOUS
  <2>. HIDE DEF start
  <2>3. QED
    BY <2>1, <2>2
<1>7. ASSUME NEW r, NEW i \in Nat, Holds(r, i)
      PROVE  Holds(Next1(r), i + 1)
  <2>1. PICK d \in Scalars, a \in 0 .. GroupN - 1, q \in Int :
          /\ r.doubled = Multiple(d) /\ r.sum = Multiple(a)
          /\ r.rest \in Nat /\ (r.rest = 0 \/ r.rest <= scalar - i)
          /\ a + r.rest * d = scalar + GroupN * q
    BY <1>7
  <2>2. PICK rest \in Nat, half \in Nat, b \in 0 .. 1 :
          /\ rest = r.rest /\ half = r.rest \div 2 /\ b = r.rest % 2
          /\ rest = 2 * half + b
    <3>1. r.rest \div 2 \in Nat /\ r.rest % 2 \in 0 .. 1 /\ r.rest \in Nat
          /\ r.rest = 2 * (r.rest \div 2) + (r.rest % 2)
      BY <2>1
    <3>2. QED
      BY <3>1
  <2>3. d \in 0 .. GroupN - 1 /\ d # 0 /\ d \in Nat
    BY <1>0 DEF Scalars
  <2>4. PICK d2 \in Scalars, q1 \in Int :
          d2 = (d + d) % GroupN /\ d + d = GroupN * q1 + d2
    <3>1. PICK e \in 0 .. GroupN - 1, q1 \in Int :
            e = (d + d) % GroupN /\ d + d = GroupN * q1 + e
      <4>1. d + d \in Int
        BY <2>3
      <4>2. /\ (d + d) % GroupN \in 0 .. GroupN - 1 /\ (d + d) \div GroupN \in Int
            /\ d + d = GroupN * ((d + d) \div GroupN) + ((d + d) % GroupN)
        BY <1>0, <4>1, Division
      <4>3. QED
        BY <4>2
    <3>2. e # 0
      <4>1. SUFFICES ASSUME e = 0 PROVE FALSE
        OBVIOUS
      <4>2. d + d = GroupN * q1 /\ 0 < d + d /\ d + d < GroupN + GroupN
        BY <1>0, <2>3, <3>1, <4>1
      <4>3. q1 = 1
        BY <1>0, <2>3, <4>2
      <4>4. GroupN = 2 * d
        BY <1>0, <2>3, <4>2, <4>3
      <4>5. QED
        BY <1>0, <2>3, <4>4
    <3>3. QED
      BY <1>0, <3>1, <3>2 DEF Scalars
  <2>5. Next1(r).doubled = Multiple(d2)
    BY <2>1, <2>3, <2>4, AddMultiple
  <2>6. PICK a2 \in 0 .. GroupN - 1, q2 \in Int :
          Next1(r).sum = Multiple(a2) /\ a + b * d = GroupN * q2 + a2
    <3>1. CASE b = 0
      <4>1. Next1(r).sum = Multiple(a)
        BY <2>1, <2>2, <3>1
      <4>2. a + b * d = GroupN * 0 + a
        BY <1>0, <2>3, <3>1
      <4>. HIDE DEF Next1
      <4>3. QED
        BY <4>1, <4>2
    <3>2. CASE b # 0
      <4>1. b = 1
        BY <2>2, <3>2
      <4>2. Next1(r).sum = PointAdd(Multiple(a), Multiple(d))
        BY <2>1, <2>2, <4>1
      <4>3. PointAdd(Multiple(a), Multiple(d)) = Multiple((a + d) % GroupN)
        BY <2>3, AddMultiple
      <4>4. /\ (a + d) % GroupN \in 0 .. GroupN - 1 /\ (a + d) \div GroupN \in Int
            /\ a + d = GroupN * ((a + d) \div GroupN) + ((a + d) % GroupN)
        <5>1. a + d \in Int
          BY <2>3
        <5>2. QED
          BY <1>0, <5>1, Division
      <4>5. a + b * d = a + d
        BY <2>3, <4>1
      <4>. HIDE DEF Next1
      <4>6. QED
        BY <4>2, <4>3, <4>4, <4>5
    <3>3. QED
      BY <3>1, <3>2
  <2>7. a2 + half * d2 = scalar + GroupN * (q - q2 - half * q1)
    <3>1. /\ a \in Int /\ d \in Int /\ d2 \in Int /\ GroupN \in Int /\ half \in Int
          /\ b \in Int /\ a2 \in Int /\ scalar \in Int
      BY <1>0, <2>3 DEF Scalars
    <3>2. a2 = a + b * d - GroupN * q2 /\ d2 = d + d - GroupN * q1
      BY <2>4, <2>6, <3>1
    <3>3. half * d2 = half * (d + d) - half * (GroupN * q1)
      BY <3>1, <3>2
    <3>4. half * (d + d) = (2 * half) * d
      BY <3>1
    <3>5. rest * d = (2 * half) * d + b * d
      BY <2>2, <3>1
    <3>6. a + rest * d = scalar + GroupN * q
      BY <2>1, <2>2
    <3>7. half * (GroupN * q1) = GroupN * (half * q1)
      BY <3>1
    <3>8. a2 + half * d2 = scalar + GroupN * q - GroupN * q2 - GroupN * (half * q1)
      BY <3>1, <3>2, <3>3, <3>4, <3>5, <3>6, <3>7
    <3>9. GroupN * (q - q2 - half * q1) = GroupN * q - GroupN * q2 - GroupN * (half * q1)
      BY <3>1
    <3>10. QED
      BY <3>1, <3>8, <3>9
  <2>8. half = 0 \/ half <= scalar - (i + 1)
    <3>1. (rest = 0 \/ rest <= scalar - i) /\ rest = 2 * half + b
      BY <2>1, <2>2
    <3>2. scalar \in Int /\ i \in Int
      BY <1>0
    <3>. HIDE DEF Next1, Holds, start, round, done
    <3>3. QED
      BY <3>1, <3>2
  <2>9. Next1(r).rest = half /\ q - q2 - half * q1 \in Int
    BY <2>2
  <2>. HIDE DEF Next1
  <2>10. QED
    BY <2>5, <2>6, <2>7, <2>8, <2>9
<1>8. \A i \in 0 .. scalar : Holds(round[i], i)
  <2>. DEFINE S == {i \in 0 .. scalar : Holds(round[i], i)}
  <2>. HIDE DEF Holds, Next1, start, round
  <2>1. 0 \in S
    BY <1>0, <1>5, <1>6
  <2>2. ASSUME NEW i \in 0 .. scalar - 1, i \in S PROVE i + 1 \in S
    <3>1. i \in Nat /\ i + 1 \in 0 .. scalar /\ i + 1 # 0 /\ (i + 1) - 1 = i
      BY <1>0
    <3>2. round[i + 1] = Next1(round[i])
      BY <1>5, <3>1
    <3>3. QED
      BY <1>7, <2>2, <3>1, <3>2
  <2>3. \A i \in 0 .. scalar : i \in S
    <3>. HIDE DEF S
    <3>1. QED
      BY <1>0, <2>1, <2>2, Climb
  <2>4. QED
    BY <2>3
<1>9. done \in 0 .. scalar /\ round[done].rest = 0
  <2>1. round[scalar].rest = 0 /\ scalar \in 0 .. scalar
    <3>1. scalar \in 0 .. scalar /\ Holds(round[scalar], scalar)
      <4>. HIDE DEF Holds, round
      <4>1. QED
        BY <1>0, <1>8
    <3>2. round[scalar].rest \in Nat
          /\ (round[scalar].rest = 0 \/ round[scalar].rest <= scalar - scalar)
      BY <3>1
    <3>. HIDE DEF Holds, round
    <3>3. QED
      BY <1>0, <3>1, <3>2
  <2>. HIDE DEF round
  <2>2. QED
    BY <2>1
<1>10. PICK d \in Scalars, a \in 0 .. GroupN - 1, q \in Int :
         /\ round[done].sum = Multiple(a)
         /\ a + round[done].rest * d = scalar + GroupN * q
  <2>1. Holds(round[done], done)
    BY <1>8, <1>9
  <2>. HIDE DEF round, done
  <2>2. QED
    BY <2>1
<1>11. a = scalar
  <2>1. 0 * d = 0
    BY DEF Scalars
  <2>2. a = GroupN * q + scalar
    <3>1. a + 0 = scalar + GroupN * q
      BY <1>9, <1>10, <2>1
    <3>2. QED
      BY <1>0, <3>1
  <2>3. a % GroupN = scalar /\ a % GroupN = a
    BY <1>0, <2>2, DivisionUnique, ModSmall
  <2>4. QED
    BY <2>3
<1>12. QED
  BY <1>1, <1>10, <1>11

-----------------------------------------------------------------------------
(***************************************************************************)
(* The walk                                                                *)
(***************************************************************************)

\* A block's points follow its base one by one, with the differences inverted
\* all at once, and where a difference has no inverse.
LEMMA FollowingExact ==
  ASSUME NEW b \in Scalars, NEW width \in Scalars, NEW steps \in 0 .. width,
         b + steps < GroupN
  PROVE  Following(Multiple(b), [i \in 1 .. width |-> Multiple(i)], steps)
           = [i \in 1 .. steps |-> Multiple(b + i)]
<1>. DEFINE base == Multiple(b)
            table == [i \in 1 .. width |-> Multiple(i)]
            values == [i \in 1 .. steps |-> (table[i][1] - base[1]) % FieldP]
            inverses == BatchInverse(values)
<1>0. /\ FieldP \in Nat \ {0} /\ GroupN \in Nat /\ b \in Nat /\ width \in Nat
      /\ steps \in Nat /\ width < GroupN /\ b < GroupN /\ b # 0
  BY CurveAssumption DEF Scalars
<1>1. base \in Plane /\ base # Infinity /\ base[1] \in Residues /\ base[2] \in Residues
  <2>1. base \in Plane /\ base # Infinity
    BY MultipleFacts
  <2>. HIDE DEF base
  <2>2. QED
    BY <2>1 DEF Plane, Residues
<1>2. ASSUME NEW i \in 1 .. steps
      PROVE  /\ i \in 1 .. width /\ table[i] = Multiple(i) /\ table[i] \in Plane
             /\ table[i] # Infinity
             /\ table[i][1] \in Residues /\ table[i][2] \in Residues
  <2>1. i \in 1 .. width /\ i \in Scalars
    BY <1>0 DEF Scalars
  <2>2. table[i] = Multiple(i)
    BY <2>1
  <2>. HIDE DEF table
  <2>3. table[i] \in Plane /\ table[i] # Infinity
    BY <2>1, <2>2, MultipleFacts
  <2>4. QED
    BY <2>1, <2>2, <2>3 DEF Plane, Residues
<1>3. values \in [1 .. steps -> Residues]
  <2>1. SUFFICES ASSUME NEW i \in 1 .. steps
                 PROVE  (table[i][1] - base[1]) % FieldP \in Residues
    OBVIOUS
  <2>2. table[i][1] - base[1] \in Int
    <3>. HIDE DEF table, base
    <3>1. QED
      BY <1>1, <1>2 DEF Residues
  <2>. HIDE DEF table, base
  <2>3. QED
    BY <1>0, <2>2, Division DEF Residues
<1>4. inverses = [i \in 1 .. steps |->
                    IF values[i] = 0 THEN 0 ELSE FieldInverse(values[i])]
  <2>. HIDE DEF values
  <2>1. QED
    BY <1>0, <1>3, BatchInverseExact
<1>5. Following(base, table, steps)
        = [i \in 1 .. steps |->
             IF inverses[i] = 0 THEN PointAdd(base, table[i])
             ELSE Third(base, table[i], ((table[i][2] - base[2]) * inverses[i]) % FieldP)]
  BY DEF Following
<1>6. ASSUME NEW i \in 1 .. steps
      PROVE  PointAdd(base, table[i]) = Multiple(b + i)
  <2>1. i \in 0 .. GroupN - 1 /\ b \in 0 .. GroupN - 1 /\ b + i \in 0 .. GroupN - 1
    BY <1>0
  <2>2. (b + i) % GroupN = b + i
    BY <1>0, <2>1, ModSmall
  <2>3. PointAdd(Multiple(b), Multiple(i)) = Multiple((b + i) % GroupN)
    BY <2>1, AddMultiple
  <2>. HIDE DEF table
  <2>4. QED
    BY <1>2, <2>2, <2>3
<1>7. ASSUME NEW i \in 1 .. steps, inverses[i] # 0
      PROVE  Third(base, table[i], ((table[i][2] - base[2]) * inverses[i]) % FieldP)
               = PointAdd(base, table[i])
  <2>. DEFINE t == table[i]
  <2>1. values[i] = (t[1] - base[1]) % FieldP
    BY <1>7
  <2>2. t # Infinity /\ t[1] \in Residues
    BY <1>2
  <2>. HIDE DEF table, values, inverses, t, base
  <2>3. values[i] # 0 /\ inverses[i] = FieldInverse(values[i])
    BY <1>4, <1>7
  <2>4. base[1] # t[1]
    <3>1. SUFFICES ASSUME base[1] = t[1] PROVE FALSE
      OBVIOUS
    <3>2. t[1] - base[1] = 0 /\ 0 \in 0 .. FieldP - 1
      BY <1>0, <1>1, <3>1 DEF Residues
    <3>3. 0 % FieldP = 0
      BY <1>0, <3>2, ModSmall
    <3>4. QED
      BY <2>1, <2>3, <3>2, <3>3
  <2>5. ~Opposite(base, t) /\ base # t
    BY <2>4 DEF Opposite
  <2>6. PointAdd(base, t) = Third(base, t, Slope(base, t))
    BY <1>1, <2>2, <2>5 DEF PointAdd
  <2>7. Slope(base, t) = ((t[2] - base[2]) * inverses[i]) % FieldP
    BY <2>1, <2>3, <2>5 DEF Slope
  <2>8. QED
    BY <2>6, <2>7 DEF t
<1>8. QED
  <2>. HIDE DEF inverses, table, base
  <2>1. Following(base, table, steps) = [i \in 1 .. steps |-> Multiple(b + i)]
    BY <1>5, <1>6, <1>7
  <2>2. QED
    BY <2>1 DEF base, table

LEMMA FunctionIsSeq ==
  ASSUME NEW S, NEW n \in Nat, NEW f \in [1 .. n -> S]
  PROVE  f \in Seq(S) /\ Len(f) = n
OBVIOUS

\* iter_sequential_points yields the multiples of consecutive scalars, however
\* the walk is cut into blocks.
THEOREM WalkExact ==
  ASSUME NEW start \in Scalars, NEW count \in Nat \ {0}, NEW batch \in Nat \ {0},
         start + count <= GroupN
  PROVE  SequentialPoints(start, count, batch)
           = [i \in 1 .. count |-> Multiple(start + i - 1)]
<1>. DEFINE width == IF batch < count THEN batch ELSE count
            table == GeneratorMultiples(width)
            More(last) ==
              LET remaining == count - Len(last.yielded)
                  block == IF width < remaining THEN width ELSE remaining
                  steps == Steps(block, remaining)
                  points == <<last.base>> \o Following(last.base, table, steps)
              IN  IF remaining = 0 THEN last
                  ELSE [yielded |-> last.yielded \o SubSeq(points, 1, block),
                        base |-> points[Len(points)]]
            first == [yielded |-> <<>>, base |-> ScalarMultiply(start)]
            Is(g) == g = [n \in 0 .. count |-> IF n = 0 THEN first ELSE More(g[n - 1])]
            after == CHOOSE g : Is(g)
            At(y) == [yielded |-> [i \in 1 .. y |-> Multiple(start + i - 1)],
                      base |-> Multiple(IF y < count THEN start + y ELSE start + count - 1)]
            Reach(n) == IF n * width < count THEN n * width ELSE count
<1>0. /\ start \in Nat /\ 1 <= start /\ count \in Nat /\ 1 <= count /\ GroupN \in Nat
      /\ count < GroupN /\ start < GroupN
      /\ width \in Nat /\ 1 <= width /\ width <= count
  BY CurveAssumption DEF Scalars
<1>1. SequentialPoints(start, count, batch) = after[count].yielded
  BY DEF SequentialPoints
<1>. HIDE DEF width
<1>2. width \in Scalars /\ table = [i \in 1 .. width |-> Multiple(i)]
  <2>1. width \in Scalars
    BY <1>0 DEF Scalars
  <2>2. QED
    BY <2>1, TableExact
<1>3. first = At(0)
  <2>1. ScalarMultiply(start) = Multiple(start) /\ start + 0 = start
    BY <1>0, ScalarMultiplyExact
  <2>2. [i \in 1 .. 0 |-> Multiple(start + i - 1)] = <<>>
    OBVIOUS
  <2>3. QED
    BY <1>0, <2>1, <2>2
<1>4. ASSUME NEW y \in 0 .. count
      PROVE  More(At(y)) = At(IF y + width < count THEN y + width ELSE count)
  <2>. DEFINE yielded == [i \in 1 .. y |-> Multiple(start + i - 1)]
              base == Multiple(IF y < count THEN start + y ELSE start + count - 1)
              remaining == count - y
              block == IF width < remaining THEN width ELSE remaining
              steps == Steps(block, remaining)
              points == <<base>> \o Following(base, table, steps)
  <2>1. At(y).yielded = yielded /\ At(y).base = base /\ y \in Nat /\ y <= count
    BY <1>0
  <2>2. yielded \in [1 .. y -> Plane]
    <3>1. \A i \in 1 .. y : start + i - 1 \in Scalars
      BY <1>0, <2>1 DEF Scalars
    <3>2. QED
      BY <3>1, MultipleFacts
  <2>3. yielded \in Seq(Plane) /\ Len(yielded) = y
    <3>. HIDE DEF yielded
    <3>1. QED
      BY <2>1, <2>2, FunctionIsSeq
  <2>4. More(At(y)) = IF remaining = 0 THEN At(y)
                      ELSE [yielded |-> yielded \o SubSeq(points, 1, block),
                            base |-> points[Len(points)]]
    <3>. HIDE DEF At, yielded, table, base
    <3>1. Len(At(y).yielded) = y
      BY <2>1, <2>3
    <3>2. QED
      BY <2>1, <3>1
  <2>5. CASE remaining = 0
    <3>1. y = count /\ ~(y + width < count)
      BY <1>0, <2>1, <2>5
    <3>. HIDE DEF More, At, points
    <3>2. QED
      BY <2>4, <2>5, <3>1
  <2>6. CASE remaining # 0
    <3>1. /\ remaining \in Nat /\ y < count
          /\ block \in Nat /\ 1 <= block /\ block <= width /\ block <= remaining
          /\ steps \in 0 .. width /\ steps \in Nat /\ block <= steps + 1
          /\ y + steps < count
          /\ IF y + width < count THEN steps = width /\ block = width
             ELSE y + steps = count - 1 /\ y + block = count
      BY <1>0, <2>1, <2>6 DEF Steps
    <3>2. base = Multiple(start + y) /\ start + y \in Scalars
          /\ start + y + steps < GroupN
      BY <1>0, <2>1, <3>1 DEF Scalars
    <3>. HIDE DEF remaining, block, steps, base, table, yielded
    <3>3. Following(base, table, steps) = [i \in 1 .. steps |-> Multiple(start + y + i)]
      BY <1>2, <3>1, <3>2, FollowingExact
    <3>. DEFINE rest == Following(base, table, steps)
    <3>4. rest \in Seq(Plane) /\ Len(rest) = steps
      <4>1. \A i \in 1 .. steps : start + y + i \in Scalars
        BY <1>0, <2>1, <3>1, <3>2 DEF Scalars
      <4>2. rest \in [1 .. steps -> Plane]
        BY <3>3, <4>1, MultipleFacts
      <4>. HIDE DEF rest
      <4>3. QED
        BY <3>1, <4>2, FunctionIsSeq
    <3>5. <<base>> \in Seq(Plane) /\ Len(<<base>>) = 1 /\ <<base>>[1] = base
      <4>1. base \in Plane
        BY <3>2, MultipleFacts
      <4>2. QED
        BY <4>1
    <3>6. /\ points \in Seq(Plane) /\ Len(points) = 1 + steps
          /\ \A i \in 1 .. 1 + steps : points[i] = Multiple(start + y + i - 1)
      <4>. HIDE DEF rest
      <4>. DEFINE one == <<base>>
      <4>. HIDE DEF one
      <4>0. one \in Seq(Plane) /\ Len(one) = 1 /\ one[1] = base
        BY <3>5 DEF one
      <4>1. /\ one \o rest \in Seq(Plane) /\ Len(one \o rest) = Len(one) + Len(rest)
            /\ \A i \in 1 .. Len(one) + Len(rest) :
                 (one \o rest)[i] = IF i <= Len(one) THEN one[i] ELSE rest[i - Len(one)]
        BY <3>4, <4>0, ConcatProperties
      <4>2. ASSUME NEW i \in 1 .. 1 + steps
            PROVE  (one \o rest)[i] = Multiple(start + y + i - 1)
        <5>1. CASE i = 1
          <6>1. start + y + i - 1 = start + y
            BY <1>0, <2>1, <5>1
          <6>2. QED
            BY <3>2, <3>4, <4>0, <4>1, <5>1, <6>1
        <5>2. CASE i # 1
          <6>1. /\ i - 1 \in 1 .. steps /\ start + y + (i - 1) = start + y + i - 1
                /\ ~(i <= 1)
            BY <1>0, <2>1, <3>1, <5>2
          <6>2. rest[i - 1] = Multiple(start + y + (i - 1))
            BY <3>3, <6>1 DEF rest
          <6>3. QED
            BY <3>4, <4>0, <4>1, <6>1, <6>2
        <5>3. QED
          BY <5>1, <5>2
      <4>3. points = one \o rest
        BY DEF one, rest
      <4>. HIDE DEF points
      <4>4. QED
        BY <3>4, <4>0, <4>1, <4>2, <4>3
    <3>. HIDE DEF points
    <3>. DEFINE sub == SubSeq(points, 1, block)
    <3>7. /\ sub \in Seq(Plane) /\ Len(sub) = block
          /\ \A i \in 1 .. block : sub[i] = Multiple(start + y + i - 1)
      <4>1. \A i \in 1 .. block : points[i] \in Plane /\ i \in 1 .. 1 + steps
        BY <3>1, <3>6
      <4>2. /\ SubSeq(points, 1, block) \in Seq(Plane)
            /\ Len(SubSeq(points, 1, block)) = IF 1 <= block THEN block - 1 + 1 ELSE 0
            /\ \A i \in 1 .. block - 1 + 1 :
                 SubSeq(points, 1, block)[i] = points[1 + i - 1]
        BY <3>1, <4>1, SubSeqProperties
      <4>3. block - 1 + 1 = block /\ \A i \in 1 .. block : 1 + i - 1 = i
        BY <3>1
      <4>4. QED
        BY <3>1, <3>6, <4>1, <4>2, <4>3
    <3>8. yielded \o sub = [i \in 1 .. y + block |-> Multiple(start + i - 1)]
      <4>. HIDE DEF sub
      <4>1. /\ yielded \o sub \in Seq(Plane)
            /\ Len(yielded \o sub) = y + block
            /\ \A i \in 1 .. y + block :
                 (yielded \o sub)[i] = IF i <= y THEN yielded[i] ELSE sub[i - y]
        BY <2>3, <3>7, ConcatProperties
      <4>2. ASSUME NEW i \in 1 .. y + block
            PROVE  (yielded \o sub)[i] = Multiple(start + i - 1)
        <5>1. CASE i <= y
          <6>1. i \in 1 .. y
            BY <2>1, <3>1, <5>1
          <6>2. yielded[i] = Multiple(start + i - 1)
            BY <6>1 DEF yielded
          <6>3. QED
            BY <4>1, <5>1, <6>2
        <5>2. CASE ~(i <= y)
          <6>1. i - y \in 1 .. block /\ start + y + (i - y) - 1 = start + i - 1
            BY <1>0, <2>1, <3>1, <5>2
          <6>2. QED
            BY <3>7, <4>1, <5>2, <6>1
        <5>3. QED
          BY <5>1, <5>2
      <4>3. yielded \o sub \in [1 .. y + block -> Plane]
        <5>. DEFINE both == yielded \o sub
        <5>. HIDE DEF both
        <5>1. both \in [1 .. Len(both) -> Plane]
          BY <4>1, LenProperties DEF both
        <5>2. QED
          BY <4>1, <5>1 DEF both
      <4>4. yielded \o sub = [i \in 1 .. y + block |-> (yielded \o sub)[i]]
        BY <4>3
      <4>5. QED
        BY <4>2, <4>4
    <3>9. points[Len(points)] = Multiple(start + y + steps)
      <4>1. 1 + steps \in 1 .. 1 + steps /\ start + y + (1 + steps) - 1 = start + y + steps
        BY <1>0, <2>1, <3>1
      <4>2. QED
        BY <3>6, <4>1
    <3>10. More(At(y)) = [yielded |-> yielded \o sub, base |-> points[Len(points)]]
      <4>. HIDE DEF More, At
      <4>1. QED
        BY <2>4, <2>6
    <3>11. CASE y + width < count
      <4>1. At(y + width) = [yielded |-> [i \in 1 .. y + width |-> Multiple(start + i - 1)],
                             base |-> Multiple(start + (y + width))]
        BY <3>11
      <4>2. start + (y + width) = start + y + steps /\ y + width = y + block
        BY <1>0, <2>1, <3>1, <3>11
      <4>. HIDE DEF More, At, sub
      <4>3. QED
        BY <3>8, <3>9, <3>10, <3>11, <4>1, <4>2
    <3>12. CASE ~(y + width < count)
      <4>1. At(count) = [yielded |-> [i \in 1 .. count |-> Multiple(start + i - 1)],
                         base |-> Multiple(start + count - 1)]
        BY <1>0
      <4>2. start + count - 1 = start + y + steps /\ count = y + block
        BY <1>0, <2>1, <3>1, <3>12
      <4>. HIDE DEF More, At, sub
      <4>3. QED
        BY <3>8, <3>9, <3>10, <3>12, <4>1, <4>2
    <3>13. QED
      BY <3>11, <3>12
  <2>7. QED
    <3>. HIDE DEF remaining, More, At
    <3>1. QED
      BY <2>5, <2>6
<1>. HIDE DEF table, More, first, At
<1>5. \A n \in 0 .. count : Reach(n) \in 0 .. count
  <2>1. SUFFICES ASSUME NEW n \in 0 .. count PROVE Reach(n) \in 0 .. count
    OBVIOUS
  <2>2. n * width \in Nat
    BY <1>0
  <2>3. QED
    BY <1>0, <2>2
<1>6. \A n \in 1 .. count : At(Reach(n)) = More(At(Reach(n - 1)))
  <2>1. SUFFICES ASSUME NEW n \in 1 .. count
                 PROVE  At(Reach(n)) = More(At(Reach(n - 1)))
    OBVIOUS
  <2>. DEFINE y == Reach(n - 1)
  <2>2. n - 1 \in 0 .. count
    BY <1>0
  <2>3. y \in 0 .. count
    <3>. HIDE DEF Reach
    <3>1. QED
      BY <1>5, <2>2
  <2>4. Reach(n) = IF y + width < count THEN y + width ELSE count
    <3>1. n * width = (n - 1) * width + width /\ (n - 1) * width \in Nat
      BY <1>0, <2>2
    <3>2. QED
      BY <1>0, <3>1
  <2>. HIDE DEF Reach, y
  <2>5. QED
    BY <1>4, <2>3, <2>4 DEF y
<1>7. Is([n \in 0 .. count |-> At(Reach(n))])
  <2>. DEFINE g == [n \in 0 .. count |-> At(Reach(n))]
  <2>1. Reach(0) = 0
    BY <1>0
  <2>2. ASSUME NEW n \in 0 .. count
        PROVE  g[n] = IF n = 0 THEN first ELSE More(g[n - 1])
    <3>. HIDE DEF Reach
    <3>1. CASE n = 0
      BY <1>3, <2>1, <3>1
    <3>2. CASE n # 0
      <4>1. n \in 1 .. count /\ n - 1 \in 0 .. count
        BY <1>0, <3>2
      <4>2. g[n] = At(Reach(n)) /\ g[n - 1] = At(Reach(n - 1))
        BY <4>1
      <4>. HIDE DEF g
      <4>3. QED
        BY <1>6, <3>2, <4>1, <4>2
    <3>3. QED
      BY <3>1, <3>2
  <2>3. g = [n \in 0 .. count |-> g[n]]
    OBVIOUS
  <2>. HIDE DEF g
  <2>4. Is(g)
    BY <2>2, <2>3
  <2>. HIDE DEF Is
  <2>5. QED
    BY <2>4 DEF g
<1>8. Is(after)
  <2>. HIDE DEF Is, Reach
  <2>1. QED
    BY <1>7
<1>. HIDE DEF after
<1>9. \A n \in 0 .. count : after[n] = At(Reach(n))
  <2>. DEFINE S == {n \in 0 .. count : after[n] = At(Reach(n))}
  <2>1. 0 \in S
    <3>1. Reach(0) = 0 /\ 0 \in 0 .. count
      BY <1>0
    <3>. HIDE DEF Reach
    <3>2. QED
      BY <1>3, <1>8, <3>1
  <2>. HIDE DEF Reach
  <2>2. ASSUME NEW n \in 0 .. count - 1, n \in S PROVE n + 1 \in S
    <3>1. n + 1 \in 1 .. count /\ n + 1 \in 0 .. count /\ n + 1 # 0 /\ (n + 1) - 1 = n
      BY <1>0
    <3>2. after[n + 1] = More(after[n])
      BY <1>8, <3>1
    <3>3. At(Reach(n + 1)) = More(At(Reach(n)))
      BY <1>6, <3>1
    <3>4. QED
      BY <2>2, <3>1, <3>2, <3>3
  <2>3. \A n \in 0 .. count : n \in S
    <3>. HIDE DEF S
    <3>1. QED
      BY <1>0, <2>1, <2>2, Climb
  <2>4. QED
    BY <2>3
<1>10. Reach(count) = count /\ count \in 0 .. count
  <2>1. count * width >= count
    <3>1. count * width = count * (width - 1) + count /\ count * (width - 1) \in Nat
      BY <1>0
    <3>2. QED
      BY <1>0, <3>1
  <2>2. count * width \in Nat
    BY <1>0
  <2>3. QED
    BY <1>0, <2>1, <2>2
<1>11. after[count] = At(count)
  <2>. HIDE DEF Reach
  <2>1. QED
    BY <1>9, <1>10
<1>12. QED
  BY <1>1, <1>11 DEF At

-----------------------------------------------------------------------------
(***************************************************************************)
(* The plan                                                                *)
(***************************************************************************)
KeysOf(interval) == interval.first .. interval.last
Block(ordinal) == KeysOf(Chunk(ordinal))
Ordinals == 0 .. TotalChunks - 1
KeyCount == LastKey - FirstKey + 1

\* Rounding up: the quotient is the least that covers a.
LEMMA RoundedUp ==
  ASSUME NEW a \in Nat \ {0}, NEW b \in Nat \ {0}
  PROVE  /\ (a + b - 1) \div b \in Nat \ {0}
         /\ ((a + b - 1) \div b - 1) * b < a
         /\ a <= ((a + b - 1) \div b) * b
<1>. DEFINE q == (a + b - 1) \div b
            r == (a + b - 1) % b
<1>1. a + b - 1 \in Int
  OBVIOUS
<1>2. q \in Int /\ r \in 0 .. b - 1 /\ a + b - 1 = b * q + r
  BY <1>1, Division
<1>. HIDE DEF q, r
<1>3. (q - 1) * b = b * q - b /\ q * b = b * q
  BY <1>2
<1>4. (q - 1) * b < a /\ a <= q * b
  BY <1>2, <1>3
<1>5. q > 0
  <2>1. SUFFICES ASSUME q <= 0 PROVE FALSE
    BY <1>2
  <2>2. b * q <= 0
    BY <1>2, <2>1
  <2>3. QED
    BY <1>2, <1>4, <2>2, <1>3
<1>6. QED
  BY <1>2, <1>4, <1>5 DEF q

LEMMA TotalFacts ==
  /\ KeyCount \in Nat \ {0} /\ TotalChunks \in Nat \ {0}
  /\ (TotalChunks - 1) * ChunkSize < KeyCount
  /\ KeyCount <= TotalChunks * ChunkSize
<1>1. KeyCount \in Nat \ {0} /\ Cardinality(Keys) = KeyCount
  BY FS_Interval, PlanAssumption DEF Keys, KeyCount
<1>2. ChunkSize \in Nat \ {0}
  BY PlanAssumption
<1>3. TotalChunks = (KeyCount + ChunkSize - 1) \div ChunkSize
  BY <1>1 DEF TotalChunks
<1>. HIDE DEF KeyCount
<1>4. QED
  BY <1>1, <1>2, <1>3, RoundedUp

\* The order of the plan gives every chunk exactly one ordinal.
LEMMA ChunkIdBijective ==
  /\ \A o \in Ordinals : ChunkId(o) \in Ordinals
  /\ \A o1, o2 \in Ordinals : ChunkId(o1) = ChunkId(o2) => o1 = o2
  /\ \A c \in Ordinals : \E o \in Ordinals : ChunkId(o) = c
<1>1. CASE TotalChunks = 1
  <2>1. Ordinals = {0}
    BY <1>1 DEF Ordinals
  <2>2. QED
    BY <1>1, <2>1 DEF ChunkId
<1>2. CASE TotalChunks # 1
  <2>. DEFINE m == Multiplier(TotalChunks, Candidate)
              f == [rank \in 0 .. TotalChunks - 1
                      |-> AffineChunk(TotalChunks, m, Offset, rank)]
  <2>1. /\ TotalChunks \in Nat \ {0} /\ TotalChunks > 1
        /\ Candidate \in Nat \ {0} /\ Offset \in Int
    BY <1>2, TotalFacts, DigestAssumption
  <2>2. m \in 1 .. TotalChunks - 1 /\ Coprime(m, TotalChunks)
    BY <2>1, MultiplierFound
  <2>3. m \in Nat \ {0}
    BY <2>1, <2>2
  <2>. HIDE DEF m
  <2>4. f \in Bijection(Ordinals, Ordinals)
    BY <2>1, <2>2, <2>3, AffineOrder DEF Ordinals
  <2>5. \A o \in Ordinals : f[o] = ChunkId(o)
    BY <1>2 DEF ChunkId, m, Ordinals
  <2>. HIDE DEF f
  <2>6. QED
    BY <2>4, <2>5 DEF Bijection, Injection, IsInjective, Surjection
<1>3. QED
  BY <1>1, <1>2

LEMMA ChunkFacts ==
  ASSUME NEW o \in Ordinals
  PROVE  /\ Chunk(o).first = FirstKey + ChunkId(o) * ChunkSize
         /\ Chunk(o).first \in Keys /\ Chunk(o).last \in Keys
         /\ Chunk(o).first <= Chunk(o).last
         /\ Chunk(o).last < Chunk(o).first + ChunkSize
         /\ Chunk(o) = [first |-> Chunk(o).first, last |-> Chunk(o).last]
         /\ \A k \in Keys : Chunk(o).first <= k /\ k < Chunk(o).first + ChunkSize
                              => k <= Chunk(o).last
<1>. DEFINE c == ChunkId(o)
            start == FirstKey + c * ChunkSize
<1>1. Chunk(o) = [first |-> start, last |-> Least(start + ChunkSize - 1, LastKey)]
  BY DEF Chunk
<1>2. c \in Nat /\ c <= TotalChunks - 1
  BY ChunkIdBijective, TotalFacts DEF Ordinals
<1>. HIDE DEF c
<1>3. c * ChunkSize \in Nat /\ c * ChunkSize <= (TotalChunks - 1) * ChunkSize
  BY <1>2, PlanAssumption, TotalFacts
<1>4. start \in Keys
  <2>1. (TotalChunks - 1) * ChunkSize < KeyCount /\ (TotalChunks - 1) * ChunkSize \in Int
    BY TotalFacts, PlanAssumption
  <2>2. QED
    BY <1>3, <2>1, PlanAssumption DEF Keys, KeyCount
<1>5. /\ Least(start + ChunkSize - 1, LastKey) \in Keys
      /\ start <= Least(start + ChunkSize - 1, LastKey)
      /\ Least(start + ChunkSize - 1, LastKey) < start + ChunkSize
      /\ \A k \in Keys : start <= k /\ k < start + ChunkSize
                           => k <= Least(start + ChunkSize - 1, LastKey)
  <2>. HIDE DEF start
  <2>1. QED
    BY <1>4, PlanAssumption DEF Keys, Least
<1>. HIDE DEF start
<1>6. QED
  BY <1>1, <1>4, <1>5 DEF start, c

\* The chunks leave no key of the puzzle out and share none.
THEOREM ChunksPartition ==
  /\ \A o \in Ordinals : Block(o) \subseteq Keys
  /\ \A k \in Keys : \E o \in Ordinals : k \in Block(o)
  /\ \A o1, o2 \in Ordinals : \A k : k \in Block(o1) /\ k \in Block(o2) => o1 = o2
<1>0. ChunkSize \in Nat \ {0} /\ FirstKey \in Nat /\ LastKey \in Nat
  BY PlanAssumption
<1>1. ASSUME NEW o \in Ordinals PROVE Block(o) \subseteq Keys
  BY ChunkFacts, PlanAssumption DEF Block, KeysOf, Keys
<1>2. ASSUME NEW k \in Keys PROVE \E o \in Ordinals : k \in Block(o)
  <2>. DEFINE d == k - FirstKey
  <2>1. PICK c \in Int, r \in 0 .. ChunkSize - 1 : d = ChunkSize * c + r
    <3>1. d \in Int
      BY <1>0 DEF Keys
    <3>. HIDE DEF d
    <3>2. QED
      BY <1>0, <3>1, Division
  <2>2. d \in Nat /\ d < KeyCount /\ k = FirstKey + d
    BY <1>0 DEF Keys, KeyCount
  <2>. HIDE DEF d
  <2>3. c \in Ordinals
    <3>1. c >= 0
      <4>1. SUFFICES ASSUME c <= -1 PROVE FALSE
        OBVIOUS
      <4>2. ChunkSize * c <= -ChunkSize
        BY <1>0, <4>1
      <4>3. QED
        BY <1>0, <2>1, <2>2, <4>2
    <3>2. c <= TotalChunks - 1
      <4>1. SUFFICES ASSUME c >= TotalChunks PROVE FALSE
        BY TotalFacts
      <4>2. ChunkSize * c >= TotalChunks * ChunkSize
        BY <1>0, <4>1, TotalFacts
      <4>3. TotalChunks * ChunkSize \in Int /\ KeyCount \in Int
        BY <1>0, TotalFacts
      <4>4. QED
        BY <1>0, <2>1, <2>2, <4>2, <4>3, TotalFacts
    <3>3. QED
      BY <3>1, <3>2, TotalFacts DEF Ordinals
  <2>4. PICK o \in Ordinals : ChunkId(o) = c
    BY <2>3, ChunkIdBijective
  <2>5. Chunk(o).first = FirstKey + ChunkSize * c
    <3>1. c * ChunkSize = ChunkSize * c
      BY <1>0
    <3>2. QED
      BY <2>4, <3>1, ChunkFacts
  <2>6. Chunk(o).first <= k /\ k < Chunk(o).first + ChunkSize
    BY <1>0, <2>1, <2>2, <2>5
  <2>7. k <= Chunk(o).last
    BY <2>6, ChunkFacts
  <2>8. k \in Block(o)
    BY <2>6, <2>7, ChunkFacts, <1>0 DEF Block, KeysOf, Keys
  <2>9. QED
    BY <2>8
<1>3. ASSUME NEW o1 \in Ordinals, NEW o2 \in Ordinals, NEW k,
             k \in Block(o1), k \in Block(o2)
      PROVE  o1 = o2
  <2>. DEFINE c1 == ChunkId(o1)
              c2 == ChunkId(o2)
  <2>1. c1 \in Nat /\ c2 \in Nat
    BY ChunkIdBijective, TotalFacts DEF Ordinals
  <2>2. /\ Chunk(o1).first = FirstKey + c1 * ChunkSize
        /\ Chunk(o2).first = FirstKey + c2 * ChunkSize
    BY ChunkFacts
  <2>3. /\ Chunk(o1).first <= k /\ k < Chunk(o1).first + ChunkSize
        /\ Chunk(o2).first <= k /\ k < Chunk(o2).first + ChunkSize
        /\ k \in Nat
    <3>1. /\ Chunk(o1).first \in Keys /\ Chunk(o2).first \in Keys
          /\ Chunk(o1).last \in Keys /\ Chunk(o2).last \in Keys
          /\ Chunk(o1).last < Chunk(o1).first + ChunkSize
          /\ Chunk(o2).last < Chunk(o2).first + ChunkSize
      BY ChunkFacts
    <3>2. QED
      BY <1>0, <1>3, <3>1 DEF Block, KeysOf, Keys
  <2>. HIDE DEF c1, c2
  <2>4. /\ c1 * ChunkSize < c2 * ChunkSize + ChunkSize
        /\ c2 * ChunkSize < c1 * ChunkSize + ChunkSize
    <3>1. c1 * ChunkSize \in Nat /\ c2 * ChunkSize \in Nat
      BY <1>0, <2>1
    <3>2. QED
      BY <1>0, <2>2, <2>3, <3>1
  <2>5. ~(c1 >= c2 + 1)
    <3>1. SUFFICES ASSUME c1 >= c2 + 1 PROVE FALSE
      OBVIOUS
    <3>2. c1 * ChunkSize >= (c2 + 1) * ChunkSize
      BY <1>0, <2>1, <3>1
    <3>3. (c2 + 1) * ChunkSize = c2 * ChunkSize + ChunkSize
      BY <1>0, <2>1
    <3>4. c1 * ChunkSize \in Nat /\ c2 * ChunkSize \in Nat
      BY <1>0, <2>1
    <3>5. QED
      BY <1>0, <2>4, <3>2, <3>3, <3>4
  <2>6. ~(c2 >= c1 + 1)
    <3>1. SUFFICES ASSUME c2 >= c1 + 1 PROVE FALSE
      OBVIOUS
    <3>2. c2 * ChunkSize >= (c1 + 1) * ChunkSize
      BY <1>0, <2>1, <3>1
    <3>3. (c1 + 1) * ChunkSize = c1 * ChunkSize + ChunkSize
      BY <1>0, <2>1
    <3>4. c1 * ChunkSize \in Nat /\ c2 * ChunkSize \in Nat
      BY <1>0, <2>1
    <3>5. QED
      BY <1>0, <2>4, <3>2, <3>3, <3>4
  <2>7. ChunkId(o1) = ChunkId(o2)
    BY <2>1, <2>5, <2>6 DEF c1, c2
  <2>8. QED
    BY <2>7, ChunkIdBijective
<1>4. QED
  BY <1>1, <1>2, <1>3

\* The shards share the ordinals: each ordinal is one place of one shard, and
\* ChunksForShard counts the places before the chunks run out.
THEOREM SharesExact ==
  /\ \A s \in Shards : \A i \in Nat :
       Ordinal(s, i) \in Nat /\ (i < ChunksForShard(s) <=> Ordinal(s, i) < TotalChunks)
  /\ \A s \in Shards : ChunksForShard(s) \in 0 .. TotalChunks
  /\ \A s1, s2 \in Shards : \A i1, i2 \in Nat :
       Ordinal(s1, i1) = Ordinal(s2, i2) => s1 = s2 /\ i1 = i2
  /\ \A o \in Nat : \E s \in Shards, i \in Nat : Ordinal(s, i) = o
<1>0. ShardCount \in Nat \ {0} /\ TotalChunks \in Nat \ {0}
  BY PlanAssumption, TotalFacts
<1>1. ASSUME NEW s \in Shards, NEW i \in Nat PROVE i * ShardCount \in Nat /\ s \in Nat
  BY <1>0 DEF Shards
<1>2. ASSUME NEW s \in Shards
      PROVE  /\ ChunksForShard(s) \in 0 .. TotalChunks
             /\ \A i \in Nat : i < ChunksForShard(s) <=> Ordinal(s, i) < TotalChunks
  <2>1. s \in Nat
    BY <1>0 DEF Shards
  <2>2. CASE TotalChunks <= s
    <3>1. ChunksForShard(s) = 0
      BY <2>2 DEF ChunksForShard
    <3>2. \A i \in Nat : ~(s + i * ShardCount < TotalChunks)
      BY <1>0, <1>1, <2>1, <2>2
    <3>3. QED
      BY <1>0, <3>1, <3>2 DEF Ordinal
  <2>3. CASE s < TotalChunks
    <3>. DEFINE a == TotalChunks - s
                q == (a + ShardCount - 1) \div ShardCount
    <3>1. ChunksForShard(s) = q
      BY <1>0, <2>1, <2>3 DEF ChunksForShard
    <3>2. a \in Nat \ {0} /\ a <= TotalChunks /\ TotalChunks = s + a
      BY <1>0, <2>1, <2>3
    <3>. HIDE DEF a
    <3>3. q \in Nat \ {0} /\ (q - 1) * ShardCount < a /\ a <= q * ShardCount
      BY <1>0, <3>2, RoundedUp
    <3>. HIDE DEF q
    <3>4. q <= TotalChunks
      <4>1. q - 1 <= (q - 1) * ShardCount /\ (q - 1) * ShardCount \in Nat
        BY <1>0, <3>3
      <4>2. QED
        BY <1>0, <3>2, <3>3, <4>1
    <3>5. ASSUME NEW i \in Nat
          PROVE  i < q <=> s + i * ShardCount < TotalChunks
      <4>1. i * ShardCount \in Nat /\ q * ShardCount \in Nat /\ (q - 1) * ShardCount \in Nat
        BY <1>0, <3>3
      <4>2. CASE i < q
        <5>1. i * ShardCount <= (q - 1) * ShardCount
          BY <1>0, <3>3, <4>2
        <5>2. QED
          BY <2>1, <3>2, <3>3, <4>1, <4>2, <5>1
      <4>3. CASE ~(i < q)
        <5>1. q * ShardCount <= i * ShardCount
          BY <1>0, <3>3, <4>3
        <5>2. QED
          BY <2>1, <3>2, <3>3, <4>1, <4>3, <5>1
      <4>4. QED
        BY <4>2, <4>3
    <3>6. QED
      BY <1>0, <3>1, <3>3, <3>4, <3>5 DEF Ordinal
  <2>4. QED
    BY <1>0, <2>1, <2>2, <2>3
<1>3. ASSUME NEW s1 \in Shards, NEW s2 \in Shards, NEW i1 \in Nat, NEW i2 \in Nat,
             Ordinal(s1, i1) = Ordinal(s2, i2)
      PROVE  s1 = s2 /\ i1 = i2
  <2>. DEFINE o == s1 + i1 * ShardCount
  <2>1. /\ s1 \in 0 .. ShardCount - 1 /\ s2 \in 0 .. ShardCount - 1
        /\ o \in Int /\ o = ShardCount * i1 + s1 /\ o = ShardCount * i2 + s2
    BY <1>0, <1>1, <1>3 DEF Ordinal, Shards
  <2>. HIDE DEF o
  <2>2. o % ShardCount = s1 /\ o \div ShardCount = i1
    BY <1>0, <2>1, DivisionUnique
  <2>3. o % ShardCount = s2 /\ o \div ShardCount = i2
    BY <1>0, <2>1, DivisionUnique
  <2>4. QED
    BY <2>2, <2>3
<1>4. ASSUME NEW o \in Nat
      PROVE  \E s \in Shards, i \in Nat : Ordinal(s, i) = o
  <2>1. PICK i \in Int, s \in 0 .. ShardCount - 1 : o = ShardCount * i + s
    <3>1. /\ o % ShardCount \in 0 .. ShardCount - 1 /\ o \div ShardCount \in Int
          /\ o = ShardCount * (o \div ShardCount) + (o % ShardCount)
      <4>1. o \in Int
        OBVIOUS
      <4>2. QED
        BY <1>0, <4>1, Division
    <3>2. QED
      BY <3>1
  <2>2. i >= 0
    <3>1. SUFFICES ASSUME i <= -1 PROVE FALSE
      OBVIOUS
    <3>2. ShardCount * i <= -ShardCount
      BY <1>0, <3>1
    <3>3. QED
      BY <1>0, <2>1, <3>2
  <2>3. i \in Nat /\ s \in Shards /\ s + i * ShardCount = o
    BY <1>0, <2>1, <2>2 DEF Shards
  <2>4. QED
    BY <2>3 DEF Ordinal
<1>5. ASSUME NEW s \in Shards, NEW i \in Nat PROVE Ordinal(s, i) \in Nat
  BY <1>1 DEF Ordinal
<1>6. QED
  BY <1>2, <1>3, <1>4, <1>5

\* _split_interval cuts an interval into parts that leave no key of it out and
\* share none.
THEOREM SplitExact ==
  ASSUME NEW interval, interval.first \in Nat, interval.last \in Nat,
         interval.first <= interval.last
  PROVE  /\ \A p \in SplitInterval(interval) :
              /\ p.first \in Nat /\ p.last \in Nat /\ p.first <= p.last
              /\ interval.first <= p.first /\ p.last <= interval.last
         /\ \A k \in KeysOf(interval) : \E p \in SplitInterval(interval) : k \in KeysOf(p)
         /\ \A p1, p2 \in SplitInterval(interval) : \A k :
              k \in KeysOf(p1) /\ k \in KeysOf(p2) => p1 = p2
<1>. DEFINE size == Size(interval)
            count == Least(WorkerCount, size)
            base == size \div count
            extra == size % count
            start == interval.first
            edge(i) == start + i * base + Least(i, extra)
            part(i) == [first |-> edge(i), last |-> edge(i + 1) - 1]
<1>1. SplitInterval(interval) = {part(i) : i \in 0 .. count - 1}
  BY DEF SplitInterval
<1>2. size \in Nat \ {0} /\ interval.last = start + size - 1 /\ start \in Nat
  BY DEF Size
<1>. HIDE DEF size
<1>3. count \in Nat \ {0} /\ count <= size
  BY <1>2, PlanAssumption DEF Least
<1>. HIDE DEF count, start
<1>4. base \in Nat /\ base >= 1 /\ extra \in 0 .. count - 1 /\ size = count * base + extra
  <2>1. base \in Int /\ extra \in 0 .. count - 1 /\ size = count * base + extra
    BY <1>2, <1>3, Division
  <2>. HIDE DEF base, extra
  <2>2. base >= 1
    <3>1. SUFFICES ASSUME base <= 0 PROVE FALSE
      BY <2>1
    <3>2. count * base <= 0
      BY <1>3, <2>1, <3>1
    <3>3. QED
      BY <1>2, <1>3, <2>1, <3>2
  <2>3. QED
    BY <2>1, <2>2
<1>. HIDE DEF base, extra
<1>5. \A i \in 0 .. count : edge(i) \in Nat
  BY <1>2, <1>3, <1>4 DEF Least
<1>6. ASSUME NEW i \in 0 .. count, NEW j \in 0 .. count, i < j
      PROVE  edge(i) + (j - i) <= edge(j)
  <2>1. j * base = i * base + (j - i) * base
    BY <1>3, <1>4
  <2>2. (j - i) * base >= j - i /\ (j - i) * base \in Nat /\ i * base \in Nat
        /\ j * base \in Nat
    BY <1>3, <1>4, <1>6
  <2>3. Least(i, extra) <= Least(j, extra) /\ Least(i, extra) \in Nat /\ Least(j, extra) \in Nat
    BY <1>3, <1>4, <1>6 DEF Least
  <2>4. QED
    BY <1>2, <2>1, <2>2, <2>3
<1>7. edge(0) = start /\ edge(count) = interval.last + 1
  <2>1. Least(0, extra) = 0 /\ Least(count, extra) = extra /\ 0 * base = 0
    BY <1>3, <1>4 DEF Least
  <2>2. QED
    BY <1>2, <1>3, <1>4, <2>1
<1>. HIDE DEF edge
<1>8. ASSUME NEW p \in SplitInterval(interval)
      PROVE  /\ p.first \in Nat /\ p.last \in Nat /\ p.first <= p.last
             /\ interval.first <= p.first /\ p.last <= interval.last
  <2>1. PICK i \in 0 .. count - 1 : p = part(i)
    BY <1>1
  <2>2. i \in 0 .. count /\ i + 1 \in 0 .. count /\ 0 \in 0 .. count /\ count \in 0 .. count
    BY <1>3
  <2>3. /\ edge(i) \in Nat /\ edge(i + 1) \in Nat /\ edge(i) + 1 <= edge(i + 1)
    BY <1>5, <1>6, <2>2
  <2>4. edge(0) <= edge(i)
    BY <1>5, <1>6, <2>2
  <2>5. edge(i + 1) <= edge(count)
    BY <1>3, <1>5, <1>6, <2>2
  <2>6. p.first = edge(i) /\ p.last = edge(i + 1) - 1
    BY <2>1
  <2>7. QED
    BY <1>2, <1>7, <2>3, <2>4, <2>5, <2>6 DEF start
<1>9. ASSUME NEW k \in KeysOf(interval)
      PROVE  \E p \in SplitInterval(interval) : k \in KeysOf(p)
  <2>. DEFINE T == {j \in 0 .. count : k < edge(j)}
  <2>1. k \in Nat /\ start <= k /\ k < edge(count)
    BY <1>2, <1>7, <1>9 DEF KeysOf, start
  <2>2. T \subseteq Nat /\ T # {}
    BY <1>3, <2>1
  <2>3. PICK j \in T : \A i \in T : j <= i
    <3>. HIDE DEF T
    <3>1. QED
      BY <2>2, LeastMember
  <2>4. j \in 0 .. count /\ k < edge(j) /\ j # 0
    <3>1. j \in 0 .. count /\ k < edge(j)
      OBVIOUS
    <3>. HIDE DEF T
    <3>2. QED
      BY <1>2, <1>7, <2>1, <3>1
  <2>5. j - 1 \in 0 .. count - 1 /\ j - 1 \in 0 .. count /\ (j - 1) + 1 = j
    BY <1>3, <2>4
  <2>6. edge(j - 1) <= k
    BY <1>5, <2>1, <2>3, <2>4, <2>5
  <2>7. part(j - 1) \in SplitInterval(interval)
    BY <1>1, <2>5
  <2>8. k \in KeysOf(part(j - 1))
    BY <1>5, <2>1, <2>4, <2>5, <2>6 DEF KeysOf
  <2>9. QED
    BY <2>7, <2>8
<1>10. ASSUME NEW p1 \in SplitInterval(interval), NEW p2 \in SplitInterval(interval),
              NEW k, k \in KeysOf(p1), k \in KeysOf(p2)
       PROVE  p1 = p2
  <2>1. PICK i \in 0 .. count - 1 : p1 = part(i)
    BY <1>1
  <2>2. PICK j \in 0 .. count - 1 : p2 = part(j)
    BY <1>1
  <2>3. /\ i \in 0 .. count /\ i + 1 \in 0 .. count
        /\ j \in 0 .. count /\ j + 1 \in 0 .. count
    BY <1>3
  <2>4. /\ edge(i) \in Nat /\ edge(i + 1) \in Nat /\ edge(j) \in Nat /\ edge(j + 1) \in Nat
    BY <1>5, <2>3
  <2>5. /\ edge(i) <= k /\ k < edge(i + 1) /\ edge(j) <= k /\ k < edge(j + 1) /\ k \in Int
    BY <1>10, <2>1, <2>2, <2>4 DEF KeysOf
  <2>6. ~(i < j)
    <3>1. SUFFICES ASSUME i < j PROVE FALSE
      OBVIOUS
    <3>2. edge(i + 1) <= edge(j)
      <4>1. i + 1 = j \/ i + 1 < j
        BY <2>3, <3>1
      <4>2. CASE i + 1 = j
        BY <2>4, <4>2
      <4>3. CASE i + 1 < j
        <5>1. edge(i + 1) + (j - (i + 1)) <= edge(j)
          BY <1>6, <2>3, <4>3
        <5>2. QED
          BY <2>3, <2>4, <4>3, <5>1
      <4>4. QED
        BY <4>1, <4>2, <4>3
    <3>3. QED
      BY <2>4, <2>5, <3>2
  <2>7. ~(j < i)
    <3>1. SUFFICES ASSUME j < i PROVE FALSE
      OBVIOUS
    <3>2. edge(j + 1) <= edge(i)
      <4>1. j + 1 = i \/ j + 1 < i
        BY <2>3, <3>1
      <4>2. CASE j + 1 = i
        BY <2>4, <4>2
      <4>3. CASE j + 1 < i
        <5>1. edge(j + 1) + (i - (j + 1)) <= edge(i)
          BY <1>6, <2>3, <4>3
        <5>2. QED
          BY <2>3, <2>4, <4>3, <5>1
      <4>4. QED
        BY <4>1, <4>2, <4>3
    <3>3. QED
      BY <2>4, <2>5, <3>2
  <2>8. i = j
    BY <2>3, <2>6, <2>7
  <2>9. QED
    BY <2>1, <2>2, <2>8
<1>11. QED
  BY <1>8, <1>9, <1>10

-----------------------------------------------------------------------------
(***************************************************************************)
(* What scanning a part does                                               *)
(***************************************************************************)

LEMMA KeyPoints ==
  ASSUME NEW k \in Keys
  PROVE  k \in Scalars /\ PublicKey[k] = Multiple(k)
<1>1. k \in Scalars
  BY PlanAssumption, CurveAssumption DEF Keys, Scalars
<1>2. PublicKey[k] = ScalarMultiply(k)
  BY DEF PublicKey
<1>3. QED
  BY <1>1, <1>2, ScalarMultiplyExact

LEMMA SplitOfChunk ==
  ASSUME NEW o \in Ordinals, NEW p \in SplitInterval(Chunk(o))
  PROVE  /\ p \in Parts
         /\ p.first \in Keys /\ p.last \in Keys /\ p.first <= p.last
         /\ KeysOf(p) \subseteq Block(o) /\ KeysOf(p) \subseteq Keys
<1>0. FirstKey \in Nat /\ LastKey \in Nat
  BY PlanAssumption
<1>1. p \in Parts
  BY DEF Parts, Ordinals
<1>2. /\ Chunk(o).first \in Keys /\ Chunk(o).last \in Keys
      /\ Chunk(o).first <= Chunk(o).last
  BY ChunkFacts
<1>3. /\ Chunk(o).first \in Nat /\ Chunk(o).last \in Nat
      /\ FirstKey <= Chunk(o).first /\ Chunk(o).last <= LastKey
  BY <1>0, <1>2 DEF Keys
<1>4. /\ p.first \in Nat /\ p.last \in Nat /\ p.first <= p.last
      /\ Chunk(o).first <= p.first /\ p.last <= Chunk(o).last
  BY <1>2, <1>3, SplitExact
<1>5. KeysOf(p) \subseteq Block(o)
  BY <1>3, <1>4 DEF KeysOf, Block
<1>6. p.first \in Keys /\ p.last \in Keys
  BY <1>0, <1>3, <1>4 DEF Keys
<1>7. QED
  BY <1>1, <1>4, <1>5, <1>6, ChunksPartition

\* The points of a part are the public keys of its keys, in order.
LEMMA PartPoints ==
  ASSUME NEW p \in Parts
  PROVE  /\ p.first \in Keys /\ p.last \in Keys /\ p.first <= p.last
         /\ Size(p) \in Nat \ {0} /\ p.last = p.first + Size(p) - 1
         /\ Points[p] = [i \in 1 .. Size(p) |-> Multiple(p.first + i - 1)]
<1>1. PICK o \in Ordinals : p \in SplitInterval(Chunk(o))
  BY DEF Parts, Ordinals
<1>2. p.first \in Keys /\ p.last \in Keys /\ p.first <= p.last
  BY <1>1, SplitOfChunk
<1>3. Size(p) \in Nat \ {0} /\ p.last = p.first + Size(p) - 1
  BY <1>2, PlanAssumption DEF Size, Keys
<1>4. p.first \in Scalars /\ p.first + Size(p) <= GroupN
  <2>1. p.first + Size(p) = p.last + 1 /\ p.last < GroupN
    BY <1>2, <1>3, PlanAssumption, CurveAssumption DEF Keys
  <2>2. QED
    BY <1>2, <2>1, KeyPoints, PlanAssumption, CurveAssumption DEF Keys
<1>5. Points[p] = SequentialPoints(p.first, Size(p), BatchSize)
  BY DEF Points
<1>6. BatchSize \in Nat \ {0}
  BY PlanAssumption
<1>7. QED
  BY <1>2, <1>3, <1>4, <1>5, <1>6, WalkExact

\* A part without the key of the address is walked whole; one with it, up to
\* that key, which is the one the session reports.
THEOREM PartScanned ==
  ASSUME NEW p \in Parts, target \in Targets
  PROVE  /\ Checked(p) \in Nat /\ Walked(p) \subseteq KeysOf(p)
         /\ Matches(p) = {} => /\ target \notin KeysOf(p)
                               /\ Checked(p) = Size(p) /\ Walked(p) = KeysOf(p)
         /\ Matches(p) # {} => target # None /\ p.first + Checked(p) - 1 = target
<1>. DEFINE size == Size(p)
            points == Points[p]
<1>1. /\ p.first \in Keys /\ p.last \in Keys /\ p.first <= p.last
      /\ size \in Nat \ {0} /\ p.last = p.first + size - 1
      /\ points = [i \in 1 .. size |-> Multiple(p.first + i - 1)]
  BY PartPoints
<1>2. p.first \in Nat /\ p.last \in Nat /\ FirstKey \in Nat /\ LastKey \in Nat
  BY <1>1, PlanAssumption DEF Keys
<1>. HIDE DEF size, points
<1>3. \A i \in 1 .. size : p.first + i - 1 \in Keys /\ p.first + i - 1 \in KeysOf(p)
  BY <1>1, <1>2 DEF Keys, KeysOf
<1>4. \A i \in 1 .. size : points[i] = PublicKey[p.first + i - 1]
  BY <1>1, <1>3, KeyPoints
<1>5. \A j, k \in Keys : PublicKey[j] = PublicKey[k] => j = k
  BY KeyPoints, MultipleFacts
<1>6. DOMAIN points = 1 .. size /\ Len(points) = size
  <2>1. \A i \in 1 .. size : Multiple(p.first + i - 1) \in Plane
    BY <1>3, KeyPoints, MultipleFacts
  <2>2. points \in [1 .. size -> Plane]
    BY <1>1, <2>1
  <2>3. QED
    BY <1>1, <2>2, FunctionIsSeq
<1>7. Matches(p) = {i \in 1 .. size : target # None /\ p.first + i - 1 = target}
  <2>1. Matches(p) = {i \in 1 .. size : target # None /\ points[i] = PublicKey[target]}
    BY <1>6 DEF Matches, points
  <2>2. target # None => target \in Keys
    BY TargetsAssumption
  <2>3. ASSUME NEW i \in 1 .. size, target # None
        PROVE  points[i] = PublicKey[target] <=> p.first + i - 1 = target
    BY <1>3, <1>4, <1>5, <2>2, <2>3
  <2>4. QED
    BY <2>1, <2>3
<1>8. ASSUME NEW n \in 1 .. size, Checked(p) = n
      PROVE  /\ Walked(p) \subseteq KeysOf(p)
             /\ n = size => Walked(p) = KeysOf(p)
  <2>1. Walked(p) = {k \in Keys : \E i \in 1 .. n : points[i] = PublicKey[k]}
    BY <1>8 DEF Walked, points
  <2>2. \A i \in 1 .. n : i \in 1 .. size
    BY <1>1
  <2>3. \A k \in Keys : (\E i \in 1 .. n : points[i] = PublicKey[k])
                           <=> \E i \in 1 .. n : k = p.first + i - 1
    BY <1>3, <1>4, <1>5, <2>2
  <2>4. Walked(p) \subseteq KeysOf(p)
    BY <1>3, <2>1, <2>2, <2>3
  <2>5. ASSUME n = size, NEW k \in KeysOf(p) PROVE k \in Walked(p)
    <3>1. k - p.first + 1 \in 1 .. n /\ k = p.first + (k - p.first + 1) - 1 /\ k \in Keys
      BY <1>1, <1>2, <2>5 DEF KeysOf, Keys
    <3>2. QED
      BY <2>1, <2>3, <3>1
  <2>6. QED
    BY <2>4, <2>5
<1>9. CASE Matches(p) = {}
  <2>1. Checked(p) = size /\ size \in 1 .. size
    BY <1>1, <1>6, <1>9 DEF Checked, points
  <2>2. target \notin KeysOf(p)
    <3>1. SUFFICES ASSUME target \in KeysOf(p) PROVE FALSE
      OBVIOUS
    <3>2. target \in Keys /\ target # None
      BY <1>1, <1>2, <3>1, TargetsAssumption DEF KeysOf, Keys
    <3>3. /\ target - p.first + 1 \in 1 .. size
          /\ p.first + (target - p.first + 1) - 1 = target
      <4>1. target \in Int /\ p.first <= target /\ target <= p.last
        BY <1>2, <3>1 DEF KeysOf
      <4>2. size \in Int /\ p.last = p.first + size - 1 /\ p.first \in Int
        BY <1>1, <1>2
      <4>3. QED
        BY <4>1, <4>2
    <3>4. QED
      BY <1>7, <1>9, <3>2, <3>3
  <2>3. QED
    BY <1>1, <1>8, <1>9, <2>1, <2>2 DEF size
<1>10. CASE Matches(p) # {}
  <2>. DEFINE First(i) == \A j \in Matches(p) : i <= j
  <2>1. Checked(p) = CHOOSE i \in Matches(p) : First(i)
    BY <1>10 DEF Checked
  <2>2. Matches(p) \subseteq Nat
    BY <1>1, <1>7
  <2>3. \E i \in Matches(p) : First(i)
    BY <1>10, <2>2, LeastMember
  <2>4. Checked(p) \in Matches(p)
    <3>. HIDE DEF First
    <3>1. QED
      BY <2>1, <2>3
  <2>5. Checked(p) \in 1 .. size /\ target # None /\ p.first + Checked(p) - 1 = target
    BY <1>7, <2>4
  <2>6. QED
    BY <1>8, <1>10, <2>5
<1>11. QED
  BY <1>9, <1>10

\* What a checkpoint claims, and what one chunk more adds to it.
LEMMA CoversFacts ==
  ASSUME NEW s \in Shards, NEW c, c.next \in Nat, c.next <= ChunksForShard(s)
  PROVE  /\ \A k : k \in Covers(c, s) <=> \E i \in 0 .. c.next - 1 : k \in Block(Ordinal(s, i))
         /\ \A i \in 0 .. c.next - 1 : Ordinal(s, i) \in Ordinals
         /\ Covers(c, s) \subseteq Keys /\ IsFiniteSet(Covers(c, s))
<1>1. Covers(c, s) = UNION {Block(Ordinal(s, i)) : i \in 0 .. c.next - 1}
  BY DEF Covers, Block, KeysOf
<1>2. \A i \in 0 .. c.next - 1 : Ordinal(s, i) \in Ordinals
  <2>1. SUFFICES ASSUME NEW i \in 0 .. c.next - 1 PROVE Ordinal(s, i) \in Ordinals
    OBVIOUS
  <2>2. ChunksForShard(s) \in Nat
    BY SharesExact, TotalFacts
  <2>3. i \in Nat /\ i < ChunksForShard(s)
    BY <2>2
  <2>4. Ordinal(s, i) \in Nat /\ Ordinal(s, i) < TotalChunks
    BY <2>3, SharesExact
  <2>5. QED
    BY <2>4, TotalFacts DEF Ordinals
<1>3. Covers(c, s) \subseteq Keys
  BY <1>1, <1>2, ChunksPartition
<1>4. IsFiniteSet(Keys)
  BY FS_Interval, PlanAssumption DEF Keys
<1>5. QED
  BY <1>1, <1>2, <1>3, <1>4, FS_Subset

LEMMA CoversOneMore ==
  ASSUME NEW s \in Shards, NEW c, c.next \in Nat, c.next <= ChunksForShard(s),
         Ordinal(s, c.next) < TotalChunks, NEW d, d.next = c.next + 1
  PROVE  /\ c.next + 1 <= ChunksForShard(s) /\ Ordinal(s, c.next) \in Ordinals
         /\ Covers(d, s) = Covers(c, s) \cup Block(Ordinal(s, c.next))
         /\ Cardinality(Covers(d, s))
              = Cardinality(Covers(c, s)) + Cardinality(Block(Ordinal(s, c.next)))
<1>. DEFINE o == Ordinal(s, c.next)
<1>1. c.next < ChunksForShard(s) /\ o \in Nat /\ ChunksForShard(s) \in Nat
  <2>1. PICK n \in Nat : n = c.next
    OBVIOUS
  <2>2. Ordinal(s, n) \in Nat /\ (n < ChunksForShard(s) <=> Ordinal(s, n) < TotalChunks)
    BY SharesExact
  <2>3. ChunksForShard(s) \in 0 .. TotalChunks
    BY SharesExact
  <2>4. QED
    BY <2>1, <2>2, <2>3, TotalFacts
<1>2. c.next + 1 <= ChunksForShard(s) /\ o \in Ordinals
  BY <1>1, TotalFacts DEF Ordinals
<1>3. d.next \in Nat /\ d.next <= ChunksForShard(s)
  BY <1>2
<1>4. \A k : k \in Covers(c, s) <=> \E i \in 0 .. c.next - 1 : k \in Block(Ordinal(s, i))
  BY CoversFacts
<1>5. \A k : k \in Covers(d, s) <=> \E i \in 0 .. d.next - 1 : k \in Block(Ordinal(s, i))
  BY <1>3, CoversFacts
<1>6. \A i : i \in 0 .. d.next - 1 <=> i \in 0 .. c.next - 1 \/ i = c.next
  OBVIOUS
<1>. HIDE DEF o
<1>7. Covers(d, s) = Covers(c, s) \cup Block(o)
  <2>1. \A k : k \in Covers(d, s) <=> k \in Covers(c, s) \/ k \in Block(o)
    BY <1>4, <1>5, <1>6 DEF o
  <2>2. QED
    BY <2>1
<1>8. Covers(c, s) \cap Block(o) = {}
  <2>1. SUFFICES ASSUME NEW k, k \in Covers(c, s), k \in Block(o) PROVE FALSE
    OBVIOUS
  <2>2. PICK i \in 0 .. c.next - 1 : k \in Block(Ordinal(s, i))
    BY <1>4, <2>1
  <2>3. Ordinal(s, i) \in Ordinals
    BY CoversFacts
  <2>4. Ordinal(s, i) = o
    BY <1>2, <2>1, <2>2, <2>3, ChunksPartition
  <2>0. PICK n \in Nat : n = c.next
    OBVIOUS
  <2>5. i \in Nat /\ i # n /\ n = c.next
    <3>1. i \in 0 .. n - 1
      BY <2>0
    <3>2. i \in Nat /\ i # n
      BY <3>1
    <3>3. QED
      BY <2>0, <3>2
  <2>6. Ordinal(s, i) = Ordinal(s, n)
    BY <2>4, <2>5 DEF o
  <2>7. i = n
    <3>1. \A i1, i2 \in Nat : Ordinal(s, i1) = Ordinal(s, i2) => i1 = i2
      BY SharesExact
    <3>. HIDE DEF o
    <3>2. QED
      BY <2>5, <2>6, <3>1
  <2>8. QED
    BY <2>5, <2>7
<1>9. IsFiniteSet(Covers(c, s)) /\ IsFiniteSet(Block(o))
  <2>1. IsFiniteSet(Keys)
    BY FS_Interval, PlanAssumption DEF Keys
  <2>2. Block(o) \subseteq Keys
    BY <1>2, ChunksPartition
  <2>3. QED
    BY <2>1, <2>2, CoversFacts, FS_Subset
<1>10. Cardinality(Covers(c, s) \cup Block(o))
         = Cardinality(Covers(c, s)) + Cardinality(Block(o))
  <2>1. /\ Cardinality(Covers(c, s) \cup Block(o))
             = Cardinality(Covers(c, s)) + Cardinality(Block(o))
                 - Cardinality(Covers(c, s) \cap Block(o))
        /\ Cardinality(Covers(c, s)) \in Nat /\ Cardinality(Block(o)) \in Nat
    BY <1>9, FS_Union, FS_CardinalityType
  <2>2. Cardinality(Covers(c, s) \cap Block(o)) = 0
    BY <1>8, FS_EmptySet
  <2>3. QED
    BY <2>1, <2>2
<1>11. QED
  BY <1>2, <1>7, <1>10 DEF o

-----------------------------------------------------------------------------
(***************************************************************************)
(* The inductive invariant.  A file claims its first chunks; the chunk at  *)
(* its cursor is in the hands of a session or, with a key found, was.      *)
(***************************************************************************)
Claimed(s) == Covers(file[s], s)
Cursor(s) == Ordinal(s, file[s].next)
Ended(s) == SplitInterval(Chunk(Cursor(s))) \ parts[s]
EndedKeys(s) == UNION {KeysOf(p) : p \in Ended(s)}

FileOK(s) ==
  file[s] # None =>
    /\ Claimed(s) \subseteq scanned \ {target}
    /\ file[s].found \in {None, target}
    /\ file[s].found = None => file[s].keys = Cardinality(Claimed(s))

ReadyOK(s) ==
  session[s] = "ready" =>
    file[s] # None /\ memory[s] = file[s] /\ file[s].found = None

ScanningOK(s) ==
  session[s] = "scanning" =>
    /\ file[s] # None /\ file[s].found = None
    /\ memory[s].next = file[s].next /\ memory[s].found = None
    /\ Cursor(s) < TotalChunks
    /\ parts[s] \subseteq SplitInterval(Chunk(Cursor(s)))
    /\ hit[s] = None =>
         /\ EndedKeys(s) \subseteq scanned \ {target}
         /\ memory[s].keys = file[s].keys + Cardinality(EndedKeys(s))

RestingOK(s) == session[s] # "scanning" => parts[s] = {} /\ hit[s] = None

OverOK(s) ==
  session[s] = "over" =>
    file[s] # None /\ (file[s].found # None \/ Cursor(s) >= TotalChunks)

ShardOK(s) ==
  FileOK(s) /\ ReadyOK(s) /\ ScanningOK(s) /\ RestingOK(s) /\ OverOK(s)

\* A key that was scanned is claimed, or belongs to the chunk at the cursor and
\* to none of the parts that are still to be scanned.
AccountedBy(s, k) ==
  /\ file[s] # None
  /\ \/ k \in Claimed(s)
     \/ /\ Cursor(s) < TotalChunks /\ k \in Block(Cursor(s))
        /\ \/ session[s] = "scanning" /\ \A p \in parts[s] : k \notin KeysOf(p)
           \/ file[s].found # None

NeverTwice ==
  crashes = 0 => again = {} /\ \A k \in scanned : \E s \in Shards : AccountedBy(s, k)

IInv == TypeOK /\ (\A s \in Shards : ShardOK(s)) /\ NeverTwice

\* A file that is there is not None.
LEMMA CheckpointFacts ==
  /\ \A c \in Checkpoints : c # None /\ c.next \in Nat /\ c.keys \in Nat
  /\ Fresh \in Checkpoints /\ Fresh.next = 0 /\ Fresh.found = None /\ Fresh.keys = 0
<1>1. Checkpoints \subseteq [next : Nat, keys : Nat, found : Keys \cup {None}]
  BY TotalFacts DEF Checkpoints
<1>2. Fresh \in Checkpoints /\ Fresh.next = 0 /\ Fresh.found = None /\ Fresh.keys = 0
  BY TotalFacts DEF Checkpoints, Fresh
<1>3. QED
  BY <1>1, <1>2, TargetsAssumption

LEMMA ShardFrame ==
  ASSUME NEW s \in Shards, ShardOK(s), target' = target, scanned \subseteq scanned',
         file'[s] = file[s], session'[s] = session[s], memory'[s] = memory[s],
         parts'[s] = parts[s], hit'[s] = hit[s]
  PROVE  ShardOK(s)'
<1>1. Claimed(s)' = Claimed(s) /\ Cursor(s)' = Cursor(s)
  BY DEF Claimed, Cursor
<1>2. Ended(s)' = Ended(s)
  BY <1>1 DEF Ended
<1>3. EndedKeys(s)' = EndedKeys(s)
  BY <1>2 DEF EndedKeys
<1>4. FileOK(s)'
  BY <1>1 DEF ShardOK, FileOK
<1>5. ReadyOK(s)' /\ RestingOK(s)' /\ OverOK(s)'
  BY <1>1 DEF ShardOK, ReadyOK, RestingOK, OverOK
<1>6. ScanningOK(s)'
  BY <1>1, <1>3 DEF ShardOK, ScanningOK
<1>7. QED
  BY <1>4, <1>5, <1>6 DEF ShardOK

LEMMA AccountedFrame ==
  ASSUME NEW s, NEW k, AccountedBy(s, k),
         file[s] # None => file'[s] = file[s],
         session[s] = "scanning" => session'[s] = "scanning" /\ parts'[s] \subseteq parts[s]
  PROVE  AccountedBy(s, k)'
<1>1. file[s] # None /\ file'[s] = file[s]
  BY DEF AccountedBy
<1>2. Claimed(s)' = Claimed(s) /\ Cursor(s)' = Cursor(s)
  BY <1>1 DEF Claimed, Cursor
<1>3. QED
  BY <1>1, <1>2 DEF AccountedBy

\* The keys scanned stay accounted for while nothing new is scanned and no file
\* is written over.
LEMMA NeverTwiceFrame ==
  ASSUME NeverTwice, UNCHANGED <<scanned, again, crashes>>,
         \A s \in Shards : /\ file[s] # None => file'[s] = file[s]
                           /\ session[s] = "scanning" =>
                                session'[s] = "scanning" /\ parts'[s] \subseteq parts[s]
  PROVE  NeverTwice'
<1>1. SUFFICES ASSUME crashes = 0, NEW k \in scanned
               PROVE  \E s \in Shards : AccountedBy(s, k)'
  BY DEF NeverTwice
<1>2. PICK s \in Shards : AccountedBy(s, k)
  BY <1>1 DEF NeverTwice
<1>3. AccountedBy(s, k)'
  BY <1>2, AccountedFrame
<1>4. QED
  BY <1>3

LEMMA InitIInv == Init => IInv
<1>1. SUFFICES ASSUME Init PROVE IInv
  OBVIOUS
<1>2. TypeOK
  BY <1>1, PlanAssumption DEF Init, TypeOK, Checkpoints
<1>3. \A s \in Shards : ShardOK(s)
  BY <1>1 DEF Init, ShardOK, FileOK, ReadyOK, ScanningOK, RestingOK, OverOK
<1>4. NeverTwice
  BY <1>1 DEF Init, NeverTwice
<1>5. QED
  BY <1>2, <1>3, <1>4 DEF IInv

LEMMA OpenStep ==
  ASSUME IInv, NEW s \in Shards, Open(s)
  PROVE  IInv'
<1>0. TypeOK /\ ShardOK(s) /\ NeverTwice /\ session[s] = "off" /\ memory[s] = None
  BY DEF IInv, TypeOK, Open
<1>. DEFINE c == IF file[s] = None THEN Fresh ELSE file[s]
<1>1. /\ file' = [file EXCEPT ![s] = c] /\ file'[s] = c /\ c \in Checkpoints
      /\ UNCHANGED <<target, parts, hit, scanned, again, crashes>>
      /\ file[s] # None => c = file[s]
  BY <1>0, CheckpointFacts DEF TypeOK, Open
<1>2. c.next <= ChunksForShard(s)
  <2>1. ChunksForShard(s) \in Nat
    BY SharesExact, TotalFacts
  <2>2. QED
    BY <1>0, <2>1, CheckpointFacts DEF TypeOK
<1>. HIDE DEF c
<1>3. c # None
  BY <1>1, CheckpointFacts
<1>4. \/ /\ c.found # None /\ session' = [session EXCEPT ![s] = "over"] /\ memory' = memory
      \/ /\ c.found = None /\ session' = [session EXCEPT ![s] = "ready"]
         /\ memory' = [memory EXCEPT ![s] = c]
  BY <1>1 DEF Open
<1>5. TypeOK'
  <2>1. /\ target' \in Targets /\ hit' \in [Shards -> {target', None}]
        /\ scanned' \subseteq Keys /\ again' \subseteq scanned' /\ crashes' \in 0 .. MaxCrashes
        /\ parts' \in [Shards -> SUBSET Parts]
        /\ file' \in [Shards -> Checkpoints \cup {None}]
        /\ \A t \in Shards : file'[t] # None => file'[t].next <= ChunksForShard(t)
    BY <1>0, <1>1, <1>2 DEF TypeOK
  <2>2. /\ session' \in [Shards -> {"off", "ready", "scanning", "over"}]
        /\ memory' \in [Shards -> Checkpoints \cup {None}]
        /\ \A t \in Shards : session'[t] \in {"ready", "scanning"} <=> memory'[t] # None
        /\ \A t \in Shards : parts'[t] # {} => session'[t] = "scanning"
    BY <1>0, <1>1, <1>3, <1>4 DEF TypeOK
  <2>3. QED
    BY <2>1, <2>2 DEF TypeOK
<1>6. ShardOK(s)'
  <2>1. session'[s] \in {"ready", "over"}
        /\ (session'[s] = "ready" => c.found = None /\ memory'[s] = c)
        /\ (session'[s] = "over" => c.found # None)
    BY <1>0, <1>4 DEF TypeOK
  <2>2. parts'[s] = {} /\ hit'[s] = None
    BY <1>0, <1>1 DEF ShardOK, RestingOK
  <2>3. FileOK(s)'
    <3>1. CASE file[s] = None
      <4>1. c = Fresh /\ Covers(c, s) = {}
        <5>1. c = Fresh
          BY <3>1 DEF c
        <5>2. \A k : k \notin Covers(c, s)
          BY <1>2, <5>1, CoversFacts, CheckpointFacts
        <5>3. QED
          BY <5>1, <5>2
      <4>2. Cardinality({}) = 0
        BY FS_EmptySet
      <4>3. QED
        BY <1>1, <4>1, <4>2, CheckpointFacts DEF FileOK, Claimed
    <3>2. CASE file[s] # None
      BY <1>0, <1>1, <3>2 DEF FileOK, ShardOK, Claimed
    <3>3. QED
      BY <3>1, <3>2
  <2>4. QED
    BY <1>1, <1>3, <2>1, <2>2, <2>3
       DEF ShardOK, ReadyOK, ScanningOK, RestingOK, OverOK
<1>7. \A t \in Shards : t # s => ShardOK(t)'
  <2>1. SUFFICES ASSUME NEW t \in Shards, t # s PROVE ShardOK(t)'
    OBVIOUS
  <2>2. /\ file'[t] = file[t] /\ session'[t] = session[t] /\ memory'[t] = memory[t]
        /\ parts'[t] = parts[t] /\ hit'[t] = hit[t] /\ ShardOK(t)
    BY <1>0, <1>1, <1>4, <2>1 DEF TypeOK, IInv
  <2>3. QED
    BY <1>1, <2>2, ShardFrame
<1>8. NeverTwice'
  <2>1. \A t \in Shards : /\ file[t] # None => file'[t] = file[t]
                          /\ session[t] = "scanning" =>
                               session'[t] = "scanning" /\ parts'[t] \subseteq parts[t]
    BY <1>0, <1>1, <1>4 DEF TypeOK
  <2>2. QED
    BY <1>0, <1>1, <2>1, NeverTwiceFrame
<1>9. QED
  BY <1>5, <1>6, <1>7, <1>8 DEF IInv

LEMMA TakeStep ==
  ASSUME IInv, NEW s \in Shards, Take(s)
  PROVE  IInv'
<1>0. TypeOK /\ ShardOK(s) /\ NeverTwice /\ session[s] = "ready"
  BY DEF IInv, Take
<1>1. /\ UNCHANGED <<target, file, memory, hit, scanned, again, crashes>>
      /\ session' = [session EXCEPT ![s] = "scanning"]
      /\ parts' = [parts EXCEPT ![s] = SplitInterval(Chunk(Ordinal(s, memory[s].next)))]
  BY DEF Take
<1>2. /\ file[s] # None /\ memory[s] = file[s] /\ file[s].found = None
      /\ hit[s] = None /\ Cursor(s) < TotalChunks /\ Ordinal(s, memory[s].next) = Cursor(s)
  BY <1>0 DEF ShardOK, ReadyOK, RestingOK, Take, Cursor
<1>3. /\ session'[s] = "scanning" /\ parts'[s] = SplitInterval(Chunk(Cursor(s)))
      /\ parts' \in [Shards -> SUBSET Parts]
  <2>1. Cursor(s) \in Ordinals
    <3>1. file[s] \in Checkpoints
      BY <1>0, <1>2 DEF TypeOK
    <3>2. Cursor(s) \in Nat
      BY <3>1, CheckpointFacts, SharesExact DEF Cursor
    <3>3. QED
      BY <1>2, <3>2, TotalFacts DEF Ordinals
  <2>2. SplitInterval(Chunk(Cursor(s))) \subseteq Parts
    BY <2>1, SplitOfChunk
  <2>3. QED
    BY <1>0, <1>1, <1>2, <2>2 DEF TypeOK
<1>4. TypeOK'
  <2>1. session' \in [Shards -> {"off", "ready", "scanning", "over"}]
    BY <1>0, <1>1 DEF TypeOK
  <2>2. ASSUME NEW t \in Shards
        PROVE  /\ session'[t] \in {"ready", "scanning"} <=> memory'[t] # None
               /\ parts'[t] # {} => session'[t] = "scanning"
    <3>1. CASE t = s
      BY <1>0, <1>1, <1>3, <3>1 DEF TypeOK
    <3>2. CASE t # s
      <4>1. session'[t] = session[t] /\ memory'[t] = memory[t]
        BY <1>0, <1>1, <3>2 DEF TypeOK
      <4>2. parts'[t] = parts[t]
        BY <1>1, <3>2
      <4>3. QED
        BY <1>0, <4>1, <4>2 DEF TypeOK
    <3>3. QED
      BY <3>1, <3>2
  <2>3. QED
    BY <1>0, <1>1, <1>3, <2>1, <2>2 DEF TypeOK
<1>5. ShardOK(s)'
  <2>1. Cursor(s)' = Cursor(s) /\ FileOK(s)'
    BY <1>0, <1>1 DEF ShardOK, FileOK, Claimed, Cursor
  <2>2. Ended(s)' = {}
    BY <1>3, <2>1 DEF Ended
  <2>3. EndedKeys(s)' = {}
    BY <2>2 DEF EndedKeys
  <2>4. memory'[s].keys = file'[s].keys + Cardinality({})
    <3>1. memory'[s] = file'[s] /\ file'[s].keys \in Nat
      BY <1>0, <1>1, <1>2, CheckpointFacts DEF TypeOK
    <3>2. QED
      BY <3>1, FS_EmptySet
  <2>5. ScanningOK(s)'
    BY <1>1, <1>2, <1>3, <2>1, <2>3, <2>4 DEF ScanningOK
  <2>6. QED
    BY <1>3, <2>1, <2>5 DEF ShardOK, ReadyOK, RestingOK, OverOK
<1>6. \A t \in Shards : t # s => ShardOK(t)'
  <2>1. SUFFICES ASSUME NEW t \in Shards, t # s PROVE ShardOK(t)'
    OBVIOUS
  <2>2. /\ file'[t] = file[t] /\ session'[t] = session[t] /\ memory'[t] = memory[t]
        /\ parts'[t] = parts[t] /\ hit'[t] = hit[t] /\ ShardOK(t)
    BY <1>0, <1>1, <2>1 DEF TypeOK, IInv
  <2>3. QED
    BY <1>1, <2>2, ShardFrame
<1>7. NeverTwice'
  <2>1. \A t \in Shards : /\ file[t] # None => file'[t] = file[t]
                          /\ session[t] = "scanning" =>
                               session'[t] = "scanning" /\ parts'[t] \subseteq parts[t]
    BY <1>0, <1>1 DEF TypeOK
  <2>2. QED
    BY <1>0, <1>1, <2>1, NeverTwiceFrame
<1>8. QED
  BY <1>4, <1>5, <1>6, <1>7 DEF IInv

LEMMA ExhaustedStep ==
  ASSUME IInv, NEW s \in Shards, Exhausted(s)
  PROVE  IInv'
<1>0. TypeOK /\ ShardOK(s) /\ NeverTwice /\ session[s] = "ready"
  BY DEF IInv, Exhausted
<1>1. /\ UNCHANGED <<target, file, parts, hit, scanned, again, crashes>>
      /\ session' = [session EXCEPT ![s] = "over"]
      /\ memory' = [memory EXCEPT ![s] = None]
  BY DEF Exhausted
<1>2. /\ file[s] # None /\ memory[s] = file[s]
      /\ hit[s] = None /\ parts[s] = {} /\ Cursor(s) >= TotalChunks
  BY <1>0 DEF ShardOK, ReadyOK, RestingOK, Exhausted, Cursor
<1>3. TypeOK'
  BY <1>0, <1>1, <1>2 DEF TypeOK
<1>4. ShardOK(s)'
  <2>1. session'[s] = "over"
    BY <1>0, <1>1 DEF TypeOK
  <2>2. Cursor(s)' = Cursor(s) /\ FileOK(s)'
    BY <1>0, <1>1 DEF ShardOK, FileOK, Claimed, Cursor
  <2>3. QED
    BY <1>1, <1>2, <2>1, <2>2 DEF ShardOK, ReadyOK, ScanningOK, RestingOK, OverOK
<1>5. \A t \in Shards : t # s => ShardOK(t)'
  <2>1. SUFFICES ASSUME NEW t \in Shards, t # s PROVE ShardOK(t)'
    OBVIOUS
  <2>2. /\ file'[t] = file[t] /\ session'[t] = session[t] /\ memory'[t] = memory[t]
        /\ parts'[t] = parts[t] /\ hit'[t] = hit[t] /\ ShardOK(t)
    BY <1>0, <1>1, <2>1 DEF TypeOK, IInv
  <2>3. QED
    BY <1>1, <2>2, ShardFrame
<1>6. NeverTwice'
  <2>1. \A t \in Shards : /\ file[t] # None => file'[t] = file[t]
                          /\ session[t] = "scanning" =>
                               session'[t] = "scanning" /\ parts'[t] \subseteq parts[t]
    BY <1>0, <1>1 DEF TypeOK
  <2>2. QED
    BY <1>0, <1>1, <2>1, NeverTwiceFrame
<1>7. QED
  BY <1>3, <1>4, <1>5, <1>6 DEF IInv

\* The parts of a chunk have its keys, each in one of them.
LEMMA PartsApart ==
  ASSUME NEW o \in Ordinals
  PROVE  /\ \A k \in Block(o) : \E p \in SplitInterval(Chunk(o)) : k \in KeysOf(p)
         /\ \A p1, p2 \in SplitInterval(Chunk(o)) : \A k :
              k \in KeysOf(p1) /\ k \in KeysOf(p2) => p1 = p2
<1>0. FirstKey \in Nat /\ LastKey \in Nat
  BY PlanAssumption
<1>1. /\ Chunk(o).first \in Keys /\ Chunk(o).last \in Keys
      /\ Chunk(o).first <= Chunk(o).last
  BY ChunkFacts
<1>2. Chunk(o).first \in Nat /\ Chunk(o).last \in Nat
  BY <1>0, <1>1 DEF Keys
<1>3. PICK interval : interval = Chunk(o)
  OBVIOUS
<1>4. /\ \A k \in KeysOf(interval) : \E p \in SplitInterval(interval) : k \in KeysOf(p)
      /\ \A p1, p2 \in SplitInterval(interval) : \A k :
           k \in KeysOf(p1) /\ k \in KeysOf(p2) => p1 = p2
  BY <1>1, <1>2, <1>3, SplitExact
<1>5. QED
  BY <1>3, <1>4 DEF Block

\* What the invariant says of a session that is scanning, and of its next part.
LEMMA ScanningFacts ==
  ASSUME IInv, NEW s \in Shards, session[s] = "scanning"
  PROVE  /\ file[s] \in Checkpoints /\ file[s].next \in Nat /\ file[s].keys \in Nat
         /\ file[s].next <= ChunksForShard(s) /\ file[s].found = None
         /\ memory[s] \in Checkpoints /\ memory[s].next = file[s].next
         /\ memory[s].found = None /\ memory[s].keys \in Nat
         /\ Cursor(s) \in Ordinals /\ Cursor(s) < TotalChunks
         /\ parts[s] \subseteq SplitInterval(Chunk(Cursor(s)))
<1>1. TypeOK /\ ScanningOK(s)
  BY DEF IInv, ShardOK
<1>2. file[s] \in Checkpoints /\ memory[s] \in Checkpoints
  BY <1>1 DEF TypeOK, ScanningOK
<1>3. /\ file[s].next \in Nat /\ file[s].keys \in Nat /\ memory[s].keys \in Nat
      /\ file[s].next <= ChunksForShard(s)
  BY <1>1, <1>2, CheckpointFacts DEF TypeOK, ScanningOK
<1>4. Cursor(s) \in Nat
  <2>1. PICK n \in Nat : n = file[s].next
    BY <1>3
  <2>2. QED
    BY <2>1, SharesExact DEF Cursor
<1>5. QED
  BY <1>1, <1>2, <1>3, <1>4, TotalFacts DEF ScanningOK, Ordinals

\* A key of the chunk a session scans is claimed by no file, and another session
\* has nothing to do with it.
LEMMA OnlyTheScanner ==
  ASSUME IInv, NEW s \in Shards, session[s] = "scanning",
         NEW k \in Block(Cursor(s)), NEW t \in Shards, AccountedBy(t, k)
  PROVE  t = s /\ \A p \in parts[s] : k \notin KeysOf(p)
<1>1. /\ file[s].next \in Nat /\ Cursor(s) \in Ordinals /\ file[s].found = None
  BY ScanningFacts
<1>2. file[t] # None /\ file[t].next \in Nat /\ file[t].next <= ChunksForShard(t)
  <2>1. TypeOK /\ file[t] # None
    BY DEF IInv, AccountedBy
  <2>2. QED
    BY <2>1, CheckpointFacts DEF TypeOK
<1>3. PICK m \in Nat, n \in Nat : m = file[s].next /\ n = file[t].next
  BY <1>1, <1>2
<1>4. \A i \in Nat : Ordinal(t, i) = Ordinal(s, m) => t = s /\ i = m
  BY SharesExact
<1>5. CASE k \in Claimed(t)
  <2>1. PICK i \in 0 .. file[t].next - 1 : k \in Block(Ordinal(t, i))
    BY <1>2, <1>5, CoversFacts DEF Claimed
  <2>2. Ordinal(t, i) \in Ordinals
    BY <1>2, CoversFacts
  <2>3. Ordinal(t, i) = Cursor(s)
    BY <1>1, <2>1, <2>2, ChunksPartition
  <2>4. i \in Nat /\ i < n
    BY <1>3
  <2>5. t = s /\ i = m
    BY <1>3, <1>4, <2>3, <2>4 DEF Cursor
  <2>6. QED
    BY <1>3, <2>4, <2>5
<1>6. CASE Cursor(t) < TotalChunks /\ k \in Block(Cursor(t))
  <2>1. Ordinal(t, n) \in Nat
    BY SharesExact
  <2>2. Cursor(t) \in Ordinals
    BY <1>3, <1>6, <2>1, TotalFacts DEF Cursor, Ordinals
  <2>3. Cursor(t) = Cursor(s)
    BY <1>1, <1>6, <2>2, ChunksPartition
  <2>4. t = s
    BY <1>3, <1>4, <2>3 DEF Cursor
  <2>5. CASE k \in Claimed(t)
    BY <1>5, <2>5
  <2>6. CASE k \notin Claimed(t)
    BY <1>1, <2>4, <2>6 DEF AccountedBy
  <2>7. QED
    BY <2>5, <2>6
<1>7. QED
  BY <1>5, <1>6 DEF AccountedBy

LEMMA ScanPartStep ==
  ASSUME IInv, NEW s \in Shards, NEW p \in parts[s], ScanPart(s, p)
  PROVE  IInv'
<1>0. TypeOK /\ ShardOK(s) /\ NeverTwice /\ session[s] = "scanning" /\ target \in Targets
  BY DEF IInv, TypeOK, ScanPart
<1>1. /\ UNCHANGED <<target, file, session, crashes>>
      /\ parts' = [parts EXCEPT ![s] = @ \ {p}]
      /\ scanned' = scanned \cup Walked(p)
      /\ again' = again \cup (Walked(p) \cap scanned)
      /\ memory' = [memory EXCEPT ![s].keys = @ + Checked(p)]
      /\ hit' = [hit EXCEPT ![s] = IF Matches(p) # {} THEN p.first + Checked(p) - 1 ELSE @]
  BY DEF ScanPart
<1>2. /\ file[s] \in Checkpoints /\ file[s].next \in Nat /\ file[s].keys \in Nat
      /\ file[s].found = None
      /\ memory[s] \in Checkpoints /\ memory[s].next = file[s].next
      /\ memory[s].found = None /\ memory[s].keys \in Nat
      /\ Cursor(s) \in Ordinals /\ Cursor(s) < TotalChunks
      /\ parts[s] \subseteq SplitInterval(Chunk(Cursor(s)))
  BY <1>0, ScanningFacts
<1>3. p \in SplitInterval(Chunk(Cursor(s)))
  BY <1>2
<1>4. /\ p \in Parts /\ p.first \in Keys /\ p.last \in Keys /\ p.first <= p.last
      /\ KeysOf(p) \subseteq Block(Cursor(s)) /\ KeysOf(p) \subseteq Keys
  BY <1>2, <1>3, SplitOfChunk
<1>5. /\ Checked(p) \in Nat /\ Walked(p) \subseteq KeysOf(p)
      /\ Matches(p) = {} => /\ target \notin KeysOf(p)
                            /\ Checked(p) = Size(p) /\ Walked(p) = KeysOf(p)
      /\ Matches(p) # {} => target # None /\ p.first + Checked(p) - 1 = target
  BY <1>0, <1>4, PartScanned
<1>6. /\ parts'[s] = parts[s] \ {p} /\ session'[s] = "scanning" /\ file'[s] = file[s]
      /\ memory'[s] = [memory[s] EXCEPT !.keys = memory[s].keys + Checked(p)]
      /\ hit'[s] = IF Matches(p) # {} THEN target ELSE hit[s]
  BY <1>0, <1>1, <1>5 DEF TypeOK
<1>7. /\ memory'[s] \in Checkpoints /\ memory'[s].next = memory[s].next
      /\ memory'[s].found = None /\ memory'[s].keys = memory[s].keys + Checked(p)
      /\ memory'[s] # None
  <2>1. PICK n \in Nat : n = memory[s].keys + Checked(p)
    BY <1>2, <1>5
  <2>2. memory'[s] = [memory[s] EXCEPT !.keys = n]
    BY <1>6, <2>1
  <2>3. memory'[s] \in Checkpoints
    BY <1>2, <2>2 DEF Checkpoints
  <2>4. /\ memory'[s].next = memory[s].next /\ memory'[s].found = memory[s].found
        /\ memory'[s].keys = n
    BY <1>2, <2>2 DEF Checkpoints
  <2>5. memory'[s] # None
    BY <2>3, CheckpointFacts
  <2>6. QED
    BY <1>2, <2>1, <2>3, <2>4, <2>5
<1>8. \A t \in Shards : t # s => /\ memory'[t] = memory[t] /\ parts'[t] = parts[t]
                                 /\ hit'[t] = hit[t]
  BY <1>0, <1>1 DEF TypeOK
<1>9. scanned \subseteq scanned' /\ scanned' \subseteq Keys /\ again' \subseteq scanned'
  BY <1>0, <1>1, <1>4, <1>5 DEF TypeOK
<1>10. TypeOK'
  <2>1. parts' \in [Shards -> SUBSET Parts] /\ \A t \in Shards : parts'[t] \subseteq parts[t]
    BY <1>0, <1>1 DEF TypeOK
  <2>2. hit' \in [Shards -> {target', None}]
    <3>1. (IF Matches(p) # {} THEN p.first + Checked(p) - 1 ELSE hit[s]) \in {target, None}
      BY <1>0, <1>5 DEF TypeOK
    <3>2. QED
      BY <1>0, <1>1, <3>1 DEF TypeOK
  <2>3. memory' \in [Shards -> Checkpoints \cup {None}]
    <3>1. memory' = [memory EXCEPT ![s] = memory'[s]]
      BY <1>0, <1>1, <1>6 DEF TypeOK
    <3>2. PICK c \in Checkpoints : c = memory'[s]
      BY <1>7
    <3>3. memory' = [memory EXCEPT ![s] = c]
      BY <3>1, <3>2
    <3>4. QED
      BY <1>0, <3>3 DEF TypeOK
  <2>4. \A t \in Shards : session'[t] \in {"ready", "scanning"} <=> memory'[t] # None
    BY <1>0, <1>1, <1>6, <1>7, <1>8 DEF TypeOK
  <2>5. \A t \in Shards : parts'[t] # {} => session'[t] = "scanning"
    BY <1>0, <1>1, <2>1 DEF TypeOK
  <2>6. QED
    BY <1>0, <1>1, <1>9, <2>1, <2>2, <2>3, <2>4, <2>5 DEF TypeOK
<1>11. Claimed(s)' = Claimed(s) /\ Cursor(s)' = Cursor(s)
  BY <1>6 DEF Claimed, Cursor
<1>12. Ended(s)' = Ended(s) \cup {p} /\ p \notin Ended(s)
  BY <1>3, <1>6, <1>11 DEF Ended
<1>13. EndedKeys(s)' = EndedKeys(s) \cup KeysOf(p)
  BY <1>12 DEF EndedKeys
<1>14. ASSUME hit'[s] = None
       PROVE  /\ EndedKeys(s)' \subseteq scanned' \ {target}
              /\ memory'[s].keys = file[s].keys + Cardinality(EndedKeys(s)')
  <2>1. /\ hit[s] = None /\ target \notin KeysOf(p)
        /\ Checked(p) = Size(p) /\ Walked(p) = KeysOf(p)
    <3>1. CASE Matches(p) = {}
      BY <1>5, <1>6, <1>14, <3>1
    <3>2. CASE Matches(p) # {}
      BY <1>5, <1>6, <1>14, <3>2
    <3>3. QED
      BY <3>1, <3>2
  <2>2. /\ EndedKeys(s) \subseteq scanned \ {target}
        /\ memory[s].keys = file[s].keys + Cardinality(EndedKeys(s))
    BY <1>0, <2>1 DEF ShardOK, ScanningOK
  <2>3. EndedKeys(s) \cap KeysOf(p) = {}
    <3>1. SUFFICES ASSUME NEW k \in KeysOf(p), k \in EndedKeys(s) PROVE FALSE
      OBVIOUS
    <3>2. PICK q \in Ended(s) : k \in KeysOf(q)
      BY <3>1 DEF EndedKeys
    <3>3. q \in SplitInterval(Chunk(Cursor(s)))
      BY DEF Ended
    <3>4. q = p
      BY <1>2, <1>3, <3>1, <3>2, <3>3, PartsApart
    <3>5. QED
      BY <1>12, <3>4
  <2>4. /\ Cardinality(EndedKeys(s) \cup KeysOf(p)) = Cardinality(EndedKeys(s)) + Size(p)
        /\ Cardinality(EndedKeys(s)) \in Nat /\ Size(p) \in Nat
    <3>1. IsFiniteSet(Keys)
      BY FS_Interval, PlanAssumption DEF Keys
    <3>0. scanned \subseteq Keys
      BY <1>0 DEF TypeOK
    <3>2. IsFiniteSet(EndedKeys(s)) /\ IsFiniteSet(KeysOf(p))
      BY <1>4, <2>2, <3>0, <3>1, FS_Subset
    <3>3. /\ Cardinality(EndedKeys(s) \cup KeysOf(p))
              = Cardinality(EndedKeys(s)) + Cardinality(KeysOf(p))
                  - Cardinality(EndedKeys(s) \cap KeysOf(p))
          /\ Cardinality(EndedKeys(s)) \in Nat /\ Cardinality(KeysOf(p)) \in Nat
      BY <3>2, FS_Union, FS_CardinalityType
    <3>4. Cardinality(EndedKeys(s) \cap KeysOf(p)) = 0
      BY <2>3, FS_EmptySet
    <3>5. Cardinality(KeysOf(p)) = Size(p)
      <4>1. p.first \in Int /\ p.last \in Int /\ p.first <= p.last
        BY <1>4, PlanAssumption DEF Keys
      <4>2. QED
        BY <4>1, FS_Interval DEF KeysOf, Size
    <3>6. QED
      BY <3>3, <3>4, <3>5
  <2>5. EndedKeys(s)' \subseteq scanned' \ {target}
    BY <1>1, <1>13, <2>1, <2>2
  <2>6. QED
    BY <1>2, <1>7, <1>13, <2>1, <2>2, <2>4, <2>5
<1>15. ShardOK(s)'
  <2>1. FileOK(s)'
    BY <1>0, <1>1, <1>6, <1>9, <1>11 DEF ShardOK, FileOK
  <2>2. ScanningOK(s)'
    <3>1. /\ file'[s] # None /\ file'[s].found = None
          /\ memory'[s].next = file'[s].next /\ memory'[s].found = None
          /\ Cursor(s)' < TotalChunks
          /\ parts'[s] \subseteq SplitInterval(Chunk(Cursor(s)'))
      BY <1>2, <1>6, <1>7, <1>11, CheckpointFacts
    <3>2. hit'[s] = None =>
            /\ EndedKeys(s)' \subseteq scanned' \ {target'}
            /\ memory'[s].keys = file'[s].keys + Cardinality(EndedKeys(s)')
      BY <1>1, <1>6, <1>14
    <3>. HIDE DEF Cursor, EndedKeys
    <3>3. QED
      BY <3>1, <3>2 DEF ScanningOK
  <2>3. QED
    BY <1>6, <2>1, <2>2 DEF ShardOK, ReadyOK, RestingOK, OverOK
<1>16. \A t \in Shards : t # s => ShardOK(t)'
  <2>1. SUFFICES ASSUME NEW t \in Shards, t # s PROVE ShardOK(t)'
    OBVIOUS
  <2>2. /\ file'[t] = file[t] /\ session'[t] = session[t] /\ memory'[t] = memory[t]
        /\ parts'[t] = parts[t] /\ hit'[t] = hit[t] /\ ShardOK(t)
    BY <1>1, <1>8, <2>1 DEF IInv
  <2>3. QED
    BY <1>1, <1>9, <2>2, ShardFrame
<1>17. NeverTwice'
  <2>1. SUFFICES ASSUME crashes = 0
                 PROVE  again' = {} /\ \A k \in scanned' : \E t \in Shards : AccountedBy(t, k)'
    BY <1>1 DEF NeverTwice
  <2>2. again = {} /\ \A k \in scanned : \E t \in Shards : AccountedBy(t, k)
    BY <1>0, <2>1 DEF NeverTwice
  <2>3. again' = {}
    <3>1. SUFFICES ASSUME NEW k \in Walked(p), k \in scanned PROVE FALSE
      BY <1>1, <2>2
    <3>2. PICK t \in Shards : AccountedBy(t, k)
      BY <2>2, <3>1
    <3>3. k \in KeysOf(p) /\ k \in Block(Cursor(s))
      BY <1>4, <1>5, <3>1
    <3>4. \A q \in parts[s] : k \notin KeysOf(q)
      BY <1>0, <3>2, <3>3, OnlyTheScanner
    <3>5. QED
      BY <3>3, <3>4
  <2>4. ASSUME NEW k \in scanned PROVE \E t \in Shards : AccountedBy(t, k)'
    <3>1. PICK t \in Shards : AccountedBy(t, k)
      BY <2>2
    <3>2. file'[t] = file[t] /\ session'[t] = session[t] /\ parts'[t] \subseteq parts[t]
      BY <1>0, <1>1, <1>6, <1>8
    <3>3. AccountedBy(t, k)'
      BY <3>1, <3>2, AccountedFrame
    <3>4. QED
      BY <3>3
  <2>5. ASSUME NEW k \in Walked(p) PROVE AccountedBy(s, k)'
    <3>1. k \in KeysOf(p) /\ k \in Block(Cursor(s))
      BY <1>4, <1>5, <2>5
    <3>2. ASSUME NEW q \in parts'[s] PROVE k \notin KeysOf(q)
      <4>1. q \in SplitInterval(Chunk(Cursor(s))) /\ q # p
        BY <1>2, <1>6, <3>2
      <4>2. QED
        BY <1>2, <1>3, <3>1, <4>1, PartsApart
    <3>3. file'[s] # None
      BY <1>2, <1>6, CheckpointFacts
    <3>4. QED
      BY <1>2, <1>6, <1>11, <3>1, <3>2, <3>3 DEF AccountedBy
  <2>6. QED
    BY <1>1, <2>3, <2>4, <2>5
<1>18. QED
  BY <1>10, <1>15, <1>16, <1>17 DEF IInv

LEMMA CancelPartStep ==
  ASSUME IInv, NEW s \in Shards, NEW p \in parts[s], CancelPart(s, p)
  PROVE  IInv'
<1>0. TypeOK /\ ShardOK(s) /\ NeverTwice /\ session[s] = "scanning" /\ hit[s] # None
  BY DEF IInv, CancelPart
<1>1. /\ UNCHANGED <<target, file, session, memory, hit, scanned, again, crashes>>
      /\ parts' = [parts EXCEPT ![s] = @ \ {p}]
  BY DEF CancelPart
<1>2. /\ parts' \in [Shards -> SUBSET Parts]
      /\ \A t \in Shards : parts'[t] \subseteq parts[t]
      /\ \A t \in Shards : t # s => parts'[t] = parts[t]
  BY <1>0, <1>1 DEF TypeOK
<1>3. TypeOK'
  <2>1. \A t \in Shards : parts'[t] # {} => session'[t] = "scanning"
    BY <1>0, <1>1, <1>2 DEF TypeOK
  <2>2. QED
    BY <1>0, <1>1, <1>2, <2>1 DEF TypeOK
<1>4. ShardOK(s)'
  <2>1. Cursor(s)' = Cursor(s) /\ FileOK(s)'
    BY <1>0, <1>1 DEF ShardOK, FileOK, Claimed, Cursor
  <2>2. parts'[s] \subseteq SplitInterval(Chunk(Cursor(s)))
    BY <1>0, <1>2 DEF ShardOK, ScanningOK
  <2>3. QED
    BY <1>0, <1>1, <2>1, <2>2
       DEF ShardOK, ReadyOK, ScanningOK, RestingOK, OverOK
<1>5. \A t \in Shards : t # s => ShardOK(t)'
  <2>1. SUFFICES ASSUME NEW t \in Shards, t # s PROVE ShardOK(t)'
    OBVIOUS
  <2>2. /\ file'[t] = file[t] /\ session'[t] = session[t] /\ memory'[t] = memory[t]
        /\ parts'[t] = parts[t] /\ hit'[t] = hit[t] /\ ShardOK(t)
    BY <1>1, <1>2, <2>1 DEF IInv
  <2>3. QED
    BY <1>1, <2>2, ShardFrame
<1>6. NeverTwice'
  <2>1. \A t \in Shards : /\ file[t] # None => file'[t] = file[t]
                          /\ session[t] = "scanning" =>
                               session'[t] = "scanning" /\ parts'[t] \subseteq parts[t]
    BY <1>1, <1>2
  <2>2. QED
    BY <1>0, <1>1, <2>1, NeverTwiceFrame
<1>7. QED
  BY <1>3, <1>4, <1>5, <1>6 DEF IInv

\* The chunk at the cursor is saved: with no hit, it was scanned whole.
LEMMA SaveStep ==
  ASSUME IInv, NEW s \in Shards, Save(s)
  PROVE  IInv'
<1>. DEFINE c == Credited(s)
<1>0. TypeOK /\ ShardOK(s) /\ NeverTwice /\ session[s] = "scanning" /\ parts[s] = {}
  BY DEF IInv, Save
<1>1. /\ UNCHANGED <<target, parts, scanned, again, crashes>>
      /\ file' = [file EXCEPT ![s] = c]
      /\ hit' = [hit EXCEPT ![s] = None]
      /\ \/ /\ hit[s] = None
            /\ session' = [session EXCEPT ![s] = "ready"]
            /\ memory' = [memory EXCEPT ![s] = c]
         \/ /\ session' = [session EXCEPT ![s] = "off"]
            /\ memory' = [memory EXCEPT ![s] = None]
  BY DEF Save
<1>2. /\ file[s] \in Checkpoints /\ file[s].next \in Nat /\ file[s].keys \in Nat
      /\ file[s].next <= ChunksForShard(s) /\ file[s].found = None
      /\ memory[s] \in Checkpoints /\ memory[s].next = file[s].next
      /\ memory[s].found = None /\ memory[s].keys \in Nat
      /\ Cursor(s) \in Ordinals /\ Cursor(s) < TotalChunks
  BY <1>0, ScanningFacts
<1>3. ChunksForShard(s) \in Nat /\ ChunksForShard(s) <= TotalChunks /\ TotalChunks \in Nat
  BY SharesExact, TotalFacts
<1>4. ASSUME hit[s] # None
      PROVE  /\ c \in Checkpoints /\ c.next = file[s].next /\ c.found = target /\ target # None
  <2>1. hit[s] = target /\ target \in Keys
    BY <1>0, <1>4, TargetsAssumption DEF TypeOK
  <2>2. c = [memory[s] EXCEPT !.found = target]
    BY <1>4, <2>1 DEF Credited
  <2>3. QED
    BY <1>2, <1>4, <2>1, <2>2 DEF Checkpoints
<1>5. ASSUME hit[s] = None
      PROVE  /\ c \in Checkpoints /\ c.next = file[s].next + 1 /\ c.found = None
             /\ c.next <= ChunksForShard(s)
             /\ Covers(c, s) = Claimed(s) \cup Block(Cursor(s))
             /\ Covers(c, s) \subseteq scanned \ {target}
             /\ c.keys = Cardinality(Covers(c, s))
  <2>1. c = [memory[s] EXCEPT !.next = memory[s].next + 1]
    BY <1>5 DEF Credited
  <2>2. PICK n \in Nat : n = file[s].next
    BY <1>2
  <2>3. n + 1 <= ChunksForShard(s)
    <3>1. Ordinal(s, n) < TotalChunks
      BY <1>2, <2>2 DEF Cursor
    <3>2. n < ChunksForShard(s)
      BY <3>1, SharesExact
    <3>3. QED
      BY <1>3, <3>2
  <2>4. c = [memory[s] EXCEPT !.next = n + 1] /\ n + 1 \in 0 .. TotalChunks
    BY <1>2, <1>3, <2>1, <2>2, <2>3
  <2>5. c \in Checkpoints /\ c.next = n + 1 /\ c.found = None /\ c.keys = memory[s].keys
    BY <1>2, <2>4 DEF Checkpoints
  <2>. HIDE DEF c
  <2>6. PICK d : d = file[s]
    OBVIOUS
  <2>7. /\ Covers(c, s) = Covers(d, s) \cup Block(Ordinal(s, d.next))
        /\ Cardinality(Covers(c, s))
             = Cardinality(Covers(d, s)) + Cardinality(Block(Ordinal(s, d.next)))
    <3>1. /\ d.next \in Nat /\ d.next <= ChunksForShard(s)
          /\ Ordinal(s, d.next) < TotalChunks /\ c.next = d.next + 1
      BY <1>2, <2>2, <2>5, <2>6 DEF Cursor
    <3>2. QED
      BY <3>1, CoversOneMore
  <2>8. EndedKeys(s) = Block(Cursor(s))
    <3>1. Ended(s) = SplitInterval(Chunk(Cursor(s)))
      BY <1>0 DEF Ended
    <3>2. ASSUME NEW k \in EndedKeys(s) PROVE k \in Block(Cursor(s))
      <4>1. PICK p \in SplitInterval(Chunk(Cursor(s))) : k \in KeysOf(p)
        BY <3>1, <3>2 DEF EndedKeys
      <4>2. QED
        BY <1>2, <4>1, SplitOfChunk
    <3>3. ASSUME NEW k \in Block(Cursor(s)) PROVE k \in EndedKeys(s)
      BY <1>2, <3>1, <3>3, PartsApart DEF EndedKeys
    <3>4. QED
      BY <3>2, <3>3
  <2>9. /\ EndedKeys(s) \subseteq scanned \ {target}
        /\ memory[s].keys = file[s].keys + Cardinality(EndedKeys(s))
    BY <1>0, <1>5 DEF ShardOK, ScanningOK
  <2>10. /\ Claimed(s) \subseteq scanned \ {target}
         /\ file[s].keys = Cardinality(Claimed(s))
    <3>1. file[s] # None
      BY <1>2, CheckpointFacts
    <3>2. QED
      BY <1>0, <1>2, <3>1 DEF ShardOK, FileOK
  <2>11. Covers(d, s) = Claimed(s) /\ Ordinal(s, d.next) = Cursor(s)
    BY <2>6 DEF Claimed, Cursor
  <2>12. QED
    BY <2>2, <2>3, <2>5, <2>7, <2>8, <2>9, <2>10, <2>11
<1>. HIDE DEF c
<1>6. c \in Checkpoints /\ c # None /\ c.next \in Nat /\ c.next <= ChunksForShard(s)
  BY <1>2, <1>4, <1>5, CheckpointFacts
<1>7. file'[s] = c /\ hit'[s] = None /\ parts'[s] = {} /\ session'[s] \in {"ready", "off"}
  BY <1>0, <1>1 DEF TypeOK
<1>8. TypeOK'
  <2>1. /\ target' \in Targets /\ hit' \in [Shards -> {target', None}]
        /\ scanned' \subseteq Keys /\ again' \subseteq scanned' /\ crashes' \in 0 .. MaxCrashes
        /\ parts' \in [Shards -> SUBSET Parts]
        /\ file' \in [Shards -> Checkpoints \cup {None}]
        /\ \A t \in Shards : file'[t] # None => file'[t].next <= ChunksForShard(t)
    BY <1>0, <1>1, <1>6 DEF TypeOK
  <2>2. /\ session' \in [Shards -> {"off", "ready", "scanning", "over"}]
        /\ memory' \in [Shards -> Checkpoints \cup {None}]
        /\ \A t \in Shards : session'[t] \in {"ready", "scanning"} <=> memory'[t] # None
        /\ \A t \in Shards : parts'[t] # {} => session'[t] = "scanning"
    BY <1>0, <1>1, <1>6 DEF TypeOK
  <2>3. QED
    BY <2>1, <2>2 DEF TypeOK
<1>9. ShardOK(s)'
  <2>1. FileOK(s)'
    <3>1. CASE hit[s] = None
      BY <1>1, <1>5, <1>7, <3>1 DEF FileOK, Claimed
    <3>2. CASE hit[s] # None
      <4>1. file'[s].next = file[s].next /\ file'[s].found = target /\ target # None
        BY <1>4, <1>7, <3>2
      <4>2. Claimed(s)' = Claimed(s)
        BY <4>1 DEF Claimed, Covers
      <4>3. Claimed(s) \subseteq scanned \ {target}
        BY <1>0, <1>2, CheckpointFacts DEF ShardOK, FileOK
      <4>4. QED
        BY <1>1, <4>1, <4>2, <4>3 DEF FileOK
    <3>3. QED
      BY <3>1, <3>2
  <2>2. ReadyOK(s)'
    <3>1. session'[s] = "ready" => hit[s] = None /\ memory'[s] = c
      BY <1>0, <1>1 DEF TypeOK
    <3>2. QED
      BY <1>5, <1>6, <1>7, <3>1 DEF ReadyOK
  <2>3. QED
    BY <1>7, <2>1, <2>2 DEF ShardOK, ScanningOK, RestingOK, OverOK
<1>10. \A t \in Shards : t # s => /\ file'[t] = file[t] /\ session'[t] = session[t]
                                  /\ memory'[t] = memory[t] /\ parts'[t] = parts[t]
                                  /\ hit'[t] = hit[t]
  BY <1>0, <1>1 DEF TypeOK
<1>11. \A t \in Shards : t # s => ShardOK(t)'
  <2>1. SUFFICES ASSUME NEW t \in Shards, t # s PROVE ShardOK(t)'
    OBVIOUS
  <2>2. /\ file'[t] = file[t] /\ session'[t] = session[t] /\ memory'[t] = memory[t]
        /\ parts'[t] = parts[t] /\ hit'[t] = hit[t] /\ ShardOK(t)
    BY <1>10, <2>1 DEF IInv
  <2>3. QED
    BY <1>1, <2>2, ShardFrame
<1>12. NeverTwice'
  <2>1. SUFFICES ASSUME crashes = 0, NEW k \in scanned
                 PROVE  \E t \in Shards : AccountedBy(t, k)'
    BY <1>0, <1>1 DEF NeverTwice
  <2>2. PICK t \in Shards : AccountedBy(t, k)
    BY <1>0, <2>1 DEF NeverTwice
  <2>3. CASE t # s
    <3>1. file'[t] = file[t] /\ session'[t] = session[t] /\ parts'[t] = parts[t]
      BY <1>10, <2>3
    <3>2. AccountedBy(t, k)'
      BY <2>2, <3>1, AccountedFrame
    <3>3. QED
      BY <3>2
  <2>4. CASE t = s
    <3>1. k \in Claimed(s) \/ (Cursor(s) < TotalChunks /\ k \in Block(Cursor(s)))
      BY <2>2, <2>4 DEF AccountedBy
    <3>2. CASE hit[s] = None
      <4>1. k \in Covers(c, s)
        BY <1>5, <3>1, <3>2
      <4>2. AccountedBy(s, k)'
        BY <1>6, <1>7, <4>1 DEF AccountedBy, Claimed
      <4>3. QED
        BY <4>2
    <3>3. CASE hit[s] # None
      <4>1. file'[s].next = file[s].next /\ file'[s].found # None /\ file'[s] # None
        BY <1>4, <1>6, <1>7, <3>3
      <4>2. Claimed(s)' = Claimed(s) /\ Cursor(s)' = Cursor(s)
        BY <4>1 DEF Claimed, Cursor, Covers
      <4>3. AccountedBy(s, k)'
        BY <3>1, <4>1, <4>2 DEF AccountedBy
      <4>4. QED
        BY <4>3
    <3>4. QED
      BY <3>2, <3>3
  <2>5. QED
    BY <2>3, <2>4
<1>13. QED
  BY <1>8, <1>9, <1>11, <1>12 DEF IInv

LEMMA CrashStep ==
  ASSUME IInv, NEW s \in Shards, Crash(s)
  PROVE  IInv'
<1>0. TypeOK /\ ShardOK(s) /\ crashes \in Nat /\ crashes' = crashes + 1 /\ crashes < MaxCrashes
  BY PlanAssumption DEF IInv, Crash, TypeOK
<1>1. /\ UNCHANGED <<target, file, scanned, again>>
      /\ session' = [session EXCEPT ![s] = "off"]
      /\ memory' = [memory EXCEPT ![s] = None]
      /\ parts' = [parts EXCEPT ![s] = {}]
      /\ hit' = [hit EXCEPT ![s] = None]
  BY DEF Crash
<1>2. TypeOK'
  <2>1. /\ parts' \in [Shards -> SUBSET Parts] /\ hit' \in [Shards -> {target', None}]
        /\ crashes' \in 0 .. MaxCrashes
    BY <1>0, <1>1, PlanAssumption DEF TypeOK
  <2>2. /\ session' \in [Shards -> {"off", "ready", "scanning", "over"}]
        /\ memory' \in [Shards -> Checkpoints \cup {None}]
        /\ \A t \in Shards : session'[t] \in {"ready", "scanning"} <=> memory'[t] # None
        /\ \A t \in Shards : parts'[t] # {} => session'[t] = "scanning"
    BY <1>0, <1>1 DEF TypeOK
  <2>3. QED
    BY <1>0, <1>1, <2>1, <2>2 DEF TypeOK
<1>3. ShardOK(s)'
  <2>1. session'[s] = "off" /\ parts'[s] = {} /\ hit'[s] = None
    BY <1>0, <1>1 DEF TypeOK
  <2>2. FileOK(s)'
    BY <1>0, <1>1 DEF ShardOK, FileOK, Claimed
  <2>3. QED
    BY <2>1, <2>2 DEF ShardOK, ReadyOK, ScanningOK, RestingOK, OverOK
<1>4. \A t \in Shards : t # s => ShardOK(t)'
  <2>1. SUFFICES ASSUME NEW t \in Shards, t # s PROVE ShardOK(t)'
    OBVIOUS
  <2>2. /\ file'[t] = file[t] /\ session'[t] = session[t] /\ memory'[t] = memory[t]
        /\ parts'[t] = parts[t] /\ hit'[t] = hit[t] /\ ShardOK(t)
    BY <1>0, <1>1, <2>1 DEF TypeOK, IInv
  <2>3. QED
    BY <1>1, <2>2, ShardFrame
<1>5. NeverTwice'
  BY <1>0 DEF NeverTwice
<1>6. QED
  BY <1>2, <1>3, <1>4, <1>5 DEF IInv

LEMMA UnchangedStep ==
  ASSUME IInv, UNCHANGED vars
  PROVE  IInv'
<1>1. /\ target' = target /\ file' = file /\ session' = session /\ memory' = memory
      /\ parts' = parts /\ hit' = hit /\ scanned' = scanned /\ again' = again
      /\ crashes' = crashes
  BY DEF vars
<1>2. TypeOK'
  BY <1>1 DEF IInv, TypeOK
<1>3. \A s \in Shards : ShardOK(s)'
  <2>1. SUFFICES ASSUME NEW s \in Shards PROVE ShardOK(s)'
    OBVIOUS
  <2>2. ShardOK(s)
    BY DEF IInv
  <2>3. QED
    BY <1>1, <2>2, ShardFrame
<1>4. NeverTwice'
  BY <1>1, NeverTwiceFrame DEF IInv
<1>5. QED
  BY <1>2, <1>3, <1>4 DEF IInv

LEMMA NextIInv == IInv /\ [Next]_vars => IInv'
<1>1. SUFFICES ASSUME IInv, [Next]_vars PROVE IInv'
  OBVIOUS
<1>2. CASE Next
  <2>1. PICK s \in Shards : Progress(s) \/ Crash(s)
    BY <1>2 DEF Next
  <2>2. CASE Open(s)
    BY <1>1, <2>2, OpenStep
  <2>3. CASE Take(s)
    BY <1>1, <2>3, TakeStep
  <2>4. CASE Exhausted(s)
    BY <1>1, <2>4, ExhaustedStep
  <2>5. CASE Save(s)
    BY <1>1, <2>5, SaveStep
  <2>6. CASE \E p \in parts[s] : ScanPart(s, p)
    BY <1>1, <2>6, ScanPartStep
  <2>7. CASE \E p \in parts[s] : CancelPart(s, p)
    BY <1>1, <2>7, CancelPartStep
  <2>8. CASE Crash(s)
    BY <1>1, <2>8, CrashStep
  <2>9. QED
    BY <2>1, <2>2, <2>3, <2>4, <2>5, <2>6, <2>7, <2>8 DEF Progress
<1>3. CASE UNCHANGED vars
  BY <1>1, <1>3, UnchangedStep
<1>4. QED
  BY <1>1, <1>2, <1>3

-----------------------------------------------------------------------------
(***************************************************************************)
(* The theorems                                                            *)
(***************************************************************************)

\* The state of every shard, its file, its session, its parts and the keys
\* scanned so far agree in every reachable state of the reference scanner.
THEOREM ScanInvariant == Spec => []IInv
<1>1. Init => IInv
  BY InitIInv
<1>2. IInv /\ [Next]_vars => IInv'
  BY NextIInv
<1>3. QED
  BY <1>1, <1>2, PTL DEF Spec

\* Every variable of the scanner keeps its type: a cursor never passes the
\* shard's own chunks, a session in flight has a checkpoint in memory.
THEOREM ScanTypeCorrect == Spec => []TypeOK
<1>1. IInv => TypeOK
  BY DEF IInv
<1>2. QED
  BY <1>1, ScanInvariant, PTL

\* A checkpoint claims only chunks all of whose keys were scanned, none of them
\* the answer, and counts the keys of those chunks: run_session saves a chunk
\* when all its parts have ended, and a crash leaves the last save.
THEOREM CheckpointHonestCorrect == Spec => []CheckpointHonest
<1>1. IInv => CheckpointHonest
  <2>1. SUFFICES ASSUME IInv, NEW s \in Saved
                 PROVE  /\ Covers(file[s], s) \subseteq scanned \ {target}
                        /\ file[s].found = None
                             => file[s].keys = Cardinality(Covers(file[s], s))
    BY DEF CheckpointHonest
  <2>2. FileOK(s) /\ file[s] # None
    BY <2>1 DEF IInv, ShardOK, Saved
  <2>3. QED
    BY <2>2 DEF FileOK, Claimed
<1>2. QED
  BY <1>1, ScanInvariant, PTL

\* When every shard has run out of chunks, every key of the puzzle was scanned
\* and none of them is the answer: the shards share the ordinals, the chunks
\* tile the interval, and each file claims its whole share.
THEOREM ShardsCoverAllCorrect == Spec => []ShardsCoverAll
<1>1. IInv => ShardsCoverAll
  <2>1. SUFFICES ASSUME IInv, \A s \in Shards : session[s] = "over" /\ file[s].found = None
                 PROVE  scanned = Keys /\ target = None
    BY DEF ShardsCoverAll
  <2>2. TypeOK
    BY <2>1 DEF IInv
  <2>3. ASSUME NEW k \in Keys PROVE k \in scanned /\ k # target
    <3>1. PICK o \in Ordinals : k \in Block(o)
      BY <2>3, ChunksPartition
    <3>2. o \in Nat /\ o < TotalChunks
      BY TotalFacts DEF Ordinals
    <3>3. PICK s \in Shards, i \in Nat : Ordinal(s, i) = o
      BY <3>2, SharesExact
    <3>4. ShardOK(s) /\ session[s] = "over" /\ file[s].found = None
      BY <2>1 DEF IInv
    <3>5. file[s] # None /\ Cursor(s) >= TotalChunks
      BY <3>4 DEF ShardOK, OverOK
    <3>6. /\ file[s] \in Checkpoints /\ file[s].next \in Nat
          /\ file[s].next <= ChunksForShard(s)
      BY <2>2, <3>5, CheckpointFacts DEF TypeOK
    <3>7. PICK n \in Nat : n = file[s].next
      BY <3>6
    <3>8. ~(n < ChunksForShard(s))
      <4>1. Ordinal(s, n) >= TotalChunks /\ Ordinal(s, n) \in Nat
        BY <3>5, <3>7, SharesExact DEF Cursor
      <4>2. ~(Ordinal(s, n) < TotalChunks)
        BY <4>1, TotalFacts
      <4>3. QED
        BY <4>2, SharesExact
    <3>9. i < ChunksForShard(s)
      BY <3>2, <3>3, SharesExact
    <3>10. ChunksForShard(s) \in 0 .. TotalChunks
      BY SharesExact
    <3>11. i \in 0 .. n - 1
      BY <3>8, <3>9, <3>10, TotalFacts
    <3>12. k \in Claimed(s)
      BY <3>1, <3>3, <3>6, <3>7, <3>11, CoversFacts DEF Claimed
    <3>13. QED
      BY <3>4, <3>5, <3>12 DEF ShardOK, FileOK
  <2>4. scanned \subseteq Keys /\ target \in Keys \cup {None}
    BY <2>2, TargetsAssumption DEF TypeOK
  <2>5. QED
    BY <2>3, <2>4
<1>2. QED
  BY <1>1, ScanInvariant, PTL

\* No key is scanned twice by any two shards, sessions, chunks or parts unless
\* a crash lost the chunk it belongs to.
THEOREM NoKeyTwiceCorrect == Spec => []NoKeyTwice
<1>1. IInv => NoKeyTwice
  <2>1. SUFFICES ASSUME IInv, again # {} PROVE crashes > 0
    BY DEF NoKeyTwice
  <2>2. crashes # 0 /\ crashes \in 0 .. MaxCrashes
    BY <2>1 DEF IInv, NeverTwice, TypeOK
  <2>3. QED
    BY <2>2, PlanAssumption
<1>2. QED
  BY <1>1, ScanInvariant, PTL

=============================================================================
