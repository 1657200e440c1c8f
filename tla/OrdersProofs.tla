---------------------------- MODULE OrdersProofs ----------------------------
(***************************************************************************)
(* Counting, recursive functions and division, for the proof modules that  *)
(* need them, and what the chunk orders of Orders.tla are proved to be.    *)
(*                                                                         *)
(* The provers take no induction rule and no operator parameter.  Both are *)
(* put as facts about sets and functions here: a set of naturals that has  *)
(* 0 and is closed under + 1 (Climb), a step that is a function on states  *)
(* (Recursion).                                                            *)
(***************************************************************************)
EXTENDS Orders, FiniteSetTheorems, FunctionTheorems, WellFoundedInduction, TLAPS

-----------------------------------------------------------------------------
(***************************************************************************)
(* Counting and recursion                                                  *)
(***************************************************************************)

Below == {ss \in Nat \X Nat : ss[1] < ss[2]}

\* Every set of naturals that is not empty has a least member.
LEMMA LeastMember ==
  ASSUME NEW T, T \subseteq Nat, T # {}
  PROVE  \E x \in T : \A y \in T : x <= y
<1>1. IsWellFoundedOn(Below, Nat)
  BY NatLessThanWellFounded DEF OpToRel, Below
<1>2. PICK x \in T : \A y \in T : <<y, x>> \notin Below
  BY <1>1, WFMin
<1>3. \A y \in T : <<y, x>> \in Nat \X Nat /\ <<y, x>>[1] = y /\ <<y, x>>[2] = x
  OBVIOUS
<1>4. \A y \in T : ~(y < x)
  BY <1>2, <1>3 DEF Below
<1>5. x \in Nat /\ T \subseteq Nat
  OBVIOUS
<1>6. QED
  BY <1>4, <1>5

\* What 0 has, and n + 1 has when n has it, all numbers up to N have.
LEMMA Climb ==
  ASSUME NEW N \in Nat, NEW S, 0 \in S, \A n \in 0 .. N - 1 : n \in S => n + 1 \in S
  PROVE  \A n \in 0 .. N : n \in S
<1>. DEFINE T == {n \in 0 .. N : n \notin S}
<1>1. SUFFICES ASSUME T # {} PROVE FALSE
  OBVIOUS
<1>2. PICK n \in T : \A m \in T : n <= m
  <2>1. T \subseteq Nat
    OBVIOUS
  <2>. HIDE DEF T
  <2>2. QED
    BY <1>1, <2>1, LeastMember
<1>3. n \in 0 .. N /\ n \notin S /\ n # 0
  OBVIOUS
<1>4. n - 1 \in 0 .. N - 1 /\ n - 1 \in 0 .. N /\ (n - 1) + 1 = n /\ ~(n <= n - 1)
  BY <1>3
<1>5. n - 1 \in S
  BY <1>2, <1>4
<1>6. (n - 1) + 1 \in S
  BY <1>4, <1>5
<1>7. QED
  BY <1>3, <1>4, <1>6

\* A function defined from its value before exists: step[<<n, v>>] is the value
\* at n after the value v at n - 1.
IsStep(step, N, V) == step \in [(1 .. N) \X V -> V]
Follows(f, N, V, start, step) ==
  /\ f \in [0 .. N -> V] /\ f[0] = start
  /\ \A n \in 1 .. N : f[n] = step[<<n, f[n - 1]>>]

LEMMA Recursion ==
  ASSUME NEW N \in Nat, NEW V, NEW start \in V, NEW step, IsStep(step, N, V)
  PROVE  \E f : Follows(f, N, V, start, step)
<1>0. step \in [(1 .. N) \X V -> V]
  BY DEF IsStep
<1>. DEFINE Is(f, n) == /\ f \in [0 .. n -> V] /\ f[0] = start
                        /\ \A i \in 1 .. n : f[i] = step[<<i, f[i - 1]>>]
            S == {n \in 0 .. N : \E f : Is(f, n)}
<1>1. 0 \in S
  <2>1. Is([i \in 0 .. 0 |-> start], 0)
    OBVIOUS
  <2>. HIDE DEF Is
  <2>2. QED
    BY <2>1
<1>2. ASSUME NEW n \in 0 .. N - 1, n \in S PROVE n + 1 \in S
  <2>1. PICK f : Is(f, n)
    BY <1>2
  <2>. DEFINE g == [i \in 0 .. n + 1 |-> IF i <= n THEN f[i] ELSE step[<<n + 1, f[n]>>]]
  <2>2. n + 1 \in 1 .. N /\ n \in 0 .. n /\ f[n] \in V /\ \A i \in 0 .. n : f[i] \in V
    BY <2>1
  <2>3. step[<<n + 1, f[n]>>] \in V
    BY <1>0, <2>2
  <2>4. g \in [0 .. n + 1 -> V]
    BY <2>2, <2>3
  <2>5. g[0] = start
    BY <2>1
  <2>6. ASSUME NEW i \in 1 .. n + 1 PROVE g[i] = step[<<i, g[i - 1]>>]
    <3>1. i - 1 \in 0 .. n /\ g[i - 1] = f[i - 1]
      OBVIOUS
    <3>2. CASE i = n + 1
      <4>1. i - 1 = n /\ g[i] = step[<<n + 1, f[n]>>]
        BY <3>2
      <4>2. QED
        BY <3>1, <3>2, <4>1
    <3>3. CASE i # n + 1
      <4>1. i \in 1 .. n /\ g[i] = f[i]
        BY <3>3
      <4>2. QED
        BY <2>1, <3>1, <4>1
    <3>4. QED
      BY <3>2, <3>3
  <2>7. Is(g, n + 1)
    <3>. HIDE DEF g
    <3>1. QED
      BY <2>4, <2>5, <2>6
  <2>. HIDE DEF Is
  <2>8. QED
    BY <2>2, <2>7
<1>3. \A n \in 0 .. N : n \in S
  <2>. HIDE DEF S
  <2>1. QED
    BY <1>1, <1>2, Climb
<1>4. QED
  BY <1>3 DEF Follows

-----------------------------------------------------------------------------
(***************************************************************************)
(* Division                                                                *)
(***************************************************************************)

LEMMA Division ==
  ASSUME NEW a \in Int, NEW b \in Nat \ {0}
  PROVE  a % b \in 0 .. b - 1 /\ a \div b \in Int /\ a = b * (a \div b) + (a % b)
<1>1. a % b \in 0 .. b - 1
  OBVIOUS
<1>2. a \div b \in Int
  OBVIOUS
<1>3. a = b * (a \div b) + (a % b)
  OBVIOUS
<1>4. QED
  BY <1>1, <1>2, <1>3

LEMMA DivisionUnique ==
  ASSUME NEW a \in Int, NEW b \in Nat \ {0}, NEW q \in Int, NEW r \in 0 .. b - 1,
         a = b * q + r
  PROVE  a % b = r /\ a \div b = q
OBVIOUS

\* Equal remainders: the difference is a multiple.
LEMMA SameRemainder ==
  ASSUME NEW a \in Int, NEW b \in Int, NEW n \in Nat \ {0}, a % n = b % n
  PROVE  \E q \in Int : a - b = n * q
<1>1. /\ a = n * (a \div n) + (a % n) /\ b = n * (b \div n) + (b % n)
      /\ a \div n \in Int /\ b \div n \in Int
  BY Division
<1>2. a % n \in Int /\ b % n \in Int
  OBVIOUS
<1>3. a - b = n * (a \div n) - n * (b \div n)
  BY <1>1, <1>2
<1>4. PICK u \in Int, v \in Int : u = a \div n /\ v = b \div n
  BY <1>1
<1>5. a - b = n * u - n * v
  BY <1>3, <1>4
<1>6. n * (u - v) = n * u - n * v /\ u - v \in Int
  OBVIOUS
<1>7. QED
  BY <1>5, <1>6

\* Euclid: a factor that shares no divisor with n cannot supply one of n.
LEMMA CoprimeFactor ==
  ASSUME NEW n \in Nat \ {0}, NEW m \in Nat \ {0}, Coprime(m, n),
         NEW k \in Nat \ {0}, NEW x \in Int, m * k = n * x
  PROVE  \E q \in Int : k = n * q
<1>. DEFINE T == {j \in Nat \ {0} : \E t \in Int : m * j = n * t}
<1>1. k \in T /\ n \in T
  <2>1. m * n = n * m /\ m \in Int
    OBVIOUS
  <2>2. QED
    BY <2>1
<1>2. PICK d \in T : \A j \in T : d <= j
  <2>1. T \subseteq Nat
    OBVIOUS
  <2>. HIDE DEF T
  <2>2. QED
    BY <1>1, <2>1, LeastMember
<1>3. PICK t \in Int : m * d = n * t
  BY <1>2
<1>4. d \in Nat \ {0}
  OBVIOUS
<1>5. ASSUME NEW j \in T PROVE j % d = 0 /\ j \div d \in Int /\ j = d * (j \div d)
  <2>1. PICK s \in Int : m * j = n * s
    OBVIOUS
  <2>2. j \in Nat \ {0}
    OBVIOUS
  <2>0. /\ j % d \in 0 .. d - 1 /\ j \div d \in Int
        /\ j = d * (j \div d) + (j % d)
    <3>1. j \in Int
      BY <2>2
    <3>. HIDE DEF T
    <3>2. QED
      BY <1>4, <3>1, Division
  <2>3. PICK q \in Int : q = j \div d /\ j = d * q + (j % d)
    <3>. HIDE DEF T
    <3>1. QED
      BY <2>0
  <2>4. PICK r \in 0 .. d - 1 : r = j % d
    BY <2>0
  <2>5. m * r = n * (s - t * q)
    <3>0. m \in Int /\ d \in Int /\ j \in Int /\ r \in Int /\ n \in Int
      BY <1>4, <2>2
    <3>. HIDE DEF T
    <3>1. r = j - d * q
      BY <3>0, <2>3, <2>4
    <3>2. m * r = m * j - m * (d * q)
      BY <3>0, <3>1
    <3>3. m * (d * q) = (m * d) * q
      BY <3>0
    <3>4. (m * d) * q = (n * t) * q
      BY <1>3
    <3>5. (n * t) * q = n * (t * q)
      BY <3>0
    <3>6. m * r = n * s - n * (t * q)
      BY <2>1, <3>2, <3>3, <3>4, <3>5
    <3>7. n * (s - t * q) = n * s - n * (t * q)
      BY <3>0
    <3>8. QED
      BY <3>6, <3>7
  <2>6. r = 0
    <3>1. SUFFICES ASSUME r # 0 PROVE FALSE
      OBVIOUS
    <3>2. r \in T
      BY <2>5, <3>1
    <3>3. d <= r
      BY <1>2, <3>2
    <3>4. QED
      BY <1>4, <3>3
  <2>7. QED
    BY <1>4, <2>2, <2>3, <2>4, <2>6
<1>6. PICK e \in Int : n = d * e
  BY <1>1, <1>5
<1>7. e >= 1 /\ e <= n
  BY <1>4, <1>6
<1>8. m = e * t
  <2>1. d * m = d * (e * t)
    BY <1>3, <1>4, <1>6
  <2>2. QED
    BY <1>4, <2>1
<1>9. e = 1
  <2>1. SUFFICES ASSUME e >= 2 PROVE FALSE
    BY <1>7
  <2>2. m % e = 0
    BY <1>8, <2>1, DivisionUnique
  <2>3. n % e = 0
    <3>1. n = e * d
      BY <1>4, <1>6
    <3>2. QED
      BY <1>4, <2>1, <3>1, DivisionUnique
  <2>4. e \in 2 .. n
    BY <1>7, <2>1
  <2>5. QED
    BY <2>2, <2>3, <2>4 DEF Coprime
<1>10. d = n
  BY <1>4, <1>6, <1>9
<1>11. k = d * (k \div d) /\ k \div d \in Int
  BY <1>1, <1>5
<1>12. QED
  BY <1>10, <1>11

-----------------------------------------------------------------------------
(***************************************************************************)
(* The affine order                                                        *)
(***************************************************************************)

\* ChunkPlan._derive_affine_parameters always finds a multiplier: the search
\* goes round all of 1 .. size - 1, and 1 is coprime to everything.
THEOREM MultiplierFound ==
  ASSUME NEW size \in Nat, size > 1, NEW candidate \in Nat \ {0}
  PROVE  /\ Multiplier(size, candidate) \in 1 .. size - 1
         /\ Coprime(Multiplier(size, candidate), size)
<1>. DEFINE at(i) == 1 + ((candidate - 1 + i) % (size - 1))
            First(i) == /\ Coprime(at(i), size)
                        /\ \A j \in 0 .. i - 1 : ~Coprime(at(j), size)
            T == {i \in 0 .. size - 2 : Coprime(at(i), size)}
<1>1. size - 1 \in Nat \ {0} /\ candidate - 1 \in Nat
  OBVIOUS
<1>2. \E i \in 0 .. size - 2 : at(i) = 1
  <2>1. PICK q \in Int, r \in 0 .. size - 2 : candidate - 1 = (size - 1) * q + r
    <3>1. PICK a \in Int, b \in Nat \ {0} : a = candidate - 1 /\ b = size - 1
      BY <1>1
    <3>2. a % b \in 0 .. b - 1 /\ a \div b \in Int /\ a = b * (a \div b) + (a % b)
      BY Division
    <3>3. b - 1 = size - 2
      BY <3>1
    <3>. HIDE DEF at, First, T
    <3>4. QED
      BY <3>1, <3>2, <3>3
  <2>2. CASE r = 0
    <3>1. 0 \in 0 .. size - 2 /\ candidate - 1 + 0 \in Int
      BY <1>1
    <3>2. candidate - 1 + 0 = (size - 1) * q + 0
      BY <2>1, <2>2
    <3>3. 0 \in 0 .. (size - 1) - 1
      BY <1>1
    <3>4. (candidate - 1 + 0) % (size - 1) = 0
      BY <1>1, <3>1, <3>2, <3>3, DivisionUnique
    <3>5. QED
      BY <3>1, <3>4
  <2>3. CASE r # 0
    <3>. DEFINE i == size - 1 - r
    <3>1. i \in 0 .. size - 2 /\ candidate - 1 + i \in Int
      BY <1>1, <2>3
    <3>2. candidate - 1 + i = (size - 1) * (q + 1) + 0
      <4>1. candidate - 1 + i = (size - 1) * q + (size - 1)
        BY <2>1, <1>1
      <4>2. (size - 1) * (q + 1) = (size - 1) * q + (size - 1)
        BY <1>1
      <4>3. QED
        BY <4>1, <4>2, <1>1
    <3>3. 0 \in 0 .. (size - 1) - 1 /\ q + 1 \in Int
      BY <1>1
    <3>. HIDE DEF i
    <3>4. (candidate - 1 + i) % (size - 1) = 0
      BY <1>1, <3>1, <3>2, <3>3, DivisionUnique
    <3>5. QED
      BY <3>1, <3>4
  <2>4. QED
    BY <2>2, <2>3
<1>3. Coprime(1, size)
  <2>1. SUFFICES ASSUME NEW d \in 2 .. size PROVE 1 % d # 0
    BY DEF Coprime
  <2>2. 1 = d * 0 + 1 /\ d \in Nat \ {0} /\ 1 \in 0 .. d - 1
    OBVIOUS
  <2>3. 1 % d = 1
    BY <2>2, DivisionUnique
  <2>4. QED
    BY <2>3
<1>4. PICK i \in 0 .. size - 2 : First(i)
  <2>1. T \subseteq Nat /\ T # {}
    <3>1. PICK j \in 0 .. size - 2 : at(j) = 1
      BY <1>2
    <3>. HIDE DEF at
    <3>2. j \in T
      BY <1>3, <3>1
    <3>3. QED
      BY <3>2
  <2>2. PICK i \in T : \A j \in T : i <= j
    <3>. HIDE DEF T
    <3>1. QED
      BY <2>1, LeastMember
  <2>3. \A j \in 0 .. i - 1 : j \in 0 .. size - 2 /\ ~(i <= j)
    OBVIOUS
  <2>. HIDE DEF at
  <2>4. QED
    BY <2>2, <2>3
<1>5. PICK c \in 0 .. size - 2 :
        First(c) /\ c = CHOOSE j \in 0 .. size - 2 : First(j)
  <2>. HIDE DEF First
  <2>1. QED
    BY <1>4
<1>6. Multiplier(size, candidate) = at(c)
  BY <1>5 DEF Multiplier
<1>7. (candidate - 1 + c) % (size - 1) \in 0 .. size - 2
  BY <1>1
<1>8. at(c) \in 1 .. size - 1
  BY <1>7
<1>9. QED
  BY <1>5, <1>6, <1>8

\* With a multiplier coprime to the size, the affine order of
\* ChunkPlan.chunk_for_sequence and AffineOrder.chunk_id gives every rank a
\* chunk of its own, so that each chunk has exactly one rank.
THEOREM AffineOrder ==
  ASSUME NEW size \in Nat \ {0}, NEW multiplier \in Nat \ {0},
         Coprime(multiplier, size), NEW offset \in Int
  PROVE  [rank \in 0 .. size - 1 |-> AffineChunk(size, multiplier, offset, rank)]
           \in Bijection(0 .. size - 1, 0 .. size - 1)
<1>. DEFINE Ranks == 0 .. size - 1
            f == [rank \in Ranks |-> AffineChunk(size, multiplier, offset, rank)]
<1>1. f \in [Ranks -> Ranks]
  <2>1. SUFFICES ASSUME NEW rank \in Ranks
                 PROVE  AffineChunk(size, multiplier, offset, rank) \in Ranks
    OBVIOUS
  <2>2. multiplier * rank + offset \in Int
    OBVIOUS
  <2>3. QED
    BY <2>2, Division DEF AffineChunk
<1>2. ASSUME NEW j \in Ranks, NEW k \in Ranks, f[j] = f[k], j < k
      PROVE  FALSE
  <2>1. multiplier * j \in Int /\ multiplier * k \in Int
    OBVIOUS
  <2>2. PICK q \in Int :
          (multiplier * k + offset) - (multiplier * j + offset) = size * q
    <3>1. multiplier * j + offset \in Int /\ multiplier * k + offset \in Int
      BY <2>1
    <3>2. (multiplier * k + offset) % size = (multiplier * j + offset) % size
      BY <1>2 DEF AffineChunk
    <3>3. QED
      BY <3>1, <3>2, SameRemainder
  <2>3. multiplier * (k - j) = size * q
    <3>1. multiplier * (k - j) = multiplier * k - multiplier * j
      OBVIOUS
    <3>2. QED
      BY <2>1, <2>2, <3>1
  <2>4. k - j \in Nat \ {0} /\ k - j < size
    BY <1>2
  <2>5. PICK t \in Int : k - j = size * t
    <3>1. PICK d \in Nat \ {0} : d = k - j
      BY <2>4
    <3>2. multiplier * d = size * q
      BY <2>3, <3>1
    <3>3. \E t \in Int : d = size * t
      BY <3>2, CoprimeFactor
    <3>4. QED
      BY <3>1, <3>3
  <2>6. t >= 1
    BY <2>4, <2>5
  <2>7. QED
    BY <2>4, <2>5, <2>6
<1>3. ASSUME NEW j \in Ranks, NEW k \in Ranks, f[j] = f[k]
      PROVE  j = k
  <2>1. j < k \/ k < j \/ j = k
    OBVIOUS
  <2>. HIDE DEF f
  <2>2. QED
    BY <1>2, <1>3, <2>1
<1>4. f \in Injection(Ranks, Ranks)
  <2>. HIDE DEF f
  <2>1. QED
    BY <1>1, <1>3 DEF Injection, IsInjective
<1>5. f \in Surjection(Ranks, Ranks)
  <2>. HIDE DEF f
  <2>1. IsFiniteSet(Ranks)
    BY FS_Interval
  <2>2. QED
    BY <1>4, <2>1, FS_Injection
<1>6. QED
  BY <1>4, <1>5 DEF Bijection

-----------------------------------------------------------------------------
(***************************************************************************)
(* The fixed orders                                                        *)
(***************************************************************************)

\* A map of the ranks to themselves that never repeats leaves nothing out.
LEMMA NoRepeatNoGap ==
  ASSUME NEW size \in Nat, NEW f \in [0 .. size - 1 -> 0 .. size - 1],
         \A j, k \in 0 .. size - 1 : f[j] = f[k] => j = k
  PROVE  f \in Bijection(0 .. size - 1, 0 .. size - 1)
<1>1. f \in Injection(0 .. size - 1, 0 .. size - 1)
  BY DEF Injection, IsInjective
<1>2. IsFiniteSet(0 .. size - 1)
  BY FS_Interval
<1>3. f \in Surjection(0 .. size - 1, 0 .. size - 1)
  BY <1>1, <1>2, FS_Injection
<1>4. QED
  BY <1>1, <1>3 DEF Bijection

\* EdgeOrder goes inwards from both ends in turn: each rank has a chunk of its
\* own, at odd sizes too, where the last rank is the chunk in the middle.
THEOREM EdgeOrder ==
  ASSUME NEW size \in Nat \ {0}
  PROVE  [rank \in 0 .. size - 1 |-> EdgeChunk(size, rank)]
           \in Bijection(0 .. size - 1, 0 .. size - 1)
<1>. DEFINE Ranks == 0 .. size - 1
            f == [rank \in Ranks |-> EdgeChunk(size, rank)]
<1>1. ASSUME NEW rank \in Ranks
      PROVE  \E q \in Nat : \/ rank = 2 * q /\ f[rank] = q
                            \/ rank = 2 * q + 1 /\ f[rank] = size - 1 - q
  <2>1. /\ rank % 2 \in 0 .. 1 /\ rank \div 2 \in Int
        /\ rank = 2 * (rank \div 2) + (rank % 2)
    BY Division
  <2>2. PICK q \in Int : q = rank \div 2
    BY <2>1
  <2>3. q \in Nat
    BY <2>1, <2>2
  <2>4. f[rank] = IF rank % 2 = 0 THEN q ELSE size - 1 - q
    BY <2>2 DEF EdgeChunk
  <2>5. QED
    BY <2>1, <2>2, <2>3, <2>4
<1>. HIDE DEF f
<1>2. \A rank \in Ranks : f[rank] \in Ranks
  BY <1>1
<1>3. f = [rank \in Ranks |-> f[rank]]
  BY DEF f
<1>4. \A j, k \in Ranks : f[j] = f[k] => j = k
  <2>1. SUFFICES ASSUME NEW j \in Ranks, NEW k \in Ranks, f[j] = f[k] PROVE j = k
    OBVIOUS
  <2>2. PICK a \in Nat : \/ j = 2 * a /\ f[j] = a
                         \/ j = 2 * a + 1 /\ f[j] = size - 1 - a
    BY <1>1
  <2>3. PICK b \in Nat : \/ k = 2 * b /\ f[k] = b
                         \/ k = 2 * b + 1 /\ f[k] = size - 1 - b
    BY <1>1
  <2>4. QED
    BY <2>1, <2>2, <2>3
<1>5. f \in [Ranks -> Ranks]
  BY <1>2, <1>3
<1>6. QED
  BY <1>4, <1>5, NoRepeatNoGap DEF f

\* CenterOrder goes outwards from the middle: each rank has a chunk of its own,
\* at even sizes too, where the upper half is one chunk longer.
THEOREM CenterOrder ==
  ASSUME NEW size \in Nat \ {0}
  PROVE  [rank \in 0 .. size - 1 |-> CenterChunk(size, rank)]
           \in Bijection(0 .. size - 1, 0 .. size - 1)
<1>. DEFINE Ranks == 0 .. size - 1
            f == [rank \in Ranks |-> CenterChunk(size, rank)]
<1>1. PICK middle \in Nat, e \in 0 .. 1 :
        middle = (size - 1) \div 2 /\ size - 1 = 2 * middle + e
  <2>1. PICK n \in Nat : n = size - 1
    OBVIOUS
  <2>2. n % 2 \in 0 .. 1 /\ n \div 2 \in Int /\ n = 2 * (n \div 2) + (n % 2)
    BY Division
  <2>3. n \div 2 \in Nat
    BY <2>2
  <2>4. QED
    BY <2>1, <2>2, <2>3
<1>2. ASSUME NEW rank \in Ranks
      PROVE  \E q \in Nat : \/ rank = 2 * q /\ f[rank] = middle - q
                            \/ rank = 2 * q + 1 /\ f[rank] = middle + q + 1
  <2>1. /\ rank % 2 \in 0 .. 1 /\ rank \div 2 \in Int
        /\ rank = 2 * (rank \div 2) + (rank % 2)
    BY Division
  <2>2. PICK q \in Int : q = rank \div 2
    BY <2>1
  <2>3. q \in Nat
    BY <2>1, <2>2
  <2>4. f[rank] = IF rank % 2 = 1 THEN middle + (rank + 1) \div 2 ELSE middle - q
    BY <1>1, <2>2 DEF CenterChunk
  <2>5. CASE rank % 2 = 0
    BY <2>1, <2>2, <2>3, <2>4, <2>5
  <2>6. CASE rank % 2 = 1
    <3>1. rank + 1 \in Int /\ rank + 1 = 2 * (q + 1) + 0 /\ q + 1 \in Int
      BY <2>1, <2>2, <2>3, <2>6
    <3>2. 0 \in 0 .. 2 - 1 /\ 2 \in Nat \ {0}
      OBVIOUS
    <3>3. (rank + 1) \div 2 = q + 1
      BY <3>1, <3>2, DivisionUnique
    <3>4. QED
      BY <2>1, <2>2, <2>3, <2>4, <2>6, <3>3
  <2>7. QED
    BY <2>1, <2>5, <2>6
<1>. HIDE DEF f
<1>3. \A rank \in Ranks : f[rank] \in Ranks
  <2>1. SUFFICES ASSUME NEW rank \in Ranks PROVE f[rank] \in Ranks
    OBVIOUS
  <2>2. PICK q \in Nat : \/ rank = 2 * q /\ f[rank] = middle - q
                         \/ rank = 2 * q + 1 /\ f[rank] = middle + q + 1
    BY <1>2
  <2>3. rank \in Nat /\ rank <= 2 * middle + e /\ size = 2 * middle + e + 1
    BY <1>1
  <2>4. f[rank] \in Int /\ 0 <= f[rank] /\ f[rank] <= 2 * middle + e
    BY <2>2, <2>3
  <2>5. QED
    BY <2>3, <2>4
<1>4. f = [rank \in Ranks |-> f[rank]]
  BY DEF f
<1>5. \A j, k \in Ranks : f[j] = f[k] => j = k
  <2>1. SUFFICES ASSUME NEW j \in Ranks, NEW k \in Ranks, f[j] = f[k] PROVE j = k
    OBVIOUS
  <2>2. PICK a \in Nat : \/ j = 2 * a /\ f[j] = middle - a
                         \/ j = 2 * a + 1 /\ f[j] = middle + a + 1
    BY <1>2
  <2>3. PICK b \in Nat : \/ k = 2 * b /\ f[k] = middle - b
                         \/ k = 2 * b + 1 /\ f[k] = middle + b + 1
    BY <1>2
  <2>4. QED
    BY <2>1, <2>2, <2>3
<1>6. f \in [Ranks -> Ranks]
  BY <1>3, <1>4
<1>7. QED
  BY <1>5, <1>6, NoRepeatNoGap DEF f

-----------------------------------------------------------------------------
(***************************************************************************)
(* Walks over a permutation                                                *)
(***************************************************************************)

\* The chunks that a walk from rank meets in turn, rank first.
Orbit(g, permutation, domain, rank) ==
  /\ g \in [0 .. domain -> 0 .. domain - 1] /\ g[0] = rank
  /\ \A k \in 1 .. domain : g[k] = permutation[g[k - 1]]

\* k is the first step at which the walk is below size.
FirstBelow(g, size, k) == g[k] < size /\ \A j \in 1 .. k - 1 : g[j] >= size

\* WalkedChunk is the first chunk of the walk that is below size, when there is
\* one within domain steps.
LEMMA WalkFollowsOrbit ==
  ASSUME NEW domain \in Nat \ {0}, NEW size \in Nat,
         NEW permutation \in [0 .. domain - 1 -> 0 .. domain - 1],
         NEW rank \in 0 .. domain - 1
  PROVE  \E g : /\ Orbit(g, permutation, domain, rank)
                /\ (\E k \in 1 .. domain : g[k] < size)
                     => \E k \in 1 .. domain :
                          /\ WalkedChunk(size, domain, permutation, rank) = g[k]
                          /\ FirstBelow(g, size, k)
<1>. DEFINE Places == 0 .. domain - 1
            Is(a) == a = [k \in 1 .. domain |->
                            IF k = 1 THEN permutation[rank]
                            ELSE LET last == a[k - 1] IN permutation[last]]
            after == CHOOSE a : Is(a)
            step == [x \in (1 .. domain) \X Places |-> permutation[x[2]]]
            Met(a) == a[CHOOSE k \in 1 .. domain :
                          a[k] < size /\ \A j \in 1 .. k - 1 : a[j] >= size]
<1>1. WalkedChunk(size, domain, permutation, rank) = Met(after)
  BY DEF WalkedChunk
<1>2. /\ IsStep(step, domain, Places)
      /\ \A k \in 1 .. domain : \A v \in Places : step[<<k, v>>] = permutation[v]
  BY DEF IsStep
<1>. HIDE DEF step
<1>3. PICK f : Follows(f, domain, Places, rank, step)
  BY <1>2, Recursion
<1>4. f \in [0 .. domain -> Places] /\ f[0] = rank
  BY <1>3 DEF Follows
<1>5. ASSUME NEW k \in 1 .. domain PROVE f[k] = permutation[f[k - 1]]
  <2>1. k - 1 \in 0 .. domain
    OBVIOUS
  <2>2. f[k - 1] \in Places
    BY <1>4, <2>1
  <2>3. f[k] = step[<<k, f[k - 1]>>]
    BY <1>3 DEF Follows
  <2>4. QED
    BY <1>2, <2>2, <2>3
<1>6. f[1] = permutation[rank]
  <2>1. 1 \in 1 .. domain /\ 1 - 1 = 0
    OBVIOUS
  <2>2. f[1] = permutation[f[1 - 1]]
    BY <1>5, <2>1
  <2>3. QED
    BY <1>4, <2>1, <2>2
<1>7. \E a : Is(a)
  <2>. DEFINE a == [k \in 1 .. domain |-> f[k]]
  <2>1. ASSUME NEW k \in 1 .. domain
        PROVE  a[k] = IF k = 1 THEN permutation[rank] ELSE permutation[a[k - 1]]
    <3>1. CASE k = 1
      BY <1>6, <3>1
    <3>2. CASE k # 1
      <4>1. k - 1 \in 1 .. domain
        BY <3>2
      <4>2. QED
        BY <1>5, <3>2, <4>1
    <3>3. QED
      BY <3>1, <3>2
  <2>2. Is(a)
    BY <2>1
  <2>. HIDE DEF a, Is
  <2>3. QED
    BY <2>2
<1>8. Is(after)
  <2>. HIDE DEF Is
  <2>1. QED
    BY <1>7
<1>. HIDE DEF after
<1>9. \A k \in 1 .. domain :
        after[k] = IF k = 1 THEN permutation[rank] ELSE permutation[after[k - 1]]
  BY <1>8
<1>. HIDE DEF Is
<1>10. \A k \in 1 .. domain : after[k] = f[k]
  <2>. DEFINE S == {k \in 0 .. domain : k # 0 => after[k] = f[k]}
  <2>1. 0 \in S
    OBVIOUS
  <2>2. \A k \in 0 .. domain - 1 : k \in S => k + 1 \in S
    <3>1. SUFFICES ASSUME NEW k \in 0 .. domain - 1, k \in S PROVE k + 1 \in S
      OBVIOUS
    <3>2. k + 1 \in 1 .. domain /\ k + 1 \in 0 .. domain /\ (k + 1) - 1 = k
      OBVIOUS
    <3>3. f[k + 1] = permutation[f[k]]
      BY <1>5, <3>2
    <3>4. CASE k = 0
      BY <1>6, <1>9, <3>2, <3>4
    <3>5. CASE k # 0
      <4>1. k + 1 # 1 /\ after[k] = f[k]
        BY <3>1, <3>5
      <4>2. after[k + 1] = permutation[after[k]]
        BY <1>9, <3>2, <4>1
      <4>3. QED
        BY <3>2, <3>3, <4>1, <4>2
    <3>6. QED
      BY <3>4, <3>5
  <2>3. \A k \in 0 .. domain : k \in S
    <3>. HIDE DEF S
    <3>1. QED
      BY <2>1, <2>2, Climb
  <2>4. QED
    BY <2>3
<1>11. Orbit(f, permutation, domain, rank)
  BY <1>4, <1>5 DEF Orbit
<1>12. ASSUME \E k \in 1 .. domain : f[k] < size
       PROVE  \E k \in 1 .. domain : Met(after) = f[k] /\ FirstBelow(f, size, k)
  <2>. DEFINE T == {k \in 1 .. domain : f[k] < size}
              First(k) == after[k] < size /\ \A j \in 1 .. k - 1 : after[j] >= size
  <2>1. PICK k \in T : \A j \in T : k <= j
    <3>1. PICK i \in 1 .. domain : f[i] < size
      BY <1>12
    <3>2. i \in T /\ T \subseteq Nat
      BY <3>1
    <3>. HIDE DEF T
    <3>3. QED
      BY <3>2, LeastMember
  <2>2. ASSUME NEW j \in 1 .. k - 1 PROVE after[j] >= size
    <3>1. j \in 1 .. domain /\ ~(k <= j)
      OBVIOUS
    <3>2. f[j] \in Int
      <4>1. j \in 0 .. domain
        BY <3>1
      <4>2. f[j] \in Places
        BY <1>4, <4>1
      <4>3. QED
        BY <4>2
    <3>3. j \notin T
      <4>. HIDE DEF T
      <4>1. QED
        BY <2>1, <3>1
    <3>4. after[j] = f[j] /\ ~(f[j] < size)
      BY <1>10, <3>1, <3>3
    <3>5. QED
      BY <3>2, <3>4
  <2>3. k \in 1 .. domain /\ First(k)
    BY <1>10, <2>1, <2>2
  <2>4. PICK n : n = CHOOSE i \in 1 .. domain : First(i)
    OBVIOUS
  <2>5. n \in 1 .. domain /\ First(n)
    <3>. HIDE DEF First
    <3>1. QED
      BY <2>3, <2>4
  <2>6. Met(after) = after[n]
    BY <2>4
  <2>7. \A j \in 1 .. n - 1 : j \in 1 .. domain
    BY <2>5
  <2>8. FirstBelow(f, size, n)
    BY <1>10, <2>5, <2>7 DEF FirstBelow
  <2>9. QED
    BY <1>10, <2>5, <2>6, <2>8
<1>13. QED
  BY <1>1, <1>11, <1>12

\* A walk over a permutation that starts below size is below size again within
\* domain steps: among domain + 1 chunks two are the same, and stepping both
\* back leads to a visit of rank itself.
LEMMA WalkReturns ==
  ASSUME NEW domain \in Nat \ {0}, NEW g, NEW permutation, NEW rank \in 0 .. domain - 1,
         permutation \in Bijection(0 .. domain - 1, 0 .. domain - 1),
         Orbit(g, permutation, domain, rank)
  PROVE  \E k \in 1 .. domain : g[k] = rank
<1>. DEFINE Places == 0 .. domain - 1
<1>1. \A x, y \in Places : permutation[x] = permutation[y] => x = y
  BY DEF Bijection, Injection, IsInjective
<1>2. g \in [0 .. domain -> Places] /\ g[0] = rank
  BY DEF Orbit
<1>3. PICK i \in 0 .. domain, j \in 0 .. domain : i < j /\ g[i] = g[j]
  <2>1. /\ IsFiniteSet(0 .. domain) /\ Cardinality(0 .. domain) = domain + 1
        /\ IsFiniteSet(Places) /\ Cardinality(Places) = domain
    BY FS_Interval
  <2>2. PICK x \in 0 .. domain, y \in 0 .. domain : x # y /\ g[x] = g[y]
    <3>. DEFINE Steps == 0 .. domain
    <3>1. /\ IsFiniteSet(Steps) /\ IsFiniteSet(Places) /\ g \in [Steps -> Places]
          /\ Cardinality(Places) < Cardinality(Steps)
      BY <1>2, <2>1
    <3>2. \E x \in Steps, y \in Steps : x # y /\ g[x] = g[y]
      <4>. HIDE DEF Places, Steps
      <4>1. QED
        BY <3>1, FS_PigeonHole
    <3>3. QED
      BY <3>2
  <2>3. x < y \/ y < x
    BY <2>2
  <2>4. QED
    BY <2>2, <2>3
<1>. DEFINE S == {n \in 0 .. i : g[i - n] = g[j - n]}
<1>4. 0 \in S
  BY <1>3
<1>5. ASSUME NEW n \in 0 .. i - 1, n \in S PROVE n + 1 \in S
  <2>1. i - n \in 1 .. domain /\ j - n \in 1 .. domain /\ n + 1 \in 0 .. i
    BY <1>3
  <2>2. PICK a, b : a = i - n /\ b = j - n
    OBVIOUS
  <2>3. a \in 1 .. domain /\ b \in 1 .. domain
    BY <2>1, <2>2
  <2>4. g[a] = permutation[g[a - 1]] /\ g[b] = permutation[g[b - 1]]
    BY <2>3 DEF Orbit
  <2>5. g[a] = g[b]
    BY <1>5, <2>2
  <2>6. a - 1 \in 0 .. domain /\ b - 1 \in 0 .. domain
    BY <2>3
  <2>7. g[a - 1] \in Places /\ g[b - 1] \in Places
    BY <1>2, <2>6
  <2>8. g[a - 1] = g[b - 1]
    BY <1>1, <2>4, <2>5, <2>7
  <2>9. a - 1 = i - (n + 1) /\ b - 1 = j - (n + 1)
    BY <2>1, <2>2
  <2>10. QED
    BY <2>1, <2>8, <2>9
<1>6. \A n \in 0 .. i : n \in S
  <2>. HIDE DEF S
  <2>1. QED
    BY <1>4, <1>5, Climb
<1>7. i \in S
  <2>. HIDE DEF S
  <2>1. QED
    BY <1>6
<1>8. j - i \in 1 .. domain /\ i - i = 0
  BY <1>3
<1>9. g[j - i] = g[0]
  BY <1>7, <1>8
<1>10. QED
  BY <1>2, <1>8, <1>9

\* Two walks that meet at their first chunks below size started together: the
\* longer one, stepped back as often as the shorter one is long, would have
\* been below size before.
LEMMA WalksApart ==
  ASSUME NEW domain \in Nat \ {0}, NEW size \in 0 .. domain, NEW permutation,
         permutation \in Bijection(0 .. domain - 1, 0 .. domain - 1),
         NEW p \in 0 .. size - 1, NEW q \in 0 .. size - 1, NEW g, NEW h,
         Orbit(g, permutation, domain, p), Orbit(h, permutation, domain, q),
         NEW i \in 1 .. domain, NEW j \in 1 .. domain, i <= j, g[i] = h[j],
         FirstBelow(h, size, j)
  PROVE  p = q
<1>. DEFINE Places == 0 .. domain - 1
<1>1. \A x, y \in Places : permutation[x] = permutation[y] => x = y
  BY DEF Bijection, Injection, IsInjective
<1>2. /\ g \in [0 .. domain -> Places] /\ g[0] = p
      /\ h \in [0 .. domain -> Places] /\ h[0] = q
  BY DEF Orbit
<1>. DEFINE S == {n \in 0 .. i : g[i - n] = h[j - n]}
<1>3. 0 \in S
  OBVIOUS
<1>4. ASSUME NEW n \in 0 .. i - 1, n \in S PROVE n + 1 \in S
  <2>1. i - n \in 1 .. domain /\ j - n \in 1 .. domain /\ n + 1 \in 0 .. i
    OBVIOUS
  <2>2. PICK a, b : a = i - n /\ b = j - n
    OBVIOUS
  <2>3. a \in 1 .. domain /\ b \in 1 .. domain
    BY <2>1, <2>2
  <2>4. g[a] = permutation[g[a - 1]] /\ h[b] = permutation[h[b - 1]]
    BY <2>3 DEF Orbit
  <2>5. g[a] = h[b]
    BY <1>4, <2>2
  <2>6. a - 1 \in 0 .. domain /\ b - 1 \in 0 .. domain
    BY <2>3
  <2>7. g[a - 1] \in Places /\ h[b - 1] \in Places
    BY <1>2, <2>6
  <2>8. g[a - 1] = h[b - 1]
    BY <1>1, <2>4, <2>5, <2>7
  <2>9. a - 1 = i - (n + 1) /\ b - 1 = j - (n + 1)
    BY <2>1, <2>2
  <2>10. QED
    BY <2>1, <2>8, <2>9
<1>5. \A n \in 0 .. i : n \in S
  <2>. HIDE DEF S
  <2>1. QED
    BY <1>3, <1>4, Climb
<1>6. g[0] = h[j - i]
  <2>1. i \in S
    <3>. HIDE DEF S
    <3>1. QED
      BY <1>5
  <2>2. i - i = 0
    OBVIOUS
  <2>3. QED
    BY <2>1, <2>2
<1>7. CASE i = j
  <2>1. j - i = 0
    BY <1>7
  <2>2. QED
    BY <1>2, <1>6, <2>1
<1>8. CASE i # j
  <2>1. j - i \in 1 .. j - 1
    BY <1>8
  <2>2. h[j - i] >= size
    BY <2>1 DEF FirstBelow
  <2>3. h[j - i] = p
    BY <1>2, <1>6
  <2>4. QED
    BY <2>2, <2>3
<1>9. QED
  BY <1>7, <1>8

\* The private order and the bit-spread order walk a permutation of a power of
\* two until they are back among the chunks: whatever the permutation, each
\* rank has a chunk of its own.
THEOREM WalkedOrder ==
  ASSUME NEW domain \in Nat \ {0}, NEW size \in 0 .. domain, NEW permutation,
         permutation \in Bijection(0 .. domain - 1, 0 .. domain - 1)
  PROVE  [rank \in 0 .. size - 1 |-> WalkedChunk(size, domain, permutation, rank)]
           \in Bijection(0 .. size - 1, 0 .. size - 1)
<1>. DEFINE Ranks == 0 .. size - 1
            f == [rank \in Ranks |-> WalkedChunk(size, domain, permutation, rank)]
            Walk(g, rank, k) == /\ Orbit(g, permutation, domain, rank)
                                /\ f[rank] = g[k] /\ FirstBelow(g, size, k)
<1>1. permutation \in [0 .. domain - 1 -> 0 .. domain - 1]
  BY DEF Bijection, Injection
<1>2. ASSUME NEW rank \in Ranks PROVE \E g : \E k \in 1 .. domain : Walk(g, rank, k)
  <2>1. rank \in 0 .. domain - 1 /\ size \in Nat
    OBVIOUS
  <2>2. PICK g : /\ Orbit(g, permutation, domain, rank)
                 /\ (\E k \in 1 .. domain : g[k] < size)
                      => \E k \in 1 .. domain :
                           /\ WalkedChunk(size, domain, permutation, rank) = g[k]
                           /\ FirstBelow(g, size, k)
    BY <1>1, <2>1, WalkFollowsOrbit
  <2>3. PICK k \in 1 .. domain : g[k] = rank
    BY <2>1, <2>2, WalkReturns
  <2>4. g[k] < size
    BY <2>3
  <2>5. PICK n \in 1 .. domain :
          /\ WalkedChunk(size, domain, permutation, rank) = g[n]
          /\ FirstBelow(g, size, n)
    BY <2>2, <2>4
  <2>6. Walk(g, rank, n)
    BY <2>2, <2>5
  <2>. HIDE DEF Walk
  <2>7. QED
    BY <2>6
<1>. HIDE DEF f
<1>3. ASSUME NEW rank \in Ranks PROVE f[rank] \in Ranks
  <2>1. PICK g : \E k \in 1 .. domain : Walk(g, rank, k)
    BY <1>2
  <2>2. PICK k \in 1 .. domain : Walk(g, rank, k)
    BY <2>1
  <2>3. g \in [0 .. domain -> 0 .. domain - 1] /\ k \in 0 .. domain
    <3>1. Orbit(g, permutation, domain, rank)
      BY <2>2
    <3>2. k \in 0 .. domain
      OBVIOUS
    <3>3. QED
      BY <3>1, <3>2 DEF Orbit
  <2>4. g[k] \in 0 .. domain - 1
    BY <2>3
  <2>5. g[k] < size /\ f[rank] = g[k]
    BY <2>2 DEF FirstBelow
  <2>6. QED
    BY <2>4, <2>5
<1>4. ASSUME NEW p \in Ranks, NEW q \in Ranks, f[p] = f[q] PROVE p = q
  <2>1. PICK g : \E k \in 1 .. domain : Walk(g, p, k)
    BY <1>2
  <2>2. PICK i \in 1 .. domain : Walk(g, p, i)
    BY <2>1
  <2>3. PICK h : \E k \in 1 .. domain : Walk(h, q, k)
    BY <1>2
  <2>4. PICK j \in 1 .. domain : Walk(h, q, j)
    BY <2>3
  <2>5. /\ Orbit(g, permutation, domain, p) /\ FirstBelow(g, size, i)
        /\ Orbit(h, permutation, domain, q) /\ FirstBelow(h, size, j)
        /\ g[i] = h[j]
    BY <1>4, <2>2, <2>4
  <2>6. CASE i <= j
    BY <2>5, <2>6, WalksApart
  <2>7. CASE j <= i
    <3>1. q = p
      BY <2>5, <2>7, WalksApart
    <3>2. QED
      BY <3>1
  <2>8. QED
    BY <2>6, <2>7
<1>5. f \in [Ranks -> Ranks]
  <2>1. f = [rank \in Ranks |-> f[rank]]
    BY DEF f
  <2>2. QED
    BY <1>3, <2>1
<1>6. QED
  BY <1>4, <1>5, NoRepeatNoGap DEF f


-----------------------------------------------------------------------------
(***************************************************************************)
(* The cold order                                                          *)
(***************************************************************************)

LEMMA DivisionMonotone ==
  ASSUME NEW a \in Int, NEW b \in Int, a <= b, NEW m \in Nat \ {0}
  PROVE  a \div m <= b \div m
<1>1. PICK p \in Int, r \in 0 .. m - 1 : p = a \div m /\ a = m * p + r
  BY Division
<1>2. PICK q \in Int, t \in 0 .. m - 1 : q = b \div m /\ b = m * q + t
  BY Division
<1>3. SUFFICES ASSUME q + 1 <= p PROVE FALSE
  BY <1>1, <1>2
<1>4. PICK d \in Nat : p = q + 1 + d
  <2>1. p - (q + 1) \in Nat /\ p = q + 1 + (p - (q + 1))
    BY <1>3
  <2>2. QED
    BY <2>1
<1>5. m * p = m * q + m + m * d
  BY <1>4
<1>6. PICK x \in Int, y \in Int, z \in Nat : x = m * p /\ y = m * q /\ z = m * d
  <2>1. m * p \in Int /\ m * q \in Int /\ m * d \in Nat
    OBVIOUS
  <2>2. QED
    BY <2>1
<1>7. a = x + r /\ b = y + t /\ x = y + m + z
  BY <1>1, <1>2, <1>5, <1>6
<1>8. QED
  BY <1>6, <1>7

\* The bands lie one behind the other from 0 to size.
LEMMA BandsInOrder ==
  ASSUME NEW size \in Nat, NEW bands \in Nat \ {0}
  PROVE  /\ Bound(size, bands, 0) = 0 /\ Bound(size, bands, bands) = size
         /\ \A b \in 0 .. bands : Bound(size, bands, b) \in 0 .. size
         /\ \A b, c \in 0 .. bands :
              b <= c => Bound(size, bands, b) <= Bound(size, bands, c)
<1>1. Bound(size, bands, 0) = 0
  <2>1. size * 0 = bands * 0 + 0 /\ size * 0 \in Int /\ 0 \in 0 .. bands - 1
    OBVIOUS
  <2>2. (size * 0) \div bands = 0
    BY <2>1, DivisionUnique
  <2>3. QED
    BY <2>2 DEF Bound
<1>2. Bound(size, bands, bands) = size
  <2>1. size * bands = bands * size + 0 /\ size * bands \in Int /\ 0 \in 0 .. bands - 1
    OBVIOUS
  <2>2. (size * bands) \div bands = size
    BY <2>1, DivisionUnique
  <2>3. QED
    BY <2>2 DEF Bound
<1>3. ASSUME NEW b \in 0 .. bands, NEW c \in 0 .. bands, b <= c
      PROVE  Bound(size, bands, b) <= Bound(size, bands, c)
  <2>1. size * b \in Int /\ size * c \in Int /\ size * b <= size * c
    BY <1>3
  <2>2. QED
    BY <2>1, DivisionMonotone DEF Bound
<1>4. ASSUME NEW b \in 0 .. bands PROVE Bound(size, bands, b) \in Int
  BY Division DEF Bound
<1>5. ASSUME NEW b \in 0 .. bands PROVE Bound(size, bands, b) \in 0 .. size
  <2>1. 0 \in 0 .. bands /\ bands \in 0 .. bands
    OBVIOUS
  <2>2. Bound(size, bands, 0) <= Bound(size, bands, b)
    BY <1>3, <2>1
  <2>3. Bound(size, bands, b) <= Bound(size, bands, bands)
    BY <1>3, <2>1
  <2>4. QED
    BY <1>1, <1>2, <1>4, <2>2, <2>3
<1>6. QED
  BY <1>1, <1>2, <1>3, <1>5

Band(size, bands, b) == Bound(size, bands, b) .. Bound(size, bands, b + 1) - 1
Width(size, bands, b) == Bound(size, bands, b + 1) - Bound(size, bands, b)

\* Every chunk is in one band and in no other.
LEMMA BandsPartition ==
  ASSUME NEW size \in Nat, NEW bands \in Nat \ {0}
  PROVE  /\ \A c \in 0 .. size - 1 : \E b \in 0 .. bands - 1 : c \in Band(size, bands, b)
         /\ \A b \in 0 .. bands - 1 :
              /\ Band(size, bands, b) \subseteq 0 .. size - 1
              /\ IsFiniteSet(Band(size, bands, b))
              /\ Width(size, bands, b) \in Nat
              /\ Cardinality(Band(size, bands, b)) = Width(size, bands, b)
         /\ \A b, c \in 0 .. bands - 1 :
              b # c => Band(size, bands, b) \cap Band(size, bands, c) = {}
<1>. DEFINE At(b) == Bound(size, bands, b)
<1>1. /\ At(0) = 0 /\ At(bands) = size
      /\ \A b \in 0 .. bands : At(b) \in 0 .. size
      /\ \A b, c \in 0 .. bands : b <= c => At(b) <= At(c)
  BY BandsInOrder
<1>2. \A b : Band(size, bands, b) = At(b) .. At(b + 1) - 1
             /\ Width(size, bands, b) = At(b + 1) - At(b)
  BY DEF Band, Width
<1>. HIDE DEF At
<1>3. ASSUME NEW c \in 0 .. size - 1
      PROVE  \E b \in 0 .. bands - 1 : c \in Band(size, bands, b)
  <2>. DEFINE T == {b \in 0 .. bands : c < At(b)}
  <2>1. PICK b \in T : \A d \in T : b <= d
    <3>1. bands \in T /\ T \subseteq Nat
      BY <1>1
    <3>. HIDE DEF T
    <3>2. QED
      BY <3>1, LeastMember
  <2>2. b # 0 /\ b \in 1 .. bands /\ c < At(b)
    BY <1>1
  <2>3. PICK d \in 0 .. bands - 1 : b = d + 1
    <3>1. b - 1 \in 0 .. bands - 1 /\ b = (b - 1) + 1
      BY <2>2
    <3>2. QED
      BY <3>1
  <2>4. d \notin T
    <3>1. ~(b <= d)
      BY <2>3
    <3>. HIDE DEF T
    <3>2. QED
      BY <2>1, <3>1
  <2>5. d \in 0 .. bands /\ ~(c < At(d)) /\ At(d) \in Int /\ At(d + 1) \in Int
    BY <1>1, <2>2, <2>3, <2>4
  <2>6. c \in At(d) .. At(d + 1) - 1
    BY <2>2, <2>3, <2>5
  <2>7. QED
    BY <1>2, <2>6
<1>4. ASSUME NEW b \in 0 .. bands - 1
      PROVE  /\ Band(size, bands, b) \subseteq 0 .. size - 1
             /\ IsFiniteSet(Band(size, bands, b))
             /\ Width(size, bands, b) \in Nat
             /\ Cardinality(Band(size, bands, b)) = Width(size, bands, b)
  <2>1. b \in 0 .. bands /\ b + 1 \in 0 .. bands /\ b <= b + 1
    OBVIOUS
  <2>2. PICK low \in 0 .. size, high \in 0 .. size :
          low = At(b) /\ high = At(b + 1) /\ low <= high
    BY <1>1, <2>1
  <2>3. Band(size, bands, b) = low .. high - 1 /\ Width(size, bands, b) = high - low
    BY <1>2, <2>2
  <2>4. low \in Int /\ high - 1 \in Int
    BY <2>2
  <2>5. /\ IsFiniteSet(low .. high - 1)
        /\ Cardinality(low .. high - 1) =
             IF low > high - 1 THEN 0 ELSE (high - 1) - low + 1
    BY <2>4, FS_Interval
  <2>6. (IF low > high - 1 THEN 0 ELSE (high - 1) - low + 1) = high - low
    BY <2>2
  <2>7. low .. high - 1 \subseteq 0 .. size - 1 /\ high - low \in Nat
    BY <2>2
  <2>8. QED
    BY <2>3, <2>5, <2>6, <2>7
<1>5. ASSUME NEW b \in 0 .. bands - 1, NEW c \in 0 .. bands - 1, b < c
      PROVE  Band(size, bands, b) \cap Band(size, bands, c) = {}
  <2>1. /\ b \in 0 .. bands /\ b + 1 \in 0 .. bands /\ b + 1 <= c
        /\ c \in 0 .. bands /\ c + 1 \in 0 .. bands
    BY <1>5
  <2>2. /\ At(b) \in Int /\ At(b + 1) \in Int /\ At(c) \in Int /\ At(c + 1) \in Int
        /\ At(b + 1) <= At(c)
    BY <1>1, <2>1
  <2>3. QED
    BY <1>2, <2>2
<1>6. ASSUME NEW b \in 0 .. bands - 1, NEW c \in 0 .. bands - 1, b # c
      PROVE  Band(size, bands, b) \cap Band(size, bands, c) = {}
  <2>1. b < c \/ c < b
    BY <1>6
  <2>2. QED
    BY <1>5, <2>1
<1>7. QED
  BY <1>3, <1>4, <1>6


\* What ColdChunk counts: totals[i] is the number of chunks in the i coldest bands.
Counts(totals, size, bands, coldest) ==
  /\ totals \in [0 .. bands -> Nat] /\ totals[0] = 0
  /\ \A i \in 1 .. bands : totals[i] = totals[i - 1] + Width(size, bands, coldest[i])

LEMMA ColdCounts ==
  ASSUME NEW size \in Nat, NEW bands \in Nat \ {0},
         NEW coldest \in [1 .. bands -> 0 .. bands - 1]
  PROVE  \E totals :
           /\ Counts(totals, size, bands, coldest)
           /\ \A permutation, rank :
                (\E i \in 1 .. bands : totals[i - 1] <= rank /\ rank < totals[i])
                  => \E i \in 1 .. bands :
                       /\ totals[i - 1] <= rank /\ rank < totals[i]
                       /\ ColdChunk(size, bands, coldest, permutation, rank)
                            = Bound(size, bands, coldest[i])
                                + permutation[coldest[i]][rank - totals[i - 1]]
<1>. DEFINE Is(a) == a = [i \in 0 .. bands |->
                            IF i = 0 THEN 0 ELSE a[i - 1] + Width(size, bands, coldest[i])]
            totals == CHOOSE a : Is(a)
            step == [x \in (1 .. bands) \X Nat |->
                       x[2] + Width(size, bands, coldest[x[1]])]
<1>1. ASSUME NEW permutation, NEW rank,
             \E i \in 1 .. bands : totals[i - 1] <= rank /\ rank < totals[i]
      PROVE  \E i \in 1 .. bands :
               /\ totals[i - 1] <= rank /\ rank < totals[i]
               /\ ColdChunk(size, bands, coldest, permutation, rank)
                    = Bound(size, bands, coldest[i])
                        + permutation[coldest[i]][rank - totals[i - 1]]
  <2>1. ColdChunk(size, bands, coldest, permutation, rank)
          = LET i == CHOOSE i \in 1 .. bands :
                       totals[i - 1] <= rank /\ rank < totals[i]
            IN Bound(size, bands, coldest[i])
                 + permutation[coldest[i]][rank - totals[i - 1]]
    BY DEF ColdChunk, Width
  <2>. HIDE DEF totals
  <2>2. QED
    BY <1>1, <2>1
<1>2. \A i \in 1 .. bands : Width(size, bands, coldest[i]) \in Nat
  BY BandsPartition
<1>3. /\ IsStep(step, bands, Nat)
      /\ \A i \in 1 .. bands : \A v \in Nat :
           step[<<i, v>>] = v + Width(size, bands, coldest[i])
  <2>1. ASSUME NEW x \in (1 .. bands) \X Nat
        PROVE  x[2] + Width(size, bands, coldest[x[1]]) \in Nat
    <3>1. x[1] \in 1 .. bands /\ x[2] \in Nat
      OBVIOUS
    <3>2. Width(size, bands, coldest[x[1]]) \in Nat
      BY <1>2, <3>1
    <3>3. QED
      BY <3>1, <3>2
  <2>2. step \in [(1 .. bands) \X Nat -> Nat]
    BY <2>1
  <2>3. ASSUME NEW i \in 1 .. bands, NEW v \in Nat
        PROVE  step[<<i, v>>] = v + Width(size, bands, coldest[i])
    <3>1. /\ <<i, v>> \in (1 .. bands) \X Nat
          /\ <<i, v>>[1] = i /\ <<i, v>>[2] = v
      OBVIOUS
    <3>2. QED
      BY <3>1
  <2>. HIDE DEF step
  <2>4. QED
    BY <2>2, <2>3 DEF IsStep
<1>. HIDE DEF step
<1>4. PICK f : Follows(f, bands, Nat, 0, step)
  BY <1>3, Recursion
<1>5. /\ f \in [0 .. bands -> Nat] /\ f[0] = 0
      /\ \A i \in 1 .. bands : f[i] = step[<<i, f[i - 1]>>]
  BY <1>4 DEF Follows
<1>6. ASSUME NEW i \in 1 .. bands
      PROVE  f[i] = f[i - 1] + Width(size, bands, coldest[i])
  <2>1. i - 1 \in 0 .. bands
    OBVIOUS
  <2>2. f[i - 1] \in Nat
    BY <1>5, <2>1
  <2>3. QED
    BY <1>3, <1>5, <2>2
<1>7. \E a : Is(a)
  <2>1. \A i \in 0 .. bands :
          f[i] = IF i = 0 THEN 0 ELSE f[i - 1] + Width(size, bands, coldest[i])
    <3>1. \A i \in 0 .. bands : i = 0 \/ i \in 1 .. bands
      OBVIOUS
    <3>2. \A i \in 1 .. bands : i # 0
      OBVIOUS
    <3>3. QED
      BY <1>5, <1>6, <3>1, <3>2
  <2>2. f = [i \in 0 .. bands |-> f[i]]
    BY <1>5
  <2>3. Is(f)
    BY <2>1, <2>2
  <2>. HIDE DEF Is
  <2>4. QED
    BY <2>3
<1>8. Is(totals)
  <2>. HIDE DEF Is
  <2>1. QED
    BY <1>7
<1>. HIDE DEF totals
<1>9. /\ \A i \in 0 .. bands :
           totals[i] = IF i = 0 THEN 0 ELSE totals[i - 1] + Width(size, bands, coldest[i])
      /\ totals = [i \in 0 .. bands |-> totals[i]]
  BY <1>8
<1>. HIDE DEF Is
<1>10. totals[0] = 0
  <2>1. 0 \in 0 .. bands
    OBVIOUS
  <2>2. QED
    BY <1>9, <2>1
<1>11. ASSUME NEW i \in 1 .. bands
       PROVE  totals[i] = totals[i - 1] + Width(size, bands, coldest[i])
  <2>1. i \in 0 .. bands /\ i # 0
    OBVIOUS
  <2>2. QED
    BY <1>9, <2>1
<1>12. \A i \in 0 .. bands : totals[i] \in Nat
  <2>. DEFINE S == {i \in 0 .. bands : totals[i] \in Nat}
  <2>1. 0 \in S
    BY <1>10
  <2>2. ASSUME NEW i \in 0 .. bands - 1, i \in S PROVE i + 1 \in S
    <3>1. i + 1 \in 1 .. bands /\ i + 1 \in 0 .. bands /\ (i + 1) - 1 = i
      OBVIOUS
    <3>2. totals[i + 1] = totals[i] + Width(size, bands, coldest[i + 1])
      BY <1>11, <3>1
    <3>3. Width(size, bands, coldest[i + 1]) \in Nat /\ totals[i] \in Nat
      BY <1>2, <2>2, <3>1
    <3>4. QED
      BY <3>1, <3>2, <3>3
  <2>3. \A i \in 0 .. bands : i \in S
    <3>. HIDE DEF S
    <3>1. QED
      BY <2>1, <2>2, Climb
  <2>4. QED
    BY <2>3
<1>13. totals \in [0 .. bands -> Nat]
  BY <1>9, <1>12
<1>14. Counts(totals, size, bands, coldest)
  BY <1>10, <1>11, <1>13 DEF Counts
<1>15. QED
  BY <1>1, <1>14

\* All bands together hold size chunks.
LEMMA AllCounted ==
  ASSUME NEW size \in Nat, NEW bands \in Nat \ {0}, NEW coldest,
         coldest \in Bijection(1 .. bands, 0 .. bands - 1), NEW totals,
         Counts(totals, size, bands, coldest)
  PROVE  totals[bands] = size
<1>1. /\ coldest \in [1 .. bands -> 0 .. bands - 1]
      /\ \A i, j \in 1 .. bands : coldest[i] = coldest[j] => i = j
      /\ \A b \in 0 .. bands - 1 : \E i \in 1 .. bands : coldest[i] = b
  BY DEF Bijection, Injection, Surjection, IsInjective
<1>. DEFINE Of(i) == Band(size, bands, coldest[i])
            First(i) == {c \in 0 .. size - 1 : \E j \in 1 .. i : c \in Of(j)}
            S == {i \in 0 .. bands : /\ IsFiniteSet(First(i))
                                     /\ Cardinality(First(i)) = totals[i]}
<1>2. \A i \in 1 .. bands :
        /\ Of(i) \subseteq 0 .. size - 1 /\ IsFiniteSet(Of(i))
        /\ Cardinality(Of(i)) = Width(size, bands, coldest[i])
  BY <1>1, BandsPartition
<1>3. \A i, j \in 1 .. bands : i # j => Of(i) \cap Of(j) = {}
  BY <1>1, BandsPartition
<1>4. First(bands) = 0 .. size - 1
  <2>1. ASSUME NEW c \in 0 .. size - 1 PROVE \E j \in 1 .. bands : c \in Of(j)
    <3>1. PICK b \in 0 .. bands - 1 : c \in Band(size, bands, b)
      BY BandsPartition
    <3>2. PICK j \in 1 .. bands : coldest[j] = b
      BY <1>1
    <3>3. QED
      BY <3>1, <3>2
  <2>2. QED
    BY <2>1
<1>. HIDE DEF Of
<1>5. 0 \in S
  <2>1. First(0) = {}
    OBVIOUS
  <2>2. IsFiniteSet({}) /\ Cardinality({}) = 0
    BY FS_EmptySet
  <2>3. totals[0] = 0 /\ 0 \in 0 .. bands
    BY DEF Counts
  <2>. HIDE DEF First
  <2>4. QED
    BY <2>1, <2>2, <2>3
<1>6. ASSUME NEW i \in 0 .. bands - 1, i \in S PROVE i + 1 \in S
  <2>1. i + 1 \in 1 .. bands /\ i + 1 \in 0 .. bands /\ (i + 1) - 1 = i /\ i \in 0 .. bands
    OBVIOUS
  <2>2. First(i + 1) = First(i) \cup Of(i + 1)
    <3>1. Of(i + 1) \subseteq 0 .. size - 1
      BY <1>2, <2>1
    <3>2. \A j : j \in 1 .. i + 1 <=> (j \in 1 .. i \/ j = i + 1)
      OBVIOUS
    <3>3. QED
      BY <3>1, <3>2
  <2>3. First(i) \cap Of(i + 1) = {}
    <3>1. \A j \in 1 .. i : Of(j) \cap Of(i + 1) = {}
      <4>1. \A j \in 1 .. i : j \in 1 .. bands /\ j # i + 1
        OBVIOUS
      <4>2. QED
        BY <1>3, <2>1, <4>1
    <3>2. QED
      BY <3>1
  <2>4. /\ IsFiniteSet(First(i)) /\ Cardinality(First(i)) = totals[i]
        /\ IsFiniteSet(Of(i + 1))
        /\ Cardinality(Of(i + 1)) = Width(size, bands, coldest[i + 1])
    BY <1>2, <1>6, <2>1
  <2>. HIDE DEF First
  <2>5. PICK X, Y : X = First(i) /\ Y = Of(i + 1)
    OBVIOUS
  <2>6. IsFiniteSet(X) /\ IsFiniteSet(Y) /\ X \cap Y = {}
    BY <2>3, <2>4, <2>5
  <2>7. IsFiniteSet(X \cup Y) /\ Cardinality(X \cup Y) = Cardinality(X) + Cardinality(Y)
    <3>1. /\ IsFiniteSet(X \cup Y)
          /\ Cardinality(X \cup Y)
               = Cardinality(X) + Cardinality(Y) - Cardinality(X \cap Y)
      BY <2>6, FS_Union
    <3>2. Cardinality(X \cap Y) = 0
      BY <2>6, FS_EmptySet
    <3>3. Cardinality(X) \in Nat /\ Cardinality(Y) \in Nat
      BY <2>6, FS_CardinalityType
    <3>4. QED
      BY <3>1, <3>2, <3>3
  <2>8. totals[i + 1] = totals[i] + Width(size, bands, coldest[i + 1])
    BY <2>1 DEF Counts
  <2>9. QED
    BY <2>1, <2>2, <2>4, <2>5, <2>7, <2>8
<1>7. bands \in S
  <2>. HIDE DEF S
  <2>1. \A i \in 0 .. bands : i \in S
    BY <1>5, <1>6, Climb
  <2>2. QED
    BY <2>1
<1>8. Cardinality(0 .. size - 1) = size
  BY FS_Interval
<1>9. QED
  <2>. HIDE DEF First
  <2>1. QED
    BY <1>4, <1>7, <1>8


\* ColdOrder takes the bands from the coldest to the hottest and permutes each
\* within itself: each rank has a chunk of its own, at uneven bands too.
THEOREM ColdOrder ==
  ASSUME NEW size \in Nat \ {0}, NEW bands \in Nat \ {0}, NEW coldest, NEW permutation,
         coldest \in Bijection(1 .. bands, 0 .. bands - 1),
         \A b \in 0 .. bands - 1 :
           LET places == 0 .. Bound(size, bands, b + 1) - Bound(size, bands, b) - 1
           IN permutation[b] \in Bijection(places, places)
  PROVE  [rank \in 0 .. size - 1 |-> ColdChunk(size, bands, coldest, permutation, rank)]
           \in Bijection(0 .. size - 1, 0 .. size - 1)
<1>. DEFINE Ranks == 0 .. size - 1
            f == [rank \in Ranks |-> ColdChunk(size, bands, coldest, permutation, rank)]
            W(b) == Width(size, bands, b)
            \* rank is the n-th of its band b.
            Is(rank, b, n) ==
              /\ n \in 0 .. W(b) - 1
              /\ f[rank] = Bound(size, bands, b) + permutation[b][n]
<1>1. /\ coldest \in [1 .. bands -> 0 .. bands - 1]
      /\ \A i, j \in 1 .. bands : coldest[i] = coldest[j] => i = j
  BY DEF Bijection, Injection, IsInjective
<1>2. ASSUME NEW b \in 0 .. bands - 1
      PROVE  /\ permutation[b] \in [0 .. W(b) - 1 -> 0 .. W(b) - 1]
             /\ \A j, k \in 0 .. W(b) - 1 : permutation[b][j] = permutation[b][k] => j = k
  <2>1. permutation[b] \in Bijection(0 .. W(b) - 1, 0 .. W(b) - 1)
    BY DEF Width
  <2>. HIDE DEF W
  <2>2. QED
    BY <2>1 DEF Bijection, Injection, IsInjective
<1>3. PICK totals :
        /\ Counts(totals, size, bands, coldest)
        /\ \A places, rank :
             (\E i \in 1 .. bands : totals[i - 1] <= rank /\ rank < totals[i])
               => \E i \in 1 .. bands :
                    /\ totals[i - 1] <= rank /\ rank < totals[i]
                    /\ ColdChunk(size, bands, coldest, places, rank)
                         = Bound(size, bands, coldest[i])
                             + places[coldest[i]][rank - totals[i - 1]]
  <2>1. size \in Nat
    OBVIOUS
  <2>2. QED
    BY <1>1, <2>1, ColdCounts
<1>4. /\ totals \in [0 .. bands -> Nat] /\ totals[0] = 0
      /\ \A i \in 1 .. bands : totals[i] = totals[i - 1] + W(coldest[i])
  BY <1>3 DEF Counts
<1>5. \A b \in 0 .. bands - 1 : W(b) \in Nat
  BY BandsPartition
<1>6. totals[bands] = size
  BY <1>3, AllCounted
<1>7. ASSUME NEW rank \in Ranks
      PROVE  \E i \in 1 .. bands : totals[i - 1] <= rank /\ rank < totals[i]
  <2>. DEFINE T == {i \in 0 .. bands : rank < totals[i]}
  <2>1. PICK i \in T : \A j \in T : i <= j
    <3>1. bands \in T /\ T \subseteq Nat
      BY <1>6
    <3>. HIDE DEF T
    <3>2. QED
      BY <3>1, LeastMember
  <2>2. i \in 1 .. bands /\ rank < totals[i]
    BY <1>4
  <2>3. i - 1 \in 0 .. bands /\ ~(i <= i - 1)
    BY <2>2
  <2>4. i - 1 \notin T
    <3>. HIDE DEF T
    <3>1. QED
      BY <2>1, <2>3
  <2>5. totals[i - 1] \in Nat /\ ~(rank < totals[i - 1])
    BY <1>4, <2>3, <2>4
  <2>6. totals[i - 1] <= rank
    BY <2>5
  <2>7. QED
    BY <2>2, <2>6
<1>8. ASSUME NEW rank \in Ranks
      PROVE  \E i \in 1 .. bands : Is(rank, coldest[i], rank - totals[i - 1])
  <2>1. PICK i \in 1 .. bands :
          /\ totals[i - 1] <= rank /\ rank < totals[i]
          /\ ColdChunk(size, bands, coldest, permutation, rank)
               = Bound(size, bands, coldest[i])
                   + permutation[coldest[i]][rank - totals[i - 1]]
    BY <1>3, <1>7
  <2>2. i - 1 \in 0 .. bands /\ coldest[i] \in 0 .. bands - 1
    BY <1>1
  <2>3. PICK before \in Nat, width \in Nat :
          before = totals[i - 1] /\ width = W(coldest[i]) /\ totals[i] = before + width
    <3>1. totals[i - 1] \in Nat
      BY <1>4, <2>2
    <3>2. W(coldest[i]) \in Nat
      BY <1>5, <2>2
    <3>. HIDE DEF W
    <3>3. QED
      BY <1>4, <3>1, <3>2
  <2>4. rank - before \in 0 .. width - 1
    BY <2>1, <2>3
  <2>5. Is(rank, coldest[i], rank - totals[i - 1])
    <3>. HIDE DEF W
    <3>1. QED
      BY <2>1, <2>3, <2>4
  <2>. HIDE DEF Is
  <2>6. QED
    BY <2>5
<1>. HIDE DEF f
<1>9. ASSUME NEW rank, NEW b \in 0 .. bands - 1, NEW n, Is(rank, b, n)
      PROVE  f[rank] \in Band(size, bands, b)
  <2>1. permutation[b][n] \in 0 .. W(b) - 1
    <3>. HIDE DEF W
    <3>1. QED
      BY <1>2, <1>9
  <2>2. b \in 0 .. bands /\ b + 1 \in 0 .. bands
    OBVIOUS
  <2>3. Bound(size, bands, b) \in Nat /\ Bound(size, bands, b + 1) \in Nat
    <3>1. /\ Bound(size, bands, b) \in 0 .. size
          /\ Bound(size, bands, b + 1) \in 0 .. size
      BY <2>2, BandsInOrder
    <3>2. QED
      BY <3>1
  <2>4. QED
    BY <1>9, <2>1, <2>3 DEF Band, Width
<1>10. ASSUME NEW rank \in Ranks PROVE f[rank] \in Ranks
  <2>1. PICK i \in 1 .. bands : Is(rank, coldest[i], rank - totals[i - 1])
    BY <1>8
  <2>2. PICK b \in 0 .. bands - 1 : b = coldest[i]
    BY <1>1
  <2>3. Is(rank, b, rank - totals[i - 1])
    BY <2>1, <2>2
  <2>. HIDE DEF Is
  <2>4. f[rank] \in Band(size, bands, b)
    BY <1>9, <2>3
  <2>5. QED
    BY <2>4, BandsPartition
<1>11. ASSUME NEW p \in Ranks, NEW q \in Ranks, f[p] = f[q] PROVE p = q
  <2>1. PICK i \in 1 .. bands : Is(p, coldest[i], p - totals[i - 1])
    BY <1>8
  <2>2. PICK j \in 1 .. bands : Is(q, coldest[j], q - totals[j - 1])
    BY <1>8
  <2>3. PICK b \in 0 .. bands - 1, c \in 0 .. bands - 1 : b = coldest[i] /\ c = coldest[j]
    BY <1>1
  <2>4. PICK m, n : m = p - totals[i - 1] /\ n = q - totals[j - 1]
    OBVIOUS
  <2>5. Is(p, b, m) /\ Is(q, c, n)
    BY <2>1, <2>2, <2>3, <2>4
  <2>6. b = c
    <3>. HIDE DEF Is
    <3>1. f[p] \in Band(size, bands, b) /\ f[q] \in Band(size, bands, c)
      BY <1>9, <2>5
    <3>2. QED
      BY <1>11, <3>1, BandsPartition
  <2>7. i = j
    BY <1>1, <2>3, <2>6
  <2>8. m = n
    <3>1. m \in 0 .. W(b) - 1 /\ n \in 0 .. W(b) - 1
      BY <2>5, <2>6
    <3>2. permutation[b][m] \in Int /\ permutation[b][n] \in Int
      <4>1. permutation[b][m] \in 0 .. W(b) - 1 /\ permutation[b][n] \in 0 .. W(b) - 1
        <5>. HIDE DEF W
        <5>1. QED
          BY <1>2, <3>1
      <4>2. QED
        BY <4>1
    <3>3. Bound(size, bands, b) \in Int
      <4>1. b \in 0 .. bands
        OBVIOUS
      <4>2. QED
        BY <4>1, BandsInOrder
    <3>4. Bound(size, bands, b) + permutation[b][m] = Bound(size, bands, b) + permutation[b][n]
      BY <1>11, <2>5, <2>6
    <3>5. permutation[b][m] = permutation[b][n]
      BY <3>2, <3>3, <3>4
    <3>. HIDE DEF W
    <3>6. QED
      BY <1>2, <3>1, <3>5
  <2>9. i - 1 \in 0 .. bands
    OBVIOUS
  <2>10. totals[i - 1] \in Nat
    BY <1>4, <2>9
  <2>11. QED
    BY <2>4, <2>7, <2>8, <2>10
<1>12. f \in [Ranks -> Ranks]
  <2>1. f = [rank \in Ranks |-> f[rank]]
    BY DEF f
  <2>2. QED
    BY <1>10, <2>1
<1>13. QED
  BY <1>11, <1>12, NoRepeatNoGap DEF f


-----------------------------------------------------------------------------
(***************************************************************************)
(* Bits                                                                    *)
(***************************************************************************)

LEMMA PowerStep ==
  /\ Power(0) = 1
  /\ \A n \in Nat : Power(n) \in Nat \ {0} /\ Power(n + 1) = 2 * Power(n)
<1>. DEFINE Doubles(p, n) == /\ p = [i \in 0 .. n |-> IF i = 0 THEN 1 ELSE 2 * p[i - 1]]
            Made(n) == CHOOSE p : Doubles(p, n)
<1>1. \A n : Power(n) = Made(n)[n]
  BY DEF Power
<1>2. ASSUME NEW n \in Nat
      PROVE  /\ \A i \in 0 .. n : Made(n)[i] = IF i = 0 THEN 1 ELSE 2 * Made(n)[i - 1]
             /\ \A i \in 0 .. n : Made(n)[i] \in Nat \ {0}
  <2>. DEFINE step == [x \in (1 .. n) \X (Nat \ {0}) |-> 2 * x[2]]
  <2>1. /\ IsStep(step, n, Nat \ {0})
        /\ \A i \in 1 .. n : \A v \in Nat \ {0} : step[<<i, v>>] = 2 * v
    <3>1. step \in [(1 .. n) \X (Nat \ {0}) -> Nat \ {0}]
      OBVIOUS
    <3>2. ASSUME NEW i \in 1 .. n, NEW v \in Nat \ {0} PROVE step[<<i, v>>] = 2 * v
      <4>1. <<i, v>> \in (1 .. n) \X (Nat \ {0}) /\ <<i, v>>[2] = v
        OBVIOUS
      <4>2. QED
        BY <4>1
    <3>. HIDE DEF step
    <3>3. QED
      BY <3>1, <3>2 DEF IsStep
  <2>. HIDE DEF step
  <2>2. PICK f : Follows(f, n, Nat \ {0}, 1, step)
    <3>1. PICK V : V = Nat \ {0}
      OBVIOUS
    <3>2. 1 \in V /\ IsStep(step, n, V)
      BY <2>1, <3>1
    <3>3. QED
      BY <3>1, <3>2, Recursion
  <2>3. /\ f \in [0 .. n -> Nat \ {0}] /\ f[0] = 1
        /\ \A i \in 1 .. n : f[i] = step[<<i, f[i - 1]>>]
    BY <2>2 DEF Follows
  <2>4. \A i \in 0 .. n : f[i] = IF i = 0 THEN 1 ELSE 2 * f[i - 1]
    <3>1. SUFFICES ASSUME NEW i \in 0 .. n, i # 0 PROVE f[i] = 2 * f[i - 1]
      BY <2>3
    <3>2. i - 1 \in 0 .. n /\ i \in 1 .. n
      BY <3>1
    <3>3. f[i - 1] \in Nat \ {0}
      BY <2>3, <3>2
    <3>4. QED
      BY <2>1, <2>3, <3>2, <3>3
  <2>5. f = [i \in 0 .. n |-> f[i]]
    BY <2>3
  <2>6. Doubles(f, n)
    BY <2>4, <2>5
  <2>7. PICK p : p = Made(n)
    OBVIOUS
  <2>8. Doubles(p, n)
    <3>. HIDE DEF Doubles
    <3>1. QED
      BY <2>6, <2>7
  <2>9. \A i \in 0 .. n : p[i] = IF i = 0 THEN 1 ELSE 2 * p[i - 1]
    BY <2>8
  <2>. DEFINE S == {i \in 0 .. n : p[i] \in Nat \ {0}}
  <2>10. 0 \in S
    BY <2>9
  <2>11. ASSUME NEW i \in 0 .. n - 1, i \in S PROVE i + 1 \in S
    <3>1. i + 1 \in 0 .. n /\ i + 1 # 0 /\ (i + 1) - 1 = i
      OBVIOUS
    <3>2. p[i + 1] = 2 * p[i]
      BY <2>9, <3>1
    <3>3. QED
      BY <2>11, <3>1, <3>2
  <2>12. \A i \in 0 .. n : i \in S
    <3>. HIDE DEF S
    <3>1. QED
      BY <2>10, <2>11, Climb
  <2>13. QED
    BY <2>7, <2>9, <2>12
<1>. HIDE DEF Made
<1>3. ASSUME NEW n \in Nat PROVE \A i \in 0 .. n : Made(n)[i] = Made(n + 1)[i]
  <2>. DEFINE S == {i \in 0 .. n : Made(n)[i] = Made(n + 1)[i]}
  <2>0. n + 1 \in Nat /\ \A i \in 0 .. n : i \in 0 .. n + 1
    OBVIOUS
  <2>1. 0 \in S
    BY <1>2, <2>0
  <2>2. ASSUME NEW i \in 0 .. n - 1, i \in S PROVE i + 1 \in S
    <3>1. i + 1 \in 0 .. n /\ i + 1 # 0 /\ (i + 1) - 1 = i
      OBVIOUS
    <3>2. Made(n)[i + 1] = 2 * Made(n)[i]
      BY <1>2, <3>1
    <3>3. Made(n + 1)[i + 1] = 2 * Made(n + 1)[i]
      BY <1>2, <2>0, <3>1
    <3>4. QED
      BY <2>2, <3>1, <3>2, <3>3
  <2>3. \A i \in 0 .. n : i \in S
    <3>. HIDE DEF S
    <3>1. QED
      BY <2>1, <2>2, Climb
  <2>4. QED
    BY <2>3
<1>4. ASSUME NEW n \in Nat
      PROVE  Power(n) \in Nat \ {0} /\ Power(n + 1) = 2 * Power(n)
  <2>1. n \in 0 .. n /\ n + 1 \in Nat /\ n + 1 \in 0 .. n + 1 /\ n + 1 # 0 /\ (n + 1) - 1 = n
    OBVIOUS
  <2>2. Made(n)[n] \in Nat \ {0}
    BY <1>2, <2>1
  <2>3. Made(n + 1)[n + 1] = 2 * Made(n + 1)[n]
    BY <1>2, <2>1
  <2>4. Made(n)[n] = Made(n + 1)[n]
    BY <1>3, <2>1
  <2>5. QED
    BY <1>1, <2>2, <2>3, <2>4
<1>5. Power(0) = 1
  <2>1. 0 \in Nat /\ 0 \in 0 .. 0
    OBVIOUS
  <2>2. Made(0)[0] = 1
    BY <1>2, <2>1
  <2>3. QED
    BY <1>1, <2>2
<1>6. QED
  BY <1>4, <1>5

\* Bit 0 is the parity; the bits above it are those of the half.
LEMMA BitStep ==
  ASSUME NEW a \in Nat
  PROVE  /\ Bit(a, 0) = a % 2
         /\ \A i \in Nat : Bit(a, i) \in 0 .. 1 /\ Bit(a, i + 1) = Bit(a \div 2, i)
<1>1. Bit(a, 0) = a % 2
  BY PowerStep DEF Bit
<1>2. ASSUME NEW i \in Nat
      PROVE  Bit(a, i) \in 0 .. 1 /\ Bit(a, i + 1) = Bit(a \div 2, i)
  <2>1. PICK p \in Nat \ {0} : p = Power(i)
    BY PowerStep
  <2>2. Power(i + 1) = 2 * p
    BY <2>1, PowerStep
  <2>3. PICK q \in Int, r \in 0 .. 1 : q = a \div 2 /\ a = 2 * q + r
    BY Division
  <2>4. PICK u \in Int, s \in 0 .. p - 1 : u = q \div p /\ q = p * u + s
    BY Division
  <2>5. a = (2 * p) * u + (2 * s + r)
    <3>1. 2 * (p * u + s) = (2 * p) * u + 2 * s
      OBVIOUS
    <3>2. QED
      BY <2>3, <2>4, <3>1
  <2>6. 2 * s + r \in 0 .. 2 * p - 1 /\ 2 * p \in Nat \ {0}
    OBVIOUS
  <2>7. a \div (2 * p) = u
    BY <2>5, <2>6, DivisionUnique
  <2>8. Bit(a, i + 1) = u % 2 /\ Bit(a \div 2, i) = u % 2
    BY <2>1, <2>2, <2>3, <2>4, <2>7 DEF Bit
  <2>9. a \div p \in Int
    OBVIOUS
  <2>10. (a \div p) % 2 \in 0 .. 1
    BY <2>9, Division
  <2>11. QED
    BY <2>1, <2>8, <2>10 DEF Bit
<1>3. QED
  BY <1>1, <1>2

\* The half of a word has one bit less.
LEMMA HalfWord ==
  ASSUME NEW n \in Nat, NEW a \in Words(n + 1)
  PROVE  a \in Nat /\ a \div 2 \in Words(n) /\ a % 2 \in 0 .. 1 /\ a = 2 * (a \div 2) + (a % 2)
<1>1. PICK p \in Nat \ {0} : p = Power(n) /\ Power(n + 1) = 2 * p
  BY PowerStep
<1>2. a \in 0 .. 2 * p - 1
  BY <1>1 DEF Words
<1>3. PICK q \in Int, r \in 0 .. 1 : q = a \div 2 /\ r = a % 2 /\ a = 2 * q + r
  BY <1>2, Division
<1>4. q \in 0 .. p - 1
  BY <1>2, <1>3
<1>5. QED
  BY <1>1, <1>2, <1>3, <1>4 DEF Words

\* A word is its bits.
LEMMA BitsDetermine ==
  ASSUME NEW n \in Nat
  PROVE  \A a, b \in Words(n) : (\A i \in 0 .. n - 1 : Bit(a, i) = Bit(b, i)) => a = b
<1>. DEFINE S == {m \in 0 .. n : \A a, b \in Words(m) :
                    (\A i \in 0 .. m - 1 : Bit(a, i) = Bit(b, i)) => a = b}
<1>1. 0 \in S
  <2>1. Words(0) = {0}
    BY PowerStep DEF Words
  <2>2. QED
    BY <2>1
<1>2. ASSUME NEW m \in 0 .. n - 1, m \in S PROVE m + 1 \in S
  <2>1. SUFFICES ASSUME NEW a \in Words(m + 1), NEW b \in Words(m + 1),
                        \A i \in 0 .. m : Bit(a, i) = Bit(b, i)
                 PROVE  a = b
    OBVIOUS
  <2>2. m \in Nat
    OBVIOUS
  <2>3. /\ a \in Nat /\ a \div 2 \in Words(m) /\ a = 2 * (a \div 2) + (a % 2)
        /\ b \in Nat /\ b \div 2 \in Words(m) /\ b = 2 * (b \div 2) + (b % 2)
    BY <2>2, HalfWord
  <2>4. a % 2 = b % 2
    <3>1. 0 \in 0 .. m
      OBVIOUS
    <3>2. Bit(a, 0) = Bit(b, 0)
      BY <2>1, <3>1
    <3>3. QED
      BY <2>3, <3>2, BitStep
  <2>5. ASSUME NEW i \in 0 .. m - 1 PROVE Bit(a \div 2, i) = Bit(b \div 2, i)
    <3>1. i \in Nat /\ i + 1 \in 0 .. m
      OBVIOUS
    <3>2. Bit(a, i + 1) = Bit(b, i + 1)
      BY <2>1, <3>1
    <3>3. QED
      BY <2>3, <3>1, <3>2, BitStep
  <2>6. a \div 2 = b \div 2
    BY <1>2, <2>3, <2>5
  <2>7. QED
    BY <2>3, <2>4, <2>6
<1>3. n \in S
  <2>. HIDE DEF S
  <2>1. \A m \in 0 .. n : m \in S
    BY <1>1, <1>2, Climb
  <2>2. QED
    BY <2>1
<1>4. QED
  BY <1>3

\* Any bits make a word.
LEMMA BitsExist ==
  ASSUME NEW n \in Nat
  PROVE  \A w \in [0 .. n - 1 -> 0 .. 1] :
           \E a \in Words(n) : \A i \in 0 .. n - 1 : Bit(a, i) = w[i]
<1>. DEFINE S == {m \in 0 .. n : \A w \in [0 .. m - 1 -> 0 .. 1] :
                    \E a \in Words(m) : \A i \in 0 .. m - 1 : Bit(a, i) = w[i]}
<1>1. 0 \in S
  <2>1. Words(0) = {0}
    BY PowerStep DEF Words
  <2>2. QED
    BY <2>1
<1>2. ASSUME NEW m \in 0 .. n - 1, m \in S PROVE m + 1 \in S
  <2>1. SUFFICES ASSUME NEW w \in [0 .. m -> 0 .. 1]
                 PROVE  \E a \in Words(m + 1) : \A i \in 0 .. m : Bit(a, i) = w[i]
    OBVIOUS
  <2>. DEFINE v == [i \in 0 .. m - 1 |-> w[i + 1]]
  <2>2. v \in [0 .. m - 1 -> 0 .. 1]
    OBVIOUS
  <2>3. PICK h \in Words(m) : \A i \in 0 .. m - 1 : Bit(h, i) = v[i]
    BY <1>2, <2>2
  <2>4. PICK low \in 0 .. 1 : low = w[0]
    OBVIOUS
  <2>5. PICK p \in Nat \ {0} : p = Power(m) /\ Power(m + 1) = 2 * p
    <3>1. m \in Nat
      OBVIOUS
    <3>2. QED
      BY <3>1, PowerStep
  <2>6. h \in 0 .. p - 1
    BY <2>5 DEF Words
  <2>7. PICK a \in Nat : a = 2 * h + low
    BY <2>6
  <2>8. a \in 0 .. 2 * p - 1
    BY <2>6, <2>7
  <2>9. a % 2 = low /\ a \div 2 = h
    <3>1. 2 \in Nat \ {0} /\ low \in 0 .. 2 - 1 /\ h \in Int /\ a \in Int
      BY <2>6
    <3>2. QED
      BY <2>7, <3>1, DivisionUnique
  <2>10. ASSUME NEW i \in 0 .. m PROVE Bit(a, i) = w[i]
    <3>1. CASE i = 0
      BY <2>4, <2>9, <3>1, BitStep
    <3>2. CASE i # 0
      <4>1. PICK j \in 0 .. m - 1 : i = j + 1
        <5>1. i - 1 \in 0 .. m - 1 /\ i = (i - 1) + 1
          BY <3>2
        <5>2. QED
          BY <5>1
      <4>2. j \in Nat
        OBVIOUS
      <4>3. Bit(a, j + 1) = Bit(h, j)
        BY <2>9, <4>2, BitStep
      <4>4. Bit(h, j) = w[j + 1]
        BY <2>3
      <4>5. QED
        BY <4>1, <4>3, <4>4
    <3>3. QED
      BY <3>1, <3>2
  <2>11. a \in Words(m + 1)
    BY <2>5, <2>8 DEF Words
  <2>12. QED
    BY <2>10, <2>11
<1>3. n \in S
  <2>. HIDE DEF S
  <2>1. \A m \in 0 .. n : m \in S
    BY <1>1, <1>2, Climb
  <2>2. QED
    BY <2>1
<1>4. QED
  BY <1>3


\* Adding the same bits to a bit and to another keeps them apart.
LEMMA ParityCancels ==
  ASSUME NEW x \in 0 .. 1, NEW y \in 0 .. 1, NEW c \in 0 .. 2, (x + c) % 2 = (y + c) % 2
  PROVE  x = y
<1>1. /\ (0 + 0) % 2 = 0 /\ (0 + 1) % 2 = 1 /\ (0 + 2) % 2 = 0
      /\ (1 + 0) % 2 = 1 /\ (1 + 1) % 2 = 0 /\ (1 + 2) % 2 = 1
  OBVIOUS
<1>2. x \in {0, 1} /\ y \in {0, 1} /\ c \in {0, 1, 2}
  OBVIOUS
<1>3. QED
  BY <1>1, <1>2

\* Bits of a word are bits, at every place.
LEMMA BitOfWord ==
  ASSUME NEW bits \in Nat, NEW a \in Words(bits), NEW i \in 0 .. bits - 1
  PROVE  Bit(a, i) \in 0 .. 1
<1>1. a \in Nat
  BY PowerStep DEF Words
<1>2. QED
  BY <1>1, BitStep

\* The bit-spread order: reversing the bits between two masks is a permutation
\* of the power of two, and its walk back below size gives each rank a chunk of
\* its own.
THEOREM SpreadOrder ==
  ASSUME NEW bits \in Nat, NEW mask \in Words(bits), NEW size \in 0 .. Power(bits)
  PROVE  [rank \in 0 .. size - 1 |->
            WalkedChunk(size, Power(bits), SpreadPermutation(bits, mask), rank)]
           \in Bijection(0 .. size - 1, 0 .. size - 1)
<1>. DEFINE f == SpreadPermutation(bits, mask)
            Other(i) == bits - 1 - i
            Target(v, i) == (Bit(v, Other(i)) + Bit(mask, Other(i)) + Bit(mask, i)) % 2
            Is(v, result) == \A i \in 0 .. bits - 1 : Bit(result, i) = Target(v, i)
<1>1. Power(bits) \in Nat \ {0} /\ Words(bits) = 0 .. Power(bits) - 1
  BY PowerStep DEF Words
<1>2. \A i \in 0 .. bits - 1 : Other(i) \in 0 .. bits - 1 /\ Other(Other(i)) = i
  OBVIOUS
<1>3. ASSUME NEW v \in Words(bits), NEW i \in 0 .. bits - 1
      PROVE  Bit(v, Other(i)) \in 0 .. 1 /\ Bit(mask, Other(i)) + Bit(mask, i) \in 0 .. 2
  <2>1. Other(i) \in 0 .. bits - 1
    BY <1>2
  <2>. HIDE DEF Other
  <2>2. /\ Bit(v, Other(i)) \in 0 .. 1
        /\ Bit(mask, Other(i)) \in 0 .. 1 /\ Bit(mask, i) \in 0 .. 1
    BY <2>1, BitOfWord
  <2>3. QED
    BY <2>2
<1>4. \A v \in Words(bits) : f[v] = CHOOSE result \in Words(bits) : Is(v, result)
  BY DEF SpreadPermutation
<1>. HIDE DEF f, Other
<1>5. ASSUME NEW v \in Words(bits) PROVE f[v] \in Words(bits) /\ Is(v, f[v])
  <2>. DEFINE w == [i \in 0 .. bits - 1 |-> Target(v, i)]
  <2>1. ASSUME NEW i \in 0 .. bits - 1 PROVE Target(v, i) \in 0 .. 1
    <3>1. PICK x \in 0 .. 1, y \in 0 .. 1, z \in 0 .. 1 :
            x = Bit(v, Other(i)) /\ y = Bit(mask, Other(i)) /\ z = Bit(mask, i)
      BY <1>2, BitOfWord
    <3>2. (x + y + z) % 2 \in 0 .. 1
      OBVIOUS
    <3>3. QED
      BY <3>1, <3>2
  <2>2. w \in [0 .. bits - 1 -> 0 .. 1]
    BY <2>1
  <2>3. PICK a \in Words(bits) : \A i \in 0 .. bits - 1 : Bit(a, i) = w[i]
    BY <2>2, BitsExist
  <2>4. Is(v, a)
    BY <2>3
  <2>. HIDE DEF Is
  <2>5. QED
    BY <1>4, <2>4
<1>6. ASSUME NEW u \in Words(bits), NEW v \in Words(bits), f[u] = f[v] PROVE u = v
  <2>1. ASSUME NEW i \in 0 .. bits - 1 PROVE Bit(u, i) = Bit(v, i)
    <3>1. PICK j \in 0 .. bits - 1 : j = Other(i) /\ Other(j) = i
      BY <1>2
    <3>2. Target(u, j) = Target(v, j)
      BY <1>5, <1>6
    <3>3. PICK x \in 0 .. 1, y \in 0 .. 1, c \in 0 .. 1, d \in 0 .. 1 :
            /\ x = Bit(u, i) /\ y = Bit(v, i)
            /\ c = Bit(mask, i) /\ d = Bit(mask, j)
      BY BitOfWord
    <3>4. (x + c + d) % 2 = (y + c + d) % 2
      BY <3>1, <3>2, <3>3
    <3>5. c + d \in 0 .. 2 /\ x + c + d = x + (c + d) /\ y + c + d = y + (c + d)
      OBVIOUS
    <3>6. (x + (c + d)) % 2 = (y + (c + d)) % 2
      BY <3>4, <3>5
    <3>7. x = y
      BY <3>5, <3>6, ParityCancels
    <3>8. QED
      BY <3>3, <3>7
  <2>2. QED
    BY <2>1, BitsDetermine
<1>7. f \in [Words(bits) -> Words(bits)]
  <2>1. f = [v \in Words(bits) |-> f[v]]
    BY DEF f, SpreadPermutation
  <2>. HIDE DEF Is
  <2>2. QED
    BY <1>5, <2>1
<1>8. f \in Bijection(0 .. Power(bits) - 1, 0 .. Power(bits) - 1)
  <2>1. PICK n \in Nat \ {0} : n = Power(bits)
    BY <1>1
  <2>2. f \in [0 .. n - 1 -> 0 .. n - 1] /\ \A u, v \in 0 .. n - 1 : f[u] = f[v] => u = v
    BY <1>1, <1>6, <1>7, <2>1
  <2>3. f \in Bijection(0 .. n - 1, 0 .. n - 1)
    BY <2>2, NoRepeatNoGap
  <2>4. QED
    BY <2>1, <2>3
<1>9. PICK n \in Nat \ {0} : n = Power(bits)
  BY <1>1
<1>10. [rank \in 0 .. size - 1 |-> WalkedChunk(size, n, f, rank)]
         \in Bijection(0 .. size - 1, 0 .. size - 1)
  BY <1>8, <1>9, WalkedOrder
<1>11. QED
  BY <1>9, <1>10 DEF f

LEMMA XorCancels ==
  ASSUME NEW bits \in Nat
  PROVE  /\ \A a, b \in Words(bits) : Xor(bits, a, b) \in Words(bits)
         /\ \A a, b, c \in Words(bits) : Xor(bits, a, c) = Xor(bits, b, c) => a = b
<1>. DEFINE Is(a, b, x) ==
              \A i \in 0 .. bits - 1 : Bit(x, i) = (Bit(a, i) + Bit(b, i)) % 2
<1>1. ASSUME NEW a \in Words(bits), NEW b \in Words(bits)
      PROVE  Xor(bits, a, b) \in Words(bits) /\ Is(a, b, Xor(bits, a, b))
  <2>. DEFINE w == [i \in 0 .. bits - 1 |-> (Bit(a, i) + Bit(b, i)) % 2]
  <2>1. ASSUME NEW i \in 0 .. bits - 1 PROVE (Bit(a, i) + Bit(b, i)) % 2 \in 0 .. 1
    <3>1. PICK x \in 0 .. 1, y \in 0 .. 1 : x = Bit(a, i) /\ y = Bit(b, i)
      BY BitOfWord
    <3>2. (x + y) % 2 \in 0 .. 1
      OBVIOUS
    <3>3. QED
      BY <3>1, <3>2
  <2>2. w \in [0 .. bits - 1 -> 0 .. 1]
    BY <2>1
  <2>3. PICK x \in Words(bits) : \A i \in 0 .. bits - 1 : Bit(x, i) = w[i]
    BY <2>2, BitsExist
  <2>4. Is(a, b, x)
    BY <2>3
  <2>5. Xor(bits, a, b) = CHOOSE y \in Words(bits) : Is(a, b, y)
    BY DEF Xor
  <2>. HIDE DEF Is
  <2>6. QED
    BY <2>4, <2>5
<1>2. ASSUME NEW a \in Words(bits), NEW b \in Words(bits), NEW c \in Words(bits),
             Xor(bits, a, c) = Xor(bits, b, c)
      PROVE  a = b
  <2>1. ASSUME NEW i \in 0 .. bits - 1 PROVE Bit(a, i) = Bit(b, i)
    <3>1. PICK x \in 0 .. 1, y \in 0 .. 1, z \in 0 .. 1 :
            x = Bit(a, i) /\ y = Bit(b, i) /\ z = Bit(c, i)
      BY BitOfWord
    <3>2. (x + z) % 2 = (y + z) % 2
      BY <1>1, <1>2, <3>1
    <3>3. z \in 0 .. 2
      OBVIOUS
    <3>4. x = y
      BY <3>2, <3>3, ParityCancels
    <3>5. QED
      BY <3>1, <3>4
  <2>2. QED
    BY <2>1, BitsDetermine
<1>3. QED
  <2>. HIDE DEF Is
  <2>1. QED
    BY <1>1, <1>2


\* The halves of a value after each round.
Passes(g, bits, rounds, value) ==
  /\ g \in [0 .. Len(rounds) -> Words(bits) \X Words(bits)]
  /\ g[0] = <<value \div Power(bits), value % Power(bits)>>
  /\ \A n \in 1 .. Len(rounds) :
       g[n] = <<g[n - 1][2], Xor(bits, g[n - 1][1], rounds[n][g[n - 1][2]])>>

LEMMA HalvesPass ==
  ASSUME NEW bits \in Nat, NEW rounds \in Seq([Words(bits) -> Words(bits)]),
         NEW value \in 0 .. Power(bits) * Power(bits) - 1
  PROVE  \E g : /\ Passes(g, bits, rounds, value)
                /\ Halves(bits, rounds, value) = g[Len(rounds)]
<1>. DEFINE H == Words(bits)
            N == Len(rounds)
            start == <<value \div Power(bits), value % Power(bits)>>
            Turn(n, ends) == <<ends[2], Xor(bits, ends[1], rounds[n][ends[2]])>>
            Is(a) == a = [n \in 0 .. N |-> IF n = 0 THEN start ELSE Turn(n, a[n - 1])]
            after == CHOOSE a : Is(a)
            step == [x \in (1 .. N) \X (H \X H) |-> Turn(x[1], x[2])]
<1>1. Halves(bits, rounds, value) = after[N]
  BY DEF Halves
<1>2. N \in Nat /\ \A n \in 1 .. N : rounds[n] \in [H -> H]
  OBVIOUS
<1>3. start \in H \X H
  <2>1. PICK p \in Nat \ {0} : p = Power(bits)
    BY PowerStep
  <2>2. value \in Int /\ value <= p * p - 1 /\ 0 <= value
    <3>1. p * p \in Int
      OBVIOUS
    <3>2. QED
      BY <2>1, <3>1
  <2>3. PICK q \in Int, r \in 0 .. p - 1 :
          q = value \div p /\ r = value % p /\ value = p * q + r
    BY <2>2, Division
  <2>4. q >= 0
    <3>1. SUFFICES ASSUME q <= -1 PROVE FALSE
      BY <2>3
    <3>2. p * q <= p * (-1)
      BY <3>1
    <3>3. QED
      BY <2>2, <2>3, <3>2
  <2>5. q <= p - 1
    <3>1. SUFFICES ASSUME p <= q PROVE FALSE
      BY <2>3
    <3>2. p * p <= p * q
      BY <3>1
    <3>3. p * p \in Int /\ p * q \in Int
      OBVIOUS
    <3>4. QED
      BY <2>2, <2>3, <3>2, <3>3
  <2>6. QED
    BY <2>1, <2>3, <2>4, <2>5 DEF Words
<1>4. ASSUME NEW n \in 1 .. N, NEW ends \in H \X H PROVE Turn(n, ends) \in H \X H
  <2>1. ends[1] \in H /\ ends[2] \in H
    OBVIOUS
  <2>2. rounds[n][ends[2]] \in H
    BY <1>2, <2>1
  <2>3. Xor(bits, ends[1], rounds[n][ends[2]]) \in H
    BY <2>1, <2>2, XorCancels
  <2>4. QED
    BY <2>1, <2>3
<1>. HIDE DEF Turn, start, N, H
<1>5. /\ IsStep(step, N, H \X H)
      /\ \A n \in 1 .. N : \A ends \in H \X H : step[<<n, ends>>] = Turn(n, ends)
  <2>1. ASSUME NEW x \in (1 .. N) \X (H \X H) PROVE Turn(x[1], x[2]) \in H \X H
    <3>1. x[1] \in 1 .. N /\ x[2] \in H \X H
      OBVIOUS
    <3>2. QED
      BY <1>4, <3>1
  <2>2. step \in [(1 .. N) \X (H \X H) -> H \X H]
    BY <2>1
  <2>3. ASSUME NEW n \in 1 .. N, NEW ends \in H \X H
        PROVE  step[<<n, ends>>] = Turn(n, ends)
    <3>1. /\ <<n, ends>> \in (1 .. N) \X (H \X H)
          /\ <<n, ends>>[1] = n /\ <<n, ends>>[2] = ends
      OBVIOUS
    <3>2. QED
      BY <3>1
  <2>. HIDE DEF step
  <2>4. QED
    BY <2>2, <2>3 DEF IsStep
<1>. HIDE DEF step
<1>6. PICK f : Follows(f, N, H \X H, start, step)
  <2>1. PICK V : V = H \X H
    OBVIOUS
  <2>2. IsStep(step, N, V) /\ start \in V /\ N \in Nat
    BY <1>2, <1>3, <1>5, <2>1
  <2>3. QED
    BY <2>1, <2>2, Recursion
<1>7. /\ f \in [0 .. N -> H \X H] /\ f[0] = start
      /\ \A n \in 1 .. N : f[n] = step[<<n, f[n - 1]>>]
  BY <1>6 DEF Follows
<1>8. ASSUME NEW n \in 1 .. N PROVE f[n] = Turn(n, f[n - 1])
  <2>1. n - 1 \in 0 .. N
    BY <1>2
  <2>2. f[n - 1] \in H \X H
    BY <1>7, <2>1
  <2>3. QED
    BY <1>5, <1>7, <2>2
<1>9. Is(f)
  <2>1. \A n \in 0 .. N : f[n] = IF n = 0 THEN start ELSE Turn(n, f[n - 1])
    <3>1. \A n \in 0 .. N : n = 0 \/ n \in 1 .. N
      BY <1>2
    <3>2. \A n \in 1 .. N : n # 0
      OBVIOUS
    <3>3. QED
      BY <1>7, <1>8, <3>1, <3>2
  <2>2. f = [n \in 0 .. N |-> f[n]]
    BY <1>7
  <2>3. QED
    BY <2>1, <2>2
<1>10. Is(after)
  <2>. HIDE DEF Is
  <2>1. QED
    BY <1>9
<1>. HIDE DEF after
<1>11. \A n \in 0 .. N : after[n] = IF n = 0 THEN start ELSE Turn(n, after[n - 1])
  BY <1>10
<1>. HIDE DEF Is
<1>12. \A n \in 0 .. N : after[n] = f[n]
  <2>. DEFINE S == {n \in 0 .. N : after[n] = f[n]}
  <2>1. 0 \in S
    <3>1. 0 \in 0 .. N
      BY <1>2
    <3>2. QED
      BY <1>7, <1>11, <3>1
  <2>2. ASSUME NEW n \in 0 .. N - 1, n \in S PROVE n + 1 \in S
    <3>1. /\ n + 1 \in 0 .. N /\ n + 1 \in 1 .. N /\ n + 1 # 0 /\ (n + 1) - 1 = n
      BY <1>2
    <3>2. after[n + 1] = Turn(n + 1, after[n])
      BY <1>11, <3>1
    <3>3. f[n + 1] = Turn(n + 1, f[n])
      BY <1>8, <3>1
    <3>4. QED
      BY <2>2, <3>1, <3>2, <3>3
  <2>3. \A n \in 0 .. N : n \in S
    <3>. HIDE DEF S
    <3>1. QED
      BY <1>2, <2>1, <2>2, Climb
  <2>4. QED
    BY <2>3
<1>13. Passes(f, bits, rounds, value)
  BY <1>7, <1>8 DEF Passes, N, H, start, Turn
<1>14. after[N] = f[N]
  BY <1>2, <1>12
<1>15. QED
  BY <1>1, <1>13, <1>14 DEF N

\* Equal halves after the last round are equal halves before the first: each
\* round keeps one half and changes the other by what it computes from it.
LEMMA PassesApart ==
  ASSUME NEW bits \in Nat, NEW rounds \in Seq([Words(bits) -> Words(bits)]),
         NEW x, NEW y, NEW g, NEW h,
         Passes(g, bits, rounds, x), Passes(h, bits, rounds, y),
         g[Len(rounds)] = h[Len(rounds)]
  PROVE  g[0] = h[0]
<1>. DEFINE H == Words(bits)
            N == Len(rounds)
            S == {n \in 0 .. N : g[N - n] = h[N - n]}
<1>1. N \in Nat /\ \A n \in 1 .. N : rounds[n] \in [H -> H]
  OBVIOUS
<1>2. /\ g \in [0 .. N -> H \X H] /\ h \in [0 .. N -> H \X H]
      /\ \A n \in 1 .. N :
           /\ g[n] = <<g[n - 1][2], Xor(bits, g[n - 1][1], rounds[n][g[n - 1][2]])>>
           /\ h[n] = <<h[n - 1][2], Xor(bits, h[n - 1][1], rounds[n][h[n - 1][2]])>>
  BY DEF Passes
<1>3. g[N] = h[N]
  OBVIOUS
<1>. HIDE DEF N, H
<1>4. 0 \in S
  <2>1. 0 \in 0 .. N /\ N - 0 = N
    BY <1>1
  <2>2. QED
    BY <1>3, <2>1
<1>5. ASSUME NEW n \in 0 .. N - 1, n \in S PROVE n + 1 \in S
  <2>1. PICK m \in 1 .. N : m = N - n
    BY <1>1
  <2>2. n + 1 \in 0 .. N /\ m - 1 = N - (n + 1) /\ m - 1 \in 0 .. N
    BY <1>1, <2>1
  <2>3. PICK a, b : a = g[m - 1] /\ b = h[m - 1]
    OBVIOUS
  <2>4. a \in H \X H /\ b \in H \X H
    BY <1>2, <2>2, <2>3
  <2>5. g[m] = h[m]
    BY <1>5, <2>1
  <2>6. <<a[2], Xor(bits, a[1], rounds[m][a[2]])>> = <<b[2], Xor(bits, b[1], rounds[m][b[2]])>>
    BY <1>2, <2>3, <2>5
  <2>7. a[2] = b[2] /\ Xor(bits, a[1], rounds[m][a[2]]) = Xor(bits, b[1], rounds[m][b[2]])
    BY <2>6
  <2>8. PICK c : c = rounds[m][a[2]]
    OBVIOUS
  <2>9. a[1] \in H /\ a[2] \in H /\ b[1] \in H
    BY <2>4
  <2>10. c \in H
    BY <1>1, <2>8, <2>9
  <2>11. Xor(bits, a[1], c) = Xor(bits, b[1], c)
    BY <2>7, <2>8
  <2>12. a[1] = b[1]
    BY <2>9, <2>10, <2>11, XorCancels DEF H
  <2>13. a = b
    BY <2>4, <2>7, <2>12
  <2>14. QED
    BY <2>2, <2>3, <2>13
<1>6. N \in S
  <2>1. \A n \in 0 .. N : n \in S
    <3>. HIDE DEF S
    <3>1. QED
      BY <1>1, <1>4, <1>5, Climb
  <2>2. QED
    BY <1>1, <2>1
<1>7. N - N = 0
  BY <1>1
<1>8. QED
  BY <1>6, <1>7

\* The private order: the Feistel network is a permutation whatever its rounds
\* compute, and its walk back below size gives each rank a chunk of its own.
THEOREM PrivateOrder ==
  ASSUME NEW bits \in Nat, NEW rounds \in Seq([Words(bits) -> Words(bits)]),
         NEW size \in 0 .. Power(bits) * Power(bits)
  PROVE  [rank \in 0 .. size - 1 |->
            WalkedChunk(size, Power(bits) * Power(bits),
                        FeistelPermutation(bits, rounds), rank)]
           \in Bijection(0 .. size - 1, 0 .. size - 1)
<1>. DEFINE f == FeistelPermutation(bits, rounds)
<1>1. PICK p \in Nat \ {0} : p = Power(bits) /\ Words(bits) = 0 .. p - 1
  BY PowerStep DEF Words
<1>2. PICK n \in Nat \ {0} : n = p * p
  <2>1. p * p \in Nat \ {0}
    OBVIOUS
  <2>2. QED
    BY <2>1
<1>. DEFINE Ends(v) == Halves(bits, rounds, v)
<1>3. \A v \in 0 .. n - 1 : f[v] = Ends(v)[1] * p + Ends(v)[2]
  BY <1>1, <1>2 DEF FeistelPermutation
<1>4. f = [v \in 0 .. n - 1 |-> f[v]]
  BY <1>1, <1>2 DEF FeistelPermutation
<1>. HIDE DEF f
<1>5. ASSUME NEW v \in 0 .. n - 1
      PROVE  \E g : Passes(g, bits, rounds, v) /\ Ends(v) = g[Len(rounds)]
  BY <1>1, <1>2, HalvesPass
<1>6. ASSUME NEW v \in 0 .. n - 1
      PROVE  \E a \in 0 .. p - 1, b \in 0 .. p - 1 :
               Ends(v) = <<a, b>> /\ f[v] = p * a + b
  <2>1. PICK g : Passes(g, bits, rounds, v) /\ Ends(v) = g[Len(rounds)]
    BY <1>5
  <2>2. Len(rounds) \in 0 .. Len(rounds)
    OBVIOUS
  <2>3. g[Len(rounds)] \in Words(bits) \X Words(bits)
    BY <2>1, <2>2 DEF Passes
  <2>. HIDE DEF Ends
  <2>4. PICK a \in 0 .. p - 1, b \in 0 .. p - 1 : Ends(v) = <<a, b>>
    BY <1>1, <2>1, <2>3
  <2>5. f[v] = a * p + b /\ a * p = p * a
    BY <1>3, <2>4
  <2>6. QED
    BY <2>4, <2>5
<1>7. ASSUME NEW v \in 0 .. n - 1 PROVE f[v] \in 0 .. n - 1
  <2>1. PICK a \in 0 .. p - 1, b \in 0 .. p - 1 : f[v] = p * a + b
    BY <1>6
  <2>2. PICK d \in Nat : p = a + 1 + d
    <3>1. p - a - 1 \in Nat /\ p = a + 1 + (p - a - 1)
      OBVIOUS
    <3>2. QED
      BY <3>1
  <2>3. p * p = p * a + p + p * d
    BY <2>2
  <2>4. p * a \in Nat /\ p * d \in Nat
    OBVIOUS
  <2>5. QED
    BY <1>2, <2>1, <2>3, <2>4
<1>8. ASSUME NEW u \in 0 .. n - 1, NEW v \in 0 .. n - 1, f[u] = f[v] PROVE u = v
  <2>1. PICK a \in 0 .. p - 1, b \in 0 .. p - 1 : Ends(u) = <<a, b>> /\ f[u] = p * a + b
    BY <1>6
  <2>2. PICK c \in 0 .. p - 1, d \in 0 .. p - 1 : Ends(v) = <<c, d>> /\ f[v] = p * c + d
    BY <1>6
  <2>3. a = c /\ b = d
    <3>1. PICK y \in Int : y = p * a + b
      OBVIOUS
    <3>2. y % p = b /\ y \div p = a
      BY <3>1, DivisionUnique
    <3>3. y = p * c + d
      BY <1>8, <2>1, <2>2, <3>1
    <3>4. y % p = d /\ y \div p = c
      BY <3>3, DivisionUnique
    <3>5. QED
      BY <3>2, <3>4
  <2>4. PICK g : Passes(g, bits, rounds, u) /\ Ends(u) = g[Len(rounds)]
    BY <1>5
  <2>5. PICK h : Passes(h, bits, rounds, v) /\ Ends(v) = h[Len(rounds)]
    BY <1>5
  <2>6. g[Len(rounds)] = h[Len(rounds)]
    BY <2>1, <2>2, <2>3, <2>4, <2>5
  <2>7. g[0] = h[0]
    BY <2>4, <2>5, <2>6, PassesApart
  <2>8. <<u \div p, u % p>> = <<v \div p, v % p>>
    BY <1>1, <2>4, <2>5, <2>7 DEF Passes
  <2>9. u \div p = v \div p /\ u % p = v % p
    BY <2>8
  <2>10. u = p * (u \div p) + (u % p) /\ v = p * (v \div p) + (v % p)
    <3>1. u \in Int /\ v \in Int
      OBVIOUS
    <3>2. QED
      BY <3>1, Division
  <2>11. QED
    BY <2>9, <2>10
<1>9. f \in Bijection(0 .. n - 1, 0 .. n - 1)
  <2>1. f \in [0 .. n - 1 -> 0 .. n - 1]
    BY <1>4, <1>7
  <2>2. QED
    BY <1>8, <2>1, NoRepeatNoGap
<1>10. size \in 0 .. n
  BY <1>1, <1>2
<1>11. [rank \in 0 .. size - 1 |-> WalkedChunk(size, n, f, rank)]
         \in Bijection(0 .. size - 1, 0 .. size - 1)
  BY <1>9, <1>10, WalkedOrder
<1>12. QED
  BY <1>1, <1>2, <1>11 DEF f

=============================================================================
