--------------------------- MODULE PlannersProofs ---------------------------
(***************************************************************************)
(* The planners never skip a chunk and never get stuck, for every number   *)
(* of chunks, all orders and all wheels.                                   *)
(*                                                                         *)
(* What both arguments rest on is counting: the n-th member of a set of    *)
(* turns, or of ranks, is found by going up one by one, with the least     *)
(* number principle in the place of induction (OrdersProofs).              *)
(***************************************************************************)
EXTENDS Planners, OrdersProofs

-----------------------------------------------------------------------------
(***************************************************************************)
(* Counting                                                                *)
(***************************************************************************)

\* Going up by one, the members of D below n + 1 are those below n, and n itself
\* if it is one.
LEMMA CountStep ==
  ASSUME NEW D, NEW n \in Nat
  PROVE  /\ Cardinality(D \cap (0 .. n - 1)) \in Nat
         /\ Cardinality(D \cap (0 .. n)) =
              IF n \in D THEN Cardinality(D \cap (0 .. n - 1)) + 1
              ELSE Cardinality(D \cap (0 .. n - 1))
<1> DEFINE S == D \cap (0 .. n - 1)
<1>1. IsFiniteSet(S)
  <2>1. IsFiniteSet(0 .. n - 1)  BY FS_Interval
  <2> QED BY <2>1, FS_Subset
<1>2. D \cap (0 .. n) = IF n \in D THEN S \cup {n} ELSE S
  OBVIOUS
<1>3. n \notin S
  OBVIOUS
<1> QED BY <1>1, <1>2, <1>3, FS_AddElement, FS_CardinalityType

\* If D has more than d members below n, one of them has exactly d before it.
LEMMA CountHits ==
  ASSUME NEW D, NEW n \in Nat, NEW d \in Nat, d < Cardinality(D \cap (0 .. n - 1))
  PROVE  \E j \in D \cap (0 .. n - 1) : Cardinality(D \cap (0 .. j - 1)) = d
<1> DEFINE C(k) == Cardinality(D \cap (0 .. k - 1))
           T == {k \in 0 .. n : d < C(k)}
<1>1. PICK k \in T : \A y \in T : k <= y
  <2>1. n \in T /\ T \subseteq Nat  OBVIOUS
  <2> HIDE DEF T
  <2> QED BY <2>1, LeastMember
<1>2. C(0) = 0
  <2>1. D \cap (0 .. 0 - 1) = {}  OBVIOUS
  <2> QED BY <2>1, FS_EmptySet
<1>3. k - 1 \in 0 .. n - 1
  BY <1>2
<1> DEFINE j == k - 1
<1>4. C(j) \in Nat /\ C(k) = IF j \in D THEN C(j) + 1 ELSE C(j)
  <2>1. 0 .. j = 0 .. k - 1 /\ j \in Nat  BY <1>3
  <2> QED BY <2>1, CountStep
<1>5. ~(d < C(j))
  BY <1>1, <1>3
<1>6. j \in D /\ C(j) = d
  BY <1>4, <1>5
<1> QED BY <1>3, <1>6

\* Two facts of arithmetic.
LEMMA Quotient ==
  ASSUME NEW q \in Nat, NEW L \in Nat \ {0}, NEW i \in 0 .. L - 1
  PROVE  (q * L + i) % L = i
OBVIOUS
LEMMA Times ==
  ASSUME NEW a \in Nat, NEW b \in Nat, NEW L \in Nat, a <= b
  PROVE  a * L \in Nat /\ a * L <= b * L /\ (a + 1) * L = a * L + L
OBVIOUS

-----------------------------------------------------------------------------
(***************************************************************************)
(* Lanes                                                                   *)
(***************************************************************************)

\* An injective order of the chunks reaches every chunk.
LEMMA PermutationReaches ==
  ASSUME NEW f \in Permutations, NEW c \in Chunks
  PROVE  \E r \in Chunks : f[r] = c
<1>1. SUFFICES ASSUME \A r \in Chunks : f[r] # c PROVE FALSE
  OBVIOUS
<1>2. IsFiniteSet(Chunks) /\ IsFiniteSet(Chunks \ {c})
  <2>1. IsFiniteSet(Chunks)  BY FS_Interval, TotalAssumption DEF Chunks
  <2> QED BY <2>1, FS_RemoveElement
<1>3. Cardinality(Chunks \ {c}) < Cardinality(Chunks)
  BY <1>2, FS_RemoveElement, FS_CardinalityType
<1>4. f \in [Chunks -> Chunks \ {c}]
  BY <1>1 DEF Permutations
<1>5. \E a, b \in Chunks : a # b /\ f[a] = f[b]
  BY <1>2, <1>3, <1>4, FS_PigeonHole
<1> QED BY <1>5 DEF Permutations

\* So does a bijection.
LEMMA BijectionReaches ==
  ASSUME NEW f \in Bijection(Chunks, Chunks)
  PROVE  /\ \A r \in Chunks : f[r] \in Chunks
         /\ \A c \in Chunks : \E r \in Chunks : f[r] = c
BY DEF Bijection, Injection, Surjection

\* Each lane proposes chunks, and reaches every chunk at some rank.
LEMMA LaneReaches ==
  ASSUME NEW s \in Seeds, NEW l \in AllLanes
  PROVE  /\ \A r \in Chunks : LaneChunk(s, l, r) \in Chunks
         /\ \A c \in Chunks : \E r \in Chunks : LaneChunk(s, l, r) = c
<1>0. \A f \in Permutations : /\ \A r \in Chunks : f[r] \in Chunks
                             /\ \A c \in Chunks : \E r \in Chunks : f[r] = c
  BY PermutationReaches DEF Permutations
<1>1. CASE l = "uniform"
  <2>1. \A r : LaneChunk(s, l, r) = Private[s][r]  BY <1>1 DEF LaneChunk
  <2>2. Private[s] \in Permutations  BY OrdersAssumption
  <2> QED BY <2>1, <2>2, <1>0
<1>2. CASE l = "spread"
  <2>1. \A r : LaneChunk(s, l, r) = Spread[s][r]  BY <1>2 DEF LaneChunk
  <2>2. Spread[s] \in Permutations  BY OrdersAssumption
  <2> QED BY <2>1, <2>2, <1>0
<1>3. CASE l = "cold"
  <2>1. \A r : LaneChunk(s, l, r) = Cold[s][r]  BY <1>3 DEF LaneChunk
  <2>2. Cold[s] \in Permutations  BY OrdersAssumption
  <2> QED BY <2>1, <2>2, <1>0
<1>4. CASE l = "edges"
  <2>1. \A r : LaneChunk(s, l, r) = EdgeChunk(Total, r)
    BY <1>4 DEF LaneChunk
  <2>2. PICK f \in Bijection(Chunks, Chunks) :
          f = [r \in Chunks |-> EdgeChunk(Total, r)]
    BY EdgeOrder, TotalAssumption DEF Chunks
  <2>3. \A r \in Chunks : f[r] = EdgeChunk(Total, r)
    BY <2>2
  <2> QED BY <2>1, <2>3, BijectionReaches
<1>5. CASE l = "center"
  <2>1. \A r : LaneChunk(s, l, r) = CenterChunk(Total, r)
    BY <1>5 DEF LaneChunk
  <2>2. PICK f \in Bijection(Chunks, Chunks) :
          f = [r \in Chunks |-> CenterChunk(Total, r)]
    BY CenterOrder, TotalAssumption DEF Chunks
  <2>3. \A r \in Chunks : f[r] = CenterChunk(Total, r)
    BY <2>2
  <2> QED BY <2>1, <2>3, BijectionReaches
<1> QED BY <1>1, <1>2, <1>3, <1>4, <1>5 DEF AllLanes

-----------------------------------------------------------------------------
(***************************************************************************)
(* Turns of the wheel                                                      *)
(***************************************************************************)

LEMMA WheelType ==
  ASSUME NEW m \in Mosaics
  PROVE  /\ m.lanes \in Presets /\ m.seed \in Seeds
         /\ Len(Wheel[m.lanes]) \in Nat \ {0}
         /\ m.slot \in 0 .. Len(Wheel[m.lanes]) - 1
         /\ LanesOf(m.lanes) \subseteq AllLanes
         /\ m.cursors \in [LanesOf(m.lanes) -> 0 .. Total]
         /\ \A k \in Nat : LaneAt(m, k) \in LanesOf(m.lanes)
         /\ \A l \in LanesOf(m.lanes) :
              \E i \in 0 .. Len(Wheel[m.lanes]) - 1 : Wheel[m.lanes][1 + i] = l
<1>1. /\ m.lanes \in Presets /\ m.seed \in Seeds
      /\ m.slot \in 0 .. Len(Wheel[m.lanes]) - 1
      /\ m.cursors \in [LanesOf(m.lanes) -> 0 .. Total]
  BY DEF Mosaics
<1> DEFINE w == Wheel[m.lanes]
<1>2. w \in Seq(AllLanes) /\ w # <<>>
  BY <1>1, WheelAssumption
<1> HIDE DEF w
<1>3. Len(w) \in Nat \ {0} /\ DOMAIN w = 1 .. Len(w) /\ \A i \in 1 .. Len(w) : w[i] \in AllLanes
  BY <1>2
<1>4. LanesOf(m.lanes) = {w[i] : i \in 1 .. Len(w)}
  BY <1>3 DEF LanesOf, Range, w
<1>5. ASSUME NEW k \in Nat PROVE LaneAt(m, k) \in LanesOf(m.lanes)
  <2>1. m.slot + k \in Nat  BY <1>1, <1>3 DEF w
  <2>2. 1 + ((m.slot + k) % Len(w)) \in 1 .. Len(w)  BY <2>1, <1>3
  <2> QED BY <2>2, <1>4 DEF LaneAt, w
<1>6. ASSUME NEW l \in LanesOf(m.lanes)
      PROVE  \E i \in 0 .. Len(w) - 1 : w[1 + i] = l
  <2>1. PICK i \in 1 .. Len(w) : w[i] = l  BY <1>4
  <2>2. i - 1 \in 0 .. Len(w) - 1 /\ 1 + (i - 1) = i  BY <1>3
  <2> QED BY <2>1, <2>2
<1> QED BY <1>1, <1>3, <1>4, <1>5, <1>6 DEF w

\* A lane's visits grow by one at each of its turns.
LEMMA VisitsStep ==
  ASSUME NEW m, NEW l, NEW k \in Nat
  PROVE  /\ Visits(m, l, k) \in Nat
         /\ Visits(m, l, 0) = 0
         /\ Visits(m, l, k + 1) = IF LaneAt(m, k) = l THEN Visits(m, l, k) + 1
                                  ELSE Visits(m, l, k)
<1> DEFINE D == {j \in Nat : LaneAt(m, j) = l}
<1>1. \A n \in Nat : {j \in 0 .. n - 1 : LaneAt(m, j) = l} = D \cap (0 .. n - 1)
  OBVIOUS
<1>2. \A n \in Nat : Visits(m, l, n) = Cardinality(D \cap (0 .. n - 1))
  BY <1>1 DEF Visits
<1>3. k \in D <=> LaneAt(m, k) = l
  OBVIOUS
<1>4. D \cap (0 .. 0 - 1) = {} /\ (k + 1) - 1 = k /\ k + 1 \in Nat
  OBVIOUS
<1> HIDE DEF D
<1>5. Visits(m, l, 0) = 0
  BY <1>2, <1>4, FS_EmptySet
<1>6. Visits(m, l, k + 1) = Cardinality(D \cap (0 .. k))
  BY <1>2, <1>4
<1>7. Visits(m, l, k) = Cardinality(D \cap (0 .. k - 1))
  BY <1>2
<1>8. /\ Cardinality(D \cap (0 .. k - 1)) \in Nat
      /\ Cardinality(D \cap (0 .. k)) = IF k \in D THEN Cardinality(D \cap (0 .. k - 1)) + 1
                                        ELSE Cardinality(D \cap (0 .. k - 1))
  BY CountStep
<1> QED BY <1>3, <1>5, <1>6, <1>7, <1>8

\* Every number of visits below the present one was once the present one.
LEMMA VisitsHit ==
  ASSUME NEW m, NEW l, NEW n \in Nat, NEW d \in Nat, d < Visits(m, l, n)
  PROVE  \E j \in 0 .. n - 1 : LaneAt(m, j) = l /\ Visits(m, l, j) = d
<1> DEFINE D == {j \in Nat : LaneAt(m, j) = l}
<1>1. \A k \in Nat : {j \in 0 .. k - 1 : LaneAt(m, j) = l} = D \cap (0 .. k - 1)
  OBVIOUS
<1>2. \A k \in Nat : Visits(m, l, k) = Cardinality(D \cap (0 .. k - 1))
  BY <1>1 DEF Visits
<1>3. PICK j \in D \cap (0 .. n - 1) : Cardinality(D \cap (0 .. j - 1)) = d
  <2>1. d < Cardinality(D \cap (0 .. n - 1))  BY <1>2
  <2> HIDE DEF D
  <2> QED BY <2>1, CountHits
<1>4. j \in 0 .. n - 1 /\ j \in Nat /\ LaneAt(m, j) = l
  BY <1>3
<1>5. Visits(m, l, j) = d
  BY <1>2, <1>3, <1>4
<1> QED BY <1>4, <1>5

\* A round of L turns, from any slot, comes to every slot.
LEMMA RoundArithmetic ==
  ASSUME NEW L \in Nat \ {0}, NEW slot \in 0 .. L - 1, NEW i \in 0 .. L - 1, NEW p \in Nat
  PROVE  \E j \in Nat : p * L <= j /\ j + 1 <= (p + 1) * L /\ (slot + j) % L = i
<1>1. p * L \in Nat /\ (p + 1) * L = p * L + L
  BY Times
<1>2. CASE i >= slot
  <2> DEFINE j == p * L + (i - slot)
  <2>1. j \in Nat /\ p * L <= j /\ j + 1 <= (p + 1) * L /\ slot + j = p * L + i
    BY <1>1, <1>2
  <2>2. (p * L + i) % L = i  BY Quotient
  <2> QED BY <2>1, <2>2
<1>3. CASE i < slot
  <2> DEFINE j == p * L + (i - slot + L)
  <2>1. j \in Nat /\ p * L <= j /\ j + 1 <= (p + 1) * L /\ slot + j = (p + 1) * L + i
    BY <1>1, <1>3
  <2>2. ((p + 1) * L + i) % L = i  BY Quotient, p + 1 \in Nat
  <2> QED BY <2>1, <2>2
<1> QED BY <1>2, <1>3

LEMMA VisitsGrow ==
  ASSUME NEW m, NEW l, NEW a \in Nat, NEW b \in Nat, a <= b
  PROVE  Visits(m, l, a) <= Visits(m, l, b)
<1>1. {j \in 0 .. a - 1 : LaneAt(m, j) = l} \subseteq {j \in 0 .. b - 1 : LaneAt(m, j) = l}
  OBVIOUS
<1>2. IsFiniteSet({j \in 0 .. b - 1 : LaneAt(m, j) = l})
  <2>1. IsFiniteSet(0 .. b - 1)  BY FS_Interval
  <2> QED BY <2>1, FS_Subset
<1> QED BY <1>1, <1>2, FS_Subset DEF Visits

\* Each round of the wheel visits each of its lanes.
LEMMA Rounds ==
  ASSUME NEW m \in Mosaics, NEW l \in LanesOf(m.lanes), NEW n \in Nat
  PROVE  Visits(m, l, n * Len(Wheel[m.lanes])) >= n
<1> DEFINE L == Len(Wheel[m.lanes])
           T == {x \in Nat : ~(Visits(m, l, x * L) >= x)}
<1>0. L \in Nat \ {0} /\ m.slot \in 0 .. L - 1
  BY WheelType
<1>1. SUFFICES ASSUME T # {} PROVE FALSE
  OBVIOUS
<1>2. PICK x \in T : \A y \in T : x <= y
  <2>1. T \subseteq Nat  OBVIOUS
  <2> HIDE DEF T
  <2> QED BY <1>1, <2>1, LeastMember
<1>3. x \in Nat /\ x # 0
  <2>1. 0 * L = 0  BY <1>0
  <2>2. Visits(m, l, 0) >= 0  BY VisitsStep
  <2>3. 0 \notin T  BY <2>1, <2>2
  <2> QED BY <2>3
<1>4. PICK p \in Nat : p + 1 = x
  <2>1. x - 1 \in Nat /\ (x - 1) + 1 = x  BY <1>3
  <2> QED BY <2>1
<1>5. Visits(m, l, p * L) >= p
  <2>1. p \notin T  BY <1>2, <1>4
  <2> QED BY <2>1
<1>6. PICK i \in 0 .. L - 1 : Wheel[m.lanes][1 + i] = l
  BY WheelType
<1>7. PICK j \in Nat : p * L <= j /\ j + 1 <= x * L /\ (m.slot + j) % L = i
  <2>1. i \in 0 .. L - 1 /\ p \in Nat  OBVIOUS
  <2> HIDE DEF L
  <2>2. \E j \in Nat : p * L <= j /\ j + 1 <= (p + 1) * L /\ (m.slot + j) % L = i
    BY <1>0, <2>1, RoundArithmetic
  <2> QED BY <2>2, <1>4
<1>8. p * L \in Nat /\ x * L \in Nat
  <2> HIDE DEF L
  <2> QED BY <1>0, <1>3
<1>10. LaneAt(m, j) = l
  BY <1>6, <1>7 DEF LaneAt
<1>11. Visits(m, l, j + 1) = Visits(m, l, j) + 1 /\ Visits(m, l, j) \in Nat
  BY <1>7, <1>10, VisitsStep
<1>12. Visits(m, l, p * L) <= Visits(m, l, j) /\ Visits(m, l, j + 1) <= Visits(m, l, x * L)
  BY <1>7, <1>8, VisitsGrow
<1>13. Visits(m, l, x * L) >= x
  <2>1. Visits(m, l, x * L) \in Nat /\ Visits(m, l, p * L) \in Nat  BY <1>8, VisitsStep
  <2> QED BY <2>1, <1>4, <1>5, <1>11, <1>12
<1> QED BY <1>13

-----------------------------------------------------------------------------
(***************************************************************************)
(* MosaicPlanner.next_unseen                                               *)
(***************************************************************************)

\* A turn that finds its lane not at its end looks at a chunk.
LEMMA RankType ==
  ASSUME NEW m \in Mosaics, NEW k \in Nat
  PROVE  /\ RankAt(m, k) \in Nat
         /\ RankAt(m, k) < Total =>
              /\ RankAt(m, k) \in Chunks
              /\ LaneChunk(m.seed, LaneAt(m, k), RankAt(m, k)) \in Chunks
<1>1. LaneAt(m, k) \in LanesOf(m.lanes) /\ LaneAt(m, k) \in AllLanes /\ m.seed \in Seeds
  BY WheelType
<1>2. m.cursors[LaneAt(m, k)] \in 0 .. Total
  BY <1>1, WheelType
<1>3. RankAt(m, k) \in Nat
  BY <1>2, VisitsStep, TotalAssumption DEF RankAt
<1>4. RankAt(m, k) < Total => RankAt(m, k) \in Chunks
  BY <1>3, TotalAssumption DEF Chunks
<1> QED BY <1>1, <1>3, <1>4, LaneReaches

\* The state after the first turn that proposes has gone past nothing but what
\* the old one had, what is in the table, and the proposal.
LEMMA Advance ==
  ASSUME NEW m \in Mosaics, NEW k \in Nat,
         Proposes(m, k), \A j \in 0 .. k - 1 : ~Proposes(m, j),
         NEW l \in LanesOf(m.lanes), NEW r \in 0 .. Advanced(m, k).cursors[l] - 1
  PROVE  \/ r \in 0 .. m.cursors[l] - 1
         \/ LaneChunk(m.seed, l, r) \in
              seen \cup {LaneChunk(m.seed, LaneAt(m, k), RankAt(m, k))}
<1>1. m.cursors[l] \in 0 .. Total
  BY WheelType
<1>2. Visits(m, l, k + 1) \in Nat
  BY VisitsStep, k + 1 \in Nat
<1>3. Advanced(m, k).cursors[l] = Smaller(Total, m.cursors[l] + Visits(m, l, k + 1))
  BY DEF Advanced, Mosaics
<1>4. r \in Nat /\ r < Total /\ r < m.cursors[l] + Visits(m, l, k + 1)
  BY <1>1, <1>2, <1>3, TotalAssumption DEF Smaller
<1>5. SUFFICES ASSUME r >= m.cursors[l]
               PROVE  LaneChunk(m.seed, l, r) \in
                        seen \cup {LaneChunk(m.seed, LaneAt(m, k), RankAt(m, k))}
  BY <1>1, <1>4
<1>6. PICK j \in 0 .. (k + 1) - 1 :
        LaneAt(m, j) = l /\ Visits(m, l, j) = r - m.cursors[l]
  <2>1. r - m.cursors[l] \in Nat /\ r - m.cursors[l] < Visits(m, l, k + 1)
    BY <1>1, <1>2, <1>4, <1>5
  <2> QED BY <2>1, VisitsHit, k + 1 \in Nat
<1>7. j \in 0 .. k /\ RankAt(m, j) = r
  BY <1>1, <1>4, <1>6 DEF RankAt
<1>8. CASE j = k
  BY <1>6, <1>7, <1>8
<1>9. CASE j # k
  <2>1. j \in 0 .. k - 1  BY <1>7, <1>9
  <2> QED BY <2>1, <1>4, <1>6, <1>7 DEF Proposes
<1> QED BY <1>8, <1>9

LEMMA AdvanceType ==
  ASSUME NEW m \in Mosaics, NEW k \in Nat
  PROVE  /\ Advanced(m, k) \in Mosaics
         /\ Advanced(m, k).lanes = m.lanes /\ Advanced(m, k).seed = m.seed
<1> DEFINE L == Len(Wheel[m.lanes])
           cursors == [l \in LanesOf(m.lanes) |->
                         Smaller(Total, m.cursors[l] + Visits(m, l, k + 1))]
           slot == (m.slot + k + 1) % L
<1>1. cursors \in [LanesOf(m.lanes) -> 0 .. Total]
  <2>1. ASSUME NEW l \in LanesOf(m.lanes)
        PROVE  Smaller(Total, m.cursors[l] + Visits(m, l, k + 1)) \in 0 .. Total
    <3>1. m.cursors[l] \in 0 .. Total /\ Visits(m, l, k + 1) \in Nat
      BY WheelType, VisitsStep, k + 1 \in Nat
    <3> QED BY <3>1, TotalAssumption DEF Smaller
  <2> QED BY <2>1
<1>2. slot \in 0 .. L - 1
  <2>1. m.slot + k + 1 \in Nat /\ L \in Nat \ {0}  BY WheelType
  <2> HIDE DEF L
  <2> QED BY <2>1
<1>3. Advanced(m, k) = [m EXCEPT !.slot = slot, !.cursors = cursors]
  <2>1. m.slot + k + 1 = (m.slot + k) + 1  BY WheelType
  <2> QED BY <2>1 DEF Advanced, Mosaics
<1>4. PICK p \in Presets : m \in [lanes : {p}, seed : Seeds, slot : 0 .. Len(Wheel[p]) - 1,
                                   cursors : [LanesOf(p) -> 0 .. Total]]
  BY DEF Mosaics
<1>5. m.lanes = p
  BY <1>4
<1> HIDE DEF cursors, slot
<1>6. /\ Advanced(m, k).lanes = m.lanes /\ Advanced(m, k).seed = m.seed
      /\ Advanced(m, k) \in [lanes : {p}, seed : Seeds, slot : 0 .. Len(Wheel[p]) - 1,
                              cursors : [LanesOf(p) -> 0 .. Total]]
  BY <1>1, <1>2, <1>3, <1>4, <1>5
<1> QED BY <1>6 DEF Mosaics

\* Each lane's rest is part of what remains.
LEMMA RemainingBound ==
  ASSUME NEW m \in Mosaics
  PROVE  /\ Remaining(m) \in Nat /\ MaximumSlots(m) \in Nat
         /\ \A l \in LanesOf(m.lanes) : Remaining(m) >= Total - m.cursors[l]
<1> DEFINE left(x) == IF x \in LanesOf(m.lanes) THEN Total - m.cursors[x] ELSE 0
<1>1. ASSUME NEW x \in AllLanes PROVE left(x) \in Nat
  BY WheelType, TotalAssumption
<1>2. left("uniform") \in Nat /\ left("spread") \in Nat /\ left("edges") \in Nat
      /\ left("center") \in Nat /\ left("cold") \in Nat
  BY <1>1 DEF AllLanes
<1>3. Remaining(m) = left("uniform") + left("spread") + left("edges")
                     + left("center") + left("cold")
  BY DEF Remaining
<1>4. ASSUME NEW l \in LanesOf(m.lanes) PROVE Remaining(m) >= Total - m.cursors[l]
  <2>1. left(l) = Total - m.cursors[l]
    OBVIOUS
  <2>2. l \in {"uniform", "spread", "edges", "center", "cold"}
    BY WheelType DEF AllLanes
  <2> HIDE DEF left
  <2> QED BY <1>2, <1>3, <2>1, <2>2
<1>5. Remaining(m) \in Nat
  <2> HIDE DEF left
  <2> QED BY <1>2, <1>3
<1>6. MaximumSlots(m) \in Nat
  <2>1. PICK L \in Nat : L = Len(Wheel[m.lanes])  BY WheelType
  <2>2. (Remaining(m) + 1) * L \in Nat  BY <1>5
  <2> QED BY <2>1, <2>2 DEF MaximumSlots
<1> QED BY <1>4, <1>5, <1>6

\* With everything gone past in the table, an unseen chunk is still ahead in
\* every lane, and a turn proposes before the loop gives up.
LEMMA MosaicProposes ==
  ASSUME NEW m \in Mosaics, seen # Chunks, seen \subseteq Chunks,
         \A l \in LanesOf(m.lanes) : \A r \in 0 .. m.cursors[l] - 1 :
           LaneChunk(m.seed, l, r) \in seen
  PROVE  \E k \in 0 .. MaximumSlots(m) - 1 : Proposes(m, k)
<1> DEFINE L == Len(Wheel[m.lanes])
<1>1. PICK c \in Chunks : c \notin seen
  OBVIOUS
<1>2. PICK l \in LanesOf(m.lanes) : l \in AllLanes
  <2>1. LaneAt(m, 0) \in LanesOf(m.lanes)  BY WheelType
  <2> QED BY <2>1, WheelType
<1>3. PICK r \in Chunks : LaneChunk(m.seed, l, r) = c
  BY <1>1, <1>2, LaneReaches, WheelType
<1>4. m.cursors[l] \in 0 .. Total /\ r \in 0 .. Total - 1 /\ r >= m.cursors[l]
  <2>1. m.cursors[l] \in 0 .. Total /\ r \in 0 .. Total - 1  BY WheelType DEF Chunks
  <2> QED BY <2>1, <1>1, <1>3, TotalAssumption
<1> DEFINE d == r - m.cursors[l]
<1>5. d \in Nat /\ d + 1 \in Nat /\ d + 1 <= Total - m.cursors[l]
  BY <1>4, TotalAssumption
<1>6. L \in Nat \ {0}
  BY WheelType
<1>7. Remaining(m) \in Nat /\ MaximumSlots(m) \in Nat /\ Remaining(m) >= Total - m.cursors[l]
  BY <1>2, RemainingBound
<1>8. /\ (d + 1) * L \in Nat /\ MaximumSlots(m) \in Nat
      /\ (d + 1) * L <= MaximumSlots(m)
  <2>1. d + 1 <= Remaining(m) + 1  BY <1>5, <1>7, <1>4, TotalAssumption
  <2>2. MaximumSlots(m) = (Remaining(m) + 1) * L  BY DEF MaximumSlots
  <2>3. Remaining(m) + 1 \in Nat /\ d + 1 \in Nat  BY <1>5, <1>7
  <2> HIDE DEF L, d
  <2>4. (d + 1) * L <= (Remaining(m) + 1) * L /\ (d + 1) * L \in Nat
    BY <2>1, <2>3, <1>6, Times
  <2>5. (Remaining(m) + 1) * L \in Nat  BY <2>3, <1>6
  <2> QED BY <2>2, <2>4, <2>5
<1>9. d < Visits(m, l, (d + 1) * L)
  <2>1. Visits(m, l, (d + 1) * L) >= d + 1  BY <1>5, Rounds
  <2>2. Visits(m, l, (d + 1) * L) \in Nat  BY <1>8, VisitsStep
  <2> QED BY <2>1, <2>2, <1>5
<1>10. PICK k \in 0 .. (d + 1) * L - 1 : LaneAt(m, k) = l /\ Visits(m, l, k) = d
  BY <1>5, <1>8, <1>9, VisitsHit
<1>11. RankAt(m, k) = r
  BY <1>4, <1>10 DEF RankAt
<1>12. Proposes(m, k)
  <2>1. r < Total  BY <1>4, TotalAssumption
  <2> QED BY <2>1, <1>1, <1>3, <1>10, <1>11 DEF Proposes
<1>13. k \in 0 .. MaximumSlots(m) - 1
  <2> HIDE DEF L, d
  <2> QED BY <1>8
<1> QED BY <1>12, <1>13

\* MosaicTurn is the first turn that proposes.
LEMMA FirstTurn ==
  ASSUME NEW m \in Mosaics, \E k \in 0 .. MaximumSlots(m) - 1 : Proposes(m, k)
  PROVE  /\ MosaicTurn(m) \in Nat
         /\ Proposes(m, MosaicTurn(m))
         /\ \A j \in 0 .. MosaicTurn(m) - 1 : ~Proposes(m, j)
<1> DEFINE T == {k \in 0 .. MaximumSlots(m) - 1 : Proposes(m, k)}
<1>1. PICK k \in T : \A y \in T : k <= y
  <2>1. T # {} /\ T \subseteq Nat  OBVIOUS
  <2> HIDE DEF T
  <2> QED BY <2>1, LeastMember
<1>2. k \in 0 .. MaximumSlots(m) - 1 /\ Proposes(m, k) /\ k \in Nat
  OBVIOUS
<1>3. \A j \in 0 .. k - 1 : ~Proposes(m, j)
  <2>1. ASSUME NEW j \in 0 .. k - 1, Proposes(m, j) PROVE FALSE
    <3>1. j \in T  BY <2>1, <1>2, RemainingBound
    <3> QED BY <3>1, <1>1, <1>2
  <2> QED BY <2>1
<1>4. /\ MosaicTurn(m) \in 0 .. MaximumSlots(m) - 1
      /\ Proposes(m, MosaicTurn(m))
      /\ \A j \in 0 .. MosaicTurn(m) - 1 : ~Proposes(m, j)
  BY <1>2, <1>3 DEF MosaicTurn
<1> QED BY <1>4

-----------------------------------------------------------------------------
(***************************************************************************)
(* HypothesisPlanner.next_unseen                                           *)
(***************************************************************************)

\* What a stored state has gone past is in the table or queued.
LabKept(state) ==
  \A r \in 0 .. state.cursor - 1 : Research[state.seed][r] \in seen \/ r \in state.queue

LEMMA ChunksFinite ==
  ASSUME NEW S \in SUBSET Chunks
  PROVE  IsFiniteSet(S) /\ Cardinality(S) \in Nat
<1>1. IsFiniteSet(Chunks)
  BY FS_Interval, TotalAssumption DEF Chunks
<1> QED BY <1>1, FS_Subset, FS_CardinalityType

\* A cycle ends at Total with few open ranks left, and else behind the open rank
\* that fills the queue.
LEMMA CycleEndFacts ==
  ASSUME NEW state \in Labs
  PROVE  LET open == OpenRanks(state)
             taken == {r \in open : r < CycleEnd(state)}
         IN  /\ CycleEnd(state) \in 0 .. Total
             /\ Cardinality(taken) <= state.ratio
             /\ open # {} => taken # {}
<1> DEFINE open == OpenRanks(state)
           taken == {r \in open : r < CycleEnd(state)}
<1>0. /\ state.cursor \in 0 .. Total
      /\ state.ratio \in Nat \ {0}
  BY RatiosAssumption DEF Labs
<1>1. open \subseteq Chunks /\ open \subseteq state.cursor .. Total - 1
  BY <1>0, TotalAssumption DEF OpenRanks, Chunks
<1>2. Cardinality(open) \in Nat
  BY <1>1, ChunksFinite
<1>3. CASE Cardinality(open) < state.ratio
  <2>1. CycleEnd(state) = Total  BY <1>3 DEF CycleEnd
  <2>2. taken = open  BY <2>1, <1>1, TotalAssumption DEF Chunks
  <2> QED BY <2>1, <2>2, <1>0, <1>2, <1>3, TotalAssumption
<1>4. CASE ~(Cardinality(open) < state.ratio)
  <2> DEFINE Ends(e) == e - 1 \in open /\ Cardinality({r \in open : r < e}) = state.ratio
  <2>1. \E e \in state.cursor .. Total : Ends(e)
    <3>1. open \cap (0 .. Total - 1) = open  BY <1>1 DEF Chunks
    <3>2. state.ratio - 1 \in Nat /\ state.ratio - 1 < Cardinality(open \cap (0 .. Total - 1))
      BY <3>1, <1>0, <1>2, <1>4
    <3>3. PICK j \in open \cap (0 .. Total - 1) :
            Cardinality(open \cap (0 .. j - 1)) = state.ratio - 1
      <4> HIDE DEF open
      <4> QED BY <3>2, CountHits, TotalAssumption
    <3>4. j \in Nat /\ j \in open /\ j \in state.cursor .. Total - 1
      BY <3>3, <1>1, TotalAssumption
    <3>5. Cardinality(open \cap (0 .. j)) = state.ratio
      <4> HIDE DEF open
      <4> QED BY <3>3, <3>4, <1>0, CountStep
    <3>6. {r \in open : r < j + 1} = open \cap (0 .. j)
      BY <3>4, <1>1, TotalAssumption DEF Chunks
    <3>7. j + 1 \in state.cursor .. Total /\ (j + 1) - 1 = j
      BY <3>4, <1>0, TotalAssumption
    <3> QED BY <3>4, <3>5, <3>6, <3>7
  <2>2. CycleEnd(state) = CHOOSE e \in state.cursor .. Total : Ends(e)
    BY <1>4 DEF CycleEnd
  <2>3. CycleEnd(state) \in state.cursor .. Total /\ Ends(CycleEnd(state))
    <3> HIDE DEF Ends
    <3> QED BY <2>1, <2>2
  <2>4. CycleEnd(state) \in 0 .. Total
    BY <2>3, <1>0, TotalAssumption
  <2>5. CycleEnd(state) - 1 \in taken
    BY <2>3, <2>4, TotalAssumption
  <2> QED BY <2>3, <2>4, <2>5, <1>0
<1> QED BY <1>3, <1>4

\* A refilled queue holds unseen ranks only, ratio of them at most, and at least
\* one while a chunk is unseen.
LEMMA RefilledFacts ==
  ASSUME NEW state \in Labs, LabKept(state), UnseenRanks(state) = {},
         seen # Chunks, seen \subseteq Chunks
  PROVE  /\ Refilled(state) \in Labs
         /\ Refilled(state).seed = state.seed /\ Refilled(state).ratio = state.ratio
         /\ Cardinality(Refilled(state).queue) <= state.ratio
         /\ LabKept(Refilled(state))
         /\ UnseenRanks(Refilled(state)) # {}
<1> DEFINE end == CycleEnd(state)
           taken == {r \in OpenRanks(state) : r < end}
<1>0. state.cursor \in 0 .. Total /\ Research[state.seed] \in Permutations
  BY OrdersAssumption DEF Labs
<1>1. end \in 0 .. Total /\ Cardinality(taken) <= state.ratio
      /\ (OpenRanks(state) # {} => taken # {})
  BY CycleEndFacts
<1>2. Refilled(state) = [state EXCEPT !.cursor = end, !.queue = taken]
  BY DEF Refilled
<1>3. taken \subseteq Chunks
  BY <1>0, TotalAssumption DEF OpenRanks, Chunks
<1>4. \A r \in 0 .. state.cursor - 1 : Research[state.seed][r] \in seen
  BY DEF LabKept, UnseenRanks
<1>5. OpenRanks(state) # {}
  <2>1. PICK c \in Chunks : c \notin seen  OBVIOUS
  <2>2. PICK r \in Chunks : Research[state.seed][r] = c  BY <1>0, PermutationReaches
  <2>3. r \in state.cursor .. Total - 1
    BY <2>1, <2>2, <1>0, <1>4, TotalAssumption DEF Chunks
  <2> QED BY <2>1, <2>2, <2>3 DEF OpenRanks
<1>6. \A r \in taken : Research[state.seed][r] \notin seen
  BY DEF OpenRanks
<1>7. \A r \in 0 .. end - 1 : Research[state.seed][r] \in seen \/ r \in taken
  BY <1>0, <1>1, <1>4, TotalAssumption DEF OpenRanks
<1> HIDE DEF end, taken
<1>8. /\ Refilled(state) \in Labs
      /\ Refilled(state).seed = state.seed /\ Refilled(state).ratio = state.ratio
      /\ Refilled(state).queue = taken /\ Refilled(state).cursor = end
  BY <1>1, <1>2, <1>3 DEF Labs
<1> QED BY <1>1, <1>5, <1>6, <1>7, <1>8 DEF LabKept, UnseenRanks

\* The next rank is the least unseen one of the queue; popping up to it loses no
\* chunk once it is in the table.
LEMMA PoppedFacts ==
  ASSUME NEW state \in Labs, LabKept(state), UnseenRanks(state) # {},
         Cardinality(state.queue) <= state.ratio
  PROVE  /\ NextRank(state) \in Chunks
         /\ Popped(state) \in Labs
         /\ Popped(state).seed = state.seed /\ Popped(state).ratio = state.ratio
         /\ Cardinality(Popped(state).queue) < state.ratio
         /\ \A r \in 0 .. Popped(state).cursor - 1 :
              \/ Research[state.seed][r] \in seen \cup {Research[state.seed][NextRank(state)]}
              \/ r \in Popped(state).queue
<1> DEFINE n == NextRank(state)
           left == {r \in state.queue : r > n}
<1>0. state.queue \subseteq Chunks /\ state.ratio \in Nat /\ state.cursor \in 0 .. Total
  BY RatiosAssumption DEF Labs
<1>1. UnseenRanks(state) \subseteq state.queue /\ UnseenRanks(state) \subseteq Nat
  BY <1>0, TotalAssumption DEF UnseenRanks, Chunks
<1>2. \E r \in UnseenRanks(state) : \A q \in UnseenRanks(state) : r <= q
  BY <1>1, LeastMember
<1>3. n \in UnseenRanks(state) /\ \A q \in UnseenRanks(state) : n <= q
  BY <1>2 DEF NextRank
<1>4. n \in state.queue /\ n \in Chunks /\ n \in Nat
  BY <1>0, <1>1, <1>3
<1>5. Popped(state) = [state EXCEPT !.queue = left]
  BY DEF Popped
<1>6. left \subseteq Chunks /\ left \subseteq state.queue \ {n}
  BY <1>0, <1>4
<1>7. Cardinality(left) < state.ratio
  <2>1. IsFiniteSet(state.queue) /\ Cardinality(state.queue) \in Nat
    BY <1>0, ChunksFinite
  <2>2. IsFiniteSet(state.queue \ {n}) /\ Cardinality(state.queue \ {n}) = Cardinality(state.queue) - 1
    BY <2>1, <1>4, FS_RemoveElement
  <2>3. Cardinality(left) <= Cardinality(state.queue \ {n}) /\ Cardinality(left) \in Nat
    <3> HIDE DEF left, n
    <3> QED BY <2>2, <1>6, FS_Subset, ChunksFinite
  <2> QED BY <2>1, <2>2, <2>3, <1>0
<1>8. ASSUME NEW r \in 0 .. state.cursor - 1, Research[state.seed][r] \notin seen, r # n
      PROVE  r \in left
  <2>1. r \in state.queue  BY <1>8 DEF LabKept
  <2>2. r \in UnseenRanks(state)  BY <2>1, <1>8 DEF UnseenRanks
  <2>3. n <= r /\ r \in Nat  BY <2>2, <1>1, <1>3
  <2> QED BY <2>1, <2>3, <1>4, <1>8
<1> HIDE DEF left
<1>9. /\ Popped(state) \in Labs
      /\ Popped(state).seed = state.seed /\ Popped(state).ratio = state.ratio
      /\ Popped(state).queue = left /\ Popped(state).cursor = state.cursor
  BY <1>5, <1>6 DEF Labs
<1> QED BY <1>4, <1>7, <1>8, <1>9

-----------------------------------------------------------------------------
(***************************************************************************)
(* The invariant                                                           *)
(***************************************************************************)

\* A stored state is one the planner's constructor and restore() accept.
Restorable ==
  /\ mosaic # None => mosaic.seed = seed
  /\ lab # None => lab.seed = seed /\ lab.ratio = ratio

IInv == TypeOK /\ Restorable /\ NothingSkipped

\* A state that starts over, or over with carried cursors, is a state.
LEMMA FreshTypes ==
  ASSUME NEW p \in Presets, NEW s \in Seeds
  PROVE  /\ FreshMosaic(p, s) \in Mosaics
         /\ \A cs \in [LanesOf(p) -> 0 .. Total] :
              [FreshMosaic(p, s) EXCEPT !.cursors = cs] \in Mosaics
<1>1. PICK L \in Nat \ {0} : L = Len(Wheel[p])
  BY WheelAssumption
<1>2. 0 \in 0 .. Len(Wheel[p]) - 1
  BY <1>1
<1>3. [l \in LanesOf(p) |-> 0] \in [LanesOf(p) -> 0 .. Total]
  BY TotalAssumption
<1>4. \A cs \in [LanesOf(p) -> 0 .. Total] :
        [lanes |-> p, seed |-> s, slot |-> 0, cursors |-> cs] \in Mosaics
  BY <1>2 DEF Mosaics
<1>5. \A cs : [FreshMosaic(p, s) EXCEPT !.cursors = cs] =
               [lanes |-> p, seed |-> s, slot |-> 0, cursors |-> cs]
  BY DEF FreshMosaic
<1>6. FreshMosaic(p, s) \in Mosaics
  BY <1>3, <1>4 DEF FreshMosaic
<1> QED BY <1>4, <1>5, <1>6

LEMMA FreshLabType ==
  ASSUME NEW s \in Seeds, NEW q \in Ratios
  PROVE  FreshLab(s, q) \in Labs /\ Cardinality(FreshLab(s, q).queue) = 0
<1>1. FreshLab(s, q) \in Labs /\ FreshLab(s, q).queue = {}
  BY TotalAssumption DEF FreshLab, Labs
<1> QED BY <1>1, FS_EmptySet

\* The state a Hypothesis proposal is taken from.
LEMMA PreparedFacts ==
  ASSUME IInv, seen # Chunks
  PROVE  /\ LabRestores
         /\ Prepared \in Labs /\ Prepared.seed = seed /\ Prepared.ratio = ratio
         /\ Cardinality(Prepared.queue) <= Prepared.ratio
         /\ LabKept(Prepared)
         /\ UnseenRanks(Prepared) # {}
<1>1. /\ Loaded \in Labs /\ Loaded.seed = seed /\ Loaded.ratio = ratio
      /\ Cardinality(Loaded.queue) <= Loaded.ratio
      /\ LabKept(Loaded)
  <2>1. CASE lab = None
    <3>1. /\ FreshLab(seed, ratio) \in Labs
          /\ Cardinality(FreshLab(seed, ratio).queue) = 0
      BY FreshLabType DEF IInv, TypeOK
    <3>2. ratio \in Nat  BY RatiosAssumption DEF IInv, TypeOK
    <3>3. /\ FreshLab(seed, ratio).seed = seed /\ FreshLab(seed, ratio).ratio = ratio
          /\ LabKept(FreshLab(seed, ratio))
      BY DEF FreshLab, LabKept
    <3> QED BY <2>1, <3>1, <3>2, <3>3 DEF Loaded
  <2>2. CASE lab # None
    <3>1. lab \in Labs /\ Cardinality(lab.queue) < lab.ratio /\ lab.ratio \in Nat
          /\ lab.queue \in SUBSET Chunks
      BY <2>2, RatiosAssumption DEF IInv, TypeOK, Labs
    <3>2. Cardinality(lab.queue) <= lab.ratio
      BY <3>1, ChunksFinite
    <3>3. LabKept(lab) /\ lab.seed = seed /\ lab.ratio = ratio
      BY <2>2 DEF IInv, NothingSkipped, Restorable, LabKept
    <3> QED BY <2>2, <3>1, <3>2, <3>3 DEF Loaded
  <2> QED BY <2>1, <2>2
<1>2. CASE UnseenRanks(Loaded) # {}
  BY <1>1, <1>2 DEF Prepared, LabRestores
<1>3. CASE UnseenRanks(Loaded) = {}
  <2>1. seen \subseteq Chunks  BY DEF IInv, TypeOK
  <2>2. Prepared = Refilled(Loaded)  BY <1>3 DEF Prepared
  <2>3. /\ Refilled(Loaded) \in Labs
        /\ Refilled(Loaded).seed = Loaded.seed /\ Refilled(Loaded).ratio = Loaded.ratio
        /\ Cardinality(Refilled(Loaded).queue) <= Loaded.ratio
        /\ LabKept(Refilled(Loaded))
        /\ UnseenRanks(Refilled(Loaded)) # {}
    BY <1>1, <1>3, <2>1, RefilledFacts
  <2> QED BY <1>1, <2>2, <2>3 DEF LabRestores
<1> QED BY <1>2, <1>3

LEMMA InitInv == Init => IInv
<1>1. SUFFICES ASSUME Init PROVE IInv
  OBVIOUS
<1>2. seen = {} /\ leased = FALSE /\ enabled \in BOOLEAN /\ seed \in Seeds
      /\ ratio \in Ratios /\ lab = None
  BY <1>1 DEF Init
<1>3. CASE mosaic = None
  BY <1>2, <1>3 DEF IInv, TypeOK, Restorable, NothingSkipped
<1>4. ASSUME NEW p \in Presets, mosaic = FreshMosaic(p, seed) PROVE IInv
  <2>1. mosaic \in Mosaics  BY <1>2, <1>4, FreshTypes
  <2>2. mosaic.seed = seed /\ mosaic.lanes = p
        /\ \A l \in LanesOf(p) : mosaic.cursors[l] = 0
    BY <1>4 DEF FreshMosaic
  <2>3. \A l \in LanesOf(p) : 0 .. mosaic.cursors[l] - 1 = {}
    BY <2>2
  <2>4. TypeOK  BY <1>2, <2>1 DEF TypeOK
  <2>5. Restorable  BY <1>2, <2>2 DEF Restorable
  <2>6. NothingSkipped  BY <1>2, <2>2, <2>3 DEF NothingSkipped
  <2> QED BY <2>4, <2>5, <2>6 DEF IInv
<1> QED BY <1>1, <1>3, <1>4 DEF Init

LEMMA MosaicStep == IInv /\ AllocateMosaic => IInv'
<1> SUFFICES ASSUME IInv, AllocateMosaic PROVE IInv'
  OBVIOUS
<1> DEFINE m == mosaic
           k == MosaicTurn(m)
           c == LaneChunk(m.seed, LaneAt(m, k), RankAt(m, k))
<1>1. m \in Mosaics /\ mosaic # None /\ m.seed = seed
  BY DEF IInv, TypeOK, Restorable, AllocateMosaic
<1>2. k \in Nat /\ Proposes(m, k) /\ \A j \in 0 .. k - 1 : ~Proposes(m, j)
  BY <1>1, FirstTurn DEF AllocateMosaic, MosaicCanPropose
<1>3. seen' = seen \cup {c} /\ mosaic' = Advanced(m, k) /\ leased' = TRUE
      /\ UNCHANGED <<seed, enabled, ratio, lab>>
  BY <1>1 DEF AllocateMosaic, labVars
<1>4. c \in Chunks
  BY <1>1, <1>2, RankType DEF Proposes
<1>5. Advanced(m, k) \in Mosaics /\ Advanced(m, k).lanes = m.lanes
      /\ Advanced(m, k).seed = m.seed
  BY <1>1, <1>2, AdvanceType
<1>6. ASSUME NEW l \in LanesOf(m.lanes), NEW r \in 0 .. Advanced(m, k).cursors[l] - 1
      PROVE  LaneChunk(m.seed, l, r) \in seen'
  <2>1. \/ r \in 0 .. m.cursors[l] - 1
        \/ LaneChunk(m.seed, l, r) \in seen \cup {c}
    BY <1>1, <1>2, Advance
  <2> QED BY <2>1, <1>1, <1>3 DEF IInv, NothingSkipped
<1> HIDE DEF c, k
<1>7. TypeOK'
  BY <1>3, <1>4, <1>5 DEF IInv, TypeOK
<1>8. Restorable'
  BY <1>1, <1>3, <1>5 DEF IInv, Restorable
<1>9. NothingSkipped'
  BY <1>3, <1>5, <1>6 DEF IInv, NothingSkipped
<1> QED BY <1>7, <1>8, <1>9 DEF IInv

LEMMA HypothesisStep == IInv /\ AllocateHypothesis => IInv'
<1> SUFFICES ASSUME IInv, AllocateHypothesis PROVE IInv'
  OBVIOUS
<1> DEFINE n == NextRank(Prepared)
           c == Research[Prepared.seed][n]
<1>1. seen # Chunks /\ seen' = seen \cup {c} /\ lab' = Popped(Prepared) /\ leased' = TRUE
      /\ UNCHANGED <<seed, mosaic, enabled, ratio>>
  BY DEF AllocateHypothesis
<1>2. /\ Prepared \in Labs /\ Prepared.seed = seed /\ Prepared.ratio = ratio
      /\ Cardinality(Prepared.queue) <= Prepared.ratio
      /\ LabKept(Prepared)
      /\ UnseenRanks(Prepared) # {}
  BY <1>1, PreparedFacts
<1>3. /\ n \in Chunks
      /\ Popped(Prepared) \in Labs
      /\ Popped(Prepared).seed = Prepared.seed /\ Popped(Prepared).ratio = Prepared.ratio
      /\ Cardinality(Popped(Prepared).queue) < Prepared.ratio
      /\ \A r \in 0 .. Popped(Prepared).cursor - 1 :
           \/ Research[Prepared.seed][r] \in seen \cup {c}
           \/ r \in Popped(Prepared).queue
  BY <1>2, PoppedFacts
<1>4. c \in Chunks
  <2>1. Research[Prepared.seed] \in Permutations  BY <1>2, OrdersAssumption DEF IInv, TypeOK
  <2> QED BY <2>1, <1>3 DEF Permutations
<1> HIDE DEF n, c
<1>5. TypeOK'
  BY <1>1, <1>3, <1>4 DEF IInv, TypeOK
<1>6. Restorable'
  BY <1>1, <1>2, <1>3 DEF IInv, Restorable
<1>7. NothingSkipped'
  BY <1>1, <1>3 DEF IInv, NothingSkipped
<1> QED BY <1>5, <1>6, <1>7 DEF IInv

LEMMA EnableColdStep == IInv /\ EnableCold => IInv'
<1> SUFFICES ASSUME IInv, EnableCold PROVE IInv'
  OBVIOUS
<1> DEFINE cs == Carried("cold")
<1>1. "cold" \in Presets /\ seed \in Seeds
  BY WheelAssumption DEF IInv, TypeOK
<1>2. ASSUME NEW l \in LanesOf("cold")
      PROVE  /\ cs[l] \in 0 .. Total
             /\ \A r \in 0 .. cs[l] - 1 : LaneChunk(seed, l, r) \in seen
  <2>1. CASE mosaic # None /\ l \in LanesOf(mosaic.lanes)
    <3>1. cs[l] = mosaic.cursors[l]  BY <2>1 DEF Carried
    <3>2. mosaic \in Mosaics /\ mosaic.seed = seed
      BY <2>1 DEF IInv, TypeOK, Restorable
    <3>3. mosaic.cursors[l] \in 0 .. Total  BY <2>1, <3>2, WheelType
    <3> QED BY <2>1, <3>1, <3>2, <3>3 DEF IInv, NothingSkipped
  <2>2. CASE ~(mosaic # None /\ l \in LanesOf(mosaic.lanes))
    <3>1. cs[l] = 0  BY <2>2 DEF Carried
    <3> QED BY <3>1, TotalAssumption
  <2> QED BY <2>1, <2>2
<1>3. cs \in [LanesOf("cold") -> 0 .. Total]
  <2>1. cs = [l \in LanesOf("cold") |-> cs[l]]  BY DEF Carried
  <2> HIDE DEF cs
  <2> QED BY <1>2, <2>1
<1> HIDE DEF cs
<1>4. mosaic' = [FreshMosaic("cold", seed) EXCEPT !.cursors = cs]
      /\ enabled' = FALSE /\ UNCHANGED <<seen, leased, seed, ratio, lab>>
  BY DEF EnableCold, cs
<1>5. mosaic' \in Mosaics
  BY <1>1, <1>3, <1>4, FreshTypes
<1>6. mosaic'.lanes = "cold" /\ mosaic'.seed = seed /\ mosaic'.cursors = cs
  BY <1>4 DEF FreshMosaic
<1>7. TypeOK'
  BY <1>4, <1>5 DEF IInv, TypeOK
<1>8. Restorable'
  BY <1>4, <1>6 DEF IInv, Restorable
<1>9. NothingSkipped'
  BY <1>2, <1>4, <1>6 DEF IInv, NothingSkipped
<1> QED BY <1>7, <1>8, <1>9 DEF IInv

LEMMA ReseedStep ==
  ASSUME IInv, NEW s \in Seeds, Reseed(s)
  PROVE  IInv'
<1>1. seed' = s /\ lab' = None /\ UNCHANGED <<seen, leased, enabled, ratio>>
      /\ mosaic' = IF mosaic = None THEN None ELSE FreshMosaic(mosaic.lanes, s)
  BY DEF Reseed
<1>2. CASE mosaic = None
  BY <1>1, <1>2 DEF IInv, TypeOK, Restorable, NothingSkipped
<1>3. CASE mosaic # None
  <2>1. mosaic.lanes \in Presets  BY <1>3, WheelType DEF IInv, TypeOK
  <2>2. mosaic' \in Mosaics  BY <1>1, <1>3, <2>1, FreshTypes
  <2>3. mosaic'.seed = s /\ mosaic'.lanes = mosaic.lanes
        /\ \A l \in LanesOf(mosaic.lanes) : mosaic'.cursors[l] = 0
    BY <1>1, <1>3 DEF FreshMosaic
  <2> QED BY <1>1, <2>2, <2>3 DEF IInv, TypeOK, Restorable, NothingSkipped
<1> QED BY <1>2, <1>3

LEMMA NextInv == IInv /\ [Next]_vars => IInv'
<1> SUFFICES ASSUME IInv, [Next]_vars PROVE IInv'
  OBVIOUS
<1>1. CASE AllocateMosaic
  BY <1>1, MosaicStep
<1>2. CASE AllocateAffine
  BY <1>2 DEF AllocateAffine, labVars, IInv, TypeOK, Restorable, NothingSkipped
<1>3. CASE AllocateHypothesis
  BY <1>3, HypothesisStep
<1>4. CASE Settle
  BY <1>4 DEF Settle, labVars, IInv, TypeOK, Restorable, NothingSkipped
<1>5. CASE EnableCold
  BY <1>5, EnableColdStep
<1>6. ASSUME NEW r \in Ratios, EnableHypothesis(r) PROVE IInv'
  BY <1>6 DEF EnableHypothesis, IInv, TypeOK, Restorable, NothingSkipped
<1>7. ASSUME NEW s \in Seeds, Reseed(s) PROVE IInv'
  BY <1>7, ReseedStep
<1>8. CASE UNCHANGED vars
  BY <1>8 DEF vars, labVars, IInv, TypeOK, Restorable, NothingSkipped
<1> QED BY <1>1, <1>2, <1>3, <1>4, <1>5, <1>6, <1>7, <1>8 DEF Next, Allocate

\* The planner in charge proposes a chunk as long as one is unseen.
LEMMA InvProposes == IInv => NeverStuck
<1> SUFFICES ASSUME IInv, seen # Chunks
             PROVE  IF enabled THEN LabCanPropose ELSE mosaic # None => MosaicCanPropose
  BY DEF NeverStuck
<1>1. LabCanPropose
  BY PreparedFacts DEF LabCanPropose
<1>2. ASSUME mosaic # None PROVE MosaicCanPropose
  <2>1. mosaic \in Mosaics /\ seen \subseteq Chunks /\ MosaicRestores
    BY <1>2 DEF IInv, TypeOK, Restorable, MosaicRestores
  <2>2. \A l \in LanesOf(mosaic.lanes) : \A r \in 0 .. mosaic.cursors[l] - 1 :
          LaneChunk(mosaic.seed, l, r) \in seen
    BY <1>2 DEF IInv, NothingSkipped
  <2> QED BY <2>1, <2>2, MosaicProposes DEF MosaicCanPropose
<1> QED BY <1>1, <1>2

-----------------------------------------------------------------------------
(***************************************************************************)
(* The theorems                                                            *)
(***************************************************************************)

\* The stored states keep their shapes through every change of planner, ratio
\* and seed: what restore() checks of cursors, slots and queue.
THEOREM TypeCorrect == Spec => []TypeOK
<1>1. IInv => TypeOK
  BY DEF IInv
<1> QED BY <1>1, InitInv, NextInv, PTL DEF Spec

\* No planner skips a chunk, whatever was carried over, taken by the other
\* planner or drained from an old queue.
THEOREM NothingSkippedCorrect == Spec => []NothingSkipped
<1>1. IInv => NothingSkipped
  BY DEF IInv
<1> QED BY <1>1, InitInv, NextInv, PTL DEF Spec

\* lease() finds an unseen chunk while there is one: the bound on the turns of
\* the wheel is never hit, the state is never refused, no cycle comes out empty.
THEOREM NeverStuckCorrect == Spec => []NeverStuck
  BY InitInv, NextInv, InvProposes, PTL DEF Spec

=============================================================================
