------------------------------- MODULE Orders -------------------------------
(***************************************************************************)
(* The pure chunk orders and the lane wheel of src/puzzleforge/mosaic.py,  *)
(* coldzone.py and partition.py.  An order of a domain of size chunks maps *)
(* each rank 0 .. size - 1 to a chunk.  Digests of the seed are parameters *)
(* here: multiplier, offset, mask and round functions.                     *)
(***************************************************************************)
EXTENDS Integers, Sequences

\* AffineOrder.chunk_id and ChunkPlan.chunk_for_sequence, size > 1.
AffineChunk(size, multiplier, offset, rank) ==
  (multiplier * rank + offset) % size

\* ChunkPlan._derive_affine_parameters: the first multiplier coprime to size
\* from the candidate the digest gives, going round.
Coprime(a, b) == \A d \in 2 .. b : ~(a % d = 0 /\ b % d = 0)
Multiplier(size, candidate) ==
  LET at(i) == 1 + ((candidate - 1 + i) % (size - 1))
      i == CHOOSE i \in 0 .. size - 2 :
             /\ Coprime(at(i), size)
             /\ \A j \in 0 .. i - 1 : ~Coprime(at(j), size)
  IN at(i)

\* EdgeOrder.chunk_id
EdgeChunk(size, rank) ==
  IF rank % 2 = 0 THEN rank \div 2 ELSE size - 1 - rank \div 2

\* CenterOrder.chunk_id
CenterChunk(size, rank) ==
  LET middle == (size - 1) \div 2
  IN IF rank % 2 = 1 THEN middle + (rank + 1) \div 2 ELSE middle - rank \div 2

\* Walking a permutation of 0 .. domain - 1 until it is back below size, as
\* PrivatePermutationOrder.chunk_id and BitSpreadOrder.chunk_id do.
WalkedChunk(size, domain, permutation, rank) ==
  LET after[k \in 1 .. domain] ==
        IF k = 1 THEN permutation[rank]
        ELSE LET last == after[k - 1] IN permutation[last]
  IN after[CHOOSE k \in 1 .. domain :
             after[k] < size /\ \A j \in 1 .. k - 1 : after[j] >= size]

\* 1 << n, as a recursion the provers can follow.
Power(n) ==
  LET power[i \in 0 .. n] == IF i = 0 THEN 1 ELSE 2 * power[i - 1]
  IN power[n]
Bit(value, i) == (value \div Power(i)) % 2
Words(bits) == 0 .. Power(bits) - 1

\* BitSpreadOrder._permutation: the bits reversed between two masks.
SpreadPermutation(bits, mask) ==
  [value \in Words(bits) |->
     CHOOSE result \in Words(bits) :
       \A i \in 0 .. bits - 1 :
         LET j == bits - 1 - i
         IN Bit(result, i) = (Bit(value, j) + Bit(mask, j) + Bit(mask, i)) % 2]

Xor(bits, a, b) ==
  CHOOSE c \in Words(bits) :
    \A i \in 0 .. bits - 1 : Bit(c, i) = (Bit(a, i) + Bit(b, i)) % 2

\* PrivatePermutationOrder._permutation: rounds[n][right] is the n-th round
\* function on halves of the given number of bits.
Halves(bits, rounds, value) ==
  LET half == Power(bits)
      after[n \in 0 .. Len(rounds)] ==
        IF n = 0 THEN <<value \div half, value % half>>
        ELSE LET last == after[n - 1]
             IN <<last[2], Xor(bits, last[1], rounds[n][last[2]])>>
  IN after[Len(rounds)]
FeistelPermutation(bits, rounds) ==
  [value \in 0 .. Power(bits) * Power(bits) - 1 |->
     LET ends == Halves(bits, rounds, value) IN ends[1] * Power(bits) + ends[2]]

\* ColdOrder.chunk_id: bands from cold to hot, each with a permutation of its
\* own, permutation[b]; band b holds the chunks from Bound(b) up to Bound(b + 1) - 1.
Bound(size, bands, b) == (size * b) \div bands
ColdChunk(size, bands, coldest, permutation, rank) ==
  LET width(b) == Bound(size, bands, b + 1) - Bound(size, bands, b)
      cumulative[i \in 0 .. bands] ==
        IF i = 0 THEN 0 ELSE cumulative[i - 1] + width(coldest[i])
      i == CHOOSE i \in 1 .. bands :
             cumulative[i - 1] <= rank /\ rank < cumulative[i]
      band == coldest[i]
  IN Bound(size, bands, band)
       + permutation[band][rank - cumulative[i - 1]]

\* _weighted_wheel: smooth weighted round robin.  lanes is a sequence of
\* [name, weight]; the first lane of the largest credit takes the slot.
WeightSum(lanes) ==
  LET sum[i \in 0 .. Len(lanes)] ==
        IF i = 0 THEN 0 ELSE sum[i - 1] + lanes[i].weight
  IN sum[Len(lanes)]

WeightedWheel(lanes) ==
  LET total == WeightSum(lanes)
      Topped(credit) == [i \in DOMAIN lanes |-> credit[i] + lanes[i].weight]
      Chosen(credit) ==
        CHOOSE i \in DOMAIN lanes :
          /\ \A j \in DOMAIN lanes : credit[j] <= credit[i]
          /\ \A j \in 1 .. i - 1 : credit[j] < credit[i]
      turn[n \in 0 .. total] ==
        IF n = 0 THEN [credit |-> [i \in DOMAIN lanes |-> 0], wheel |-> <<>>]
        ELSE LET last == turn[n - 1]
                 credit == Topped(last.credit)
                 i == Chosen(credit)
             IN [credit |-> [credit EXCEPT ![i] = @ - total],
                 wheel  |-> Append(last.wheel, lanes[i].name)]
  IN turn[total].wheel

Lane(name, weight) == [name |-> name, weight |-> weight]
DefaultLanes == << Lane("uniform", 8), Lane("spread", 4), Lane("edges", 2),
                   Lane("center", 2) >>
ColdLanes == << Lane("cold", 6), Lane("uniform", 4) >>

=============================================================================
