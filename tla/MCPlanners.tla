----------------------------- MODULE MCPlanners -----------------------------
(***************************************************************************)
(* A small instance of Planners for TLC: the lanes and weights of the two  *)
(* presets, two seeds and two ratios of search to research.                *)
(***************************************************************************)
EXTENDS Planners

\* Written out, because TLC would compute the wheels again at every use.
MCWheel ==
  [mosaic |-> <<"uniform", "spread", "uniform", "edges", "center", "uniform",
                "spread", "uniform", "uniform", "spread", "uniform", "edges",
                "center", "uniform", "spread", "uniform">>,
   cold   |-> <<"cold", "uniform", "cold", "uniform", "cold", "cold", "uniform",
                "cold", "uniform", "cold">>]
ASSUME WheelIsWeighted ==
  MCWheel = [mosaic |-> WeightedWheel(DefaultLanes),
             cold   |-> WeightedWheel(ColdLanes)]

\* Every order visits every chunk exactly once, at all sizes up to six and for
\* all digests: no chunk is lost at an odd size, at the uneven last band or on
\* the walk back from a power of two.
Bijective(size, f) == Range(f) = 0 .. size - 1 /\ DOMAIN f = 0 .. size - 1
ASSUME FixedOrdersAreBijections ==
  \A size \in 1 .. 6 :
    /\ Bijective(size, [r \in 0 .. size - 1 |-> EdgeChunk(size, r)])
    /\ Bijective(size, [r \in 0 .. size - 1 |-> CenterChunk(size, r)])
ASSUME AffineOrdersAreBijections ==
  \A size \in 2 .. 6 : \A candidate \in 1 .. size - 1, offset \in 0 .. size - 1 :
    Bijective(size, [r \in 0 .. size - 1 |->
      AffineChunk(size, Multiplier(size, candidate), offset, r)])
ASSUME SpreadOrdersAreBijections ==
  \A bits \in 1 .. 3 : \A mask \in 0 .. 2 ^ bits - 1 :
    LET permutation == SpreadPermutation(bits, mask)
    IN  \A size \in 2 ^ (bits - 1) + 1 .. 2 ^ bits :
          Bijective(size, [r \in 0 .. size - 1 |->
            WalkedChunk(size, 2 ^ bits, permutation, r)])
ASSUME PrivateOrdersAreBijections ==
  \A rounds \in [1 .. 3 -> [0 .. 1 -> 0 .. 1]] :
    LET permutation == FeistelPermutation(1, rounds)
    IN  \A size \in 2 .. 4 :
          Bijective(size, [r \in 0 .. size - 1 |->
            WalkedChunk(size, 4, permutation, r)])
ASSUME ColdOrdersAreBijections ==
  \A size \in 1 .. 6 : \A bands \in 1 .. size :
    \A coldest \in {f \in [1 .. bands -> 0 .. bands - 1] : Range(f) = 0 .. bands - 1} :
      Bijective(size, [r \in 0 .. size - 1 |->
        ColdChunk(size, bands, coldest,
                  [b \in 0 .. bands - 1 |->
                     LET width == Bound(size, bands, b + 1) - Bound(size, bands, b)
                     IN  [n \in 0 .. width - 1 |-> (n + b + 1) % width]], r)])

\* The lanes of each seed: the walks of the program on digests of two seeds.
MCSeeds == {0, 1}
Digest(s) == [n \in 1 .. 3 |-> [right \in 0 .. 3 |-> (right * (n + s) + n * n + s) % 4]]
Ranks == 0 .. Total - 1
MCPrivate ==
  [s \in MCSeeds |-> [r \in Ranks |->
     WalkedChunk(Total, 16, FeistelPermutation(2, Digest(s)), r)]]
MCSpread ==
  [s \in MCSeeds |-> [r \in Ranks |-> WalkedChunk(Total, 8, SpreadPermutation(3, 5 - 3 * s), r)]]
MCCold ==
  [s \in MCSeeds |-> [r \in Ranks |->
     ColdChunk(Total, 4, [i \in 1 .. 4 |-> (3 * i) % 4],
               [b \in 0 .. 3 |-> [n \in 0 .. 1 |-> IF b % 2 = 0 THEN 0 ELSE (n + s) % 2]], r)]]
MCResearch ==
  [s \in MCSeeds |-> [r \in Ranks |-> AffineChunk(Total, 5, 2 + s, r)]]
MCRatios == {1, 3}

=============================================================================
