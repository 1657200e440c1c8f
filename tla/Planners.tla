------------------------------ MODULE Planners ------------------------------
(***************************************************************************)
(* How the coordinator chooses the next chunk: the MOSAIC planner          *)
(* (mosaic.py), the Hypothesis planner (hypothesis.py), the states of both *)
(* that the database keeps, and the calls that change mode and seed        *)
(* (coordinator.py, _allocate_chunk, enable_cold, enable_hypothesis,       *)
(* reseed).                                                                *)
(*                                                                         *)
(* Every call is one transaction: the planner is rebuilt from its stored   *)
(* state, proposes a chunk that is not in the work table, and its new      *)
(* state is stored with the row.  If it cannot propose one, the call       *)
(* raises and the campaign is stuck for ever.                              *)
(*                                                                         *)
(* Abstracted: the digests that key the permutations (constants), model    *)
(* scores and reports.  A Hypothesis cycle drains the ranked cells one     *)
(* after the other, each from its own cursor, and the ranking is fixed for *)
(* a seed; so the cells with their cursors are one order of all chunks     *)
(* with one cursor.  With the bundled data the planner falls back to one   *)
(* uniform order, which is that form already.  Its queue is in that order, *)
(* so it is the set of the ranks queued.                                   *)
(***************************************************************************)
EXTENDS Orders, FiniteSets, Functions

CONSTANTS
  Total,       \* total_chunks
  Seeds,
  Presets,     \* "mosaic" and "cold"
  Wheel,       \* Wheel[p]: the wheel of preset p, a sequence of lanes
  Private,     \* Private[s]: the "uniform" lane, a private permutation
  Spread,      \* Spread[s]: the "spread" lane
  Cold,        \* Cold[s]: the "cold" lane
  Research,    \* Research[s]: the order the Hypothesis cycles draw from
  Ratios,      \* ratios of search to research the lab may be set to
  None         \* SQL NULL

Chunks == 0 .. Total - 1
Permutations == {f \in [Chunks -> Chunks] :
                   \A a, b \in Chunks : f[a] = f[b] => a = b}
AllLanes == {"uniform", "spread", "edges", "center", "cold"}

ASSUME TotalAssumption == Total \in Nat \ {0}
ASSUME OrdersAssumption ==
  \A s \in Seeds : {Private[s], Spread[s], Cold[s], Research[s]} \subseteq Permutations
ASSUME WheelAssumption ==
  /\ Presets = {"mosaic", "cold"}
  /\ \A p \in Presets : Wheel[p] \in Seq(AllLanes) /\ Wheel[p] # <<>>
ASSUME RatiosAssumption == Ratios \subseteq Nat \ {0}

VARIABLES
  seen,     \* the chunks in the work table
  leased,   \* TRUE while some row is leased
  seed,     \* campaign.seed
  mosaic,   \* campaign.planner_state, None in affine mode
  enabled,  \* hypothesis_lab.enabled
  ratio,    \* hypothesis_lab.search_percent / research_percent
  lab       \* hypothesis_lab.state_json

labVars == <<enabled, ratio, lab>>
vars == <<seen, leased, seed, mosaic, labVars>>

LanesOf(p) == Range(Wheel[p])

\* The chunk a lane proposes at a rank, under seed s.
LaneChunk(s, l, rank) ==
  CASE l = "uniform" -> Private[s][rank]
    [] l = "spread"  -> Spread[s][rank]
    [] l = "cold"    -> Cold[s][rank]
    [] l = "edges"   -> EdgeChunk(Total, rank)
    [] l = "center"  -> CenterChunk(Total, rank)

\* MosaicPlanner(...).state(): slot is kept modulo the wheel, the only way it
\* is used.
FreshMosaic(p, s) ==
  [lanes |-> p, seed |-> s, slot |-> 0, cursors |-> [l \in LanesOf(p) |-> 0]]
Mosaics ==
  UNION {[lanes : {p}, seed : Seeds, slot : 0 .. Len(Wheel[p]) - 1,
          cursors : [LanesOf(p) -> 0 .. Total]] : p \in Presets}

\* HypothesisPlanner(...).state()
Labs == [seed : Seeds, ratio : Ratios, queue : SUBSET Chunks, cursor : 0 .. Total]
FreshLab(s, r) == [seed |-> s, ratio |-> r, queue |-> {}, cursor |-> 0]

Init ==
  /\ seen = {} /\ leased = FALSE
  /\ seed \in Seeds
  /\ \/ mosaic = None /\ enabled \in BOOLEAN
     \/ mosaic \in {FreshMosaic(p, seed) : p \in Presets} /\ enabled = FALSE
  /\ ratio \in Ratios
  /\ lab = None

-----------------------------------------------------------------------------
(***************************************************************************)
(* MosaicPlanner.next_unseen, from the stored state m: the k-th turn of    *)
(* its loop looks at the lane of slot m.slot + k and, unless that lane is  *)
(* at its end, at the chunk of its cursor, which it advances.              *)
(***************************************************************************)
LaneAt(m, k) == LET w == Wheel[m.lanes] IN w[1 + ((m.slot + k) % Len(w))]
Visits(m, l, k) == Cardinality({j \in 0 .. k - 1 : LaneAt(m, j) = l})
RankAt(m, k) == m.cursors[LaneAt(m, k)] + Visits(m, LaneAt(m, k), k)
Proposes(m, k) ==
  /\ RankAt(m, k) < Total
  /\ LaneChunk(m.seed, LaneAt(m, k), RankAt(m, k)) \notin seen

Remaining(m) ==
  LET left(l) == IF l \in LanesOf(m.lanes) THEN Total - m.cursors[l] ELSE 0
  IN left("uniform") + left("spread") + left("edges") + left("center") + left("cold")
MaximumSlots(m) == (Remaining(m) + 1) * Len(Wheel[m.lanes])

MosaicTurn(m) ==
  CHOOSE k \in 0 .. MaximumSlots(m) - 1 :
    Proposes(m, k) /\ \A j \in 0 .. k - 1 : ~Proposes(m, j)

Smaller(a, b) == IF a < b THEN a ELSE b
Advanced(m, k) ==
  [m EXCEPT !.slot = (@ + k + 1) % Len(Wheel[m.lanes]),
            !.cursors = [l \in LanesOf(m.lanes) |->
                           Smaller(Total, @[l] + Visits(m, l, k + 1))]]

\* The planner's constructor and restore() accept the stored state.
MosaicRestores == mosaic.seed = seed
MosaicCanPropose ==
  /\ MosaicRestores
  /\ \E k \in 0 .. MaximumSlots(mosaic) - 1 : Proposes(mosaic, k)

AllocateMosaic ==
  /\ ~enabled /\ mosaic # None
  /\ seen # Chunks
  /\ MosaicCanPropose
  /\ LET k == MosaicTurn(mosaic)
     IN /\ seen' = seen \cup
             {LaneChunk(seed, LaneAt(mosaic, k), RankAt(mosaic, k))}
        /\ mosaic' = Advanced(mosaic, k)
  /\ leased' = TRUE
  /\ UNCHANGED <<seed, labVars>>

\* In affine mode the next chunk of that order, which Coordinator.tla shows is
\* not in the table.
AllocateAffine ==
  /\ ~enabled /\ mosaic = None
  /\ \E c \in Chunks \ seen : seen' = seen \cup {c}
  /\ leased' = TRUE
  /\ UNCHANGED <<seed, mosaic, labVars>>

-----------------------------------------------------------------------------
(***************************************************************************)
(* HypothesisPlanner.next_unseen: what is left of the queue is used up     *)
(* first; then a cycle refills it with the next unseen chunks.             *)
(***************************************************************************)
Loaded == IF lab = None THEN FreshLab(seed, ratio) ELSE lab
LabRestores == Loaded.seed = seed /\ Loaded.ratio = ratio

UnseenRanks(state) == {r \in state.queue : Research[state.seed][r] \notin seen}

\* _prepare_cycle: the ranks at or after the cursor whose chunks are unseen, and
\* how far a cycle of ratio slots gets.
OpenRanks(state) ==
  {r \in state.cursor .. Total - 1 : Research[state.seed][r] \notin seen}
CycleEnd(state) ==
  LET open == OpenRanks(state)
  IN IF Cardinality(open) < state.ratio THEN Total
     ELSE CHOOSE e \in state.cursor .. Total :
            /\ e - 1 \in open
            /\ Cardinality({r \in open : r < e}) = state.ratio
Refilled(state) ==
  LET end == CycleEnd(state)
  IN [state EXCEPT !.cursor = end, !.queue = {r \in OpenRanks(state) : r < end}]

\* The state the proposal is taken from, and the proposal.
Prepared ==
  IF UnseenRanks(Loaded) # {} THEN Loaded ELSE Refilled(Loaded)
NextRank(state) ==
  CHOOSE r \in UnseenRanks(state) : \A q \in UnseenRanks(state) : r <= q

\* Mutant: the rest of the queue is dropped with the proposal.
Popped_Dropped(state) == [state EXCEPT !.queue = {}]

\* The state stored after it: the seen chunks in front are popped with it.
Popped(state) == [state EXCEPT !.queue = {r \in @ : r > NextRank(state)}]

LabCanPropose == LabRestores /\ UnseenRanks(Prepared) # {}

AllocateHypothesis ==
  /\ enabled
  /\ seen # Chunks
  /\ LabCanPropose
  /\ seen' = seen \cup {Research[Prepared.seed][NextRank(Prepared)]}
  /\ lab' = Popped(Prepared)
  /\ leased' = TRUE
  /\ UNCHANGED <<seed, mosaic, enabled, ratio>>

\* Every lease has been completed, reclaimed or failed: no row is leased.
Settle ==
  /\ leased
  /\ leased' = FALSE
  /\ UNCHANGED <<seen, seed, mosaic, labVars>>

-----------------------------------------------------------------------------
(***************************************************************************)
(* Changes of mode and seed                                                *)
(***************************************************************************)

\* _carried_cursors: a lane both presets have goes on where it was.
Carried(p) ==
  [l \in LanesOf(p) |-> IF mosaic # None /\ l \in LanesOf(mosaic.lanes)
                        THEN mosaic.cursors[l] ELSE 0]

\* enable_cold: the Hypothesis state stays stored, only disabled.
EnableCold ==
  /\ ~leased
  /\ mosaic' = [FreshMosaic("cold", seed) EXCEPT !.cursors = Carried("cold")]
  /\ enabled' = FALSE
  /\ UNCHANGED <<seen, leased, seed, ratio, lab>>

\* enable_hypothesis: another ratio drops the stored state.
EnableHypothesis(r) ==
  /\ enabled' = TRUE
  /\ ratio' = r
  /\ lab' = IF r = ratio THEN lab ELSE None
  /\ UNCHANGED <<seen, leased, seed, mosaic>>

\* Mutant: the MOSAIC cursors survive the change of the orders they walk.
Reseed_KeepCursors(s) ==
  /\ ~leased
  /\ enabled \/ mosaic # None
  /\ seed' = s
  /\ mosaic' = IF mosaic = None THEN None ELSE [mosaic EXCEPT !.seed = s]
  /\ lab' = None
  /\ UNCHANGED <<seen, leased, enabled, ratio>>

\* reseed: planners start over under the new seed, the table is kept.
Reseed(s) ==
  /\ ~leased
  /\ enabled \/ mosaic # None
  /\ seed' = s
  /\ mosaic' = IF mosaic = None THEN None ELSE FreshMosaic(mosaic.lanes, s)
  /\ lab' = None
  /\ UNCHANGED <<seen, leased, enabled, ratio>>

Allocate == AllocateMosaic \/ AllocateAffine \/ AllocateHypothesis

Next ==
  \/ Allocate \/ Settle
  \/ EnableCold
  \/ \E r \in Ratios : EnableHypothesis(r)
  \/ \E s \in Seeds : Reseed(s)

Spec == Init /\ [][Next]_vars

-----------------------------------------------------------------------------
(***************************************************************************)
(* Properties                                                              *)
(***************************************************************************)

TypeOK ==
  /\ seen \subseteq Chunks
  /\ leased \in BOOLEAN /\ enabled \in BOOLEAN
  /\ seed \in Seeds
  /\ ratio \in Ratios
  /\ mosaic # None => mosaic \in Mosaics
  /\ lab # None => lab \in Labs /\ Cardinality(lab.queue) < lab.ratio

\* A planner never skips a chunk: whatever it has gone past is in the work
\* table, or still in the Hypothesis queue, even after chunks were taken by the
\* other planner, carried cursors, a new ratio or a new seed.
NothingSkipped ==
  /\ mosaic # None =>
       \A l \in LanesOf(mosaic.lanes) : \A r \in 0 .. mosaic.cursors[l] - 1 :
         LaneChunk(mosaic.seed, l, r) \in seen
  /\ lab # None =>
       \A r \in 0 .. lab.cursor - 1 :
         Research[lab.seed][r] \in seen \/ r \in lab.queue

\* A stored planner state is always one the planner accepts, and as long as a
\* chunk is missing from the table the planner in charge proposes one: lease()
\* never raises "cannot produce another unseen chunk" or "state is invalid".
NeverStuck ==
  seen # Chunks => IF enabled THEN LabCanPropose
                   ELSE mosaic # None => MosaicCanPropose

=============================================================================
