----------------------------- MODULE CloudPlan ------------------------------
(***************************************************************************)
(* plan_capacity of cloud.py: which rented GPUs the Elastic Swarm would    *)
(* take from a catalog, under limits on instances, hourly price and the    *)
(* spend of the day, next to what already runs and was already spent.      *)
(*                                                                         *)
(* The loop over the sorted offers is a step per offer.  Prices, rates and *)
(* hours are whole numbers of some unit; a price per quadrillion keys is a *)
(* fraction, compared by its cross product.  Duplicate offers or           *)
(* benchmarks and negative inputs are refused by the code before the loop. *)
(***************************************************************************)
EXTENDS Integers, Sequences, FiniteSets, Functions

CONSTANTS
  Catalog,     \* the offers a provider may list
  Rates,       \* the benchmarks: model -> rate, validated, spread
  Policies,    \* the limits an operator may set
  Loads,       \* what runs, costs and was spent when the plan is made
  MaxOffers,   \* bound on the length of a catalog
  Unknown      \* the reliability of an offer that lists none

Unlimited == {"available", "verified", "interruptible"}

ASSUME CatalogAssumption ==
  \A o \in Catalog :
    /\ o.gpus \in Nat \ {0} /\ o.hourly \in Nat \ {0}
    /\ o.reliability \in Nat \cup {Unknown}
    /\ \A flag \in Unlimited : o[flag] \in BOOLEAN
ASSUME RatesAssumption ==
  \A model \in DOMAIN Rates :
    /\ Rates[model].rate \in Nat \ {0}
    /\ Rates[model].validated \in BOOLEAN /\ Rates[model].spread \in Nat
ASSUME PoliciesAssumption ==
  \A p \in Policies :
    /\ \A limit \in {"instances", "offer", "total", "daily", "cost"} : p[limit] \in Nat \ {0}
    /\ p.reliability \in Nat /\ p.spread \in Nat
    /\ \A flag \in {"verified", "interruptible", "unknown"} : p[flag] \in BOOLEAN
ASSUME LoadsAssumption ==
  \A l \in Loads : \A amount \in {"instances", "hourly", "spent", "hours"} : l[amount] \in Nat
ASSUME BoundsAssumption == MaxOffers \in Nat

VARIABLES
  offers,      \* the catalog, in the order the provider lists it
  policy, load,
  selected,    \* positions of the offers taken
  hourly,      \* added_hourly
  reason       \* the decision on each position

planVars == <<offers, policy, load, selected, hourly, reason>>

Reasons == {"undecided", "rejected", "selected", "instances", "hourly", "daily"}

Positions == DOMAIN offers

Catalogs == {s \in UNION {[1 .. n -> Catalog] : n \in 0 .. MaxOffers} : IsInjective(s)}

-----------------------------------------------------------------------------
(***************************************************************************)
(* One offer                                                               *)
(***************************************************************************)

Benchmarked(o) == o.model \in DOMAIN Rates

\* Mutant: an offer of several GPUs is priced like one.
Rate_OneGpu(o) == Rates[o.model].rate

\* Keys per unit of time, of all GPUs of the offer.
Rate(o) == Rates[o.model].rate * o.gpus

\* _static_rejection, and the limit on the cost of a key.
Acceptable(o, limits) ==
  /\ o.available
  /\ limits.verified => o.verified
  /\ o.interruptible => limits.interruptible
  /\ o.hourly <= limits.offer
  /\ IF o.reliability = Unknown THEN limits.unknown ELSE o.reliability >= limits.reliability
  /\ Benchmarked(o)
  /\ Rates[o.model].validated
  /\ Rates[o.model].spread <= limits.spread
  /\ o.hourly <= limits.cost * Rate(o)

Reliability(o) == IF o.reliability = Unknown THEN 0 ELSE o.reliability

\* The sort key: cost of a key, then reliability, then price; the sort is
\* stable.
Before(i, j) ==
  LET a == offers[i]
      b == offers[j]
      costA == a.hourly * Rate(b)
      costB == b.hourly * Rate(a)
  IN  \/ costA < costB
      \/ /\ costA = costB
         /\ \/ Reliability(a) > Reliability(b)
            \/ /\ Reliability(a) = Reliability(b)
               /\ \/ a.hourly < b.hourly
                  \/ a.hourly = b.hourly /\ i < j

-----------------------------------------------------------------------------
(***************************************************************************)
(* The loop                                                                *)
(***************************************************************************)

PlanInit ==
  /\ offers \in Catalogs
  /\ policy \in Policies
  /\ load \in Loads
  /\ selected = {}
  /\ hourly = 0
  /\ reason = [i \in Positions |-> IF Acceptable(offers[i], policy) THEN "undecided"
                                   ELSE "rejected"]

Undecided == {i \in Positions : reason[i] = "undecided"}
Done == Undecided = {}

Slots == IF policy.instances > load.instances THEN policy.instances - load.instances
                                              ELSE 0

\* Mutant: what was spent before is not counted.
Verdict_TodayOnly(price) ==
  LET candidate == load.hourly + hourly + price
  IN  IF Cardinality(selected) >= Slots THEN "instances"
      ELSE IF candidate > policy.total THEN "hourly"
      ELSE IF candidate * load.hours > policy.daily THEN "daily"
      ELSE "selected"

\* The limits are looked at in this order, and the first that is broken is the
\* reason.
Verdict(price) ==
  LET candidate == load.hourly + hourly + price
  IN  IF Cardinality(selected) >= Slots THEN "instances"
      ELSE IF candidate > policy.total THEN "hourly"
      ELSE IF load.spent + candidate * load.hours > policy.daily THEN "daily"
      ELSE "selected"

\* Mutant: the first offer refused for a limit ends the loop.
Consider_Stop(i) ==
  /\ i \in Undecided
  /\ \A j \in Undecided \ {i} : Before(i, j)
  /\ LET verdict == Verdict(offers[i].hourly)
     IN  IF verdict = "selected"
         THEN /\ reason' = [reason EXCEPT ![i] = verdict]
              /\ selected' = selected \cup {i}
              /\ hourly' = hourly + offers[i].hourly
         ELSE /\ reason' = [j \in Positions |-> IF j \in Undecided THEN verdict ELSE reason[j]]
              /\ UNCHANGED <<selected, hourly>>
  /\ UNCHANGED <<offers, policy, load>>

Consider(i) ==
  /\ i \in Undecided
  /\ \A j \in Undecided \ {i} : Before(i, j)
  /\ reason' = [reason EXCEPT ![i] = Verdict(offers[i].hourly)]
  /\ IF Verdict(offers[i].hourly) = "selected"
     THEN selected' = selected \cup {i} /\ hourly' = hourly + offers[i].hourly
     ELSE UNCHANGED <<selected, hourly>>
  /\ UNCHANGED <<offers, policy, load>>

PlanNext == \E i \in Positions : Consider(i)

PlanSpec == PlanInit /\ [][PlanNext]_planVars

-----------------------------------------------------------------------------
(***************************************************************************)
(* Properties                                                              *)
(***************************************************************************)

\* The price of all instances that would run with these offers taken.
Price(taken) ==
  LET sum[n \in 0 .. Len(offers)] ==
        IF n = 0 THEN 0
        ELSE sum[n - 1] + (IF n \in taken THEN offers[n].hourly ELSE 0)
  IN  load.hourly + sum[Len(offers)]

\* These offers may be taken together, next to what runs.
Affordable(taken) ==
  /\ Cardinality(taken) + load.instances <= policy.instances
  /\ Price(taken) <= policy.total
  /\ load.spent + Price(taken) * load.hours <= policy.daily

\* Every offer taken leaves all three limits kept, by all that would run and
\* all that will have been spent by the end of the day.
LimitsKept == selected # {} => Affordable(selected)

\* Offers are refused one after the other, and nothing is given back: in the
\* end none of those refused for a limit would fit.
NothingAffordableLeft ==
  Done => \A i \in Positions \ selected :
            Acceptable(offers[i], policy) => ~Affordable(selected \cup {i})

\* An offer yields to another only if that one has keys at least as cheap: next
\* to the better offers taken, a refused one would not have fitted.  The
\* reference here is the price of a key, in dollars over all GPUs.
CheaperKeys(i, j) ==
  LET KeysPer(o) == o.gpus * Rates[o.model].rate
  IN  offers[i].hourly * KeysPer(offers[j]) <= offers[j].hourly * KeysPer(offers[i])

CheapestFirst ==
  Done => \A i \in Positions \ selected :
            Acceptable(offers[i], policy) =>
              ~Affordable({j \in selected : CheaperKeys(j, i)} \cup {i})

=============================================================================
