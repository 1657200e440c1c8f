----------------------------- MODULE MCCloudPlan ----------------------------
(***************************************************************************)
(* Offers and limits that make every rule of CloudPlan decide somewhere.   *)
(***************************************************************************)
EXTENDS CloudPlan

Offer(id, model, gpus, price, reliability) ==
  [id |-> id, model |-> model, gpus |-> gpus, hourly |-> price,
   reliability |-> reliability,
   available |-> TRUE, verified |-> TRUE, interruptible |-> FALSE]

\* One fast and one slow model, one without a benchmark; several GPUs in one
\* offer, the same value at different prices, one that fails each flag.
MCCatalog ==
  { Offer("fast", "A", 1, 3, 9), Offer("pair", "A", 2, 5, 9),
    Offer("slow", "B", 1, 2, 9), Offer("bare", "B", 1, 2, Unknown),
    [Offer("spot", "A", 1, 2, 9) EXCEPT !.interruptible = TRUE],
    [Offer("plain", "A", 1, 1, 9) EXCEPT !.verified = FALSE],
    [Offer("gone", "A", 1, 1, 9) EXCEPT !.available = FALSE],
    Offer("new", "C", 1, 1, 9) }

MCRates == [model \in {"A", "B"} |->
              [rate |-> IF model = "A" THEN 2 ELSE 1, validated |-> TRUE, spread |-> 0]]

Limits(instances, total, daily) ==
  [instances |-> instances, total |-> total, daily |-> daily, offer |-> 5, cost |-> 3,
   reliability |-> 8, spread |-> 1, interruptible |-> TRUE, verified |-> TRUE,
   unknown |-> TRUE]

\* Each of the three limits is the one that binds in some of them.
MCPolicies ==
  { Limits(4, 8, 100), Limits(3, 100, 100), Limits(4, 100, 16),
    [Limits(4, 9, 18) EXCEPT !.unknown = FALSE, !.interruptible = FALSE,
                             !.verified = FALSE, !.offer = 3],
    [Limits(4, 9, 18) EXCEPT !.cost = 1] }

Load(instances, price, spent, hours) ==
  [instances |-> instances, hourly |-> price, spent |-> spent, hours |-> hours]

\* Nothing runs; something runs and was spent; more runs than is allowed.
MCLoads == { Load(0, 0, 0, 2), Load(1, 2, 3, 2), Load(5, 20, 0, 2), Load(1, 1, 12, 0) }

=============================================================================
