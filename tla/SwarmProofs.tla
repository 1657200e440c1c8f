---------------------------- MODULE SwarmProofs -----------------------------
(***************************************************************************)
(* The two sides of the Elastic Swarm, for every number of workers, chunks,*)
(* tokens and faults, and every catalog of offers.                         *)
(*                                                                         *)
(* The remote workers never miss the key.  A "complete" may be credited    *)
(* long after its scan, out of a request given up on: the invariant carries*)
(* what the scan showed from the outcome in a worker's memory to the       *)
(* request on its way, and from there to the ledger.                       *)
(*                                                                         *)
(* The plan of the capacity keeps its limits and leaves nothing that fits. *)
(* The invariant says of every offer refused that no set with the better   *)
(* ones and it is affordable, whatever the loop takes after it.            *)
(***************************************************************************)
EXTENDS RemoteWorkers, CloudPlan, OrdersProofs

-----------------------------------------------------------------------------
(***************************************************************************)
(* The remote workers: types                                               *)
(***************************************************************************)

ServerOK ==
  /\ holder \in [Chunks -> Tokens \cup {None}]
  /\ covered \subseteq Chunks
  /\ late \subseteq {c \in Chunks : holder[c] # None}
  /\ verdict \in {"running", "found", "exhausted"}

WorkersOK ==
  /\ pc \in [Workers -> {"off", "leasing", "scanning", "reporting", "idle", "done"}]
  /\ lease \in [Workers -> Leases \cup {None}]
  /\ \A w \in Workers : pc[w] \in {"scanning", "reporting"} <=> lease[w] # None
  /\ outcome \in [Workers -> Outcomes]
  /\ beating \in [Workers -> BOOLEAN]

\* The three parts of the type invariant, each disturbed by other actions.
LEMMA TypeParts ==
  TypeOK <=> /\ target \in Targets /\ ServerOK /\ WorkersOK
             /\ ghosts \subseteq Requests /\ faults \in 0 .. MaxFaults
  BY DEF TypeOK, ServerOK, WorkersOK

-----------------------------------------------------------------------------
(***************************************************************************)
(* The coordinator's side                                                  *)
(***************************************************************************)

LEMMA ReclaimTypes == ServerOK /\ Reclaim => ServerOK'
  BY DEF ServerOK, Reclaim, Revoke, Revoked

LEMMA GrantTypes ==
  ASSUME ServerOK, NEW l \in Leases, GrantTo(l)
  PROVE  ServerOK'
  BY DEF ServerOK, GrantTo, Grant, Revoked, Leases

LEMMA RejectTypes ==
  ASSUME ServerOK, NEW l \in Leases, Reject(l)
  PROVE  ServerOK'
<1>1. CASE Owned(l)
  BY <1>1 DEF ServerOK, Reject, Revoke, Revoked, Leases
<1>2. CASE ~Owned(l)
  BY <1>2 DEF ServerOK, Reject, serverVars, ledgerVars
<1>3. QED
  BY <1>1, <1>2

LEMMA AcceptTypes ==
  ASSUME ServerOK, NEW l \in Leases, NEW result \in Outcomes, Accept(l, result)
  PROVE  ServerOK'
<1>1. l.chunk \in Chunks
  BY DEF Leases
<1>2. CASE result = "complete"
  BY <1>1, <1>2 DEF ServerOK, Accept, Report
<1>3. CASE result = "found"
  BY <1>1, <1>3 DEF ServerOK, Accept, Find
<1>4. CASE result = "error"
  BY <1>1, <1>4 DEF ServerOK, Accept, Revoke, Revoked
<1>5. QED
  BY <1>2, <1>3, <1>4 DEF Outcomes

-----------------------------------------------------------------------------
(***************************************************************************)
(* Type correctness                                                        *)
(***************************************************************************)

LEMMA ExitTypes ==
  ASSUME WorkersOK, NEW w \in Workers, Exit(w)
  PROVE  WorkersOK'
  BY DEF WorkersOK, Exit

LEMMA FaultTypes == faults \in 0 .. MaxFaults /\ Fault => faults' \in 0 .. MaxFaults
  BY FaultsAssumption DEF Fault

LEMMA FinishTypes ==
  ASSUME WorkersOK, NEW w \in Workers, NEW result \in Outcomes, Finish(w, result)
  PROVE  WorkersOK'
<1>1. CASE beating[w]
  BY <1>1 DEF WorkersOK, Finish
<1>2. CASE ~beating[w]
  BY <1>2, ExitTypes DEF Finish
<1>3. QED
  BY <1>1, <1>2

LEMMA DeliverTypes ==
  ASSUME ServerOK, WorkersOK, NEW w \in Workers, Deliver(w)
  PROVE  ServerOK' /\ WorkersOK'
<1>1. lease[w] \in Leases /\ outcome[w] \in Outcomes
  BY DEF WorkersOK, Deliver
<1>2. CASE Accept(lease[w], outcome[w]) /\ ~Exit(w)
  <2>1. ServerOK'
    BY <1>1, <1>2, AcceptTypes
  <2>2. WorkersOK'
    BY <1>2 DEF WorkersOK, Deliver
  <2>3. QED
    BY <2>1, <2>2
<1>3. CASE Accept(lease[w], outcome[w]) /\ Exit(w)
  BY <1>1, <1>3, AcceptTypes, ExitTypes
<1>4. CASE Reject(lease[w]) /\ Exit(w)
  BY <1>1, <1>4, RejectTypes, ExitTypes
<1>5. QED
  BY <1>2, <1>3, <1>4 DEF Deliver

\* A request given up on names the lease its worker still had.
LEMMA GiveUpTypes ==
  ASSUME WorkersOK, ghosts \subseteq Requests, NEW w \in Workers, GiveUp(w)
  PROVE  ghosts' \subseteq Requests
<1>1. CASE pc[w] = "leasing"
  BY <1>1 DEF GiveUp, Requests
<1>2. CASE pc[w] = "reporting"
  <2>1. lease[w] \in Leases /\ outcome[w] \in Outcomes
    BY <1>2 DEF WorkersOK
  <2>2. [op |-> outcome[w], lease |-> lease[w]] \in Requests
    BY <2>1 DEF Requests
  <2>3. QED
    BY <1>2, <2>2 DEF GiveUp
<1>3. CASE pc[w] = "idle"
  BY <1>3 DEF GiveUp
<1>4. QED
  BY <1>1, <1>2, <1>3 DEF GiveUp

LEMMA GhostShape ==
  ASSUME NEW r \in Requests, r.op # "lease"
  PROVE  r.lease \in Leases /\ r.op \in Outcomes
  BY DEF Requests

LEMMA GhostTypes ==
  ASSUME ServerOK, ghosts \subseteq Requests, NEW r \in ghosts, ExecuteGhost(r)
  PROVE  ServerOK'
<1>1. CASE r.op = "lease"
  BY <1>1, GrantTypes DEF ExecuteGhost
<1>2. CASE r.op # "lease"
  <2>1. r.lease \in Leases /\ r.op \in Outcomes
    BY <1>2, GhostShape
  <2>2. QED
    BY <1>2, <2>1, AcceptTypes, RejectTypes DEF ExecuteGhost
<1>3. QED
  BY <1>1, <1>2

LEMMA TypeStep == TypeOK /\ [Next]_vars => TypeOK'
<1> SUFFICES ASSUME TypeOK, [Next]_vars PROVE TypeOK'
  OBVIOUS
<1>a. /\ target \in Targets /\ ServerOK /\ WorkersOK
      /\ ghosts \subseteq Requests /\ faults \in 0 .. MaxFaults
  BY TypeParts
<1>b. SUFFICES /\ target' \in Targets /\ ServerOK' /\ WorkersOK'
               /\ ghosts' \subseteq Requests /\ faults' \in 0 .. MaxFaults
  BY DEF TypeOK, ServerOK, WorkersOK
<1> DEFINE Server == UNCHANGED serverVars
<1>s. Server => ServerOK'
  BY <1>a DEF ServerOK, serverVars, ledgerVars
<1>w. UNCHANGED workerVars => WorkersOK'
  BY <1>a DEF WorkersOK, workerVars
<1>t. target' \in Targets
  BY <1>a DEF Next, vars
<1>1. ASSUME NEW w \in Workers, Start(w) PROVE <1>b!1
  <2>1. WorkersOK'
    BY <1>a, <1>1 DEF WorkersOK, Start
  <2>2. QED
    BY <1>a, <1>s, <1>t, <1>1, <2>1 DEF Start
<1>2. ASSUME NEW w \in Workers, Obtain(w) PROVE <1>b!1
  <2>1. PICK l \in Leases : GrantTo(l) /\ lease' = [lease EXCEPT ![w] = l]
    BY <1>2 DEF Obtain
  <2>2. WorkersOK'
    BY <1>a, <1>2, <2>1, NoneAssumption DEF WorkersOK, Obtain
  <2>3. ServerOK'
    BY <1>a, <2>1, GrantTypes
  <2>4. QED
    BY <1>a, <1>t, <1>2, <2>2, <2>3 DEF Obtain
<1>3. ASSUME NEW w \in Workers, ObtainNothing(w) \/ AskStatus(w) PROVE <1>b!1
  <2>1. WorkersOK'
    BY <1>a, <1>3 DEF WorkersOK, ObtainNothing, AskStatus
  <2>2. ServerOK'
    BY <1>a, <1>3, ReclaimTypes DEF ObtainNothing, AskStatus
  <2>3. QED
    BY <1>a, <1>t, <1>3, <2>1, <2>2 DEF ObtainNothing, AskStatus
<1>4. ASSUME NEW w \in Workers, HeartbeatRejected(w) PROVE <1>b!1
  <2>1. lease[w] \in Leases
    BY <1>a, <1>4 DEF WorkersOK, HeartbeatRejected
  <2>2. ServerOK'
    BY <1>a, <1>4, <2>1, RejectTypes DEF HeartbeatRejected
  <2>3. WorkersOK'
    BY <1>a, <1>4 DEF WorkersOK, HeartbeatRejected
  <2>4. QED
    BY <1>a, <1>t, <1>4, <2>2, <2>3 DEF HeartbeatRejected
<1>5. ASSUME NEW w \in Workers, Scan(w) PROVE <1>b!1
  <2>1. Honest(lease[w].chunk) \in Outcomes
    BY DEF Honest, Outcomes
  <2>2. QED
    BY <1>a, <1>s, <1>t, <1>5, <2>1, FinishTypes DEF Scan, Finish
<1>6. ASSUME NEW w \in Workers, Deliver(w) PROVE <1>b!1
  BY <1>a, <1>t, <1>6, DeliverTypes DEF Deliver
<1>7. ASSUME NEW w \in Workers, GiveUp(w) PROVE <1>b!1
  BY <1>a, <1>s, <1>t, <1>7, GiveUpTypes, ExitTypes, FaultTypes DEF GiveUp
<1>8. ASSUME NEW w \in Workers, HeartbeatFails(w) PROVE <1>b!1
  <2>1. WorkersOK'
    BY <1>a, <1>8 DEF WorkersOK, HeartbeatFails
  <2>2. QED
    BY <1>a, <1>s, <1>t, <1>8, <2>1, FaultTypes DEF HeartbeatFails
<1>9. ASSUME NEW w \in Workers, EngineFails(w) PROVE <1>b!1
  <2>1. "error" \in Outcomes
    BY DEF Outcomes
  <2>2. QED
    BY <1>a, <1>s, <1>t, <1>9, <2>1, FinishTypes, FaultTypes DEF EngineFails, Finish
<1>10. ASSUME NEW w \in Workers, Crash(w) PROVE <1>b!1
  BY <1>a, <1>s, <1>t, <1>10, ExitTypes, FaultTypes DEF Crash
<1>11. ASSUME NEW r \in ghosts, ExecuteGhost(r) PROVE <1>b!1
  BY <1>a, <1>w, <1>t, <1>11, GhostTypes DEF ExecuteGhost
<1>12. ASSUME NEW c \in Chunks, Lapse(c) PROVE <1>b!1
  <2>1. ServerOK'
    BY <1>a, <1>12 DEF ServerOK, Lapse, ledgerVars
  <2>2. QED
    BY <1>a, <1>w, <1>t, <1>12, <2>1, FaultTypes DEF Lapse
<1>13. CASE UNCHANGED vars
  BY <1>a, <1>s, <1>w, <1>13 DEF vars, progress
<1>14. QED
  BY <1>1, <1>2, <1>3, <1>4, <1>5, <1>6, <1>7, <1>8, <1>9, <1>10, <1>11, <1>12, <1>13
     DEF Next, Step, Work

\* The variables of the coordinator, the workers and the requests on their way
\* keep to their sets, whatever is lost, late or executed twice.
THEOREM TypeCorrect == Spec => []TypeOK
<1>1. Init => TypeOK
  BY FaultsAssumption DEF Init, LedgerInit, Free, TypeOK, Outcomes
<1>2. QED
  BY <1>1, TypeStep, PTL DEF Spec

-----------------------------------------------------------------------------
(***************************************************************************)
(* The key is never missed                                                 *)
(***************************************************************************)

\* "complete" is said only of a chunk without the key: by a worker ...
ReportsTrue ==
  \A w \in Workers :
    pc[w] = "reporting" /\ outcome[w] = "complete" => lease[w].chunk # target

\* ... and by a request it gave up on.
GhostsTrue == \A r \in ghosts : r.op = "complete" => r.lease.chunk # target

IInv == TypeOK /\ TargetNeverMissed /\ ReportsTrue /\ GhostsTrue

\* Without the target's report the ledger neither covers it nor is exhausted.
LEMMA AcceptMisses ==
  ASSUME TypeOK, TargetNeverMissed, target' = target,
         NEW l \in Leases, NEW result \in Outcomes, Accept(l, result),
         result = "complete" => l.chunk # target
  PROVE  TargetNeverMissed'
<1>1. target # None => target \in Chunks
  BY TargetsAssumption DEF TypeOK
<1>2. CASE result = "complete"
  BY <1>1, <1>2 DEF TargetNeverMissed, Accept, Report
<1>3. CASE result = "found"
  BY <1>3 DEF TargetNeverMissed, Accept, Find
<1>4. CASE result = "error"
  BY <1>4 DEF TargetNeverMissed, Accept, Revoke
<1>5. QED
  BY <1>2, <1>3, <1>4 DEF Outcomes

\* No other request credits a chunk or gives a verdict.
LEMMA OthersMissNothing ==
  ASSUME TargetNeverMissed, target' = target,
         \/ UNCHANGED serverVars
         \/ Reclaim
         \/ \E l \in Leases : GrantTo(l) \/ Reject(l)
  PROVE  TargetNeverMissed'
<1>1. UNCHANGED <<covered, verdict>>
  BY DEF serverVars, ledgerVars, Reclaim, Revoke, GrantTo, Grant, Reject
<1>2. QED
  BY <1>1 DEF TargetNeverMissed

\* A worker that leaves for "off" reports nothing.
LEMMA ExitTrue ==
  ASSUME TypeOK, ReportsTrue, target' = target, NEW w \in Workers, Exit(w)
  PROVE  ReportsTrue'
  BY DEF TypeOK, ReportsTrue, Exit

LEMMA FinishTrue ==
  ASSUME TypeOK, ReportsTrue, target' = target, NEW w \in Workers,
         NEW result \in Outcomes, Finish(w, result),
         result = "complete" => lease[w].chunk # target
  PROVE  ReportsTrue'
<1>1. CASE beating[w]
  BY <1>1 DEF TypeOK, ReportsTrue, Finish
<1>2. CASE ~beating[w]
  BY <1>2, ExitTrue DEF Finish
<1>3. QED
  BY <1>1, <1>2

LEMMA DeliverTrue ==
  ASSUME TypeOK, TargetNeverMissed, ReportsTrue, target' = target,
         NEW w \in Workers, Deliver(w)
  PROVE  TargetNeverMissed' /\ ReportsTrue'
<1>1. lease[w] \in Leases /\ outcome[w] \in Outcomes
  BY DEF TypeOK, Deliver
<1>2. outcome[w] = "complete" => lease[w].chunk # target
  BY DEF ReportsTrue, Deliver
<1>3. TargetNeverMissed'
  BY <1>1, <1>2, AcceptMisses, OthersMissNothing DEF Deliver
<1>4. ReportsTrue'
  BY DEF TypeOK, ReportsTrue, Deliver, Exit
<1>5. QED
  BY <1>3, <1>4

LEMMA GhostMisses ==
  ASSUME TypeOK, TargetNeverMissed, GhostsTrue, target' = target,
         NEW r \in ghosts, ExecuteGhost(r)
  PROVE  TargetNeverMissed'
<1>1. CASE r.op = "lease"
  BY <1>1, OthersMissNothing DEF ExecuteGhost
<1>2. CASE r.op # "lease"
  <2>1. r.lease \in Leases /\ r.op \in Outcomes
    BY <1>2, GhostShape DEF TypeOK
  <2>2. CASE Accept(r.lease, r.op)
    BY <2>1, <2>2, AcceptMisses DEF GhostsTrue
  <2>3. CASE Reject(r.lease)
    BY <2>1, <2>3, OthersMissNothing
  <2>4. QED
    BY <1>2, <2>2, <2>3 DEF ExecuteGhost
<1>3. QED
  BY <1>1, <1>2

LEMMA SearchStep == IInv /\ [Next]_vars => (TargetNeverMissed /\ ReportsTrue /\ GhostsTrue)'
<1> SUFFICES ASSUME IInv, [Next]_vars
             PROVE  TargetNeverMissed' /\ ReportsTrue' /\ GhostsTrue'
  OBVIOUS
<1>a. TypeOK /\ TargetNeverMissed /\ ReportsTrue /\ GhostsTrue /\ target' = target
  BY DEF IInv, Next, vars
<1> DEFINE Goal == TargetNeverMissed' /\ ReportsTrue' /\ GhostsTrue'
<1>s. UNCHANGED serverVars => TargetNeverMissed'
  BY <1>a, OthersMissNothing
<1>w. UNCHANGED workerVars => ReportsTrue'
  BY <1>a DEF ReportsTrue, workerVars
<1>g. UNCHANGED ghosts => GhostsTrue'
  BY <1>a DEF GhostsTrue
<1>1. ASSUME NEW w \in Workers, Start(w) PROVE Goal
  <2>1. ReportsTrue'
    BY <1>a, <1>1 DEF TypeOK, ReportsTrue, Start
  <2>2. QED
    BY <1>s, <1>g, <1>1, <2>1 DEF Start
<1>2. ASSUME NEW w \in Workers, Obtain(w) PROVE Goal
  <2>1. ReportsTrue'
    BY <1>a, <1>2 DEF TypeOK, ReportsTrue, Obtain
  <2>2. TargetNeverMissed'
    BY <1>a, <1>2, OthersMissNothing DEF Obtain
  <2>3. QED
    BY <1>g, <1>2, <2>1, <2>2 DEF Obtain
<1>3. ASSUME NEW w \in Workers, ObtainNothing(w) \/ AskStatus(w) PROVE Goal
  <2>1. ReportsTrue'
    BY <1>a, <1>3 DEF TypeOK, ReportsTrue, ObtainNothing, AskStatus
  <2>2. TargetNeverMissed'
    BY <1>a, <1>3, OthersMissNothing DEF ObtainNothing, AskStatus
  <2>3. QED
    BY <1>g, <1>3, <2>1, <2>2 DEF ObtainNothing, AskStatus
<1>4. ASSUME NEW w \in Workers, HeartbeatRejected(w) PROVE Goal
  <2>1. lease[w] \in Leases
    BY <1>a, <1>4 DEF TypeOK, HeartbeatRejected
  <2>2. TargetNeverMissed'
    BY <1>a, <1>4, <2>1, OthersMissNothing DEF HeartbeatRejected
  <2>3. QED
    BY <1>a, <1>g, <1>4, <2>2 DEF HeartbeatRejected, ReportsTrue
<1>5. ASSUME NEW w \in Workers, Scan(w) PROVE Goal
  <2>1. /\ Honest(lease[w].chunk) \in Outcomes
        /\ Honest(lease[w].chunk) = "complete" => lease[w].chunk # target
    BY DEF Honest, Outcomes
  <2>2. QED
    BY <1>a, <1>s, <1>g, <1>5, <2>1, FinishTrue DEF Scan, Finish
<1>6. ASSUME NEW w \in Workers, Deliver(w) PROVE Goal
  BY <1>a, <1>g, <1>6, DeliverTrue DEF Deliver
<1>7. ASSUME NEW w \in Workers, GiveUp(w) PROVE Goal
  <2>1. GhostsTrue'
    BY <1>a, <1>7 DEF GhostsTrue, ReportsTrue, GiveUp
  <2>2. QED
    BY <1>a, <1>s, <1>7, <2>1, ExitTrue DEF GiveUp
<1>8. ASSUME NEW w \in Workers, HeartbeatFails(w) PROVE Goal
  BY <1>a, <1>s, <1>g, <1>8 DEF HeartbeatFails, ReportsTrue
<1>9. ASSUME NEW w \in Workers, EngineFails(w) PROVE Goal
  <2>1. "error" \in Outcomes
    BY DEF Outcomes
  <2>2. QED
    BY <1>a, <1>s, <1>g, <1>9, <2>1, FinishTrue DEF EngineFails, Finish
<1>10. ASSUME NEW w \in Workers, Crash(w) PROVE Goal
  BY <1>a, <1>s, <1>g, <1>10, ExitTrue DEF Crash
<1>11. ASSUME NEW r \in ghosts, ExecuteGhost(r) PROVE Goal
  <2>1. GhostsTrue'
    BY <1>a, <1>11 DEF GhostsTrue, ExecuteGhost
  <2>2. QED
    BY <1>a, <1>w, <1>11, <2>1, GhostMisses DEF ExecuteGhost
<1>12. ASSUME NEW c \in Chunks, Lapse(c) PROVE Goal
  <2>1. TargetNeverMissed'
    BY <1>a, <1>12 DEF TargetNeverMissed, Lapse, ledgerVars
  <2>2. QED
    BY <1>w, <1>g, <1>12, <2>1 DEF Lapse
<1>13. CASE UNCHANGED vars
  BY <1>s, <1>w, <1>g, <1>13 DEF vars, progress
<1>14. QED
  BY <1>1, <1>2, <1>3, <1>4, <1>5, <1>6, <1>7, <1>8, <1>9, <1>10, <1>11, <1>12, <1>13
     DEF Next, Step, Work

\* The chunk of the key is never credited as searched and the campaign never
\* ends empty-handed, whatever results are discarded, delayed or executed long
\* after their worker gave up on them.
THEOREM TargetNeverMissedCorrect == Spec => []TargetNeverMissed
<1>1. Init => TargetNeverMissed /\ ReportsTrue /\ GhostsTrue
  BY TargetsAssumption DEF Init, LedgerInit, TargetNeverMissed, ReportsTrue, GhostsTrue
<1>2. TypeOK /\ (TargetNeverMissed /\ ReportsTrue /\ GhostsTrue) /\ [Next]_vars
      => (TargetNeverMissed /\ ReportsTrue /\ GhostsTrue)'
  BY SearchStep DEF IInv
<1>3. Spec => [](TargetNeverMissed /\ ReportsTrue /\ GhostsTrue)
  BY <1>1, <1>2, TypeCorrect, PTL DEF Spec
<1>4. QED
  BY <1>3, PTL

-----------------------------------------------------------------------------
(***************************************************************************)
(* The price of a set of offers                                            *)
(***************************************************************************)

Listed == offers \in UNION {[1 .. n -> Catalog] : n \in 0 .. MaxOffers}

\* The price of the offers taken up to a position, as Price adds them.
Cost(taken, i) == IF i \in taken THEN offers[i].hourly ELSE 0
Adds(sum, taken) ==
  /\ sum \in [0 .. Len(offers) -> Nat] /\ sum[0] = 0
  /\ \A i \in 1 .. Len(offers) : sum[i] = sum[i - 1] + Cost(taken, i)

LEMMA ListedFacts ==
  ASSUME Listed
  PROVE  /\ Len(offers) \in Nat /\ Positions = 1 .. Len(offers) /\ IsFiniteSet(Positions)
         /\ \A i \in Positions : offers[i] \in Catalog /\ offers[i].hourly \in Nat \ {0}
<1>1. PICK n \in 0 .. MaxOffers : offers \in [1 .. n -> Catalog]
  BY DEF Listed
<1>2. n \in Nat
  BY BoundsAssumption
<1>3. offers \in Seq(Catalog) /\ Len(offers) = n
  BY <1>1, <1>2
<1>4. Positions = 1 .. n
  BY <1>1 DEF Positions
<1>5. IsFiniteSet(Positions)
  BY <1>2, <1>4, FS_Interval
<1>6. QED
  BY <1>1, <1>2, <1>3, <1>4, <1>5, CatalogAssumption

LEMMA PriceAdds ==
  ASSUME Listed, NEW taken
  PROVE  \E sum : Adds(sum, taken) /\ Price(taken) = load.hourly + sum[Len(offers)]
<1>. DEFINE n == Len(offers)
            Is(f) == f = [m \in 0 .. n |->
                            IF m = 0 THEN 0
                            ELSE f[m - 1] + (IF m \in taken THEN offers[m].hourly ELSE 0)]
            sum == CHOOSE f : Is(f)
            step == [x \in (1 .. n) \X Nat |-> x[2] + Cost(taken, x[1])]
<1>1. n \in Nat /\ \A i \in 1 .. n : Cost(taken, i) \in Nat
  BY ListedFacts DEF Cost
<1>2. Price(taken) = load.hourly + sum[n]
  BY DEF Price
<1>. HIDE DEF n
<1>3. IsStep(step, n, Nat) /\ \A i \in 1 .. n : \A v \in Nat : step[<<i, v>>] = v + Cost(taken, i)
  BY <1>1 DEF IsStep
<1>. HIDE DEF step
<1>4. PICK f : Follows(f, n, Nat, 0, step)
  BY <1>1, <1>3, Recursion
<1>5. Is(f)
  <2>1. f \in [0 .. n -> Nat] /\ f[0] = 0
    BY <1>4 DEF Follows
  <2>2. ASSUME NEW m \in 0 .. n, m # 0 PROVE f[m] = f[m - 1] + Cost(taken, m)
    <3>1. m \in 1 .. n /\ m - 1 \in 0 .. n
      BY <1>1, <2>2
    <3>2. f[m] = step[<<m, f[m - 1]>>] /\ f[m - 1] \in Nat
      BY <1>4, <2>1, <3>1 DEF Follows
    <3>3. QED
      BY <1>3, <3>1, <3>2
  <2>3. QED
    BY <2>1, <2>2 DEF Cost
<1>6. Is(sum)
  <2>. HIDE DEF Is
  <2>1. QED
    BY <1>5
<1>. HIDE DEF sum
<1>7. sum[0] = 0 /\ \A i \in 1 .. n : sum[i] = sum[i - 1] + Cost(taken, i)
  <2>1. \A m \in 0 .. n : sum[m] = IF m = 0 THEN 0
                            ELSE sum[m - 1] + (IF m \in taken THEN offers[m].hourly ELSE 0)
    BY <1>6
  <2>. HIDE DEF Is
  <2>2. sum[0] = 0
    BY <1>1, <2>1
  <2>3. ASSUME NEW i \in 1 .. n PROVE sum[i] = sum[i - 1] + Cost(taken, i)
    <3>1. i \in 0 .. n /\ i # 0
      BY <1>1
    <3>2. QED
      BY <2>1, <3>1 DEF Cost
  <2>4. QED
    BY <2>2, <2>3
<1>8. sum \in [0 .. n -> Nat]
  <2>. DEFINE S == {m \in 0 .. n : sum[m] \in Nat}
  <2>1. 0 \in S
    BY <1>1, <1>7
  <2>2. \A m \in 0 .. n - 1 : m \in S => m + 1 \in S
    <3>1. SUFFICES ASSUME NEW m \in 0 .. n - 1, m \in S PROVE m + 1 \in S
      OBVIOUS
    <3>2. m + 1 \in 1 .. n /\ (m + 1) - 1 = m
      BY <1>1
    <3>3. sum[m + 1] = sum[m] + Cost(taken, m + 1) /\ Cost(taken, m + 1) \in Nat
      BY <1>1, <1>7, <3>2
    <3>4. QED
      BY <1>1, <3>1, <3>2, <3>3
  <2>3. \A m \in 0 .. n : m \in S
    <3>. HIDE DEF S
    <3>1. QED
      BY <1>1, <2>1, <2>2, Climb
  <2>4. sum = [m \in 0 .. n |-> sum[m]]
    BY <1>6
  <2>5. QED
    BY <2>3, <2>4
<1>9. QED
  BY <1>2, <1>7, <1>8 DEF Adds, n

\* Nothing costs nothing; an offer more costs its price; more costs no less.
LEMMA PriceFacts ==
  ASSUME Listed, load.hourly \in Nat
  PROVE  /\ \A taken : Price(taken) \in Nat
         /\ Price({}) = load.hourly
         /\ \A taken : \A i \in Positions \ taken :
              Price(taken \cup {i}) = Price(taken) + offers[i].hourly
         /\ \A more : \A fewer \in SUBSET more : Price(fewer) <= Price(more)
<1>. DEFINE n == Len(offers)
<1>1. n \in Nat /\ Positions = 1 .. n /\ \A i \in 1 .. n : offers[i].hourly \in Nat
  BY ListedFacts
<1>. HIDE DEF n
<1>2. ASSUME NEW taken PROVE Price(taken) \in Nat
  <2>1. PICK sum : Adds(sum, taken) /\ Price(taken) = load.hourly + sum[n]
    BY PriceAdds DEF n
  <2>2. sum[n] \in Nat
    BY <1>1, <2>1 DEF Adds, n
  <2>3. QED
    BY <2>1, <2>2
<1>3. Price({}) = load.hourly
  <2>1. PICK sum : Adds(sum, {}) /\ Price({}) = load.hourly + sum[n]
    BY PriceAdds DEF n
  <2>. DEFINE S == {m \in 0 .. n : sum[m] = 0}
  <2>2. 0 \in S
    BY <1>1, <2>1 DEF Adds
  <2>3. \A m \in 0 .. n - 1 : m \in S => m + 1 \in S
    <3>1. SUFFICES ASSUME NEW m \in 0 .. n - 1, m \in S PROVE m + 1 \in S
      OBVIOUS
    <3>2. m + 1 \in 1 .. n /\ (m + 1) - 1 = m /\ m + 1 \in 0 .. n
      BY <1>1
    <3>3. sum[m + 1] = sum[m] + 0
      BY <2>1, <3>2 DEF Adds, Cost, n
    <3>4. QED
      BY <3>1, <3>2, <3>3
  <2>4. \A m \in 0 .. n : m \in S
    <3>. HIDE DEF S
    <3>1. QED
      BY <1>1, <2>2, <2>3, Climb
  <2>5. sum[n] = 0
    BY <1>1, <2>4
  <2>6. QED
    BY <2>1, <2>5
<1>4. ASSUME NEW taken, NEW i \in Positions \ taken
      PROVE  Price(taken \cup {i}) = Price(taken) + offers[i].hourly
  <2>1. PICK a : Adds(a, taken) /\ Price(taken) = load.hourly + a[n]
    BY PriceAdds DEF n
  <2>2. PICK b : Adds(b, taken \cup {i}) /\ Price(taken \cup {i}) = load.hourly + b[n]
    BY PriceAdds DEF n
  <2>3. /\ a \in [0 .. n -> Nat] /\ a[0] = 0
        /\ \A k \in 1 .. n : a[k] = a[k - 1] + Cost(taken, k)
        /\ b \in [0 .. n -> Nat] /\ b[0] = 0
        /\ \A k \in 1 .. n : b[k] = b[k - 1] + Cost(taken \cup {i}, k)
    BY <2>1, <2>2 DEF Adds, n
  <2>4. PICK h \in Nat : h = offers[i].hourly
    BY <1>1
  <2>5. /\ i \in 1 .. n
        /\ \A k \in 1 .. n : k # i => Cost(taken \cup {i}, k) = Cost(taken, k)
        /\ Cost(taken \cup {i}, i) = h /\ Cost(taken, i) = 0
        /\ \A k \in 1 .. n : Cost(taken, k) \in Nat
    BY <1>1, <2>4 DEF Cost
  <2>. DEFINE S == {m \in 0 .. n : b[m] = a[m] + (IF m < i THEN 0 ELSE h)}
  <2>6. 0 \in S
    BY <1>1, <2>3, <2>5
  <2>7. \A m \in 0 .. n - 1 : m \in S => m + 1 \in S
    <3>1. SUFFICES ASSUME NEW m \in 0 .. n - 1, m \in S PROVE m + 1 \in S
      OBVIOUS
    <3>2. m + 1 \in 1 .. n /\ (m + 1) - 1 = m /\ m + 1 \in 0 .. n /\ m \in 0 .. n /\ m \in Nat
      BY <1>1
    <3>3. /\ a[m + 1] = a[m] + Cost(taken, m + 1)
          /\ b[m + 1] = b[m] + Cost(taken \cup {i}, m + 1)
          /\ a[m] \in Nat /\ b[m] \in Nat
      BY <2>3, <3>2
    <3>4. b[m] = a[m] + (IF m < i THEN 0 ELSE h)
      BY <3>1
    <3>5. CASE m + 1 = i
      <4>1. a[m + 1] = a[m] /\ b[m + 1] = b[m] + h /\ m < i /\ ~(m + 1 < i)
        BY <2>4, <2>5, <3>2, <3>3, <3>5
      <4>2. QED
        BY <2>4, <3>2, <3>3, <3>4, <4>1
    <3>6. CASE m + 1 # i
      <4>1. PICK d \in Nat : d = Cost(taken, m + 1)
        BY <2>5, <3>2
      <4>2. a[m + 1] = a[m] + d /\ b[m + 1] = b[m] + d /\ (m < i <=> m + 1 < i)
        BY <2>5, <3>2, <3>3, <3>6, <4>1
      <4>3. QED
        BY <2>4, <3>2, <3>3, <3>4, <4>2
    <3>7. QED
      BY <3>5, <3>6
  <2>8. \A m \in 0 .. n : m \in S
    <3>. HIDE DEF S
    <3>1. QED
      BY <1>1, <2>6, <2>7, Climb
  <2>9. b[n] = a[n] + h /\ a[n] \in Nat
    BY <1>1, <2>3, <2>5, <2>8
  <2>10. QED
    BY <2>1, <2>2, <2>4, <2>9
<1>5. ASSUME NEW more, NEW fewer \in SUBSET more
      PROVE  Price(fewer) <= Price(more)
  <2>1. PICK a : Adds(a, fewer) /\ Price(fewer) = load.hourly + a[n]
    BY PriceAdds DEF n
  <2>2. PICK b : Adds(b, more) /\ Price(more) = load.hourly + b[n]
    BY PriceAdds DEF n
  <2>3. /\ a \in [0 .. n -> Nat] /\ a[0] = 0
        /\ \A k \in 1 .. n : a[k] = a[k - 1] + Cost(fewer, k)
        /\ b \in [0 .. n -> Nat] /\ b[0] = 0
        /\ \A k \in 1 .. n : b[k] = b[k - 1] + Cost(more, k)
    BY <2>1, <2>2 DEF Adds, n
  <2>4. \A k \in 1 .. n : /\ Cost(fewer, k) \in Nat /\ Cost(more, k) \in Nat
                          /\ Cost(fewer, k) <= Cost(more, k)
    BY <1>1 DEF Cost
  <2>. DEFINE S == {m \in 0 .. n : a[m] <= b[m]}
  <2>5. 0 \in S
    BY <1>1, <2>3
  <2>6. \A m \in 0 .. n - 1 : m \in S => m + 1 \in S
    <3>1. SUFFICES ASSUME NEW m \in 0 .. n - 1, m \in S PROVE m + 1 \in S
      OBVIOUS
    <3>2. m + 1 \in 1 .. n /\ (m + 1) - 1 = m /\ m + 1 \in 0 .. n /\ m \in 0 .. n
      BY <1>1
    <3>3. /\ a[m + 1] = a[m] + Cost(fewer, m + 1) /\ b[m + 1] = b[m] + Cost(more, m + 1)
          /\ a[m] \in Nat /\ b[m] \in Nat /\ a[m] <= b[m]
      BY <2>3, <3>1, <3>2
    <3>4. QED
      BY <2>4, <3>2, <3>3
  <2>7. \A m \in 0 .. n : m \in S
    <3>. HIDE DEF S
    <3>1. QED
      BY <1>1, <2>5, <2>6, Climb
  <2>8. a[n] <= b[n] /\ a[n] \in Nat /\ b[n] \in Nat
    BY <1>1, <2>3, <2>7
  <2>9. QED
    BY <2>1, <2>2, <2>8
<1>6. QED
  BY <1>2, <1>3, <1>4, <1>5
-----------------------------------------------------------------------------
(***************************************************************************)
(* The plan                                                                *)
(***************************************************************************)

PlanTypeOK ==
  /\ Listed /\ policy \in Policies /\ load \in Loads
  /\ selected \subseteq Positions /\ hourly \in Nat
  /\ reason \in [Positions -> Reasons]

\* The sum kept by the loop is the price of what it took.
HourlyExact == load.hourly + hourly = Price(selected)

\* An offer was taken, refused for a limit, is to be looked at, or is not
\* acceptable.
ReasonsTrue ==
  \A i \in Positions : /\ i \in selected <=> reason[i] = "selected"
                       /\ Acceptable(offers[i], policy) <=> reason[i] # "rejected"

\* The offers are looked at in the order of the sort.
InOrder ==
  \A j \in Undecided : \A i \in Positions \ Undecided :
    Acceptable(offers[i], policy) => Before(i, j)

Better(i) == {j \in selected : Before(j, i)}

\* An offer refused for a limit does not fit next to the better ones, whatever
\* else is taken.
RefusedRightly ==
  \A i \in Positions : reason[i] \in {"instances", "hourly", "daily"} =>
    \A taken \in SUBSET Positions : Better(i) \cup {i} \subseteq taken => ~Affordable(taken)

PlanInv == /\ PlanTypeOK /\ HourlyExact /\ ReasonsTrue /\ InOrder /\ LimitsKept
           /\ RefusedRightly

LEMMA LimitFacts ==
  ASSUME PlanTypeOK
  PROVE  /\ policy.instances \in Nat /\ policy.total \in Nat /\ policy.daily \in Nat
         /\ load.instances \in Nat /\ load.hourly \in Nat
         /\ load.spent \in Nat /\ load.hours \in Nat
<1>1. \A limit \in {"instances", "offer", "total", "daily", "cost"} : policy[limit] \in Nat \ {0}
  BY PoliciesAssumption DEF PlanTypeOK
<1>2. \A amount \in {"instances", "hourly", "spent", "hours"} : load[amount] \in Nat
  BY LoadsAssumption DEF PlanTypeOK
<1>3. QED
  BY <1>1, <1>2

\* What can be afforded stays so when offers are left out.
LEMMA AffordableShrinks ==
  ASSUME PlanTypeOK, NEW more, more \subseteq Positions, Affordable(more),
         NEW fewer, fewer \subseteq more
  PROVE  Affordable(fewer)
<1>1. /\ policy.instances \in Nat /\ policy.total \in Nat /\ policy.daily \in Nat
      /\ load.instances \in Nat /\ load.hourly \in Nat
      /\ load.spent \in Nat /\ load.hours \in Nat
  BY LimitFacts
<1>2. /\ Price(fewer) \in Nat /\ Price(more) \in Nat /\ Price(fewer) <= Price(more)
  BY <1>1, PriceFacts DEF PlanTypeOK
<1>3. Cardinality(fewer) \in Nat /\ Cardinality(more) \in Nat
      /\ Cardinality(fewer) <= Cardinality(more)
  <2>1. IsFiniteSet(Positions)
    BY ListedFacts DEF PlanTypeOK
  <2>2. IsFiniteSet(more)
    BY <2>1, FS_Subset
  <2>3. QED
    BY <2>2, FS_Subset, FS_CardinalityType
<1>4. PICK few \in Nat, many \in Nat, hours \in Nat :
        few = Price(fewer) /\ many = Price(more) /\ hours = load.hours
  BY <1>1, <1>2
<1>5. few * hours <= many * hours /\ few * hours \in Nat /\ many * hours \in Nat
  BY <1>2, <1>4
<1>6. QED
  BY <1>1, <1>2, <1>3, <1>4, <1>5 DEF Affordable

\* Before(i, j) puts an offer in front only if its keys are as cheap.
LEMMA BeforeIsCheaper ==
  ASSUME Listed, NEW i \in Positions, NEW j \in Positions,
         Acceptable(offers[i], policy), Acceptable(offers[j], policy), Before(i, j)
  PROVE  CheaperKeys(i, j)
<1>. DEFINE a == offers[i].hourly
            b == offers[j].hourly
            rateA == Rates[offers[i].model].rate
            rateB == Rates[offers[j].model].rate
            gpusA == offers[i].gpus
            gpusB == offers[j].gpus
<1>1. /\ offers[i] \in Catalog /\ offers[j] \in Catalog
      /\ offers[i].model \in DOMAIN Rates /\ offers[j].model \in DOMAIN Rates
  BY ListedFacts DEF Acceptable, Benchmarked
<1>2. /\ a \in Nat /\ b \in Nat /\ rateA \in Nat /\ rateB \in Nat
      /\ gpusA \in Nat /\ gpusB \in Nat
  BY <1>1, CatalogAssumption, RatesAssumption
<1>3. Rate(offers[i]) = rateA * gpusA /\ Rate(offers[j]) = rateB * gpusB
  BY DEF Rate
<1>4. a * (rateB * gpusB) <= b * (rateA * gpusA)
  <2>1. a * (rateB * gpusB) \in Nat /\ b * (rateA * gpusA) \in Nat
    BY <1>2
  <2>2. \/ a * (rateB * gpusB) < b * (rateA * gpusA)
        \/ a * (rateB * gpusB) = b * (rateA * gpusA)
    BY <1>3 DEF Before
  <2>. HIDE DEF a, b, rateA, rateB, gpusA, gpusB
  <2>3. QED
    BY <2>1, <2>2
<1>5. CheaperKeys(i, j) <=> a * (gpusB * rateB) <= b * (gpusA * rateA)
  BY DEF CheaperKeys
<1>6. gpusB * rateB = rateB * gpusB /\ gpusA * rateA = rateA * gpusA
  <2>. HIDE DEF rateA, rateB, gpusA, gpusB
  <2>1. QED
    BY <1>2
<1>7. QED
  BY <1>4, <1>5, <1>6

LEMMA PlanBegins == PlanInit => PlanInv
<1>1. SUFFICES ASSUME PlanInit PROVE PlanInv
  OBVIOUS
<1>2. PlanTypeOK
  BY <1>1 DEF PlanInit, PlanTypeOK, Listed, Catalogs, Reasons
<1>3. HourlyExact
  <2>1. load.hourly \in Nat
    BY <1>2, LimitFacts
  <2>2. Price({}) = load.hourly
    BY <1>2, <2>1, PriceFacts DEF PlanTypeOK
  <2>3. QED
    BY <1>1, <2>1, <2>2 DEF PlanInit, HourlyExact
<1>4. ReasonsTrue /\ RefusedRightly
  BY <1>1 DEF PlanInit, ReasonsTrue, RefusedRightly
<1>5. InOrder
  BY <1>1 DEF PlanInit, InOrder, Undecided
<1>6. LimitsKept
  BY <1>1 DEF PlanInit, LimitsKept
<1>7. QED
  BY <1>2, <1>3, <1>4, <1>5, <1>6 DEF PlanInv

\* The first limit that is broken: the offer would not fit next to the others.
LEMMA VerdictTrue ==
  ASSUME PlanInv, NEW i \in Positions \ selected
  PROVE  /\ Verdict(offers[i].hourly) \in {"instances", "hourly", "daily", "selected"}
         /\ Verdict(offers[i].hourly) = "selected" <=> Affordable(selected \cup {i})
<1>. DEFINE price == offers[i].hourly
            all == selected \cup {i}
            candidate == load.hourly + hourly + price
<1>1. /\ policy.instances \in Nat /\ policy.total \in Nat /\ policy.daily \in Nat
      /\ load.instances \in Nat /\ load.hourly \in Nat
      /\ load.spent \in Nat /\ load.hours \in Nat
  BY LimitFacts DEF PlanInv
<1>2. price \in Nat /\ hourly \in Nat
  BY ListedFacts DEF PlanInv, PlanTypeOK
<1>3. Price(all) = candidate
  <2>1. Price(all) = Price(selected) + price
    BY <1>1, PriceFacts DEF PlanInv, PlanTypeOK
  <2>2. QED
    BY <1>1, <1>2, <2>1 DEF PlanInv, HourlyExact
<1>4. Cardinality(selected) \in Nat /\ Cardinality(all) = Cardinality(selected) + 1
  <2>1. IsFiniteSet(Positions) /\ selected \subseteq Positions
    BY ListedFacts DEF PlanInv, PlanTypeOK
  <2>2. IsFiniteSet(selected)
    BY <2>1, FS_Subset
  <2>3. QED
    BY <2>2, FS_AddElement, FS_CardinalityType
<1>5. Cardinality(selected) >= Slots <=> ~(Cardinality(all) + load.instances <= policy.instances)
  BY <1>1, <1>4 DEF Slots
<1>6. Affordable(all) <=> /\ ~(Cardinality(selected) >= Slots)
                          /\ ~(candidate > policy.total)
                          /\ ~(load.spent + candidate * load.hours > policy.daily)
  <2>1. candidate \in Nat
    BY <1>1, <1>2
  <2>. HIDE DEF candidate, all
  <2>2. load.spent + candidate * load.hours \in Nat
    BY <1>1, <2>1
  <2>3. QED
    BY <1>1, <1>3, <1>5, <2>1, <2>2 DEF Affordable
<1>7. QED
  BY <1>6 DEF Verdict

LEMMA ConsiderStep ==
  ASSUME PlanInv, NEW i \in Positions, Consider(i)
  PROVE  PlanInv'
<1>. DEFINE v == Verdict(offers[i].hourly)
<1>0. PlanTypeOK /\ HourlyExact /\ ReasonsTrue /\ InOrder /\ LimitsKept /\ RefusedRightly
  BY DEF PlanInv
<1>1. /\ UNCHANGED <<offers, policy, load>>
      /\ reason' = [reason EXCEPT ![i] = v]
      /\ IF v = "selected" THEN selected' = selected \cup {i} /\ hourly' = hourly + offers[i].hourly
         ELSE selected' = selected /\ hourly' = hourly
      /\ i \in Undecided /\ \A j \in Undecided \ {i} : Before(i, j)
  BY DEF Consider
<1>2. /\ reason[i] = "undecided" /\ i \notin selected /\ Acceptable(offers[i], policy)
      /\ Positions' = Positions
  BY <1>0, <1>1 DEF Undecided, ReasonsTrue, Positions
<1>3. /\ v \in {"instances", "hourly", "daily", "selected"}
      /\ v = "selected" <=> Affordable(selected \cup {i})
  BY <1>2, VerdictTrue
<1>. HIDE DEF v
<1>4. /\ load.hourly \in Nat /\ offers[i].hourly \in Nat /\ hourly \in Nat
  BY <1>0, LimitFacts, ListedFacts DEF PlanTypeOK
<1>5. PlanTypeOK'
  <2>1. Listed'
    BY <1>0, <1>1 DEF PlanTypeOK, Listed
  <2>2. selected' \subseteq Positions /\ hourly' \in Nat
    BY <1>0, <1>1, <1>4 DEF PlanTypeOK
  <2>3. reason' \in [Positions -> Reasons]
    BY <1>0, <1>1, <1>3 DEF PlanTypeOK, Reasons
  <2>4. QED
    BY <1>0, <1>1, <1>2, <2>1, <2>2, <2>3 DEF PlanTypeOK
<1>6. ASSUME NEW taken PROVE Price(taken)' = Price(taken) /\ (Affordable(taken)' <=> Affordable(taken))
  BY <1>1 DEF Price, Affordable
<1>7. ASSUME NEW j, NEW k PROVE Before(j, k)' <=> Before(j, k)
  BY <1>1 DEF Before, Rate
<1>8. \A j : reason'[j] = IF j = i THEN v ELSE reason[j]
  BY <1>0, <1>1, <1>2 DEF PlanTypeOK
<1>9. Undecided' = Undecided \ {i}
  BY <1>2, <1>3, <1>8 DEF Undecided
<1>10. HourlyExact'
  <2>1. CASE v = "selected"
    <3>1. Price(selected \cup {i}) = Price(selected) + offers[i].hourly
      BY <1>0, <1>2, <1>4, PriceFacts DEF PlanTypeOK
    <3>2. Price(selected)' = Price(selected \cup {i})
      BY <1>1, <2>1 DEF Price
    <3>3. QED
      BY <1>0, <1>1, <1>4, <2>1, <3>1, <3>2 DEF HourlyExact
  <2>2. CASE v # "selected"
    BY <1>0, <1>1, <2>2 DEF HourlyExact, Price
  <2>3. QED
    BY <2>1, <2>2
<1>11. ReasonsTrue'
  <2>1. SUFFICES ASSUME NEW j \in Positions
                 PROVE  /\ j \in selected' <=> reason'[j] = "selected"
                        /\ Acceptable(offers[j], policy) <=> reason'[j] # "rejected"
    BY <1>1, <1>2 DEF ReasonsTrue, Acceptable, Benchmarked, Rate
  <2>2. CASE j = i
    BY <1>1, <1>2, <1>3, <1>8, <2>2
  <2>3. CASE j # i
    BY <1>0, <1>1, <1>8, <2>3 DEF ReasonsTrue
  <2>4. QED
    BY <2>2, <2>3
<1>12. InOrder'
  <2>1. SUFFICES ASSUME NEW j \in Undecided \ {i}, NEW k \in Positions, k \notin Undecided \ {i},
                        Acceptable(offers[k], policy)
                 PROVE  Before(k, j)
    BY <1>1, <1>2, <1>7, <1>9 DEF InOrder, Acceptable, Benchmarked, Rate
  <2>2. CASE k = i
    BY <1>1, <2>1, <2>2
  <2>3. CASE k # i
    BY <1>0, <2>1, <2>3 DEF InOrder
  <2>4. QED
    BY <2>2, <2>3
<1>13. LimitsKept'
  <2>1. SUFFICES ASSUME selected' # {} PROVE Affordable(selected')
    BY <1>1 DEF LimitsKept, Affordable, Price
  <2>2. QED
    BY <1>0, <1>1, <1>3, <2>1 DEF LimitsKept
<1>14. RefusedRightly'
  <2>1. SUFFICES ASSUME NEW j \in Positions, reason'[j] \in {"instances", "hourly", "daily"},
                        NEW taken \in SUBSET Positions,
                        {k \in selected' : Before(k, j)} \cup {j} \subseteq taken,
                        Affordable(taken)
                 PROVE  FALSE
    <3>1. ASSUME NEW j PROVE Better(j)' = {k \in selected' : Before(k, j)}
      BY <1>7 DEF Better
    <3>2. QED
      BY <1>2, <1>6, <3>1 DEF RefusedRightly
  <2>2. Better(j) \cup {j} \subseteq taken
    BY <1>1, <2>1 DEF Better
  <2>3. CASE j = i
    <3>1. ~Affordable(selected \cup {i})
      BY <1>3, <1>8, <2>1, <2>3
    <3>2. \A k \in selected : Before(k, i)
      <4>1. SUFFICES ASSUME NEW k \in selected PROVE Before(k, i)
        OBVIOUS
      <4>2. k \in Positions /\ reason[k] = "selected"
        BY <1>0 DEF PlanTypeOK, ReasonsTrue
      <4>3. k \notin Undecided /\ Acceptable(offers[k], policy)
        BY <1>0, <4>2 DEF ReasonsTrue, Undecided
      <4>4. QED
        BY <1>0, <1>1, <4>2, <4>3 DEF InOrder
    <3>3. selected \cup {i} \subseteq taken
      BY <2>2, <2>3, <3>2 DEF Better
    <3>4. QED
      BY <1>0, <2>1, <3>1, <3>3, AffordableShrinks
  <2>4. CASE j # i
    BY <1>0, <1>8, <2>1, <2>2, <2>4 DEF RefusedRightly
  <2>5. QED
    BY <2>3, <2>4
<1>15. QED
  BY <1>5, <1>10, <1>11, <1>12, <1>13, <1>14 DEF PlanInv

LEMMA PlanStep == PlanInv /\ [PlanNext]_planVars => PlanInv'
<1>1. SUFFICES ASSUME PlanInv, [PlanNext]_planVars PROVE PlanInv'
  OBVIOUS
<1>2. CASE PlanNext
  BY <1>1, <1>2, ConsiderStep DEF PlanNext
<1>3. CASE UNCHANGED planVars
  <2>1. /\ offers' = offers /\ policy' = policy /\ load' = load
        /\ selected' = selected /\ hourly' = hourly /\ reason' = reason
    BY <1>3 DEF planVars
  <2>2. /\ Positions' = Positions /\ Undecided' = Undecided
        /\ \A j, k : Before(j, k)' <=> Before(j, k)
    BY <2>1 DEF Positions, Undecided, Before, Rate
  <2>3. ASSUME NEW taken PROVE Affordable(taken)' <=> Affordable(taken)
    BY <2>1 DEF Price, Affordable
  <2>4. PlanTypeOK' /\ ReasonsTrue'
    BY <1>1, <2>1, <2>2
       DEF PlanInv, PlanTypeOK, Listed, ReasonsTrue, Acceptable, Benchmarked, Rate
  <2>5. HourlyExact'
    BY <1>1, <2>1 DEF PlanInv, HourlyExact, Price
  <2>6. LimitsKept'
    BY <1>1, <2>1 DEF PlanInv, LimitsKept, Affordable, Price
  <2>7. InOrder'
    BY <1>1, <2>1, <2>2 DEF PlanInv, InOrder, Acceptable, Benchmarked, Rate
  <2>8. RefusedRightly'
    <3>1. \A j : Better(j)' = Better(j)
      BY <2>1, <2>2 DEF Better
    <3>2. QED
      BY <1>1, <2>1, <2>2, <2>3, <3>1 DEF PlanInv, RefusedRightly
  <2>9. QED
    BY <2>4, <2>5, <2>6, <2>7, <2>8 DEF PlanInv
<1>4. QED
  BY <1>1, <1>2, <1>3

\* In the end every acceptable offer not taken was refused for a limit.
LEMMA LeftWasRefused ==
  ASSUME PlanInv, Done, NEW i \in Positions \ selected, Acceptable(offers[i], policy),
         NEW taken \in SUBSET Positions, Better(i) \cup {i} \subseteq taken
  PROVE  ~Affordable(taken)
<1>1. ReasonsTrue /\ RefusedRightly /\ reason[i] \in Reasons
  BY DEF PlanInv, PlanTypeOK
<1>2. reason[i] \in {"instances", "hourly", "daily"}
  BY <1>1 DEF ReasonsTrue, Done, Undecided, Reasons
<1>3. QED
  BY <1>1, <1>2 DEF RefusedRightly

\* The sum of the loop, the reasons it gives and the order it keeps are right
\* after every offer, for every catalog, policy and load.
THEOREM PlanInvariant == PlanSpec => []PlanInv
<1>1. QED
  BY PlanBegins, PlanStep, PTL DEF PlanSpec

\* plan_capacity never takes offers that together with what runs and was spent
\* go over the limit on instances, on the hourly price or on the spend of the
\* day.
THEOREM LimitsKeptCorrect == PlanSpec => []LimitsKept
<1>1. PlanInv => LimitsKept
  BY DEF PlanInv
<1>2. QED
  BY <1>1, PlanInvariant, PTL

\* An acceptable offer that was refused does not fit next to all that was taken,
\* although it was refused before the last ones were.
THEOREM NothingAffordableLeftCorrect == PlanSpec => []NothingAffordableLeft
<1>1. PlanInv => NothingAffordableLeft
  <2>1. SUFFICES ASSUME PlanInv, Done, NEW i \in Positions \ selected,
                        Acceptable(offers[i], policy), Affordable(selected \cup {i})
                 PROVE  FALSE
    BY DEF NothingAffordableLeft
  <2>2. selected \cup {i} \in SUBSET Positions
    BY <2>1 DEF PlanInv, PlanTypeOK
  <2>3. Better(i) \cup {i} \subseteq selected \cup {i}
    BY DEF Better
  <2>4. QED
    BY <2>1, <2>2, <2>3, LeftWasRefused
<1>2. QED
  BY <1>1, PlanInvariant, PTL

\* Nor does it fit next to just the offers taken whose keys are as cheap: no
\* offer is refused for the sake of a dearer one.
THEOREM CheapestFirstCorrect == PlanSpec => []CheapestFirst
<1>1. PlanInv => CheapestFirst
  <2>1. SUFFICES ASSUME PlanInv, Done, NEW i \in Positions \ selected,
                        Acceptable(offers[i], policy),
                        Affordable({j \in selected : CheaperKeys(j, i)} \cup {i})
                 PROVE  FALSE
    BY DEF CheapestFirst
  <2>2. selected \subseteq Positions /\ Listed
    BY <2>1 DEF PlanInv, PlanTypeOK
  <2>3. ASSUME NEW j \in Better(i) PROVE CheaperKeys(j, i)
    <3>1. j \in Positions /\ Before(j, i) /\ j \in selected
      BY <2>2 DEF Better
    <3>2. Acceptable(offers[j], policy)
      BY <2>1, <3>1 DEF PlanInv, ReasonsTrue
    <3>3. QED
      BY <2>1, <2>2, <3>1, <3>2, BeforeIsCheaper
  <2>4. PICK taken : taken = {j \in selected : CheaperKeys(j, i)} \cup {i}
    OBVIOUS
  <2>5. taken \in SUBSET Positions /\ Better(i) \cup {i} \subseteq taken
    BY <2>2, <2>3, <2>4 DEF Better
  <2>6. QED
    BY <2>1, <2>4, <2>5, LeftWasRefused
<1>2. QED
  BY <1>1, PlanInvariant, PTL

=============================================================================
