--------------------------- MODULE RemoteWorkers ---------------------------
(***************************************************************************)
(* The GPU workers of remote.py (GPUWorker.run_once and the loop of        *)
(* command_gpu_worker) against the coordinator behind coordinator_http.py. *)
(*                                                                         *)
(* The coordinator is its contract, CoverageLedger, which Coordinator.tla  *)
(* implements.  A request is a POST that the client waits for: it may be   *)
(* answered, or the client gives up on it, and then the request may still  *)
(* be executed at any later moment, or never.  The client never repeats a  *)
(* request: any error it sees ends the process, which forgets its lease.   *)
(* Whoever runs the worker starts it again.                                *)
(*                                                                         *)
(* Faults (a request given up on, a failed heartbeat, an engine error, a   *)
(* killed process, a live worker whose renewals are late) are bounded      *)
(* together by MaxFaults.  The engine is honest: a full scan of the chunk  *)
(* of the target finds the key.                                            *)
(***************************************************************************)
EXTENDS CoverageLedger, Naturals, FiniteSets

CONSTANTS
  Workers,
  Targets,    \* the chunks that may hold the key, None if none does
  MaxFaults

ASSUME FaultsAssumption == MaxFaults \in Nat
ASSUME TargetsAssumption == None \notin Chunks /\ Targets \subseteq Chunks \cup {None}

VARIABLES
  target,   \* the chunk that holds the key, or None
  late,     \* chunks held under a lease whose time is up, not reclaimed yet
  pc,       \* where the worker is; "off" when its process does not run
  lease,    \* the lease it holds in memory, or None
  outcome,  \* what its engine returned
  beating,  \* FALSE once a heartbeat failed and the heartbeat thread ended
  ghosts,   \* requests given up on that may still be executed
  faults

serverVars == <<ledgerVars, late>>
workerVars == <<pc, lease, outcome, beating>>
progress == <<serverVars, workerVars, ghosts, faults>>
vars == <<target, progress>>

Leases == [chunk : Chunks, token : Tokens]
ASSUME NoneAssumption == None \notin Leases
Outcomes == {"complete", "found", "error"}
Requests == [op : {"lease"}] \cup [op : Outcomes, lease : Leases]

Init ==
  /\ target \in Targets
  /\ LedgerInit
  /\ late = {}
  /\ pc = [w \in Workers |-> "off"]
  /\ lease = [w \in Workers |-> None]
  /\ outcome = [w \in Workers |-> "error"]
  /\ beating = [w \in Workers |-> TRUE]
  /\ ghosts = {}
  /\ faults = 0

-----------------------------------------------------------------------------
(***************************************************************************)
(* The coordinator's side of a request                                     *)
(***************************************************************************)

Owned(l) == holder[l.chunk] = l.token

\* Every lease and status request reclaims what is late, granted or not.  Only
\* the equality of tokens matters, so a new one is any one not used before.
Reclaim == Revoke(late) /\ late' = {}
Idle == {c \in Chunks \ covered : holder[c] = None \/ c \in late}
Fresh == CHOOSE t \in Tokens : t \notin used
GrantTo(l) ==
  /\ verdict = "running"
  /\ l.chunk \in Idle
  /\ l.token = Fresh
  /\ Grant(late, l.chunk, l.token)
  /\ late' = {}

\* A result needs a lease that is not late; a failure only one not reclaimed.
Accepts(l, result) == Owned(l) /\ (result = "error" \/ l.chunk \notin late)
Accept(l, result) ==
  /\ Accepts(l, result)
  /\ CASE result = "complete" -> Report(l.chunk)
       [] result = "found" -> /\ Find
                              /\ holder' = [holder EXCEPT ![l.chunk] = None]
       [] result = "error" -> Revoke({l.chunk})
  /\ late' = late \ {l.chunk}

\* A late heartbeat or result is rejected and its lease reclaimed at once.
Reject(l) ==
  IF Owned(l)
  THEN Revoke({l.chunk}) /\ late' = late \ {l.chunk}
  ELSE UNCHANGED serverVars

-----------------------------------------------------------------------------
(***************************************************************************)
(* The worker                                                              *)
(***************************************************************************)

\* Every error ends the process; only the coordinator remembers the lease.
Exit(w) ==
  /\ pc' = [pc EXCEPT ![w] = "off"]
  /\ lease' = [lease EXCEPT ![w] = None]
  /\ UNCHANGED <<outcome, beating>>

Start(w) ==
  /\ pc[w] = "off"
  /\ pc' = [pc EXCEPT ![w] = "leasing"]
  /\ UNCHANGED <<serverVars, lease, outcome, beating, ghosts, faults>>

Obtain(w) ==
  /\ pc[w] = "leasing"
  /\ \E l \in Leases : GrantTo(l) /\ lease' = [lease EXCEPT ![w] = l]
  /\ pc' = [pc EXCEPT ![w] = "scanning"]
  /\ beating' = [beating EXCEPT ![w] = TRUE]
  /\ UNCHANGED <<outcome, ghosts, faults>>

\* No work: the worker asks for the status next.
ObtainNothing(w) ==
  /\ pc[w] = "leasing"
  /\ verdict # "running" \/ Idle = {}
  /\ Reclaim
  /\ pc' = [pc EXCEPT ![w] = "idle"]
  /\ UNCHANGED <<lease, outcome, beating, ghosts, faults>>

\* Mutant: no work is taken for the end of the campaign.
AskStatus_IdleEnds(w) ==
  /\ pc[w] = "idle"
  /\ Reclaim
  /\ pc' = [pc EXCEPT ![w] = "done"]
  /\ UNCHANGED <<lease, outcome, beating, ghosts, faults>>

\* A campaign that is over ends the worker; else it sleeps and asks again.
AskStatus(w) ==
  /\ pc[w] = "idle"
  /\ Reclaim
  /\ pc' = [pc EXCEPT ![w] = IF verdict = "running" THEN "leasing" ELSE "done"]
  /\ UNCHANGED <<lease, outcome, beating, ghosts, faults>>

\* The heartbeat of a lease that is late or lost is rejected, and is the last
\* one; the heartbeat of any other lease changes nothing that is kept here.
HeartbeatRejected(w) ==
  /\ pc[w] = "scanning" /\ beating[w]
  /\ ~Accepts(lease[w], "complete")
  /\ Reject(lease[w])
  /\ beating' = [beating EXCEPT ![w] = FALSE]
  /\ UNCHANGED <<pc, lease, outcome, ghosts, faults>>

\* Mutant: an engine that failed is reported as a chunk searched.
Finish_AsComplete(w, result) ==
  /\ pc[w] = "scanning"
  /\ pc' = [pc EXCEPT ![w] = "reporting"]
  /\ outcome' = [outcome EXCEPT ![w] =
                   IF result = "error" THEN "complete" ELSE result]
  /\ UNCHANGED <<lease, beating, serverVars, ghosts>>

Honest(c) == IF c = target THEN "found" ELSE "complete"

\* The scan ends; with a failed heartbeat its result is thrown away, whatever
\* it is, and the lease is not given back.
Finish(w, result) ==
  /\ pc[w] = "scanning"
  /\ IF beating[w]
     THEN /\ pc' = [pc EXCEPT ![w] = "reporting"]
          /\ outcome' = [outcome EXCEPT ![w] = result]
          /\ UNCHANGED <<lease, beating>>
     ELSE Exit(w)
  /\ UNCHANGED <<serverVars, ghosts>>

Scan(w) == Finish(w, Honest(lease[w].chunk)) /\ UNCHANGED faults

\* The result is reported.  A find that is accepted ends the worker for good,
\* any other result is followed by the next lease, a rejection by the exit.
Deliver(w) ==
  /\ pc[w] = "reporting"
  /\ \/ /\ Accept(lease[w], outcome[w])
        /\ pc' = [pc EXCEPT ![w] =
                    IF outcome[w] = "found" THEN "done" ELSE "leasing"]
        /\ lease' = [lease EXCEPT ![w] = None]
        /\ UNCHANGED <<outcome, beating>>
     \/ /\ ~Accepts(lease[w], outcome[w])
        /\ Reject(lease[w])
        /\ Exit(w)
  /\ UNCHANGED <<ghosts, faults>>

-----------------------------------------------------------------------------
(***************************************************************************)
(* Faults                                                                  *)
(***************************************************************************)
Fault == faults < MaxFaults /\ faults' = faults + 1

\* The client's timeout, a lost request or a lost answer.
GiveUp(w) ==
  /\ Fault
  /\ \/ pc[w] = "leasing" /\ ghosts' = ghosts \cup {[op |-> "lease"]}
     \/ /\ pc[w] = "reporting"
        /\ ghosts' = ghosts \cup {[op |-> outcome[w], lease |-> lease[w]]}
     \/ pc[w] = "idle" /\ UNCHANGED ghosts
  /\ Exit(w)
  /\ UNCHANGED serverVars

\* A request given up on is executed after all; nobody reads the answer.
ExecuteGhost(r) ==
  /\ IF r.op = "lease"
     THEN \E l \in Leases : GrantTo(l)
     ELSE \/ Accept(r.lease, r.op)
          \/ ~Accepts(r.lease, r.op) /\ Reject(r.lease)
  /\ ghosts' = ghosts \ {r}
  /\ UNCHANGED <<workerVars, faults>>

HeartbeatFails(w) ==
  /\ Fault
  /\ pc[w] = "scanning" /\ beating[w]
  /\ beating' = [beating EXCEPT ![w] = FALSE]
  /\ UNCHANGED <<serverVars, pc, lease, outcome, ghosts>>

EngineFails(w) == Fault /\ Finish(w, "error")

Crash(w) ==
  /\ Fault
  /\ pc[w] \notin {"off", "done"}
  /\ Exit(w)
  /\ UNCHANGED <<serverVars, ghosts>>

\* Mutant: the heartbeat thread outlives the scan it was started for.
Alive_Orphaned(c) == holder[c] # None

\* Somebody still renews the lease of c, or is about to report it.
Alive(c) == \E w \in Workers : /\ lease[w] # None
                               /\ lease[w].chunk = c /\ Owned(lease[w])
                               /\ beating[w]

\* The time of a lease is up: of one that nobody renews because the clock
\* moves on, of one that is renewed only when the renewals are late.
Lapse(c) ==
  /\ holder[c] # None /\ c \notin late
  /\ late' = late \cup {c}
  /\ IF Alive(c) THEN Fault ELSE UNCHANGED faults
  /\ UNCHANGED <<ledgerVars, workerVars, ghosts>>

-----------------------------------------------------------------------------
Work(w) == \/ Start(w) \/ Obtain(w) \/ ObtainNothing(w) \/ AskStatus(w)
           \/ HeartbeatRejected(w) \/ Scan(w) \/ Deliver(w)

Step ==
  \/ \E w \in Workers :
       Work(w) \/ GiveUp(w) \/ HeartbeatFails(w) \/ EngineFails(w) \/ Crash(w)
  \/ \E r \in ghosts : ExecuteGhost(r)
  \/ \E c \in Chunks : Lapse(c)

Next == Step /\ UNCHANGED target

Spec == Init /\ [][Next]_vars

\* A running worker keeps working, a stopped one is started again, and a lease
\* that nobody renews runs out with the clock.
Fairness ==
  /\ \A w \in Workers : WF_progress(Work(w))
  /\ \A c \in Chunks : WF_progress(~Alive(c) /\ Lapse(c))

FairSpec == Spec /\ Fairness

-----------------------------------------------------------------------------
(***************************************************************************)
(* Properties                                                              *)
(***************************************************************************)

TypeOK ==
  /\ target \in Targets
  /\ holder \in [Chunks -> Tokens \cup {None}]
  /\ covered \subseteq Chunks
  /\ late \subseteq {c \in Chunks : holder[c] # None}
  /\ verdict \in {"running", "found", "exhausted"}
  /\ pc \in [Workers -> {"off", "leasing", "scanning", "reporting", "idle", "done"}]
  /\ lease \in [Workers -> Leases \cup {None}]
  /\ \A w \in Workers : pc[w] \in {"scanning", "reporting"} <=> lease[w] # None
  /\ outcome \in [Workers -> Outcomes]
  /\ beating \in [Workers -> BOOLEAN]
  /\ ghosts \subseteq Requests
  /\ faults \in 0 .. MaxFaults

\* The chunk of the key is never credited as searched without a match, and the
\* campaign never ends empty-handed, whatever results were delayed, discarded
\* or executed long after another worker took the chunk over.
TargetNeverMissed ==
  target # None => target \notin covered /\ verdict # "exhausted"

\* While the campaign runs, no chunk stays leased for ever: every lease is
\* reported, given back or reclaimed, the leases granted to a client that
\* never learnt of them too.
LeasesEnd ==
  \A c \in Chunks :
    holder[c] # None ~> (holder[c] = None \/ verdict # "running")

\* The search succeeds: with finitely many faults, the key is found if it is
\* in the interval, and the interval is exhausted if it is not.
SearchSucceeds ==
  <>(verdict = IF target = None THEN "exhausted" ELSE "found")

=============================================================================
