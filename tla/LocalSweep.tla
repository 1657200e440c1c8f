----------------------------- MODULE LocalSweep -----------------------------
(***************************************************************************)
(* From the find to the sweep: the local campaign of cli.py and local.py,  *)
(* the sweep of sweep.py, the campaign database and the Bitcoin network.   *)
(*                                                                         *)
(* One local process is launched, may crash between any two of its steps,  *)
(* and is launched again.  What survives a crash is the campaign database, *)
(* the Generator Lab's state, the profile and the file sweep.json; what    *)
(* does not is the profile it had read and the transaction it had signed.  *)
(* Meanwhile a remote GPU worker may hold, and complete, the chunk of the  *)
(* target, and the operator may change the profile.                        *)
(*                                                                         *)
(* Only the target's chunk matters here; of the coordinator's row we keep  *)
(* who holds it (Coordinator.tla shows that is at most one worker).  Two   *)
(* local processes on one profile at a time are not modelled: nothing in   *)
(* the code prevents them, and nothing in it expects them.                 *)
(***************************************************************************)
EXTENDS Naturals, FiniteSets

CONSTANTS
  Endpoints,   \* Esplora endpoints
  Vague,       \* those that answer a status query for any transaction, with
               \* "confirmed": false for one they have never seen
  Dests,       \* destination addresses the operator may configure
  Fees,        \* fee rates the endpoints may recommend
  None,        \* no sweep.json
  Remotes,     \* TRUE if remote workers lease from the same campaign
  MaxCrashes,  \* bound on crashes
  MaxEdits     \* bound on changes of the profile

ASSUME EndpointsAssumption == Endpoints # {} /\ Dests # {} /\ Fees # {}
ASSUME VagueAssumption == Vague \subseteq Endpoints
ASSUME RemotesAssumption == Remotes \in BOOLEAN
ASSUME BoundsAssumption == MaxCrashes \in Nat /\ MaxEdits \in Nat

VARIABLES
  row,       \* the target's chunk: "available", "local", "remote", "found"
  verdict,   \* campaign.state
  key,       \* TRUE while campaign.found_key_hex holds the plaintext key
  lab_key,   \* TRUE once the Generator Lab's state holds the key
  profile,   \* the profile file: is a sweep armed, and to which address
  record,    \* sweep.json
  known,     \* known[e]: transactions the node behind e has accepted
  pc,        \* where the local process is; "off" when it is not running
  config,    \* the profile it loaded
  signed,    \* the transaction it is about to broadcast
  accepted_by,  \* the endpoints that accepted it, until that is recorded
  crashes, edits

campaignVars == <<row, verdict, key>>
boundVars == <<crashes, edits>>
memoryVars == <<config, signed, accepted_by>>
vars == <<campaignVars, lab_key, profile, record, known, pc, memoryVars,
          boundVars>>

Txs == [dest : Dests, fee : Fees]
Profiles == [armed : BOOLEAN, dest : Dests]

\* sweep.json: a transaction signed and not yet known to be accepted, or one
\* that the endpoints in by accepted (its detail names them).
Pending(tx) == [state |-> "pending", tx |-> tx, by |-> {}]
Records == {Pending(tx) : tx \in Txs}
           \cup [state : {"broadcast"}, tx : Txs, by : SUBSET Endpoints]

ASSUME NoneAssumption == None \notin Txs \cup Records

Broadcast == record # None /\ record.state = "broadcast"

TypeOK ==
  /\ row \in {"available", "local", "remote", "found"}
  /\ verdict \in {"running", "found"}
  /\ key \in BOOLEAN /\ lab_key \in BOOLEAN
  /\ profile \in Profiles
  /\ record \in Records \cup {None}
  /\ known \in [Endpoints -> SUBSET Txs]
  /\ pc \in {"off", "launched", "scanning", "holding", "candidate", "resuming",
             "sweeping", "building", "signed", "posting", "accepted", "swept"}
  /\ config \in Profiles
  /\ signed \in Txs \cup {None}
  /\ accepted_by \in SUBSET Endpoints
  /\ crashes \in 0 .. MaxCrashes /\ edits \in 0 .. MaxEdits

Init ==
  /\ row = "available" /\ verdict = "running"
  /\ key = FALSE /\ lab_key = FALSE
  /\ profile \in Profiles
  /\ record = None
  /\ known = [e \in Endpoints |-> {}]
  /\ pc = "off" /\ config = profile /\ signed = None /\ accepted_by = {}
  /\ crashes = 0 /\ edits = 0

-----------------------------------------------------------------------------
(***************************************************************************)
(* The local campaign                                                      *)
(***************************************************************************)

Launch ==
  /\ pc = "off"
  /\ pc' = "launched"
  /\ config' = profile
  /\ UNCHANGED <<campaignVars, lab_key, profile, record, known, signed,
                 accepted_by, boundVars>>

\* resume_pending_sweep does nothing unless the profile is armed.
Resumption == IF config.armed THEN "resuming" ELSE "off"

\* The status a launch reads decides what it does; a stored Generator Lab
\* match counts only while the campaign runs.
CheckStatus ==
  /\ pc = "launched"
  /\ pc' = CASE verdict = "found" -> Resumption
             [] verdict = "running" /\ lab_key -> "candidate"
             [] OTHER -> "scanning"
  /\ UNCHANGED <<campaignVars, lab_key, profile, record, known, memoryVars,
                 boundVars>>

\* The lease of the target's chunk; other chunks only come back here.
LeaseTarget ==
  /\ pc = "scanning"
  /\ verdict = "running" /\ row = "available"
  /\ row' = "local"
  /\ pc' = "holding"
  /\ UNCHANGED <<verdict, key, lab_key, profile, record, known, memoryVars,
                 boundVars>>

\* Between chunks: a match of the Generator Lab is taken over; otherwise a
\* campaign that is over ends the run.
BetweenChunks ==
  /\ pc = "scanning"
  /\ lab_key \/ verdict = "found"
  /\ pc' = IF lab_key THEN "candidate" ELSE "off"
  /\ UNCHANGED <<campaignVars, lab_key, profile, record, known, memoryVars,
                 boundVars>>

\* The scan finds the key and completes the lease; the coordinator rejects it
\* when the lease was lost, and the exception ends the run.
CompleteFound ==
  /\ pc = "holding"
  /\ IF row = "local"
     THEN /\ row' = "found" /\ verdict' = "found" /\ key' = TRUE
          /\ pc' = IF config.armed THEN "sweeping" ELSE "off"
     ELSE UNCHANGED campaignVars /\ pc' = "off"
  /\ UNCHANGED <<lab_key, profile, record, known, memoryVars, boundVars>>

\* The engine fails, a heartbeat failed or the operator interrupts: the lease
\* is given back, and with a failed heartbeat so is what the scan had found.
ReleaseLease ==
  /\ pc = "holding"
  /\ row' = IF row = "local" THEN "available" ELSE row
  /\ pc' = "off"
  /\ UNCHANGED <<verdict, key, lab_key, profile, record, known, memoryVars,
                 boundVars>>

\* _finish_generator_match: record_verified_candidate accepts the first key, or
\* the same key again; once the key is scrubbed it rejects even that one.
RecordCandidate ==
  /\ pc = "candidate"
  /\ \/ /\ verdict = "running"
        /\ verdict' = "found" /\ key' = TRUE
        /\ pc' = Resumption
     \/ /\ verdict = "found"
        /\ UNCHANGED <<verdict, key>>
        /\ pc' = IF key THEN Resumption ELSE "off"
  /\ UNCHANGED <<row, lab_key, profile, record, known, memoryVars, boundVars>>

-----------------------------------------------------------------------------
(***************************************************************************)
(* The sweep                                                               *)
(***************************************************************************)

\* resume_pending_sweep: a broadcast record ends it here, before the scrub.
Resume ==
  /\ pc = "resuming"
  /\ pc' = IF Broadcast \/ ~key THEN "off" ELSE "sweeping"
  /\ UNCHANGED <<campaignVars, lab_key, profile, record, known, memoryVars,
                 boundVars>>

\* Mutant: a pending transaction is built anew.
LoadRecord_Rebuild ==
  /\ pc = "sweeping"
  /\ pc' = CASE Broadcast -> "swept" [] OTHER -> "building"
  /\ UNCHANGED <<campaignVars, lab_key, profile, record, known, memoryVars,
                 boundVars>>

\* Mutant: a pending transaction is reported and not sent again.
LoadRecord_ReportPending ==
  /\ pc = "sweeping"
  /\ pc' = CASE record = None -> "building" [] Broadcast -> "swept" [] OTHER -> "off"
  /\ UNCHANGED <<campaignVars, lab_key, profile, record, known, memoryVars,
                 boundVars>>

\* execute_sweep reads the record: another destination is refused, a finished
\* sweep is only reported, a pending one is sent again as it was signed.
LoadRecord ==
  /\ pc = "sweeping"
  /\ \/ /\ record = None
        /\ pc' = "building"
        /\ UNCHANGED signed
     \/ /\ record # None /\ record.tx.dest # config.dest
        /\ pc' = "off"
        /\ UNCHANGED signed
     \/ /\ record # None /\ record.tx.dest = config.dest
        /\ pc' = IF Broadcast THEN "swept" ELSE "posting"
        /\ signed' = record.tx
  /\ UNCHANGED <<campaignVars, lab_key, profile, record, known, config,
                 accepted_by, boundVars>>

\* The endpoints are down, disagree, or know no confirmed output.
BuildFails ==
  /\ pc = "building"
  /\ pc' = "off"
  /\ UNCHANGED <<campaignVars, lab_key, profile, record, known, memoryVars,
                 boundVars>>

\* Coins and fee are fetched and the transaction signed: the same coins give
\* another transaction at another fee.
Build ==
  /\ pc = "building"
  /\ \E fee \in Fees : signed' = [dest |-> config.dest, fee |-> fee]
  /\ pc' = "signed"
  /\ UNCHANGED <<campaignVars, lab_key, profile, record, known, config,
                 accepted_by, boundVars>>

\* Mutant: the record is written after the broadcast only.
SaveSigned_Later ==
  /\ pc = "signed"
  /\ pc' = "posting"
  /\ UNCHANGED <<campaignVars, lab_key, profile, record, known, memoryVars,
                 boundVars>>

\* The record is on disk before the network sees the transaction.
SaveSigned ==
  /\ pc = "signed"
  /\ record' = Pending(signed)
  /\ pc' = "posting"
  /\ UNCHANGED <<campaignVars, lab_key, profile, known, memoryVars, boundVars>>

\* Mutant: a reply is believed, whatever it says.
Answers_AnyReply(nodes, replies) == replies

\* broadcast: the transaction reaches some nodes, and some endpoints reply, to the
\* POST or to the status query after it.  The txid comes back only from a node
\* that took the transaction; a status counts whether "confirmed" is true or
\* false in it, so a vague endpoint accepts what its node has never seen.
Answers(nodes, replies) == {e \in replies : signed \in nodes[e] \/ e \in Vague}

Post(reached) ==
  /\ pc = "posting"
  /\ known' = [e \in Endpoints |->
                 IF e \in reached THEN known[e] \cup {signed} ELSE known[e]]
  /\ UNCHANGED <<campaignVars, lab_key, profile, config, signed, boundVars>>

PostAccepted ==
  \E reached, replies \in SUBSET Endpoints :
    /\ Post(reached)
    /\ Answers(known', replies) # {}
    /\ accepted_by' = Answers(known', replies)
    /\ pc' = "accepted"
    /\ UNCHANGED record

\* Nobody accepted it: the pending record is saved again with the reason.
PostRefused ==
  \E reached, replies \in SUBSET Endpoints :
    /\ Post(reached)
    /\ Answers(known', replies) = {}
    /\ record' = Pending(signed)
    /\ pc' = "off"
    /\ UNCHANGED accepted_by

\* A status that is no JSON raises ValueError, which broadcast lets through: the
\* attempt ends, whoever else accepted the transaction.
PostRaises ==
  \E reached \in SUBSET Endpoints :
    /\ Post(reached)
    /\ pc' = "off"
    /\ UNCHANGED <<record, accepted_by>>

\* Mutant: the key is scrubbed before the broadcast is recorded.
SaveBroadcast_AfterScrub ==
  /\ pc = "accepted"
  /\ key' = FALSE
  /\ pc' = "swept"
  /\ UNCHANGED <<row, verdict, lab_key, profile, record, known, memoryVars,
                 boundVars>>

SaveBroadcast ==
  /\ pc = "accepted"
  /\ record' = [state |-> "broadcast", tx |-> signed, by |-> accepted_by]
  /\ accepted_by' = {}
  /\ pc' = "swept"
  /\ UNCHANGED <<campaignVars, lab_key, profile, known, config, signed, boundVars>>

\* scrub_found_key
Scrub ==
  /\ pc = "swept"
  /\ key' = FALSE
  /\ pc' = "off"
  /\ UNCHANGED <<row, verdict, lab_key, profile, record, known, memoryVars,
                 boundVars>>

-----------------------------------------------------------------------------
(***************************************************************************)
(* The others                                                              *)
(***************************************************************************)

Crash ==
  /\ pc # "off" /\ crashes < MaxCrashes
  /\ pc' = "off"
  /\ signed' = None /\ accepted_by' = {}
  /\ crashes' = crashes + 1
  /\ UNCHANGED <<campaignVars, lab_key, profile, record, known, config, edits>>

\* local-sweep-configure: arms a destination, or disarms and keeps it.  The
\* running process keeps the profile it loaded.
Configure ==
  /\ edits < MaxEdits
  /\ \/ \E d \in Dests : profile' = [armed |-> TRUE, dest |-> d]
     \/ profile' = [profile EXCEPT !.armed = FALSE]
  /\ edits' = edits + 1
  /\ UNCHANGED <<campaignVars, lab_key, record, known, pc, memoryVars, crashes>>

\* The Generator Lab's thread saves a match in its own state file.
LabFind ==
  /\ pc \in {"scanning", "holding"}
  /\ ~lab_key
  /\ lab_key' = TRUE
  /\ UNCHANGED <<campaignVars, profile, record, known, pc, memoryVars, boundVars>>

\* The lease of whoever holds the chunk runs out or is given back.
Lapse ==
  /\ row \in {"local", "remote"}
  /\ row' = "available"
  /\ UNCHANGED <<verdict, key, lab_key, profile, record, known, pc, memoryVars,
                 boundVars>>

RemoteLease ==
  /\ Remotes
  /\ row = "available" /\ verdict = "running"
  /\ row' = "remote"
  /\ UNCHANGED <<verdict, key, lab_key, profile, record, known, pc, memoryVars,
                 boundVars>>

\* A remote worker completes the chunk, whatever the verdict already is.
RemoteFind ==
  /\ row = "remote"
  /\ row' = "found" /\ verdict' = "found" /\ key' = TRUE
  /\ UNCHANGED <<lab_key, profile, record, known, pc, memoryVars, boundVars>>

-----------------------------------------------------------------------------
Campaign == \/ CheckStatus \/ LeaseTarget \/ BetweenChunks \/ CompleteFound
            \/ ReleaseLease \/ RecordCandidate
Sweep == \/ Resume \/ LoadRecord \/ BuildFails \/ Build \/ SaveSigned
         \/ PostAccepted \/ PostRefused \/ PostRaises \/ SaveBroadcast \/ Scrub
Others == Crash \/ Configure \/ LabFind \/ Lapse \/ RemoteLease \/ RemoteFind

Next == Launch \/ Campaign \/ Sweep \/ Others

Spec == Init /\ [][Next]_vars

\* The program is launched again whenever it has ended, a running process keeps
\* running, and the endpoints do not fail for ever.
Fairness ==
  /\ WF_vars(Launch)
  /\ WF_vars(Campaign \/ Sweep)
  /\ SF_vars(Build)
  /\ SF_vars(PostAccepted)

FairSpec == Spec /\ Fairness

-----------------------------------------------------------------------------
(***************************************************************************)
(* Properties                                                              *)
(***************************************************************************)

\* The network has never seen a transaction that is not the one in sweep.json,
\* whatever crashed in between: so there is one sweep, never two conflicting
\* ones, and it can be sent again after any restart.
WriteAhead ==
  \A e \in Endpoints : \A tx \in known[e] : record # None /\ record.tx = tx

\* The record of a broadcast is evidence as far as the endpoints are: it names at
\* least one, and each one it names has the transaction, though the reply to the
\* POST was lost, a crash came between or another launch sent it again - unless
\* that endpoint answers a status query for anything.
AcceptanceTrue ==
  Broadcast => /\ record.by # {}
               /\ \A e \in record.by \ Vague : record.tx \in known[e]

\* sweep.py:247: "Treat an independently queryable mempool/chain entry as
\* success": "broadcast" is recorded only for a transaction some node has.  This
\* holds where no endpoint is vague (BroadcastRealUnlessVague), and only there.
BroadcastIsReal == Broadcast => \E e \in Endpoints : record.tx \in known[e]

\* The plaintext key of a found campaign is never dropped before a broadcast is on
\* record: no crash between the steps loses it while the sweep is still to do.
KeyKept == verdict = "found" /\ ~key => Broadcast

\* sweep.json never goes back: another transaction never replaces the recorded
\* one, and a broadcast never becomes pending again.
RecordForward ==
  /\ record # None => record' # None /\ record'.tx = record.tx
  /\ Broadcast => Broadcast'
RecordNeverReplaced == [][RecordForward]_vars

\* A campaign that has found its key ends with a broadcast on record, if in the
\* end the profile stays armed and agrees with the transaction already signed.
\* (What the record is worth is AcceptanceTrue's matter.)
Ready == profile.armed /\ (record = None \/ record.tx.dest = profile.dest)
FundsSwept == <>[]Ready => (verdict = "found" ~> Broadcast)

\* README.md: "an accepted broadcast clears the plaintext key from the campaign
\* database".
BroadcastClearsKey == Broadcast ~> ~key

=============================================================================
