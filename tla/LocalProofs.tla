----------------------------- MODULE LocalProofs ----------------------------
(***************************************************************************)
(* Proofs about the local process: its sweep (LocalSweep), for every       *)
(* number of endpoints, addresses, fee rates, crashes and profile changes, *)
(* and its GPU (ThermalGuard), for every number of retries and of failed   *)
(* samples.                                                                *)
(***************************************************************************)
EXTENDS LocalSweep, ThermalGuard, TLAPS

-----------------------------------------------------------------------------
(***************************************************************************)
(* The sweep                                                               *)
(***************************************************************************)

\* What the process knows at each step of execute_sweep: nothing is on disk
\* until it is saved, from then on the disk and the memory agree, and the steps
\* after the network's answer know who accepted the transaction.
Known ==
  /\ pc \in {"building", "signed"} => record = None
  /\ pc = "signed" => signed \in Txs
  /\ pc \in {"posting", "accepted"} => record = Pending(signed) /\ signed \in Txs
  /\ pc = "accepted" => /\ accepted_by # {}
                        /\ \A e \in accepted_by \ Vague : signed \in known[e]
  /\ pc = "swept" => Broadcast

IInv == TypeOK /\ Known /\ WriteAhead /\ AcceptanceTrue /\ KeyKept

\* A record is pending, or tells who accepted its transaction.
LEMMA RecordKinds ==
  ASSUME NEW r \in Records
  PROVE  \/ \E tx \in Txs : r = Pending(tx)
         \/ r.state = "broadcast" /\ r.by \in SUBSET Endpoints
BY DEF Records

\* The parts of the invariant that only look at the file, the nodes and the
\* step of the process survive a step that leaves the file and the nodes alone
\* and goes to a step that assumes nothing about them.
LEMMA ElsewhereStep ==
  ASSUME IInv, TypeOK', UNCHANGED <<record, known>>,
         pc' \in {"off", "launched", "scanning", "holding", "candidate",
                  "resuming", "sweeping"},
         verdict' = "found" /\ ~key' => verdict = "found" /\ ~key
  PROVE  IInv'
<1>1. Known'
  BY DEF Known
<1>2. WriteAhead' /\ AcceptanceTrue' /\ KeyKept'
  BY DEF IInv, WriteAhead, AcceptanceTrue, KeyKept, Broadcast
<1>3. QED
  BY <1>1, <1>2 DEF IInv

\* The same for the other actors, which leave the process alone.
LEMMA OthersStep ==
  ASSUME IInv, TypeOK', UNCHANGED <<record, known, pc, signed, accepted_by>>,
         verdict' = "found" /\ ~key' => verdict = "found" /\ ~key
  PROVE  IInv'
<1>1. Known'
  BY DEF IInv, Known, Broadcast
<1>2. WriteAhead' /\ AcceptanceTrue' /\ KeyKept'
  BY DEF IInv, WriteAhead, AcceptanceTrue, KeyKept, Broadcast
<1>3. QED
  BY <1>1, <1>2 DEF IInv

\* Broadcasting a recorded transaction keeps the network within the record.
LEMMA PostStep ==
  ASSUME IInv, NEW reached \in SUBSET Endpoints, Post(reached)
  PROVE  /\ known' \in [Endpoints -> SUBSET Txs]
         /\ record = Pending(signed) /\ signed \in Txs
         /\ \A e \in Endpoints : \A tx \in known'[e] : tx = signed
         /\ \A e \in Endpoints : known[e] \subseteq known'[e]
         /\ ~Broadcast
<1>1. record = Pending(signed) /\ signed \in Txs /\ record # None
  BY NoneAssumption DEF IInv, Known, Post, Pending, Records
<1>2. \A e \in Endpoints : known'[e] = IF e \in reached THEN known[e] \cup {signed}
                                                      ELSE known[e]
  BY DEF Post
<1>3. \A e \in Endpoints : \A tx \in known[e] : tx = signed
  BY <1>1 DEF IInv, WriteAhead, Pending
<1>4. known' \in [Endpoints -> SUBSET Txs]
  BY <1>1 DEF Post, IInv, TypeOK
<1>5. ~Broadcast
  BY <1>1 DEF Broadcast, Pending
<1>6. QED
  BY <1>1, <1>2, <1>3, <1>4, <1>5

\* Every step keeps every variable in its type.
LEMMA TypeStep == IInv /\ [Next]_vars => TypeOK'
<1>. SUFFICES ASSUME IInv, [Next]_vars PROVE TypeOK'
  OBVIOUS
<1>. USE DEF campaignVars, memoryVars, boundVars
<1>1. TypeOK
  BY DEF IInv
<1>2. CASE Launch
  BY <1>1, <1>2 DEF Launch, TypeOK
<1>3. CASE Campaign
  BY <1>1, <1>3
  DEF Campaign, CheckStatus, LeaseTarget, BetweenChunks, CompleteFound,
      ReleaseLease, RecordCandidate, Resumption, TypeOK
<1>4. CASE Sweep
  <2>1. CASE Resume
    BY <1>1, <2>1 DEF Resume, TypeOK
  <2>2. CASE LoadRecord
    <3>1. record # None => record.tx \in Txs
      BY <1>1 DEF TypeOK, Records, Pending
    <3>2. QED
      BY <1>1, <2>2, <3>1 DEF LoadRecord, TypeOK
  <2>3. CASE BuildFails
    BY <1>1, <2>3 DEF BuildFails, TypeOK
  <2>4. CASE Build
    <3>1. \A fee \in Fees : [dest |-> config.dest, fee |-> fee] \in Txs
      BY <1>1 DEF TypeOK, Profiles, Txs
    <3>2. QED
      BY <1>1, <2>4, <3>1 DEF Build, TypeOK
  <2>5. CASE SaveSigned
    <3>1. Pending(signed) \in Records
      BY <2>5 DEF IInv, Known, SaveSigned, Pending, Records
    <3>2. QED
      BY <1>1, <2>5, <3>1 DEF SaveSigned, TypeOK
  <2>6. CASE PostAccepted
    <3>1. PICK reached, replies \in SUBSET Endpoints :
            /\ Post(reached) /\ pc' = "accepted" /\ UNCHANGED record
            /\ accepted_by' = Answers(known', replies)
      BY <2>6 DEF PostAccepted
    <3>2. known' \in [Endpoints -> SUBSET Txs]
      BY <3>1, PostStep
    <3>3. accepted_by' \in SUBSET Endpoints
      BY <3>1 DEF Answers
    <3>4. QED
      BY <1>1, <3>1, <3>2, <3>3 DEF Post, TypeOK
  <2>7. CASE PostRefused
    <3>1. PICK reached \in SUBSET Endpoints :
            /\ Post(reached) /\ record' = Pending(signed) /\ pc' = "off"
            /\ UNCHANGED accepted_by
      BY <2>7 DEF PostRefused
    <3>2. known' \in [Endpoints -> SUBSET Txs] /\ record' = record
      BY <3>1, PostStep
    <3>3. QED
      BY <1>1, <3>1, <3>2 DEF Post, TypeOK
  <2>11. CASE PostRaises
    <3>1. PICK reached \in SUBSET Endpoints :
            /\ Post(reached) /\ pc' = "off"
            /\ UNCHANGED <<record, accepted_by>>
      BY <2>11 DEF PostRaises
    <3>2. known' \in [Endpoints -> SUBSET Txs]
      BY <3>1, PostStep
    <3>3. QED
      BY <1>1, <3>1, <3>2 DEF Post, TypeOK
  <2>8. CASE SaveBroadcast
    <3>1. [state |-> "broadcast", tx |-> signed, by |-> accepted_by] \in Records
      BY <1>1, <2>8 DEF IInv, Known, SaveBroadcast, Records, TypeOK
    <3>2. QED
      BY <1>1, <2>8, <3>1 DEF SaveBroadcast, TypeOK
  <2>9. CASE Scrub
    BY <1>1, <2>9 DEF Scrub, TypeOK
  <2>10. QED
    BY <1>4, <2>1, <2>2, <2>3, <2>4, <2>5, <2>6, <2>7, <2>8, <2>9, <2>11 DEF Sweep
<1>5. CASE Others
  <2>1. CASE Crash
    BY <1>1, <2>1, BoundsAssumption DEF Crash, TypeOK
  <2>2. CASE Configure
    <3>1. profile' \in Profiles
      <4>1. profile \in [armed : BOOLEAN, dest : Dests]
        BY <1>1 DEF TypeOK, Profiles
      <4>2. [profile EXCEPT !.armed = FALSE] \in [armed : BOOLEAN, dest : Dests]
        BY <4>1
      <4>3. \A d \in Dests : [armed |-> TRUE, dest |-> d] \in [armed : BOOLEAN, dest : Dests]
        OBVIOUS
      <4>4. QED
        BY <2>2, <4>2, <4>3 DEF Configure, Profiles
    <3>2. edits' \in 0 .. MaxEdits
      BY <1>1, <2>2, BoundsAssumption DEF Configure, TypeOK
    <3>3. QED
      BY <1>1, <2>2, <3>1, <3>2 DEF Configure, TypeOK
  <2>3. CASE LabFind \/ Lapse \/ RemoteLease \/ RemoteFind
    BY <1>1, <2>3 DEF LabFind, Lapse, RemoteLease, RemoteFind, TypeOK
  <2>4. QED
    BY <1>5, <2>1, <2>2, <2>3 DEF Others
<1>6. CASE UNCHANGED vars
  BY <1>1, <1>6 DEF vars, TypeOK
<1>7. QED
  BY <1>2, <1>3, <1>4, <1>5, <1>6 DEF Next

\* Every step keeps the invariant.
LEMMA InvStep == IInv /\ [Next]_vars => IInv'
<1>. SUFFICES ASSUME IInv, [Next]_vars PROVE IInv'
  OBVIOUS
<1>. USE DEF campaignVars, memoryVars, boundVars
<1>0. TypeOK /\ TypeOK'
  BY TypeStep DEF IInv
<1>1. CASE Launch
  BY <1>0, <1>1, ElsewhereStep DEF Launch
<1>2. CASE Campaign
  <2>1. /\ UNCHANGED <<record, known>>
        /\ pc' \in {"off", "scanning", "holding", "candidate", "resuming", "sweeping"}
        /\ verdict' = "found" /\ ~key' => verdict = "found" /\ ~key
    BY <1>2
    DEF Campaign, CheckStatus, LeaseTarget, BetweenChunks, CompleteFound,
        ReleaseLease, RecordCandidate, Resumption
  <2>2. QED
    BY <1>0, <2>1, ElsewhereStep
<1>3. CASE Sweep
  <2>1. CASE Resume \/ BuildFails
    BY <1>0, <2>1, ElsewhereStep DEF Resume, BuildFails
  <2>2. CASE LoadRecord
    <3>1. UNCHANGED <<record, known, verdict, key>> /\ pc = "sweeping"
      BY <2>2 DEF LoadRecord
    <3>2. Known'
      <4>1. CASE record = None
        BY <2>2, <3>1, <4>1 DEF LoadRecord, Known, Broadcast
      <4>2. CASE record # None /\ record.tx.dest # config.dest
        BY <2>2, <4>2 DEF LoadRecord, Known
      <4>3. CASE record # None /\ record.tx.dest = config.dest /\ Broadcast
        BY <2>2, <3>1, <4>3 DEF LoadRecord, Known, Broadcast
      <4>4. CASE record # None /\ record.tx.dest = config.dest /\ ~Broadcast
        <5>1. record \in Records /\ record.state # "broadcast"
          BY <1>0, <4>4 DEF TypeOK, Broadcast
        <5>2. record = Pending(record.tx) /\ record.tx \in Txs
          <6>1. PICK tx \in Txs : record = Pending(tx)
            BY <5>1, RecordKinds
          <6>2. QED
            BY <6>1 DEF Pending
        <5>3. pc' = "posting" /\ signed' = record.tx
          BY <2>2, <4>4 DEF LoadRecord
        <5>4. QED
          BY <3>1, <5>2, <5>3 DEF Known, Pending
      <4>5. QED
        BY <4>1, <4>2, <4>3, <4>4
    <3>3. WriteAhead' /\ AcceptanceTrue' /\ KeyKept'
      BY <3>1 DEF IInv, WriteAhead, AcceptanceTrue, KeyKept, Broadcast
    <3>4. QED
      BY <1>0, <3>2, <3>3 DEF IInv
  <2>3. CASE Build
    <3>1. Known'
      <4>1. \A fee \in Fees : [dest |-> config.dest, fee |-> fee] \in Txs
        BY <1>0 DEF TypeOK, Profiles, Txs
      <4>2. QED
        BY <2>3, <4>1 DEF Build, IInv, Known
    <3>2. WriteAhead' /\ AcceptanceTrue' /\ KeyKept'
      BY <2>3 DEF Build, IInv, WriteAhead, AcceptanceTrue, KeyKept, Broadcast
    <3>3. QED
      BY <1>0, <3>1, <3>2 DEF IInv
  <2>4. CASE SaveSigned
    <3>1. record = None /\ signed \in Txs
      BY <2>4 DEF SaveSigned, IInv, Known
    <3>2. record' = Pending(signed) /\ signed' = signed /\ pc' = "posting"
          /\ UNCHANGED <<known, verdict, key>>
      BY <2>4 DEF SaveSigned
    <3>3. \A e \in Endpoints : known[e] = {}
      BY <1>0, <3>1 DEF IInv, WriteAhead, TypeOK
    <3>4. Known' /\ WriteAhead' /\ AcceptanceTrue'
      BY <3>1, <3>2, <3>3
      DEF Known, WriteAhead, AcceptanceTrue, Broadcast, Pending
    <3>5. KeyKept'
      BY <3>1, <3>2 DEF IInv, KeyKept, Broadcast
    <3>6. QED
      BY <1>0, <3>4, <3>5 DEF IInv
  <2>5. CASE PostAccepted
    <3>1. PICK reached, replies \in SUBSET Endpoints :
            /\ Post(reached) /\ Answers(known', replies) # {}
            /\ accepted_by' = Answers(known', replies)
            /\ pc' = "accepted" /\ UNCHANGED record
      BY <2>5 DEF PostAccepted
    <3>2. /\ record = Pending(signed) /\ signed \in Txs /\ ~Broadcast
          /\ \A e \in Endpoints : \A tx \in known'[e] : tx = signed
      BY <3>1, PostStep
    <3>3. signed' = signed /\ UNCHANGED <<verdict, key>>
      BY <3>1 DEF Post
    <3>4. /\ accepted_by' # {}
          /\ \A e \in accepted_by' \ Vague : signed \in known'[e]
      BY <3>1 DEF Answers
    <3>5. Known'
      BY <3>1, <3>2, <3>3, <3>4 DEF Known, Pending
    <3>6. record # None
      BY <3>2, NoneAssumption DEF Pending, Records
    <3>7. WriteAhead' /\ AcceptanceTrue' /\ KeyKept'
      BY <3>1, <3>2, <3>3, <3>6
      DEF IInv, WriteAhead, AcceptanceTrue, KeyKept, Broadcast, Pending
    <3>8. QED
      BY <1>0, <3>5, <3>7 DEF IInv
  <2>6. CASE PostRefused \/ PostRaises
    <3>1. PICK reached \in SUBSET Endpoints :
            /\ Post(reached) /\ pc' = "off"
            /\ record' = Pending(signed) \/ record' = record
      BY <2>6 DEF PostRefused, PostRaises
    <3>2. /\ record = Pending(signed) /\ signed \in Txs /\ ~Broadcast
          /\ \A e \in Endpoints : \A tx \in known'[e] : tx = signed
      BY <3>1, PostStep
    <3>3. UNCHANGED <<verdict, key, record>>
      BY <3>1, <3>2 DEF Post
    <3>4. record # None
      BY <3>2, NoneAssumption DEF Pending, Records
    <3>5. Known' /\ WriteAhead' /\ AcceptanceTrue' /\ KeyKept'
      BY <3>1, <3>2, <3>3, <3>4
      DEF Known, IInv, WriteAhead, AcceptanceTrue, KeyKept, Broadcast, Pending
    <3>6. QED
      BY <1>0, <3>5 DEF IInv
  <2>7. CASE SaveBroadcast
    <3>1. /\ record = Pending(signed) /\ signed \in Txs /\ accepted_by # {}
          /\ accepted_by \in SUBSET Endpoints
          /\ \A e \in accepted_by \ Vague : signed \in known[e]
      BY <1>0, <2>7 DEF SaveBroadcast, IInv, Known, TypeOK
    <3>2. /\ record' = [state |-> "broadcast", tx |-> signed, by |-> accepted_by]
          /\ pc' = "swept" /\ UNCHANGED <<known, verdict, key>>
      BY <2>7 DEF SaveBroadcast
    <3>3. record' # None /\ record # None
      BY <3>1, <3>2, NoneAssumption DEF Records, Pending
    <3>4. Known' /\ AcceptanceTrue' /\ KeyKept'
      BY <3>1, <3>2, <3>3 DEF Known, AcceptanceTrue, KeyKept, Broadcast
    <3>5. WriteAhead'
      BY <3>1, <3>2, <3>3 DEF IInv, WriteAhead, Pending
    <3>6. QED
      BY <1>0, <3>4, <3>5 DEF IInv
  <2>8. CASE Scrub
    <3>1. Broadcast /\ UNCHANGED <<record, known>> /\ pc' = "off"
      BY <2>8 DEF Scrub, IInv, Known
    <3>2. Known' /\ WriteAhead' /\ AcceptanceTrue' /\ KeyKept'
      BY <3>1 DEF Known, IInv, WriteAhead, AcceptanceTrue, KeyKept, Broadcast
    <3>3. QED
      BY <1>0, <3>2 DEF IInv
  <2>9. QED
    BY <1>3, <2>1, <2>2, <2>3, <2>4, <2>5, <2>6, <2>7, <2>8 DEF Sweep
<1>4. CASE Others
  <2>1. CASE Crash
    BY <1>0, <2>1, ElsewhereStep DEF Crash
  <2>2. CASE Configure \/ LabFind \/ Lapse \/ RemoteLease \/ RemoteFind
    BY <1>0, <2>2, OthersStep DEF Configure, LabFind, Lapse, RemoteLease, RemoteFind
  <2>3. QED
    BY <1>4, <2>1, <2>2 DEF Others
<1>5. CASE UNCHANGED vars
  BY <1>0, <1>5, OthersStep DEF vars
<1>6. QED
  BY <1>1, <1>2, <1>3, <1>4, <1>5 DEF Next

\* The invariant holds in every reachable state.
THEOREM SweepInvariant == Spec => []IInv
<1>1. Init => IInv
  <2>. SUFFICES ASSUME Init PROVE IInv
    OBVIOUS
  <2>1. TypeOK
    <3>1. crashes \in 0 .. MaxCrashes /\ edits \in 0 .. MaxEdits
      BY BoundsAssumption DEF Init
    <3>2. known \in [Endpoints -> SUBSET Txs]
      BY DEF Init
    <3>3. row \in {"available", "local", "remote", "found"}
          /\ verdict \in {"running", "found"} /\ key \in BOOLEAN /\ lab_key \in BOOLEAN
      BY DEF Init
    <3>4. QED
      BY <3>1, <3>2, <3>3 DEF Init, TypeOK
  <2>2. Known /\ WriteAhead /\ AcceptanceTrue /\ KeyKept
    BY DEF Init, Known, WriteAhead, AcceptanceTrue, KeyKept, Broadcast
  <2>3. QED
    BY <2>1, <2>2 DEF IInv
<1>2. QED
  BY <1>1, InvStep, PTL DEF Spec

\* The network never sees a transaction that sweep.json does not hold.
THEOREM WriteAheadCorrect == Spec => []WriteAhead
<1>1. IInv => WriteAhead
  BY DEF IInv
<1>2. QED
  BY <1>1, SweepInvariant, PTL

\* Each endpoint that a broadcast record names has the transaction, unless it is
\* one that answers a status query for anything.
THEOREM AcceptanceTrueCorrect == Spec => []AcceptanceTrue
<1>1. IInv => AcceptanceTrue
  BY DEF IInv
<1>2. QED
  BY <1>1, SweepInvariant, PTL

\* Where every endpoint answers for its node, a broadcast on record is a
\* transaction some node has.
THEOREM BroadcastRealUnlessVague == Spec => [](Vague = {} => BroadcastIsReal)
<1>1. ASSUME IInv, Vague = {}, Broadcast
      PROVE  \E e \in Endpoints : record.tx \in known[e]
  <2>1. record \in Records /\ record.state = "broadcast" /\ record.by # {}
    BY <1>1 DEF IInv, TypeOK, AcceptanceTrue, Broadcast
  <2>2. PICK e \in record.by : e \in Endpoints
    <3>1. record.by \in SUBSET Endpoints
      BY <2>1, RecordKinds DEF Pending
    <3>2. QED
      BY <2>1, <3>1
  <2>3. record.tx \in known[e]
    BY <1>1, <2>2 DEF IInv, AcceptanceTrue
  <2>4. QED
    BY <2>2, <2>3
<1>2. IInv => (Vague = {} => BroadcastIsReal)
  BY <1>1 DEF BroadcastIsReal
<1>3. QED
  BY <1>2, SweepInvariant, PTL

\* The key is never dropped before a broadcast is on record.
THEOREM KeyKeptCorrect == Spec => []KeyKept
<1>1. IInv => KeyKept
  BY DEF IInv
<1>2. QED
  BY <1>1, SweepInvariant, PTL

\* sweep.json is never rewritten with another transaction, nor taken back.
THEOREM RecordNeverReplacedCorrect == Spec => RecordNeverReplaced
<1>1. ASSUME IInv, [Next]_vars PROVE RecordForward
  <2>1. CASE record' = record
    BY <2>1 DEF RecordForward, Broadcast
  <2>2. CASE SaveSigned
    BY <1>1, <2>2 DEF SaveSigned, IInv, Known, RecordForward, Broadcast
  <2>3. CASE SaveBroadcast
    <3>1. record = Pending(signed) /\ signed \in Txs
      BY <1>1, <2>3 DEF SaveBroadcast, IInv, Known
    <3>2. /\ record' = [state |-> "broadcast", tx |-> signed, by |-> accepted_by]
          /\ record' # None
      BY <1>1, <2>3, <3>1, NoneAssumption DEF SaveBroadcast, Records, IInv, TypeOK
    <3>3. QED
      BY <3>1, <3>2 DEF RecordForward, Broadcast, Pending
  <2>4. CASE PostRefused
    <3>1. PICK reached \in SUBSET Endpoints :
            Post(reached) /\ record' = Pending(signed)
      BY <2>4 DEF PostRefused
    <3>2. record' = record
      BY <1>1, <3>1, PostStep
    <3>3. QED
      BY <2>1, <3>2
  <2>5. QED
    BY <1>1, <2>1, <2>2, <2>3, <2>4
    DEF Next, Launch, Campaign, CheckStatus, LeaseTarget, BetweenChunks,
        CompleteFound, ReleaseLease, RecordCandidate, Sweep, Resume, LoadRecord,
        BuildFails, Build, PostAccepted, PostRaises, Scrub, Others, Crash, Configure,
        LabFind, Lapse, RemoteLease, RemoteFind, vars
<1>2. IInv /\ [Next]_vars => [RecordForward]_vars
  BY <1>1
<1>3. QED
  BY <1>2, SweepInvariant, PTL DEF Spec, RecordNeverReplaced

-----------------------------------------------------------------------------
(***************************************************************************)
(* The thermal guard.  CooldownRespected speaks of a running engine only;  *)
(* the invariant says where a cooldown that is owed is remembered while no *)
(* engine runs: in the trip itself until the monitor is joined, then in    *)
(* the flag of the call, and between two chunks in the flag of the guard.  *)
(***************************************************************************)

OwedIsKnown ==
  owed =>
    /\ guard \in {"scanning", "joining", "joined"} => tripped
    /\ guard = "waiting" => cooling
    /\ guard = "idle" => required

LEMMA FlagsStep == FlagsOK /\ StatesOK /\ [GuardNext]_guardVars => FlagsOK'
<1> SUFFICES ASSUME FlagsOK, StatesOK, [GuardNext]_guardVars PROVE FlagsOK'
  OBVIOUS
<1> USE DEF FlagsOK, callVars, monitorVars, chunkVars
<1>1. CASE Heat
  BY <1>1 DEF Heat
<1>2. CASE Cool
  BY <1>2 DEF Cool
<1>3. CASE Call
  BY <1>3 DEF Call
<1>4. CASE Restart
  BY <1>4 DEF Restart
<1>5. CASE WaitFails
  BY <1>5 DEF WaitFails, Return
<1>6. CASE Wait
  BY <1>6 DEF Wait
<1>7. CASE StartEngine
  BY <1>7 DEF StartEngine, CoolEnough
<1>8. CASE EngineMatches \/ EngineEnds
  BY <1>8 DEF EngineMatches, EngineEnds
<1>9. CASE EngineAborted \/ EngineTimedOut
  BY <1>9 DEF EngineAborted, EngineTimedOut, Terminated
<1>10. CASE Interrupted
  BY <1>10 DEF Interrupted
<1>11. CASE Joined
  BY <1>11 DEF Joined, Return
<1>12. CASE Sample
  BY <1>12 DEF Sample, AfterSample, Trip, Monitoring
<1>13. CASE SampleFails
  BY <1>13 DEF SampleFails, AfterSample, Trip, Monitoring
<1>14. CASE UNCHANGED guardVars
  BY <1>14 DEF guardVars
<1>15. QED
  BY <1>1, <1>2, <1>3, <1>4, <1>5, <1>6, <1>7, <1>8, <1>9, <1>10, <1>11, <1>12, <1>13, <1>14 DEF GuardNext

LEMMA StatesStep == StatesOK /\ [GuardNext]_guardVars => StatesOK'
<1> SUFFICES ASSUME StatesOK, [GuardNext]_guardVars PROVE StatesOK'
  OBVIOUS
<1> USE DEF StatesOK, Results, callVars, monitorVars, chunkVars
<1>1. CASE Heat
  BY <1>1 DEF Heat
<1>2. CASE Cool
  BY <1>2 DEF Cool
<1>3. CASE Call
  BY <1>3 DEF Call
<1>4. CASE Restart
  BY <1>4 DEF Restart
<1>5. CASE WaitFails
  BY <1>5 DEF WaitFails, Return
<1>6. CASE Wait
  BY <1>6 DEF Wait
<1>7. CASE StartEngine
  BY <1>7 DEF StartEngine, CoolEnough
<1>8. CASE EngineMatches \/ EngineEnds
  BY <1>8 DEF EngineMatches, EngineEnds
<1>9. CASE EngineAborted \/ EngineTimedOut
  BY <1>9 DEF EngineAborted, EngineTimedOut, Terminated
<1>10. CASE Interrupted
  BY <1>10 DEF Interrupted
<1>11. CASE Joined
  BY <1>11 DEF Joined, Return
<1>12. CASE Sample
  BY <1>12 DEF Sample, AfterSample, Trip, Monitoring
<1>13. CASE SampleFails
  BY <1>13 DEF SampleFails, AfterSample, Trip, Monitoring
<1>14. CASE UNCHANGED guardVars
  BY <1>14 DEF guardVars
<1>15. QED
  BY <1>1, <1>2, <1>3, <1>4, <1>5, <1>6, <1>7, <1>8, <1>9, <1>10, <1>11, <1>12, <1>13, <1>14 DEF GuardNext

LEMMA CountsStep == FlagsOK /\ StatesOK /\ CountsOK /\ [GuardNext]_guardVars => CountsOK'
<1> SUFFICES ASSUME FlagsOK, StatesOK, CountsOK, [GuardNext]_guardVars PROVE CountsOK'
  OBVIOUS
<1> USE PolicyAssumption DEF StatesOK, Results, CountsOK, FlagsOK, callVars, monitorVars, chunkVars
<1>1. CASE Heat
  BY <1>1 DEF Heat
<1>2. CASE Cool
  BY <1>2 DEF Cool
<1>3. CASE Call
  BY <1>3 DEF Call
<1>4. CASE Restart
  BY <1>4 DEF Restart
<1>5. CASE WaitFails
  BY <1>5 DEF WaitFails, Return
<1>6. CASE Wait
  BY <1>6 DEF Wait
<1>7. CASE StartEngine
  BY <1>7 DEF StartEngine, CoolEnough
<1>8. CASE EngineMatches \/ EngineEnds
  BY <1>8 DEF EngineMatches, EngineEnds
<1>9. CASE EngineAborted \/ EngineTimedOut
  BY <1>9 DEF EngineAborted, EngineTimedOut, Terminated
<1>10. CASE Interrupted
  BY <1>10 DEF Interrupted
<1>11. CASE Joined
  BY <1>11 DEF Joined, Return
<1>12. CASE Sample
  BY <1>12 DEF Sample, AfterSample, Trip, Monitoring
<1>13. CASE SampleFails
  BY <1>13 DEF SampleFails, AfterSample, Trip, Monitoring
<1>14. CASE UNCHANGED guardVars
  BY <1>14 DEF guardVars
<1>15. QED
  BY <1>1, <1>2, <1>3, <1>4, <1>5, <1>6, <1>7, <1>8, <1>9, <1>10, <1>11, <1>12, <1>13, <1>14 DEF GuardNext

LEMMA ChunkStep == StatesOK /\ ChunkOK /\ [GuardNext]_guardVars => ChunkOK'
<1> SUFFICES ASSUME StatesOK, ChunkOK, [GuardNext]_guardVars PROVE ChunkOK'
  OBVIOUS
<1> USE DEF StatesOK, Results, ChunkOK, chunkVars
<1>1. CASE Heat \/ Cool \/ Restart \/ Wait
  BY <1>1 DEF Heat, Cool, Restart, Wait
<1>2. CASE Call
  BY <1>2 DEF Call
<1>3. CASE WaitFails
  BY <1>3 DEF WaitFails, Return
<1>4. CASE StartEngine
  BY <1>4 DEF StartEngine
<1>5. CASE EngineMatches \/ EngineEnds
  BY <1>5 DEF EngineMatches, EngineEnds
<1>6. CASE EngineAborted \/ EngineTimedOut \/ Interrupted
  BY <1>6 DEF EngineAborted, EngineTimedOut, Terminated, Interrupted
<1>7. CASE Joined
  BY <1>7 DEF Joined, Return
<1>8. CASE Sample \/ SampleFails
  BY <1>8 DEF Sample, SampleFails
<1>9. CASE UNCHANGED guardVars
  BY <1>9 DEF guardVars
<1>10. QED
  BY <1>1, <1>2, <1>3, <1>4, <1>5, <1>6, <1>7, <1>8, <1>9 DEF GuardNext

\* The variables of the guard keep to their ranges, the engine runs exactly
\* while the guard scans, and a trip always sets the abort event.
THEOREM GuardTypeCorrect == GuardSpec => []GuardTypeOK
<1>1. GuardInit => GuardTypeOK
  <2>1. GuardInit => FlagsOK
    BY Zenon DEF GuardInit, FlagsOK
  <2>2. GuardInit => StatesOK
    BY DEF GuardInit, StatesOK
  <2>3. GuardInit => CountsOK
    BY PolicyAssumption DEF GuardInit, CountsOK
  <2>4. GuardInit => ChunkOK
    BY Zenon DEF GuardInit, ChunkOK
  <2>5. QED
    BY <2>1, <2>2, <2>3, <2>4 DEF GuardTypeOK
<1>2. GuardTypeOK /\ [GuardNext]_guardVars => GuardTypeOK'
  BY FlagsStep, StatesStep, CountsStep, ChunkStep DEF GuardTypeOK
<1>3. QED
  BY <1>1, <1>2, PTL DEF GuardSpec

LEMMA OwedStep == GuardTypeOK /\ OwedIsKnown /\ [GuardNext]_guardVars => OwedIsKnown'
<1> SUFFICES ASSUME GuardTypeOK, OwedIsKnown, [GuardNext]_guardVars PROVE OwedIsKnown'
  OBVIOUS
<1> USE DEF GuardTypeOK, FlagsOK, StatesOK, OwedIsKnown, callVars, monitorVars, chunkVars
<1>1. CASE Heat \/ Cool
  BY <1>1 DEF Heat, Cool
<1>2. CASE Call \/ Restart
  BY <1>2 DEF Call, Restart
<1>3. CASE WaitFails \/ Wait
  BY <1>3 DEF WaitFails, Wait, Return
<1>4. CASE StartEngine
  BY <1>4 DEF StartEngine, CoolEnough
<1>5. CASE EngineMatches \/ EngineEnds \/ EngineAborted \/ EngineTimedOut \/ Interrupted
  BY <1>5 DEF EngineMatches, EngineEnds, EngineAborted, EngineTimedOut, Terminated,
              Interrupted
<1>6. CASE Joined
  BY <1>6 DEF Joined, Return
<1>7. CASE Sample \/ SampleFails
  BY <1>7 DEF Sample, SampleFails, AfterSample, Trip, Monitoring
<1>8. CASE UNCHANGED guardVars
  BY <1>8 DEF guardVars
<1>9. QED
  BY <1>1, <1>2, <1>3, <1>4, <1>5, <1>6, <1>7, <1>8 DEF GuardNext

\* After a trip no engine starts in the same process before the GPU was seen
\* at the resume limit.
THEOREM CooldownTheorem == GuardSpec => []CooldownRespected
<1>1. GuardInit => OwedIsKnown
  BY DEF GuardInit, OwedIsKnown
<1>2. GuardTypeOK /\ OwedIsKnown => CooldownRespected
  BY DEF GuardTypeOK, StatesOK, OwedIsKnown, CooldownRespected
<1>3. QED
  BY <1>1, <1>2, OwedStep, GuardTypeCorrect, PTL DEF GuardSpec

\* How the process has ended says what it had written, unless it was cut off.
EndIsTrue ==
  /\ engine = "running" => ~cut
  /\ guard \in {"waiting", "scanning", "joining", "joined"} => result = "none"
  /\ guard \in {"joining", "joined"} =>
       /\ match /\ ~cut => engine = "found"
       /\ engine = "complete" => ~holds /\ ~cut

LEMMA EndStep == GuardTypeOK /\ EndIsTrue /\ [GuardNext]_guardVars => EndIsTrue'
<1> SUFFICES ASSUME GuardTypeOK, EndIsTrue, [GuardNext]_guardVars PROVE EndIsTrue'
  OBVIOUS
<1> USE DEF GuardTypeOK, StatesOK, Results, EndIsTrue, callVars, monitorVars, chunkVars
<1>1. CASE Heat \/ Cool \/ Call \/ Restart
  BY <1>1 DEF Heat, Cool, Call, Restart
<1>2. CASE WaitFails \/ Wait
  BY <1>2 DEF WaitFails, Wait, Return
<1>3. CASE StartEngine
  BY <1>3 DEF StartEngine, CoolEnough
<1>4. CASE EngineMatches \/ EngineAborted \/ EngineTimedOut \/ Interrupted
  BY <1>4 DEF EngineMatches, EngineAborted, EngineTimedOut, Terminated, Interrupted
<1>5. CASE EngineEnds
  BY <1>5 DEF EngineEnds
<1>6. CASE Joined
  BY <1>6 DEF Joined, Return
<1>7. CASE Sample \/ SampleFails
  BY <1>7 DEF Sample, SampleFails, AfterSample, Trip, Monitoring
<1>8. CASE UNCHANGED guardVars
  BY <1>8 DEF guardVars
<1>9. QED
  BY <1>1, <1>2, <1>3, <1>4, <1>5, <1>6, <1>7, <1>8 DEF GuardNext

\* scan() returns a match that the process has reported by itself, and never
\* takes the chunk of the key for searched, whatever was aborted, timed out or
\* tripped in between.
THEOREM VerdictTrueCorrect == GuardSpec => VerdictTrue
<1>1. GuardInit => EndIsTrue
  BY DEF GuardInit, EndIsTrue
<1>2. GuardTypeOK /\ EndIsTrue /\ [GuardNext]_guardVars =>
        [Collected => /\ match /\ ~cut => result' = "found"
                      /\ result' = "complete" => ~holds /\ ~cut]_guardVars
  <2> SUFFICES ASSUME GuardTypeOK, EndIsTrue, GuardNext, Collected
               PROVE  /\ match /\ ~cut => result' = "found"
                      /\ result' = "complete" => ~holds /\ ~cut
    OBVIOUS
  <2> USE DEF GuardTypeOK, StatesOK, Results, EndIsTrue, Collected, callVars, monitorVars,
              chunkVars
  <2>1. CASE Joined
    BY <2>1 DEF Joined, Return
  <2>2. CASE Sample \/ SampleFails
    BY <2>2 DEF Sample, SampleFails, AfterSample
  <2>3. CASE ~(Joined \/ Sample \/ SampleFails)
    BY <2>3 DEF GuardNext, Heat, Cool, Call, Restart, WaitFails, Wait, StartEngine, EngineMatches,
                EngineEnds, EngineAborted, EngineTimedOut, Interrupted
  <2>4. QED
    BY <2>1, <2>2, <2>3
<1>3. QED
  BY <1>1, <1>2, EndStep, GuardTypeCorrect, PTL DEF GuardSpec, VerdictTrue

=============================================================================
