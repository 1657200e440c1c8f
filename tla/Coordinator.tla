---------------------------- MODULE Coordinator ----------------------------
(***************************************************************************)
(* The lease coordinator of src/puzzleforge/coordinator.py.                *)
(*                                                                         *)
(* One SQLite database holds a campaign row, one work row per allocated    *)
(* chunk and the Hypothesis Lab row.  Every public method runs in one      *)
(* BEGIN IMMEDIATE transaction, so every method is one atomic action here. *)
(* A call that raises LeaseRejected, or rolls back, leaves the database as *)
(* it was and is not an action; the calls that reject AND commit (a        *)
(* heartbeat or a completion that finds its lease expired) are.            *)
(*                                                                         *)
(* Callers are unconstrained: any worker may present any token it likes at *)
(* any moment, with any result.  Late, duplicated, reordered and lost      *)
(* requests are therefore all included.                                    *)
(*                                                                         *)
(* Every method reads time.time() BEFORE it waits for the write lock (up   *)
(* to busy_timeout), so the clock value it uses may lag behind the moment  *)
(* it commits; Lag bounds that wait.                                       *)
(*                                                                         *)
(* Abstracted: timings, error texts, attempts, strategy lanes and ranks.   *)
(* The planners' own state is in Planners.tla; here a MOSAIC or Hypothesis *)
(* allocation is any chunk that is not in the work table.                  *)
(***************************************************************************)
EXTENDS Integers, FiniteSets

CONSTANTS
  Total,      \* total_chunks of the campaign
  Size,       \* Size[c]: number of keys in chunk c
  Seeds,      \* the seeds a campaign may be given
  Order,      \* Order[s][n]: n-th chunk of the affine order of seed s
  Workers,    \* worker names
  Tokens,     \* lease tokens secrets.token_urlsafe may yield (bounds leases)
  Keys,       \* keys a caller may report
  Home,       \* Home[k]: the chunk holding key k, or Total if outside
  Target,     \* the one key that derives the campaign address
  Null,       \* SQL NULL
  LeaseTerms, \* values of lease_seconds
  MaxTime,    \* bound on the clock
  Lag         \* longest wait between time.time() and the commit

Chunks == 0 .. Total - 1

ASSUME TotalAssumption == Total \in Nat \ {0}
ASSUME SizeAssumption == Size \in [Chunks -> Nat \ {0}]
ASSUME OrderAssumption ==
  /\ Order \in [Seeds -> [Chunks -> Chunks]]
  /\ \A s \in Seeds : \A m, n \in Chunks : Order[s][m] = Order[s][n] => m = n
ASSUME KeyAssumption ==
  /\ Target \in Keys
  /\ Home \in [Keys -> Nat]
  /\ Home[Target] \in Chunks
ASSUME NullAssumption == Null \notin Workers \cup Tokens \cup Keys
ASSUME TimeAssumption ==
  /\ LeaseTerms \subseteq Nat \ {0}
  /\ MaxTime \in Nat
  /\ Lag \in Nat

VARIABLES
  now,                 \* wall clock
  work,                \* the work table, by chunk_id (UNIQUE in the schema)
  state,               \* campaign.state
  planner_mode,        \* campaign.planner_mode
  hypothesis_enabled,  \* hypothesis_lab.enabled
  seed,                \* campaign.seed
  next_sequence,       \* campaign.next_sequence
  completed_chunks,    \* campaign.completed_chunks
  checked_keys,        \* campaign.checked_keys
  found_key,           \* campaign.found_key_hex
  reclaimed_leases,    \* campaign.reclaimed_leases
  total_failures,      \* campaign.total_failures
  issued,              \* tokens handed out so far (history)
  accepted,            \* completions accepted so far (history)
  last_failure         \* the latest failure report accepted (history)

modeVars == <<planner_mode, hypothesis_enabled, seed>>
creditVars == <<completed_chunks, checked_keys, accepted>>
countVars == <<reclaimed_leases, total_failures, last_failure, issued>>
vars == <<now, work, state, modeVars, next_sequence, creditVars, found_key,
          countVars>>

-----------------------------------------------------------------------------
(***************************************************************************)
(* Rows                                                                    *)
(***************************************************************************)

Row == [state   : {"absent", "available", "leased", "completed"},
        seq     : Nat,
        worker  : Workers \cup {Null},
        token   : Tokens \cup {Null},
        expires : Nat,                          \* 0 stands for NULL
        kind    : {"none", "nomatch", "found"}, \* result_kind
        checked : Nat,                          \* result_checked
        key     : Keys \cup {Null}]             \* found_key_hex

NoRow == [state |-> "absent", seq |-> 0, worker |-> Null, token |-> Null,
          expires |-> 0, kind |-> "none", checked |-> 0, key |-> Null]

Report == [token : Tokens, worker : Workers]

Completion == [token : Tokens, worker : Workers, checked : Nat,
               key : Keys \cup {Null}]

Allocated == {c \in Chunks : work[c].state # "absent"}
Leased    == {c \in Chunks : work[c].state = "leased"}
Held      == {c \in Chunks : work[c].state \in {"leased", "completed"}}
NoMatched == {c \in Chunks : work[c].kind = "nomatch"}

Released(row) == [row EXCEPT !.state = "available", !.worker = Null,
                             !.token = Null, !.expires = 0]

Granted(row, w, t, deadline) ==
  [row EXCEPT !.state = "leased", !.worker = w, !.token = t,
              !.expires = deadline]

\* The clock values a call committing now may have read.
Readings == {t \in 0 .. now : now - t <= Lag}

\* _reclaim_expired: the rows it returns to the queue, and the table after it.
ExpiredAt(at) == {c \in Leased : work[c].expires <= at}

Swept(at) == [c \in Chunks |-> IF c \in ExpiredAt(at)
                               THEN Released(work[c]) ELSE work[c]]

\* Mutant: only one expired row is reclaimed, and counted, at a time.
Reclaim_Once(at) ==
  reclaimed_leases' = reclaimed_leases + (IF ExpiredAt(at) = {} THEN 0 ELSE 1)

Reclaim(at) ==
  reclaimed_leases' = reclaimed_leases + Cardinality(ExpiredAt(at))

\* The rows SELECT ... state = 'available' sees after the sweep.
Retryable(at) == {c \in Chunks : work[c].state = "available"} \cup ExpiredAt(at)

\* Mutant: the cursor alone decides that the campaign is exhausted.
MarkedState_IgnoreRows(tbl) ==
  IF state = "running" /\ next_sequence >= Total THEN "exhausted" ELSE state

\* Mutant: a campaign that was won is declared exhausted all the same.
MarkedState_AnyState(tbl) ==
  IF /\ next_sequence >= Total
     /\ \A c \in Chunks : tbl[c].state \in {"absent", "completed"}
  THEN "exhausted" ELSE state

\* _mark_exhausted_if_done over the table tbl: the campaign state it leaves.
MarkedState(tbl) ==
  IF /\ state = "running"
     /\ next_sequence >= Total
     /\ \A c \in Chunks : tbl[c].state \in {"absent", "completed"}
  THEN "exhausted" ELSE state

-----------------------------------------------------------------------------
(***************************************************************************)
(* initialize: the mosaic and cold presets are both stored as 'mosaic',    *)
(* hypothesis as 'affine' with the lab enabled.                            *)
(***************************************************************************)
Init ==
  /\ now = 0
  /\ work = [c \in Chunks |-> NoRow]
  /\ state = "running"
  /\ \/ planner_mode = "affine" /\ hypothesis_enabled \in {0, 1}
     \/ planner_mode = "mosaic" /\ hypothesis_enabled = 0
  /\ seed \in Seeds
  /\ next_sequence = 0
  /\ completed_chunks = 0
  /\ checked_keys = 0
  /\ found_key = Null
  /\ reclaimed_leases = 0
  /\ total_failures = 0
  /\ issued = {}
  /\ accepted = {}
  /\ last_failure = Null

Tick ==
  /\ now < MaxTime
  /\ now' = now + 1
  /\ UNCHANGED <<work, state, modeVars, next_sequence, creditVars, found_key,
                 countVars>>

-----------------------------------------------------------------------------
(***************************************************************************)
(* lease                                                                   *)
(***************************************************************************)

\* Mutant: the tokens are not fresh.
FreshToken_Reused == CHOOSE t \in Tokens : TRUE

\* secrets.token_urlsafe: some token never issued before.
FreshToken == CHOOSE t \in Tokens : t \notin issued

\* Reclaims, then hands out the oldest row of the retry queue.
LeaseRetry(w, at, term) ==
  /\ state = "running"
  /\ issued # Tokens
  /\ \E c \in Retryable(at) :
       /\ \A d \in Retryable(at) : work[c].seq <= work[d].seq
       /\ work' = [Swept(at) EXCEPT ![c] = Granted(@, w, FreshToken, at + term)]
  /\ Reclaim(at)
  /\ issued' = issued \cup {FreshToken}
  /\ UNCHANGED <<now, state, modeVars, next_sequence, creditVars, found_key,
                 total_failures, last_failure>>

\* _allocate_chunk: Hypothesis Lab first, then the planner mode.  The affine
\* order is not filtered against the table, the two planners are.
Proposed ==
  IF hypothesis_enabled = 0 /\ planner_mode = "affine"
  THEN {Order[seed][next_sequence]}
  ELSE Chunks \ Allocated

\* The row INSERT and the UPDATE after it leave behind.
NewRow(w, deadline) ==
  Granted([NoRow EXCEPT !.seq = next_sequence], w, FreshToken, deadline)

\* Nothing to retry: allocates the next chunk.  A chunk_id already in the
\* table violates UNIQUE, and the transaction rolls back.
LeaseFresh(w, at, term) ==
  /\ state = "running"
  /\ issued # Tokens
  /\ Retryable(at) = {}
  /\ next_sequence < Total
  /\ \E c \in Proposed :
       /\ c \notin Allocated
       /\ work' = [work EXCEPT ![c] = NewRow(w, at + term)]
  /\ next_sequence' = next_sequence + 1
  /\ issued' = issued \cup {FreshToken}
  /\ UNCHANGED <<now, state, modeVars, creditVars, found_key,
                 reclaimed_leases, total_failures, last_failure>>

\* Returns None and commits the sweep: the campaign is over, or every chunk is
\* allocated and none is waiting, in which case it may be exhausted.
LeaseNone(at) ==
  /\ \/ state # "running"
     \/ Retryable(at) = {} /\ next_sequence >= Total
  /\ work' = Swept(at)
  /\ state' = MarkedState(Swept(at))
  /\ Reclaim(at)
  /\ UNCHANGED <<now, modeVars, next_sequence, creditVars, found_key,
                 total_failures, last_failure, issued>>

(***************************************************************************)
(* heartbeat and complete find the row by its token and check the worker   *)
(***************************************************************************)

Owns(c, t, w) == work[c].token = t /\ work[c].worker = w

\* Both calls, on an expired lease: release the row, commit, then reject.
RejectExpired(c, at) ==
  /\ c \in ExpiredAt(at)
  /\ work' = [work EXCEPT ![c] = Released(@)]
  /\ reclaimed_leases' = reclaimed_leases + 1
  /\ UNCHANGED <<now, state, modeVars, next_sequence, creditVars, found_key,
                 total_failures, last_failure, issued>>

Extend(c, at, term) ==
  /\ c \in Leased \ ExpiredAt(at)
  /\ work' = [work EXCEPT ![c].expires = at + term]
  /\ UNCHANGED <<now, state, modeVars, next_sequence, creditVars, found_key,
                 countVars>>

Heartbeat(t, w, at, term) ==
  \E c \in Leased :
    /\ Owns(c, t, w)
    /\ RejectExpired(c, at) \/ Extend(c, at, term)

-----------------------------------------------------------------------------
(***************************************************************************)
(* complete                                                                *)
(***************************************************************************)

Kind(key) == IF key = Null THEN "nomatch" ELSE "found"

\* Mutant: the reported key is not compared with the target.
Plausible_AnyKey(c, checked, key) ==
  IF key = Null THEN checked = Size[c] ELSE checked <= Size[c] /\ Home[key] = c

\* The checks a result of a live lease must pass.
Plausible(c, checked, key) ==
  IF key = Null
  THEN checked = Size[c]
  ELSE /\ checked <= Size[c]
       /\ Home[key] = c
       /\ key = Target        \* p2pkh_address_from_private_key

\* The branch a replay of a completion takes on a row already completed.
SameResult(c, checked, key) ==
  /\ work[c].state = "completed"
  /\ work[c].checked = checked
  /\ work[c].kind = Kind(key)
  /\ work[c].key = key

\* Mutant: a completed row forgets whose result it was.
Finished_Anonymous(row, checked, key) ==
  [Released(row) EXCEPT !.state = "completed", !.checked = checked,
                        !.kind = Kind(key), !.key = key]

Finished(row, checked, key) ==
  [row EXCEPT !.state = "completed", !.expires = 0, !.checked = checked,
              !.kind = Kind(key), !.key = key]

\* Only a full no-match counts as a completed chunk.
CompletedIncrement(key) == IF key = Null THEN 1 ELSE 0

\* A found result ends the campaign; a no-match may exhaust it.
Credit(c, t, w, checked, key) ==
  LET done == [work EXCEPT ![c] = Finished(@, checked, key)]
  IN /\ work' = done
     /\ checked_keys' = checked_keys + checked
     /\ completed_chunks' = completed_chunks + CompletedIncrement(key)
     /\ IF key = Null
        THEN state' = MarkedState(done) /\ found_key' = found_key
        ELSE state' = "found" /\ found_key' = key
     /\ accepted' = accepted \cup {[token |-> t, worker |-> w,
                                    checked |-> checked, key |-> key]}
     /\ UNCHANGED <<now, modeVars, next_sequence, countVars>>

\* Mutant: a completion goes by the token and not by the state of the row.
Complete_NoStateCheck(t, w, checked, key, at) ==
  \E c \in Held : /\ Owns(c, t, w)
                  /\ Plausible(c, checked, key)
                  /\ Credit(c, t, w, checked, key)

Complete(t, w, checked, key, at) ==
  \E c \in Leased :
    /\ Owns(c, t, w)
    /\ \/ RejectExpired(c, at)
       \/ /\ c \notin ExpiredAt(at)
          /\ Plausible(c, checked, key)
          /\ Credit(c, t, w, checked, key)

\* Mutant: a failure report does not look at the state of the row.
Fail_AnyState(t, w) ==
  \E c \in Held :
    /\ Owns(c, t, w)
    /\ work' = [work EXCEPT ![c] = Released(@)]
    /\ total_failures' = total_failures + 1
    /\ last_failure' = [token |-> t, worker |-> w]
    /\ UNCHANGED <<now, state, modeVars, next_sequence, creditVars, found_key,
                   reclaimed_leases, issued>>

\* Mutant: a late report releases whatever its worker holds by now.
Fail_ByWorker(t, w) ==
  \E c \in Leased :
    /\ work[c].worker = w
    /\ work' = [work EXCEPT ![c] = Released(@)]
    /\ total_failures' = total_failures + 1
    /\ last_failure' = [token |-> t, worker |-> w]
    /\ UNCHANGED <<now, state, modeVars, next_sequence, creditVars, found_key,
                   reclaimed_leases, issued>>

\* fail: the only call on a lease that does not look at its expiry.
Fail(t, w) ==
  \E c \in Leased :
    /\ Owns(c, t, w)
    /\ work' = [work EXCEPT ![c] = Released(@)]
    /\ total_failures' = total_failures + 1
    /\ last_failure' = [token |-> t, worker |-> w]
    /\ UNCHANGED <<now, state, modeVars, next_sequence, creditVars, found_key,
                   reclaimed_leases, issued>>

-----------------------------------------------------------------------------
(***************************************************************************)
(* The other methods                                                       *)
(***************************************************************************)

\* record_verified_candidate: a key found outside any lease, no coverage.
RecordVerifiedCandidate(key) ==
  /\ state # "found"
  /\ Home[key] \in Chunks
  /\ key = Target
  /\ state' = "found"
  /\ found_key' = key
  /\ UNCHANGED <<now, work, modeVars, next_sequence, creditVars, countVars>>

\* scrub_found_key
ScrubFoundKey(key) ==
  /\ state = "found"
  /\ found_key = key
  /\ work' = [c \in Chunks |->
                IF work[c].kind = "found" /\ work[c].key = key
                THEN [work[c] EXCEPT !.key = Null] ELSE work[c]]
  /\ found_key' = Null
  /\ UNCHANGED <<now, state, modeVars, next_sequence, creditVars, countVars>>

\* status also reclaims and marks exhaustion.
Status(at) ==
  /\ work' = Swept(at)
  /\ state' = MarkedState(Swept(at))
  /\ Reclaim(at)
  /\ UNCHANGED <<now, modeVars, next_sequence, creditVars, found_key,
                 total_failures, last_failure, issued>>

\* enable_cold counts rows in state 'leased', expired or not.
EnableCold ==
  /\ state = "running"
  /\ Leased = {}
  /\ planner_mode' = "mosaic"
  /\ hypothesis_enabled' = 0
  /\ UNCHANGED <<now, work, state, seed, next_sequence, creditVars, found_key,
                 countVars>>

EnableHypothesis ==
  /\ hypothesis_enabled' = 1
  /\ UNCHANGED <<now, work, state, planner_mode, seed, next_sequence,
                 creditVars, found_key, countVars>>

\* Mutant: reseed accepts a plain affine campaign.
Reseed_AnyMode(s) ==
  /\ state = "running"
  /\ Leased = {}
  /\ seed' = s
  /\ UNCHANGED <<now, work, state, planner_mode, hypothesis_enabled,
                 next_sequence, creditVars, found_key, countVars>>

\* reseed refuses a plain affine campaign, whose order is not de-duplicated.
Reseed(s) ==
  /\ state = "running"
  /\ Leased = {}
  /\ hypothesis_enabled = 1 \/ planner_mode # "affine"
  /\ seed' = s
  /\ UNCHANGED <<now, work, state, planner_mode, hypothesis_enabled,
                 next_sequence, creditVars, found_key, countVars>>

-----------------------------------------------------------------------------
\* Counts a caller may report: a chunk has at most Size keys, one more is the
\* boundary the checks must refuse.
Counts == UNION {0 .. Size[c] + 1 : c \in Chunks}

LeaseCall ==
  \E at \in Readings :
    \/ \E w \in Workers, term \in LeaseTerms :
         LeaseRetry(w, at, term) \/ LeaseFresh(w, at, term)
    \/ LeaseNone(at)

TokenCall ==
  \E t \in Tokens, w \in Workers :
    \/ \E at \in Readings, term \in LeaseTerms : Heartbeat(t, w, at, term)
    \/ \E at \in Readings, checked \in Counts, key \in Keys \cup {Null} :
         Complete(t, w, checked, key, at)
    \/ Fail(t, w)

KeyCall == \E key \in Keys : RecordVerifiedCandidate(key) \/ ScrubFoundKey(key)

OperatorCall ==
  \/ \E at \in Readings : Status(at)
  \/ EnableCold
  \/ EnableHypothesis
  \/ \E s \in Seeds : Reseed(s)

Next == Tick \/ LeaseCall \/ TokenCall \/ KeyCall \/ OperatorCall

Spec == Init /\ [][Next]_vars

-----------------------------------------------------------------------------
(***************************************************************************)
(* Properties                                                              *)
(***************************************************************************)

\* Every column holds a value its type allows.
TypeOK ==
  /\ now \in Nat
  /\ work \in [Chunks -> Row]
  /\ state \in {"running", "found", "exhausted"}
  /\ planner_mode \in {"affine", "mosaic"}
  /\ hypothesis_enabled \in {0, 1}
  /\ seed \in Seeds
  /\ next_sequence \in Nat
  /\ completed_chunks \in Nat
  /\ checked_keys \in Nat
  /\ found_key \in Keys \cup {Null}
  /\ reclaimed_leases \in Nat
  /\ total_failures \in Nat
  /\ issued \in SUBSET Tokens
  /\ accepted \in SUBSET Completion
  /\ last_failure \in Report \cup {Null}

\* The cursor, the sequence column and the number of rows agree whatever mode
\* changes and reclaims happened: no allocation is skipped or numbered twice.
SequencesDense ==
  /\ next_sequence = Cardinality(Allocated)
  /\ {work[c].seq : c \in Allocated} = 0 .. next_sequence - 1

\* lease() never runs into the UNIQUE constraint on chunk_id: as long as the
\* cursor is short of the total there is a chunk to insert, although the affine
\* order ignores the table.  It holds only because a campaign leaves affine
\* order for good and its seed is frozen until then.
AllocationNeverCollides ==
  next_sequence < Total => \E c \in Proposed : c \notin Allocated

\* An exhausted campaign has every key of every chunk credited as no-match: no
\* lost lease, found row or unallocated chunk hides behind the verdict.
ExhaustedMeansCovered ==
  state = "exhausted" =>
    \A c \in Chunks : /\ work[c].state = "completed"
                      /\ work[c].kind = "nomatch"
                      /\ work[c].checked = Size[c]

\* completed_chunks counts the full no-match rows and nothing else, however
\* often results are replayed, late or contradictory.
CompletedChunksExact == completed_chunks = Cardinality(NoMatched)

\* checked_keys, kept as decimal text in the database, is the sum of what the
\* rows report: a replay, a late result or a scrub never changes it.
Checked(tbl) ==
  LET sum[n \in 0 .. Total] == IF n = 0 THEN 0 ELSE sum[n - 1] + tbl[n - 1].checked
  IN sum[Total]
CheckedKeysExact == checked_keys = Checked(work)

\* Every lease ever granted is accounted for exactly once: still held (or
\* completed), reclaimed, or reported failed.
LeaseBalance ==
  Cardinality(issued) = Cardinality(Held) + reclaimed_leases + total_failures

\* A key is believed only when it derives the campaign address: it is recorded
\* only in a found campaign, and a found row only at the chunk that holds it.
FoundIsVerified ==
  /\ found_key \in {Null, Target}
  /\ found_key # Null => state = "found"
  /\ \A c \in Chunks : work[c].kind = "found" =>
       /\ state = "found"
       /\ c = Home[Target]

\* A worker whose completion was accepted but whose response was lost can send
\* it again and be told so, as long as the found key has not been scrubbed.
ReplayAccepted ==
  \A r \in accepted : \E c \in Held :
    /\ Owns(c, r.token, r.worker)
    /\ \/ SameResult(c, r.checked, r.key)
       \/ work[c].kind = "found" /\ work[c].key = Null

\* docs/DISTRIBUTED.md, invariant 7: "Repeated completion requests with the
\* same token and result are idempotent."
RepeatedCompletionIdempotent ==
  \A r \in accepted : \E c \in Held :
    Owns(c, r.token, r.worker) /\ SameResult(c, r.checked, r.key)

\* A completed row is never reopened, re-leased or given another result; only
\* its key may be scrubbed, together with the campaign's.
CompletedKept ==
  \A c \in Chunks : work[c].state = "completed" =>
    \/ work'[c] = work[c]
    \/ work'[c] = [work[c] EXCEPT !.key = Null] /\ found_key' = Null
CompletedIsFinal == [][CompletedKept]_vars

\* A worker keeps its lease until the deadline it was last told, unless this very
\* step accepts its own failure report, under the token of that lease: no report
\* under an older token, nobody else's call and no mode change takes it earlier.
GivenBack(c) ==
  /\ total_failures' = total_failures + 1
  /\ last_failure' = [token |-> work[c].token, worker |-> work[c].worker]
LeaseKept ==
  \A c \in Leased : work'[c].token # work[c].token =>
    now >= work[c].expires \/ GivenBack(c)
LeaseHonoured == [][LeaseKept]_vars

\* docs/DISTRIBUTED.md: a late result after expiry is rejected.  The clock is
\* read before the lock, so "late" is exact only up to Lag.
CompletedInTime ==
  \A c \in Leased : work'[c].state = "completed" => now < work[c].expires + Lag
LateResultRejected == [][CompletedInTime]_vars

\* The verdict is never taken back (found stays found, exhausted may only
\* become found), and a campaign that has one hands out no more leases.
VerdictKept ==
  /\ state = "found" => state' = "found"
  /\ state = "exhausted" => state' # "running"
  /\ issued' # issued => state = "running"
VerdictStands == [][VerdictKept]_vars

\* The coordinator implements the coverage contract: whatever it does to rows,
\* counters and modes is one of the contract's steps, or none.
Ledger == INSTANCE CoverageLedger WITH
            None    <- Null,
            holder  <- [c \in Chunks |-> IF work[c].state = "leased"
                                         THEN work[c].token ELSE Null],
            covered <- NoMatched,
            used    <- issued,
            verdict <- state
ImplementsLedger == Ledger!LedgerSpec

=============================================================================
